\* Superblocks of up to 8 by 8 cells: the searches of MCSearches.
SPECIFICATION Spec
CONSTANTS
  Searches <- MCSearches
INVARIANTS
  WinnerSawWinners
  SearchLeavesWinner
