---------------------------- MODULE MCSymbolCoder ----------------------------
(***************************************************************************)
(* Half-size registers: 8-bit ranges, 4-bit bytes, 20-bit windows.         *)
(***************************************************************************)
EXTENDS SymbolCoder

Context(icdf) == [icdf |-> [i \in 0 .. Len(icdf) - 1 |-> icdf[i + 1]], n |-> Len(icdf), count |-> 0]

(* A skewed pair, three even symbols, and three of which two are impossible. *)
MCContexts == {Context(<<124, 0>>), Context(<<85, 42, 0>>), Context(<<0, 0, 0>>)}
=============================================================================
