-------------------------- MODULE MCDecoderSession --------------------------
(* Two slots and two references.  Headers: a shown KEY, a hidden KEY, and inter
   frames that are shown or hidden, with and without a primary reference,
   straight or crossed references, one adapted or inherited table. *)
EXTENDS DecoderSession

Key(show, refresh) ==
  [type |-> "key", show |-> show, showable |-> ~show, errorResilient |-> FALSE,
   refresh |-> refresh, refs |-> <<0, 0>>, primary |-> 0, saveCtx |-> TRUE]

Inter(show, refresh, refs, primary, saveCtx) ==
  [type |-> "inter", show |-> show, showable |-> TRUE, errorResilient |-> FALSE,
   refresh |-> refresh, refs |-> refs, primary |-> primary, saveCtx |-> saveCtx]

MCHeaders ==
  {Key(TRUE, {0}), Key(FALSE, {1})}
  \cup {Inter(show, {1}, refs, 1, FALSE) :
          show \in BOOLEAN, refs \in {<<0, 1>>, <<1, 0>>}}
  \cup {Inter(show, {s}, <<0, 1>>, 0, FALSE) : show \in BOOLEAN, s \in {0, 1}}
  \cup {Inter(TRUE, {}, <<0, 0>>, 0, TRUE), Inter(FALSE, {0}, <<1, 1>>, 2, TRUE),
        [Inter(TRUE, {1}, <<0, 1>>, 1, FALSE) EXCEPT !.errorResilient = TRUE]}

(* A smaller set for streams whose OBUs come in any order. *)
MCAnyOrderHeaders ==
  {Key(TRUE, {0}), Key(FALSE, {1})}
  \cup {Inter(TRUE, {1}, refs, p, FALSE) : refs \in {<<0, 1>>, <<1, 0>>}, p \in {0, 1}}
  \cup {Inter(FALSE, {0}, <<1, 1>>, 2, TRUE)}

=============================================================================
