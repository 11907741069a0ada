-------------------------- MODULE MCSelectiveRoute --------------------------
(***************************************************************************)
(* Two PAC texts, two ways to carry them, one foreign URL beside "none":   *)
(* enough for a re-enable that changes the URL, one that does not, and a   *)
(* foreign edit of either value.                                           *)
(***************************************************************************)
EXTENDS SelectiveRoute, TLC

Symmetry == Permutations(Sources) \cup Permutations(ForeignUrls)
            \cup Permutations(Vias) \cup Permutations(Tokens)
=============================================================================
