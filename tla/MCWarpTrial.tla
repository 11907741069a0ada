----------------------------- MODULE MCWarpTrial -----------------------------
(***************************************************************************)
(* Two guards: an old trial and a newer one overlap.  No symmetry, because *)
(* liveness is checked.                                                    *)
(***************************************************************************)
EXTENDS WarpTrial
=============================================================================
