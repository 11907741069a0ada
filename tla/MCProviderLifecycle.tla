------------------------ MODULE MCProviderLifecycle ------------------------
(***************************************************************************)
(* Two process ids and four births: an orphan, its rival, a stranger and a *)
(* reused process id, in any order.                                        *)
(***************************************************************************)
EXTENDS ProviderLifecycle, TLC

Symmetry == Permutations(Pids) \cup Permutations(Nodes)
=============================================================================
