----------------------------- MODULE MCNodePool -----------------------------
(* Three ids of two links: a0 is what an older parser called a. *)
EXTENDS NodePool

MCRaw == [i \in Ids |-> IF i = "b" THEN "B" ELSE "A"]
MCServedBy == [i \in Ids |-> IF i = "b" THEN "s2" ELSE "s1"]
MCMaxTurns == [windows |-> 3, linux |-> 2]
===============================================================================
