----------------------------- MODULE MCLinuxConsole -----------------------------
(* Three profiles, so that the hub's, one a prepare left behind and one of the *)
(* user's can meet under the hub's name; a password for each.                  *)
EXTENDS LinuxConsole, TLC

Symmetry == Permutations(Profiles) \cup Permutations(Devices) \cup Permutations(Keys)
===============================================================================
