--------------------------- MODULE MCLinuxSelective ---------------------------
(* LinuxSelective with interchangeable texts, URLs and methods. *)
EXTENDS LinuxSelective, TLC

Symmetry ==
    Permutations(Sources) \cup Permutations(ForeignUrls) \cup Permutations(Vias)
===============================================================================
