------------------------------ MODULE MCLinuxHub ------------------------------
(* LinuxHub with two of warp-plus's three modes. *)
EXTENDS LinuxHub

MCWarpOrder == <<"WARP", "CFON">>
===============================================================================
