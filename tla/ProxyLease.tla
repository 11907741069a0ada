----------------------------- MODULE ProxyLease -----------------------------
(***************************************************************************)
(* What the selective router promises about the user's Internet settings,  *)
(* with no word on how it keeps the promise.  The two values it writes     *)
(* (AutoConfigURL, ProxyEnable) are taken under a lease that remembers the *)
(* settings to put back.  The program writes them only while it holds the  *)
(* lease, the remembered settings are never its own, and the lease is      *)
(* given up with the program's URL still registered only after a write to  *)
(* the registry was refused by the system.                                 *)
(***************************************************************************)
CONSTANTS Settings,   \* every value the two registry entries can hold together
          Own,        \* the settings whose AutoConfigURL is FreeNet Hub's
          NoLease     \* not one of Settings

VARIABLES registry,   \* what Windows has now
          lease,      \* the settings to put back, or NoLease
          faulty      \* a write-back was refused since the lease was taken

leaseVars == <<registry, lease, faulty>>

Foreign == Settings \ Own

LeaseInit ==
    /\ registry \in Foreign
    /\ lease = NoLease
    /\ faulty = FALSE

\* Somebody else (the user, another VPN) writes the settings.  Nobody but the
\* program registers the program's URL; an edit may leave that entry alone.
Elsewhere ==
    /\ registry' \in Settings
    /\ registry \in Foreign => registry' \in Foreign
    /\ UNCHANGED <<lease, faulty>>

\* The lease starts with the settings that will be put back.
Acquire ==
    /\ lease = NoLease
    /\ registry \in Own => faulty
    /\ lease' \in Foreign
    /\ UNCHANGED <<registry, faulty>>

\* The program writes the registry, always under the lease.
Write ==
    /\ lease # NoLease
    /\ registry' \in Settings
    /\ UNCHANGED <<lease, faulty>>

\* The system refuses to put a value back.
Fault ==
    /\ lease # NoLease
    /\ faulty' = TRUE
    /\ UNCHANGED <<registry, lease>>

\* The program forgets an old fault once the registry is somebody else's.
Settle ==
    /\ lease = NoLease
    /\ registry \in Foreign
    /\ faulty' = FALSE
    /\ UNCHANGED <<registry, lease>>

Release ==
    /\ lease # NoLease
    /\ registry \in Own => faulty
    /\ lease' = NoLease
    /\ UNCHANGED <<registry, faulty>>

LeaseNext ==
    Elsewhere \/ Acquire \/ Write \/ Fault \/ Settle \/ Release

LeaseSpec == LeaseInit /\ [][LeaseNext]_leaseVars
=============================================================================
