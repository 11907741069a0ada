------------------------ MODULE SelectiveRouteProofs ------------------------
(***************************************************************************)
(* For every set of PAC texts, foreign URLs, methods and tokens: the type  *)
(* invariant of SelectiveRoute, that a restore point is never FreeNet      *)
(* Hub's own URL, that its URL is registered only under a lease, and that  *)
(* SelectiveRoute implements ProxyLease.                                   *)
(* From a stronger invariant: that a restore is exact, that the bridge     *)
(* serves one request's domains through its own provider, that a first     *)
(* enable can be undone from every step, and that what somebody else       *)
(* registered is never overwritten.                                        *)
(***************************************************************************)
EXTENDS SelectiveRoute, TLAPS

Foreign == Settings \ Own

BeforePending == {"writePac", "writePending"}
UnderPending == {"startService", "awaitService", "writeUrl", "writeFlag", "verify",
                 "commit", "undoUrl", "undoFlag"}
Undoing == {"undoPac", "undoServer", "undoPolicy"}
Unwritten == {"writePac", "writePending", "startService", "awaitService", "writeUrl",
              "undoFlag"} \cup Undoing
Written == {"writeFlag", "verify", "commit", "undoUrl", "undoFlag"}
Enabling == EnableSteps \cup RollbackSteps

\* The locals of a running enable(): where its restore point came from.
EnableLocals ==
    job.pc \in Enabling =>
        /\ job.cfg \in Configs
        /\ job.snap \in Settings
        /\ job.restore \in Foreign
        /\ ~job.prev.inFlight
        /\ job.prev.enabled => job.prev.previous = job.restore /\ job.prev.url \in Sources
        /\ ~job.prev.enabled => job.restore = job.snap
        /\ job.pc \in Written => job.changed
        /\ job.pc \in EnableSteps \ Written => ~job.changed

\* What POLICY on disk holds at each step of a job.
PolicyOnDisk ==
    /\ job.pc \in BeforePending => policy = job.prev
    /\ job.pc \in UnderPending => policy = Pending(job)
    /\ job.pc \in Undoing => policy \in {job.prev, Pending(job)}
    /\ job.pc \in DisableSteps \ {"stopServer"} => policy = job.prev /\ Leased(job.prev)

\* Where a job relies on the program's URL not being registered.
Unregistered ==
    /\ job.pc \in Unwritten /\ ~job.prev.enabled /\ ~lost => registry \notin Own
    /\ job.pc \in {"dropServer", "dropPolicy", "release"} => registry \notin Own

LeasedUrl == Leased(policy) => policy.url \in Sources

IInv ==
    /\ TypeOK
    /\ RestorePointForeign
    /\ LeasedUrl
    /\ EnableLocals
    /\ PolicyOnDisk
    /\ Unregistered
    /\ UrlNeedsLease

LEMMA PlainJob ==
  ASSUME NEW p \in Policies, NEW x \in {"idle"} \cup DisableSteps
  PROVE  Plain(x, p) \in Jobs /\ Plain(x, p).pc = x /\ Plain(x, p).prev = p
  BY DEF Plain, Jobs

LEMMA IdleTypes == NoPolicy \in Policies /\ Idle \in Jobs /\ Idle.pc = "idle"
<1>1. NoPolicy \in Policies
  BY DEF NoPolicy, Policies
<1>2. QED
  BY <1>1, PlainJob DEF Idle

LEMMA GotoType ==
  ASSUME NEW j \in Jobs,
         NEW x \in {"idle"} \cup EnableSteps \cup RollbackSteps \cup DisableSteps
  PROVE  [j EXCEPT !.pc = x] \in Jobs
  BY DEF Jobs

LEMMA ReleasedType ==
  ASSUME NEW p \in Policies
  PROVE  Released(p) \in Policies /\ ~Leased(Released(p))
  BY DEF Released, Policies, Leased

LEMMA PendingFields ==
  ASSUME NEW j \in Jobs, j.cfg \in Configs
  PROVE  /\ Pending(j) \in Policies
         /\ Leased(Pending(j))
         /\ Pending(j).inFlight
         /\ Pending(j).previous = j.restore
         /\ Pending(j).url = j.cfg.source
  BY DEF Pending, Jobs, Policies, Configs, Leased

\* What a started enable() changes, with its choice of token left open.
LEMMA StartEnableEffect ==
  ASSUME NEW c \in Configs, StartEnable(c)
  PROVE  /\ UNCHANGED <<registry, pac, policy, server>>
         /\ \/ UNCHANGED <<baseline, touched, lost>>
            \/ baseline' = registry /\ touched' = "no" /\ lost' = FALSE
  BY DEF StartEnable

LEMMA InitInv == Init => IInv
<1> SUFFICES ASSUME Init PROVE IInv
  OBVIOUS
<1> USE SelectiveAssumption
    DEF Init, Settings, Own, Foreign, NoPolicy, Leased, Enabling, EnableSteps,
        RollbackSteps, DisableSteps, BeforePending, UnderPending, Undoing, Unwritten
<1>1. TypeOK
  BY IdleTypes DEF TypeOK
<1>2. RestorePointForeign /\ LeasedUrl /\ UrlNeedsLease
  BY DEF RestorePointForeign, LeasedUrl, UrlNeedsLease
<1>3. EnableLocals /\ PolicyOnDisk /\ Unregistered
  BY IdleTypes DEF EnableLocals, PolicyOnDisk, Unregistered
<1>4. QED
  BY <1>1, <1>2, <1>3 DEF IInv

LEMMA InductiveStep == IInv /\ [Next]_vars => IInv'
<1> SUFFICES ASSUME IInv, [Next]_vars PROVE IInv'
  OBVIOUS
<1> USE SelectiveAssumption, IdleTypes
    DEF IInv, TypeOK, RestorePointForeign, LeasedUrl, EnableLocals, PolicyOnDisk,
        Unregistered, UrlNeedsLease, Foreign, BeforePending, UnderPending, Undoing,
        Unwritten, Written, Enabling, EnableSteps, RollbackSteps, DisableSteps, Leased,
        Settings, Own, Policies, Jobs, Configs, Goto
<1>1. CASE \E c \in Configs : StartEnable(c)
  <2> PICK c \in Configs : StartEnable(c)
    BY <1>1
  <2>1. job.pc = "idle" /\ MayEnable(c) /\ UNCHANGED <<registry, pac, policy, server>>
    BY DEF StartEnable
  <2>2. PICK t \in Tokens \cup {NoToken} :
          job' = [pc |-> "writePac", cfg |-> c, prev |-> policy, snap |-> registry,
                  restore |-> IF policy.enabled THEN policy.previous ELSE registry,
                  token |-> t, oldPac |-> pac, changed |-> FALSE]
    BY DEF StartEnable
  <2>3. job' \in Jobs
    BY <2>2
  <2>4. baseline' \in Settings /\ touched' \in {"no", "drift", "window"} /\ lost' \in BOOLEAN
    <3>1. CASE UNCHANGED <<baseline, touched, lost>>
      BY <3>1
    <3>2. CASE baseline' = registry /\ touched' = "no" /\ lost' = FALSE
      BY <3>2
    <3>3. QED
      BY <3>1, <3>2, StartEnableEffect, Zenon
  <2>5. TypeOK'
    BY <2>1, <2>3, <2>4
  <2>6. /\ job'.pc = "writePac" /\ job'.prev = policy /\ job'.snap = registry
        /\ ~job'.changed /\ job'.cfg = c
        /\ job'.restore = IF policy.enabled THEN policy.previous ELSE registry
    BY <2>2
  <2>7. EnableLocals' /\ PolicyOnDisk' /\ Unregistered'
    BY <2>1, <2>6 DEF MayEnable
  <2>8. RestorePointForeign' /\ LeasedUrl' /\ UrlNeedsLease'
    BY <2>1 DEF StartEnable, MayEnable
  <2>9. QED
    BY <2>5, <2>7, <2>8
<1>2. CASE WritePac
  BY <1>2 DEF WritePac
<1>3. CASE WritePending
  <2>1. Pending(job) \in Policies /\ job' \in Jobs
    BY <1>3, PendingFields, GotoType DEF WritePending
  <2>2. TypeOK'
    BY <1>3, <2>1 DEF WritePending
  <2>3. policy'.inFlight /\ policy'.previous = job.restore /\ policy'.url = job.cfg.source
    BY <1>3 DEF WritePending, Pending
  <2>4. RestorePointForeign' /\ LeasedUrl' /\ UrlNeedsLease'
    BY <1>3, <2>3 DEF WritePending
  <2>5. EnableLocals' /\ PolicyOnDisk' /\ Unregistered'
    BY <1>3 DEF WritePending, Pending
  <2>6. QED
    BY <2>2, <2>4, <2>5
<1>4. CASE StartService
  BY <1>4 DEF StartService, Pending
<1>5. CASE AwaitService
  BY <1>5 DEF AwaitService, Pending
<1>6. CASE WriteUrl
  <2>1. registry' \in Settings /\ job' \in Jobs
    BY <1>6 DEF WriteUrl
  <2>2. TypeOK'
    BY <1>6, <2>1 DEF WriteUrl
  <2>3. Leased(policy)
    BY <1>6, PendingFields DEF WriteUrl
  <2>4. EnableLocals' /\ PolicyOnDisk' /\ Unregistered'
    BY <1>6 DEF WriteUrl, Pending
  <2>5. QED
    BY <1>6, <2>2, <2>3, <2>4 DEF WriteUrl
<1>7. CASE WriteFlag
  BY <1>7 DEF WriteFlag, Pending
<1>8. CASE Verify
  BY <1>8 DEF Verify, Pending
<1>9. CASE Commit
  BY <1>9 DEF Commit, Committed
<1>10. CASE EnableRaises
  BY <1>10 DEF EnableRaises, Pending
<1>11. CASE UndoUrl
  <2>1. registry' \in Settings /\ job' \in Jobs
    BY <1>11 DEF UndoUrl
  <2>2. TypeOK'
    BY <1>11, <2>1 DEF UndoUrl
  <2>3. Leased(policy)
    BY <1>11, PendingFields DEF UndoUrl
  <2>4. ~job.prev.enabled => registry' \notin Own
    BY <1>11, <2>1 DEF UndoUrl
  <2>5. EnableLocals' /\ PolicyOnDisk' /\ Unregistered'
    BY <1>11, <2>4 DEF UndoUrl, Pending
  <2>6. QED
    BY <1>11, <2>2, <2>3, <2>5 DEF UndoUrl
<1>12. CASE UndoFlag
  BY <1>12 DEF UndoFlag, Pending
<1>13. CASE UndoRefused
  BY <1>13 DEF UndoRefused, Pending
<1>14. CASE UndoPac
  BY <1>14 DEF UndoPac, Pending
<1>15. CASE UndoServer
  BY <1>15 DEF UndoServer, Pending, Stopped
<1>16. CASE UndoPolicy
  BY <1>16 DEF UndoPolicy
<1>17. CASE RollbackRaises
  BY <1>17 DEF RollbackRaises
<1>18. CASE StartDisable
  <2>1. job' \in Jobs /\ job'.prev = policy /\ job'.pc \in {"dropServer", "restoreUrl"}
    BY <1>18, PlainJob DEF StartDisable
  <2>2. TypeOK'
    BY <1>18, <2>1 DEF StartDisable
  <2>3. job'.pc = "dropServer" => registry \notin Own
    BY <1>18, PlainJob DEF StartDisable
  <2>4. EnableLocals' /\ PolicyOnDisk' /\ Unregistered'
    BY <1>18, <2>1, <2>3 DEF StartDisable
  <2>5. QED
    BY <1>18, <2>2, <2>4 DEF StartDisable
<1>19. CASE DropServer
  <2>1. job' \in Jobs /\ job'.pc \in {"idle", "dropPolicy"}
        /\ (job'.pc = "dropPolicy" => job'.prev = job.prev)
    <3>1. CASE job' = Idle
      BY <3>1
    <3>2. CASE job' = [job EXCEPT !.pc = "dropPolicy"]
      BY <3>2
    <3>3. QED
      BY <1>19, <3>1, <3>2 DEF DropServer
  <2>2. server' \in {"down", "starting", "up"}
    BY <1>19 DEF DropServer, Stopped
  <2>3. TypeOK'
    BY <1>19, <2>1, <2>2 DEF DropServer
  <2>4. EnableLocals' /\ PolicyOnDisk' /\ Unregistered'
    BY <1>19, <2>1 DEF DropServer
  <2>5. QED
    BY <1>19, <2>3, <2>4 DEF DropServer
<1>20. CASE DropPolicy
  <2>1. Released(job.prev) \in Policies /\ ~Leased(Released(job.prev))
    BY <1>20, ReleasedType DEF DropPolicy
  <2>2. TypeOK'
    BY <1>20, <2>1 DEF DropPolicy
  <2>3. QED
    BY <1>20, <2>1, <2>2 DEF DropPolicy
<1>21. CASE RestoreUrl
  BY <1>21 DEF RestoreUrl
<1>22. CASE RestoreFlag
  BY <1>22 DEF RestoreFlag
<1>23. CASE VerifyRestore
  BY <1>23 DEF VerifyRestore
<1>24. CASE Release
  <2>1. Released(job.prev) \in Policies /\ ~Leased(Released(job.prev)) /\ job' \in Jobs
    BY <1>24, ReleasedType, GotoType DEF Release
  <2>2. TypeOK'
    BY <1>24, <2>1 DEF Release
  <2>3. QED
    BY <1>24, <2>1, <2>2 DEF Release
<1>25. CASE StopServer
  BY <1>25 DEF StopServer, Stopped
<1>26. CASE DisableRaises
  BY <1>26 DEF DisableRaises
<1>27. CASE Crash
  BY <1>27 DEF Crash
<1>28. CASE ServerUp
  BY <1>28 DEF ServerUp, Pending
<1>29. CASE ServerDown
  BY <1>29 DEF ServerDown, Pending
<1>30. CASE SomebodyWrites
  BY <1>30 DEF SomebodyWrites, Pending
<1>31. CASE UNCHANGED vars
  BY <1>31 DEF vars, Pending
<1>32. QED
  BY <1>1, <1>2, <1>3, <1>4, <1>5, <1>6, <1>7, <1>8, <1>9, <1>10, <1>11, <1>12, <1>13, <1>14, <1>15, <1>16, <1>17, <1>18, <1>19, <1>20, <1>21, <1>22, <1>23, <1>24, <1>25, <1>26, <1>27, <1>28, <1>29, <1>30, <1>31 DEF Next, Enable, Rollback, Disable, Environment

\* Every state of the router, its files, the registry and a running job has the
\* shape TypeOK gives.
THEOREM TypeCorrect == Spec => []TypeOK
<1>1. IInv => TypeOK
  BY DEF IInv
<1>2. QED
  BY InitInv, InductiveStep, <1>1, PTL DEF Spec

\* The restore point in POLICY is never FreeNet Hub's own URL.
THEOREM RestorePointAlwaysForeign == Spec => []RestorePointForeign
<1>1. IInv => RestorePointForeign
  BY DEF IInv
<1>2. QED
  BY InitInv, InductiveStep, <1>1, PTL DEF Spec

\* FreeNet Hub's URL is never registered without a restore point on disk, except
\* after a refused write-back.
THEOREM UrlAlwaysLeased == Spec => []UrlNeedsLease
<1>1. IInv => UrlNeedsLease
  BY DEF IInv
<1>2. QED
  BY InitInv, InductiveStep, <1>1, PTL DEF Spec

-----------------------------------------------------------------------------
(* SelectiveRoute implements ProxyLease *)

LEMMA LeaseInit == Init => Lease!LeaseInit
  BY DEF Init, Lease!LeaseInit, Lease!Foreign, Leased, NoPolicy

\* Only these actions change the registry, the lease or "lost".
LEMMA LeaseStep == IInv /\ [Next]_vars => [Lease!LeaseNext]_(Lease!leaseVars)
<1> SUFFICES ASSUME IInv, [Next]_vars PROVE [Lease!LeaseNext]_(Lease!leaseVars)
  OBVIOUS
<1> DEFINE L == IF Leased(policy) THEN policy.previous ELSE NoSettings
<1> USE DEF Lease!LeaseNext, Lease!leaseVars
<1>a. NoSettings \notin Settings
  BY SelectiveAssumption DEF Settings
<1>b. /\ L = NoSettings <=> ~Leased(policy)
      /\ Leased(policy) => L \in Foreign
  BY <1>a DEF IInv, RestorePointForeign, Foreign
<1>c. ASSUME UNCHANGED <<registry, policy, lost>>
      PROVE  UNCHANGED Lease!leaseVars
  BY <1>c DEF Leased
<1>1. CASE \E c \in Configs : StartEnable(c)
  <2> PICK c \in Configs : StartEnable(c)
    BY <1>1
  <2>1. CASE policy.enabled
    BY <2>1, <1>c DEF StartEnable
  <2>2. CASE ~policy.enabled
    <3>1. Lease!Settle
      BY <2>2, SelectiveAssumption
         DEF StartEnable, MayEnable, Lease!Settle, Lease!Foreign, IInv, TypeOK, Own, Settings, Leased
    <3>2. QED
      BY <3>1
  <2>3. QED
    BY <2>1, <2>2
<1>2. CASE WritePending
  <2>1. UNCHANGED <<registry, lost>> /\ Leased(policy') /\ policy'.previous = job.restore
        /\ job.restore \in Foreign
    BY <1>2, PendingFields
       DEF WritePending, IInv, TypeOK, EnableLocals, Enabling, EnableSteps
  <2>2. CASE policy.enabled
    <3>1. policy.previous = job.restore /\ Leased(policy)
      BY <1>2, <2>2 DEF WritePending, IInv, EnableLocals, PolicyOnDisk, Enabling,
                        EnableSteps, BeforePending, Leased
    <3>2. QED
      BY <2>1, <3>1
  <2>3. CASE ~policy.enabled
    <3>1. ~Leased(policy)
      BY <1>2, <2>3 DEF WritePending, IInv, EnableLocals, PolicyOnDisk, Enabling,
                        EnableSteps, BeforePending, Leased
    <3>2. registry \in Own => lost
      BY <3>1 DEF IInv, UrlNeedsLease
    <3>3. Lease!Acquire
      BY <2>1, <3>1, <3>2 DEF Lease!Acquire, Lease!Foreign, Foreign
    <3>4. QED
      BY <3>3
  <2>4. QED
    BY <2>2, <2>3
<1>3. CASE WriteUrl \/ WriteFlag \/ UndoUrl \/ UndoFlag
  <2>1. Leased(policy) /\ UNCHANGED <<policy, lost>>
    BY <1>3, PendingFields
       DEF WriteUrl, WriteFlag, UndoUrl, UndoFlag, IInv, TypeOK, EnableLocals,
           PolicyOnDisk, Enabling, EnableSteps, RollbackSteps, UnderPending
  <2>2. registry' \in Settings
    BY InductiveStep DEF IInv, TypeOK
  <2>3. Lease!Write
    BY <1>b, <2>1, <2>2 DEF Lease!Write
  <2>4. QED
    BY <2>3
<1>4. CASE Commit
  <2>1. Leased(policy) /\ policy.previous = job.restore /\ UNCHANGED <<registry, lost>>
    BY <1>4, PendingFields
       DEF Commit, IInv, TypeOK, EnableLocals, PolicyOnDisk, Enabling, EnableSteps,
           UnderPending
  <2>2. Leased(policy') /\ policy'.previous = job.restore
    BY <1>4 DEF Commit, Committed, Leased
  <2>3. QED
    BY <2>1, <2>2
<1>5. CASE UndoRefused
  <2>1. Leased(policy) /\ UNCHANGED <<registry, policy>> /\ lost' = TRUE
    BY <1>5, PendingFields
       DEF UndoRefused, IInv, TypeOK, EnableLocals, PolicyOnDisk, Enabling,
           RollbackSteps, UnderPending
  <2>2. Lease!Fault
    BY <1>b, <2>1 DEF Lease!Fault
  <2>3. QED
    BY <2>2
<1>6. CASE UndoPolicy
  <2>1. /\ UNCHANGED <<registry, lost>> /\ policy' = job.prev
        /\ policy = job.prev \/ (Leased(policy) /\ policy.previous = job.restore)
    BY <1>6, PendingFields
       DEF UndoPolicy, IInv, TypeOK, EnableLocals, PolicyOnDisk, Enabling,
           RollbackSteps, Undoing
  <2>2. CASE job.prev.enabled
    <3>1. Leased(policy') /\ policy'.previous = job.restore
      BY <1>6, <2>1, <2>2 DEF UndoPolicy, IInv, EnableLocals, Enabling, RollbackSteps, Leased
    <3>2. QED
      BY <2>1, <3>1
  <2>3. CASE ~job.prev.enabled
    <3>1. ~Leased(policy')
      BY <1>6, <2>1, <2>3 DEF UndoPolicy, IInv, EnableLocals, Enabling, RollbackSteps, Leased
    <3>2. registry \in Own => lost
      BY <1>6, <2>3 DEF UndoPolicy, IInv, Unregistered, Unwritten, Undoing
    <3>3. CASE policy = job.prev
      BY <1>c, <2>1, <3>3
    <3>4. CASE policy # job.prev
      <4>1. Lease!Release
        BY <1>b, <2>1, <3>1, <3>2, <3>4 DEF Lease!Release
      <4>2. QED
        BY <4>1
    <3>5. QED
      BY <3>3, <3>4
  <2>4. QED
    BY <2>2, <2>3
<1>7. CASE RestoreUrl \/ RestoreFlag
  <2>1. Leased(policy) /\ UNCHANGED <<policy, lost>>
    BY <1>7 DEF RestoreUrl, RestoreFlag, IInv, PolicyOnDisk, DisableSteps
  <2>2. registry' \in Settings
    BY InductiveStep DEF IInv, TypeOK
  <2>3. Lease!Write
    BY <1>b, <2>1, <2>2 DEF Lease!Write
  <2>4. QED
    BY <2>3
<1>8. CASE DropPolicy \/ Release
  <2>1. /\ Leased(policy) /\ registry \notin Own /\ ~Leased(policy')
        /\ UNCHANGED <<registry, lost>>
    BY <1>8, ReleasedType
       DEF DropPolicy, Release, IInv, TypeOK, PolicyOnDisk, Unregistered, DisableSteps, Jobs
  <2>2. Lease!Release
    BY <1>b, <2>1 DEF Lease!Release
  <2>3. QED
    BY <2>2
<1>9. CASE SomebodyWrites
  <2>1. registry' \in Settings /\ UNCHANGED <<policy, lost>>
        /\ (registry'.url \in ForeignUrls \/ registry'.url = registry.url)
    BY <1>9 DEF SomebodyWrites
  <2>2. registry \notin Own => registry' \notin Own
    BY <2>1, SelectiveAssumption DEF IInv, TypeOK, Own, Settings
  <2>3. Lease!Elsewhere
    BY <2>1, <2>2 DEF Lease!Elsewhere, Lease!Foreign, Leased
  <2>4. QED
    BY <2>3
<1>10. CASE \/ WritePac \/ StartService \/ AwaitService \/ Verify \/ EnableRaises
            \/ UndoPac \/ UndoServer \/ RollbackRaises
            \/ StartDisable \/ DropServer \/ VerifyRestore \/ StopServer \/ DisableRaises
            \/ Crash \/ ServerUp \/ ServerDown \/ UNCHANGED vars
  <2>1. UNCHANGED <<registry, policy, lost>>
    BY <1>10 DEF WritePac, StartService, AwaitService, Verify, EnableRaises, UndoPac,
                 UndoServer, RollbackRaises, StartDisable, DropServer, VerifyRestore,
                 StopServer, DisableRaises, Crash, ServerUp, ServerDown, vars
  <2>2. QED
    BY <1>c, <2>1
<1>11. QED
  BY <1>1, <1>2, <1>3, <1>4, <1>5, <1>6, <1>7, <1>8, <1>9, <1>10
     DEF Next, Enable, Rollback, Disable, Environment

\* enable() and disable() keep the promise of ProxyLease for every set of
\* texts, URLs, methods and tokens: each step is a step of the lease or none.
THEOREM LeaseImplemented == Spec => LeaseRefined
  BY InitInv, InductiveStep, LeaseInit, LeaseStep, PTL DEF Spec, LeaseRefined, Lease!LeaseSpec

-----------------------------------------------------------------------------
(* What is put back, what is left alone and what the bridge serves *)

\* A policy in force holds the domains of its own URL.
OwnRequest ==
    /\ policy.enabled /\ ~policy.inFlight => policy.domains = policy.url
    /\ job.pc \in Enabling /\ job.prev.enabled => job.prev.domains = job.prev.url

\* The way back leads to the settings the user chose, whoever wrote meanwhile.
WayBack ==
    /\ Leased(policy) => policy.previous = baseline
    /\ job.pc \in Enabling => job.restore = baseline

\* Where the registry is while nobody else writes and no write-back is refused.
Undisturbed ==
    touched = "no" /\ ~lost =>
        /\ job.pc = "idle" /\ ~Leased(policy) => registry = baseline
        /\ job.pc \in (Unwritten \ {"undoFlag"}) => registry = job.snap
        /\ job.pc = "undoFlag" => registry.url = job.snap.url
        /\ job.pc \in {"dropServer", "dropPolicy", "release", "stopServer"} =>
               registry = baseline
        /\ policy.inFlight /\ ~policy.enabled /\ baseline.enable = "zero" =>
               registry \in {policy.previous, Active(policy.url)}

\* No job that writes the registry runs over a drift.
DriftStands ==
    touched = "drift" =>
        /\ job.pc \in {"idle", "dropServer", "dropPolicy"}
        /\ Leased(policy) => registry # Active(policy.url)

KInv == IInv /\ OwnRequest /\ WayBack /\ Undisturbed /\ DriftStands

LEMMA KInit == Init => KInv
<1> SUFFICES ASSUME Init PROVE KInv
  OBVIOUS
<1>1. IInv
  BY InitInv
<1>2. /\ policy = NoPolicy /\ ~Leased(policy) /\ ~policy.enabled /\ ~policy.inFlight
      /\ job.pc = "idle" /\ registry = baseline /\ touched = "no"
  BY IdleTypes DEF Init, NoPolicy, Leased
<1>3. "idle" \notin Enabling /\ "idle" \notin Unwritten
  BY DEF Enabling, EnableSteps, RollbackSteps, Unwritten, Undoing
<1>4. OwnRequest /\ WayBack /\ Undisturbed /\ DriftStands
  BY <1>2, <1>3 DEF OwnRequest, WayBack, Undisturbed, DriftStands
<1>5. QED
  BY <1>1, <1>4 DEF KInv

\* The steps at which the policy file does not change.
LEMMA PolicyKept ==
  ASSUME IInv,
         \/ WritePac \/ StartService \/ AwaitService \/ WriteUrl \/ WriteFlag \/ Verify
         \/ EnableRaises \/ (Rollback /\ ~UndoPolicy) \/ StartDisable \/ DropServer
         \/ RestoreUrl \/ RestoreFlag \/ VerifyRestore \/ StopServer \/ DisableRaises
         \/ Environment \/ UNCHANGED vars
  PROVE  /\ UNCHANGED policy
         /\ job'.pc \in Enabling => /\ job.pc \in Enabling
                                    /\ job'.prev = job.prev /\ job'.restore = job.restore
                                    /\ job'.snap = job.snap /\ job'.cfg = job.cfg
<1> USE IdleTypes
    DEF IInv, TypeOK, Enabling, EnableSteps, RollbackSteps, DisableSteps, Jobs, Goto
<1>1. CASE WritePac \/ StartService \/ AwaitService \/ WriteUrl \/ WriteFlag \/ Verify
           \/ EnableRaises
  BY <1>1 DEF WritePac, StartService, AwaitService, WriteUrl, WriteFlag, Verify, EnableRaises
<1>2. CASE Rollback /\ ~UndoPolicy
  BY <1>2 DEF Rollback, UndoUrl, UndoFlag, UndoRefused, UndoPac, UndoServer, RollbackRaises
<1>3. CASE StartDisable
  BY <1>3, PlainJob DEF StartDisable
<1>4. CASE DropServer \/ RestoreUrl \/ RestoreFlag \/ VerifyRestore \/ StopServer
           \/ DisableRaises
  BY <1>4 DEF DropServer, RestoreUrl, RestoreFlag, VerifyRestore, StopServer, DisableRaises
<1>5. CASE Environment \/ UNCHANGED vars
  BY <1>5 DEF Environment, Crash, ServerUp, ServerDown, SomebodyWrites, vars
<1>6. QED
  BY <1>1, <1>2, <1>3, <1>4, <1>5

\* What enable() notes when it starts.
LEMMA EnableNotes ==
  ASSUME IInv, NEW c \in Configs, StartEnable(c)
  PROVE  /\ job.pc = "idle" /\ job'.pc = "writePac" /\ job'.prev = policy
         /\ job'.snap = registry /\ UNCHANGED <<registry, policy>>
         /\ job'.restore = IF policy.enabled THEN policy.previous ELSE registry
         /\ ~policy.inFlight /\ (policy.enabled => registry = Active(policy.url))
         /\ policy.enabled => UNCHANGED <<baseline, touched, lost>>
         /\ ~policy.enabled => baseline' = registry /\ touched' = "no" /\ lost' = FALSE
<1>1. PICK t : job' = [pc |-> "writePac", cfg |-> c, prev |-> policy, snap |-> registry,
                  restore |-> IF policy.enabled THEN policy.previous ELSE registry,
                  token |-> t, oldPac |-> pac, changed |-> FALSE]
  BY DEF StartEnable
<1>2. QED
  BY <1>1 DEF StartEnable, MayEnable

\* A step of Next is one that keeps the policy file, or one of these.
LEMMA ByPolicy ==
  ASSUME [Next]_vars
  PROVE  \/ \E c \in Configs : StartEnable(c)
         \/ WritePending \/ Commit \/ UndoPolicy \/ DropPolicy \/ Release
         \/ WritePac \/ StartService \/ AwaitService \/ WriteUrl \/ WriteFlag \/ Verify
         \/ EnableRaises \/ (Rollback /\ ~UndoPolicy) \/ StartDisable \/ DropServer
         \/ RestoreUrl \/ RestoreFlag \/ VerifyRestore \/ StopServer \/ DisableRaises
         \/ Environment \/ UNCHANGED vars
  BY DEF Next, Enable, Rollback, Disable

LEMMA OwnRequestStep == IInv /\ OwnRequest /\ [Next]_vars => OwnRequest'
<1> SUFFICES ASSUME IInv, OwnRequest, [Next]_vars PROVE OwnRequest'
  OBVIOUS
<1> USE IdleTypes DEF OwnRequest
<1>1. CASE \E c \in Configs : StartEnable(c)
  BY <1>1, EnableNotes
<1>2. CASE WritePending
  BY <1>2, PendingFields
     DEF WritePending, Goto, IInv, TypeOK, EnableLocals, Jobs, Enabling, EnableSteps
<1>3. CASE Commit
  BY <1>3 DEF Commit, Committed, Enabling, EnableSteps, RollbackSteps
<1>4. CASE UndoPolicy
  BY <1>4 DEF UndoPolicy, Enabling, EnableSteps, RollbackSteps, IInv, EnableLocals
<1>5. CASE DropPolicy \/ Release
  <2>1. job.prev \in Policies /\ policy' = Released(job.prev)
    BY <1>5 DEF DropPolicy, Release, IInv, TypeOK, Jobs
  <2>2. job'.pc \notin Enabling
    BY <1>5 DEF DropPolicy, Release, Goto, IInv, TypeOK, Jobs,
       Enabling, EnableSteps, RollbackSteps
  <2>3. QED
    BY <2>1, <2>2, ReleasedType DEF Leased
<1>6. QED
  BY <1>1, <1>2, <1>3, <1>4, <1>5, ByPolicy, PolicyKept

LEMMA WayBackStep == IInv /\ WayBack /\ [Next]_vars => WayBack'
<1> SUFFICES ASSUME IInv, WayBack, [Next]_vars PROVE WayBack'
  OBVIOUS
<1> USE IdleTypes DEF WayBack
<1>1. CASE \E c \in Configs : StartEnable(c)
  BY <1>1, EnableNotes DEF Leased
<1>2. CASE WritePending
  BY <1>2, PendingFields
     DEF WritePending, Goto, IInv, TypeOK, EnableLocals, Jobs, Enabling, EnableSteps
<1>3. CASE Commit
  BY <1>3 DEF Commit, Committed, Enabling, EnableSteps, RollbackSteps
<1>4. CASE UndoPolicy
  BY <1>4 DEF UndoPolicy, Enabling, EnableSteps, RollbackSteps, IInv, EnableLocals, Leased
<1>5. CASE DropPolicy \/ Release
  <2>1. job.prev \in Policies /\ policy' = Released(job.prev) /\ UNCHANGED baseline
    BY <1>5 DEF DropPolicy, Release, IInv, TypeOK, Jobs
  <2>2. job'.pc \notin Enabling
    BY <1>5 DEF DropPolicy, Release, Goto, IInv, TypeOK, Jobs,
       Enabling, EnableSteps, RollbackSteps
  <2>3. QED
    BY <2>1, <2>2, ReleasedType
<1>6. CASE UNCHANGED baseline
  BY <1>1, <1>2, <1>3, <1>4, <1>5, <1>6, ByPolicy, PolicyKept
<1>7. CASE baseline' # baseline
  <2>1. SomebodyWrites \/ \E c \in Configs : StartEnable(c)
    BY <1>7 DEF Next, Enable, Rollback, Disable, Environment, vars, WritePac, WritePending,
       StartService, AwaitService, WriteUrl, WriteFlag, Verify, Commit, EnableRaises,
       UndoUrl, UndoFlag, UndoRefused, UndoPac, UndoServer, UndoPolicy, RollbackRaises,
       StartDisable, DropServer, DropPolicy, RestoreUrl, RestoreFlag, VerifyRestore,
       Release, StopServer, DisableRaises, Crash, ServerUp, ServerDown
  <2>2. CASE SomebodyWrites
    BY <1>7, <2>2 DEF SomebodyWrites, Enabling, EnableSteps, RollbackSteps
  <2>3. QED
    BY <1>1, <2>1, <2>2
<1>8. QED
  BY <1>6, <1>7

LEMMA DriftStep == IInv /\ DriftStands /\ [Next]_vars => DriftStands'
<1> SUFFICES ASSUME IInv, DriftStands, [Next]_vars PROVE DriftStands'
  OBVIOUS
<1> USE IdleTypes DEF DriftStands
<1>1. CASE \E c \in Configs : StartEnable(c)
  BY <1>1, EnableNotes DEF Leased
<1>2. CASE SomebodyWrites
  BY <1>2 DEF SomebodyWrites
<1>3. CASE StartDisable
  BY <1>3, PlainJob DEF StartDisable, PutsBack, IInv, TypeOK, DisableSteps
<1>4. CASE DropServer \/ DropPolicy
  BY <1>4, ReleasedType DEF DropServer, DropPolicy, Goto, IInv, TypeOK, Jobs
<1>5. CASE DisableRaises \/ Crash \/ ServerUp \/ ServerDown \/ UNCHANGED vars
  BY <1>5 DEF DisableRaises, Crash, ServerUp, ServerDown, vars
<1>6. CASE \/ WritePac \/ WritePending \/ StartService \/ AwaitService \/ WriteUrl
           \/ WriteFlag \/ Verify \/ Commit \/ EnableRaises \/ Rollback
           \/ RestoreUrl \/ RestoreFlag \/ VerifyRestore \/ Release \/ StopServer
  <2>1. job.pc \notin {"idle", "dropServer", "dropPolicy"} /\ UNCHANGED touched
    BY <1>6 DEF WritePac, WritePending, StartService, AwaitService, WriteUrl, WriteFlag,
       Verify, Commit, EnableRaises, Rollback, UndoUrl, UndoFlag, UndoRefused, UndoPac,
       UndoServer, UndoPolicy, RollbackRaises, RestoreUrl, RestoreFlag, VerifyRestore,
       Release, StopServer, EnableSteps
  <2>2. QED
    BY <2>1
<1>7. QED
  BY <1>1, <1>2, <1>3, <1>4, <1>5, <1>6 DEF Next, Enable, Disable, Environment

LEMMA UndisturbedStep ==
  ASSUME IInv, WayBack, WayBack', Undisturbed, [Next]_vars
  PROVE  Undisturbed'
<1> USE IdleTypes
    DEF Undisturbed, Unwritten, Undoing, Goto, IInv, TypeOK, Jobs, EnableSteps,
        RollbackSteps, DisableSteps, Enabling
<1>0. /\ job \in Jobs
      /\ policy.inFlight => Leased(policy)
      /\ Leased(policy) => policy.previous = baseline
  BY DEF WayBack, Leased
<1>1. CASE \E c \in Configs : StartEnable(c)
  BY <1>1, EnableNotes DEF Leased
<1>2. CASE WritePac
  BY <1>2 DEF WritePac
<1>3. CASE WritePending
  <2>1. /\ job.pc = "writePending" /\ policy' = Pending(job) /\ job'.pc = "startService"
        /\ job'.snap = job.snap /\ UNCHANGED <<registry, baseline, touched, lost>>
        /\ policy'.enabled = job.prev.enabled /\ policy'.previous = job.restore
    BY <1>3, PendingFields DEF WritePending, EnableLocals, Pending, Policies
  <2>2. ~job.prev.enabled => job.restore = job.snap
    BY <1>3 DEF WritePending, EnableLocals
  <2>3. QED
    BY <2>1, <2>2
<1>4. CASE StartService \/ AwaitService
  BY <1>4 DEF StartService, AwaitService
<1>5. CASE WriteUrl
  <2>1. /\ policy = Pending(job) /\ policy.url = job.cfg.source
    BY <1>5, PendingFields DEF WriteUrl, PolicyOnDisk, UnderPending, EnableLocals
  <2>2. /\ job.pc = "writeUrl" /\ job'.pc = "writeFlag"
        /\ registry' = [registry EXCEPT !.url = job.cfg.source]
        /\ UNCHANGED <<policy, baseline, touched, lost>>
    BY <1>5 DEF WriteUrl
  <2>3. registry.enable = "zero" => registry' = Active(policy.url)
    BY <2>1, <2>2 DEF Settings, Active
  <2>4. registry \in {policy.previous, Active(policy.url)} /\ baseline.enable = "zero"
          /\ policy.inFlight => registry.enable = "zero"
    BY <1>0 DEF Active
  <2>5. QED
    BY <2>2, <2>3, <2>4
<1>6. CASE WriteFlag
  <2>1. /\ job.pc = "writeFlag" /\ job'.pc = "verify"
        /\ registry' = [registry EXCEPT !.enable = "zero"]
        /\ UNCHANGED <<policy, baseline, touched, lost>>
    BY <1>6 DEF WriteFlag
  <2>2. registry \in {policy.previous, Active(policy.url)} /\ baseline.enable = "zero"
          /\ policy.inFlight => registry' = registry
    BY <1>0, <2>1 DEF Active, Settings
  <2>3. QED
    BY <2>1, <2>2
<1>7. CASE Verify
  BY <1>7 DEF Verify
<1>8. CASE Commit
  BY <1>8 DEF Commit, Committed, Leased
<1>9. CASE EnableRaises
  BY <1>9 DEF EnableRaises, EnableLocals, Written
<1>10. CASE UndoUrl
  <2>1. /\ job.pc = "undoUrl" /\ job'.pc = "undoFlag" /\ job'.snap = job.snap
        /\ registry' = [registry EXCEPT !.url = job.snap.url]
        /\ UNCHANGED <<policy, baseline, touched, lost>>
    BY <1>10 DEF UndoUrl
  <2>2. policy = Pending(job) /\ job.snap \in Settings /\ policy.enabled = job.prev.enabled
    <3>1. policy = Pending(job) /\ job.snap \in Settings
      BY <2>1 DEF PolicyOnDisk, UnderPending, EnableLocals
    <3>2. Pending(job).enabled = job.prev.enabled
      BY DEF Pending, Policies
    <3>3. QED
      BY <3>1, <3>2
  <2>3. ~policy.enabled => job.snap = baseline
    BY <2>1, <2>2 DEF EnableLocals, WayBack
  <2>4. registry \in {policy.previous, Active(policy.url)} /\ baseline.enable = "zero"
          /\ policy.inFlight /\ ~policy.enabled => registry' = policy.previous
    BY <1>0, <2>1, <2>2, <2>3 DEF Active, Settings
  <2>5. registry'.url = job.snap.url
    BY <2>1 DEF Settings
  <2>6. QED
    BY <2>1, <2>4, <2>5
<1>11. CASE UndoFlag
  <2>1. /\ job.pc = "undoFlag" /\ job'.pc = "undoPac" /\ job'.snap = job.snap
        /\ registry' = [registry EXCEPT !.enable = job.snap.enable]
        /\ UNCHANGED <<policy, baseline, touched, lost>>
    BY <1>11 DEF UndoFlag
  <2>2. policy = Pending(job) /\ job.snap \in Settings /\ policy.enabled = job.prev.enabled
    <3>1. policy = Pending(job) /\ job.snap \in Settings
      BY <2>1 DEF PolicyOnDisk, UnderPending, EnableLocals
    <3>2. Pending(job).enabled = job.prev.enabled
      BY DEF Pending, Policies
    <3>3. QED
      BY <3>1, <3>2
  <2>3. ~policy.enabled => job.snap = baseline
    BY <2>1, <2>2 DEF EnableLocals, WayBack
  <2>4. registry.url = job.snap.url => registry' = job.snap
    BY <2>1, <2>2 DEF Settings
  <2>5. policy.inFlight /\ ~policy.enabled => policy.previous = job.snap
    BY <1>0, <2>3
  <2>6. QED
    BY <2>1, <2>4, <2>5
<1>12. CASE UndoRefused
  BY <1>12 DEF UndoRefused
<1>13. CASE UndoPac \/ UndoServer
  BY <1>13 DEF UndoPac, UndoServer
<1>14. CASE UndoPolicy
  <2>1. /\ job.pc = "undoPolicy" /\ job'.pc = "idle" /\ policy' = job.prev
        /\ UNCHANGED <<registry, baseline, touched, lost>>
    BY <1>14 DEF UndoPolicy
  <2>2. ~job.prev.inFlight /\ (~job.prev.enabled => job.snap = baseline)
    BY <2>1 DEF EnableLocals, WayBack
  <2>3. QED
    BY <2>1, <2>2 DEF Leased
<1>15. CASE RollbackRaises \/ (Crash /\ job.pc \in Enabling)
  <2>1. /\ job.pc \in Enabling /\ job'.pc = "idle"
        /\ UNCHANGED <<registry, policy, baseline, touched, lost>>
    BY <1>15 DEF RollbackRaises, Crash
  <2>2. ~Leased(policy) => policy = job.prev /\ job.pc \in BeforePending \cup Undoing
    BY <2>1, PendingFields DEF PolicyOnDisk, EnableLocals, BeforePending, UnderPending
  <2>3. ~Leased(policy) => job.snap = baseline
    BY <2>1, <2>2 DEF EnableLocals, WayBack, Leased
  <2>4. QED
    BY <2>1, <2>2, <2>3 DEF BeforePending
<1>16. CASE StartDisable
  <2>1. /\ job'.pc \in {"dropServer", "restoreUrl"}
        /\ job'.pc = "dropServer" => policy.inFlight /\ registry = policy.previous
        /\ UNCHANGED <<registry, policy, baseline, touched, lost>>
    BY <1>16, PlainJob DEF StartDisable
  <2>2. QED
    BY <1>0, <2>1
<1>17. CASE DropServer
  BY <1>0, <1>17 DEF DropServer, PolicyOnDisk
<1>18. CASE DropPolicy
  <2>1. ~Leased(policy') /\ ~policy'.inFlight
    BY <1>18, ReleasedType DEF DropPolicy, Leased
  <2>2. QED
    BY <1>18, <2>1 DEF DropPolicy
<1>19. CASE Release
  <2>1. ~Leased(policy') /\ ~policy'.inFlight
    BY <1>19, ReleasedType DEF Release, Leased
  <2>2. QED
    BY <1>19, <2>1 DEF Release
<1>20. CASE RestoreUrl
  <2>1. /\ job.pc = "restoreUrl" /\ job'.pc = "restoreFlag"
        /\ registry' = [registry EXCEPT !.url = policy.previous.url]
        /\ UNCHANGED <<policy, baseline, touched, lost>>
    BY <1>20 DEF RestoreUrl, PolicyOnDisk
  <2>2. registry \in {policy.previous, Active(policy.url)} /\ baseline.enable = "zero"
          /\ policy.inFlight => registry' = policy.previous
    BY <1>0, <2>1 DEF Active, Settings
  <2>3. QED
    BY <2>1, <2>2
<1>21. CASE RestoreFlag
  <2>1. /\ job.pc = "restoreFlag" /\ job'.pc = "verifyRestore"
        /\ registry' = [registry EXCEPT !.enable = policy.previous.enable]
        /\ UNCHANGED <<policy, baseline, touched, lost>>
    BY <1>21 DEF RestoreFlag, PolicyOnDisk
  <2>2. registry \in {policy.previous, Active(policy.url)} /\ baseline.enable = "zero"
          /\ policy.inFlight => registry' = registry
    BY <1>0, <2>1 DEF Active, Settings
  <2>3. QED
    BY <2>1, <2>2
<1>22. CASE VerifyRestore
  BY <1>0, <1>22 DEF VerifyRestore, PolicyOnDisk
<1>23. CASE StopServer
  BY <1>23 DEF StopServer
<1>24. CASE DisableRaises
  BY <1>24 DEF DisableRaises, PolicyOnDisk
<1>25. CASE Crash /\ job.pc \notin Enabling
  BY <1>25 DEF Crash, PolicyOnDisk
<1>26. CASE ServerUp \/ ServerDown \/ UNCHANGED vars
  BY <1>26 DEF ServerUp, ServerDown, vars, Leased
<1>27. CASE SomebodyWrites
  BY <1>0, <1>27 DEF SomebodyWrites
<1>28. QED
  BY <1>1, <1>2, <1>3, <1>4, <1>5, <1>6, <1>7, <1>8, <1>9, <1>10, <1>11, <1>12, <1>13, <1>14,
     <1>15, <1>16, <1>17, <1>18, <1>19, <1>20, <1>21, <1>22, <1>23, <1>24, <1>25, <1>26, <1>27
     DEF Next, Enable, Rollback, Disable, Environment

LEMMA KStep == KInv /\ [Next]_vars => KInv'
<1> SUFFICES ASSUME KInv, [Next]_vars PROVE KInv'
  OBVIOUS
<1>1. IInv' /\ WayBack'
  BY InductiveStep, WayBackStep DEF KInv
<1>2. QED
  BY <1>1, OwnRequestStep, DriftStep, UndisturbedStep DEF KInv

\* A router that is off has left exactly the user's settings, whatever jobs ran,
\* failed or died, if nobody else wrote them.
THEOREM RestoresExactly == Spec => []ExactRestore
<1>1. KInv => ExactRestore
  BY DEF KInv, Undisturbed, ExactRestore
<1>2. QED
  BY KInit, KStep, <1>1, PTL DEF Spec

\* The bridge never serves one request's domains through another's provider.
THEOREM BridgeAlwaysConsistent == Spec => []BridgeConsistent
<1>1. KInv => BridgeConsistent
  BY DEF KInv, OwnRequest, BridgeConsistent, BridgeServes
<1>2. QED
  BY KInit, KStep, <1>1, PTL DEF Spec

\* A first enable() killed anywhere has left what disable() can undo, where the
\* user's ProxyEnable was a plain zero: of any other baseline nothing is said.
THEOREM FirstEnableAlwaysRecovers == Spec => []FirstEnableRecovers
<1>1. KInv => FirstEnableRecovers
  BY DEF KInv, Undisturbed, FirstEnableRecovers
<1>2. QED
  BY KInit, KStep, <1>1, PTL DEF Spec

\* No job writes over a setting that somebody else made over an applied route.
THEOREM DriftNeverOverwritten == Spec => NoDriftOverwrite
<1> DEFINE A == registry' # registry /\ touched' = touched /\ job.pc # "idle"
                    => touched # "drift"
<1>1. KInv /\ [Next]_vars => [A]_vars
  <2> SUFFICES ASSUME KInv, [Next]_vars, registry' # registry, touched' = touched,
                      job.pc # "idle", touched = "drift"
               PROVE  FALSE
    OBVIOUS
  <2>1. job.pc \in {"dropServer", "dropPolicy"}
    BY DEF KInv, DriftStands
  <2>2. QED
    BY <2>1 DEF Next, Enable, Rollback, Disable, Environment, vars, StartEnable, WritePac,
       WritePending, StartService, AwaitService, WriteUrl, WriteFlag, Verify, Commit,
       EnableRaises, UndoUrl, UndoFlag, UndoRefused, UndoPac, UndoServer, UndoPolicy,
       RollbackRaises, StartDisable, DropServer, DropPolicy, RestoreUrl, RestoreFlag,
       VerifyRestore, Release, StopServer, DisableRaises, Crash, ServerUp, ServerDown,
       SomebodyWrites, EnableSteps
<1> HIDE DEF A
<1>2. Spec => [][A]_vars
  BY KInit, KStep, <1>1, PTL DEF Spec
<1>3. QED
  BY <1>2 DEF NoDriftOverwrite, A
=============================================================================
