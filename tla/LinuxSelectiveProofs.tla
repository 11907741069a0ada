------------------------ MODULE LinuxSelectiveProofs ------------------------
(***************************************************************************)
(* For any set of PAC texts, foreign URLs and methods: every property of   *)
(* LinuxSelective.  While a job runs the policy on disk is the one it      *)
(* read, so what its locals say of that policy, of the settings it read    *)
(* and of the PAC file is what holds again when it ends.                   *)
(***************************************************************************)
EXTENDS LinuxSelective, TLAPS

Applying == ApplySteps \cup UndoSteps
Clean == touched = "no" /\ ~lost

\* Where the new URL, the new mode and the new PAC file are in place, unless
\* somebody else writes.
Unwritten == {"unit", "pac", "enable", "await", "url"}
Undone == {"xpac", "xserver", "xunit"}
OldPac == {"unit", "pac", "xserver", "xunit"}
NewPac == {"enable", "await", "url", "mode", "verify", "commit"}
Serving == {"await", "url", "mode", "verify", "commit"}

\* What a job read before its first write: the policy, which it alone writes,
\* and settings worth going back to.
JobLocals ==
    /\ job.pc # "idle" => job.old \in Settings
    /\ job.pc \notin {"idle", "dserver"} => policy = job.prev
    /\ job.pc = "dserver" => ~policy.enabled
    /\ job.pc \in Applying => /\ job.cfg \in Configs
                              /\ ~job.prev.enabled => ~ \E s \in Sources : job.old = Active(s)
    /\ job.pc \in DisableSteps \ {"dserver"} => job.prev.enabled

\* The settings as a job that nobody disturbs leaves them, step by step.
SettingsOfJob ==
    Clean =>
        /\ policy.enabled => policy.previous = baseline
        /\ job.pc \in Applying =>
             job.old = IF policy.enabled THEN Active(policy.url) ELSE baseline
        /\ job.pc \in Unwritten => setting = job.old /\ ~job.changed
        /\ job.pc = "mode" => job.changed /\ setting = [job.old EXCEPT !.url = job.cfg.source]
        /\ job.pc \in {"verify", "commit"} => job.changed /\ setting = Active(job.cfg.source)
        /\ job.pc = "xurl" =>
             IF job.changed THEN setting.url = job.cfg.source ELSE setting = job.old
        /\ job.pc = "xmode" => setting.url = job.old.url
        /\ job.pc \in Undone => setting = job.old
        /\ job.pc = "durl" => setting = Active(policy.url)
        /\ job.pc = "dmode" => setting.url = baseline.url
        /\ job.pc \in {"dverify", "dpolicy", "dserver"} => setting = baseline

\* The PAC file and its server, likewise; a foreign edit does not matter here.
ServerOfJob ==
    ~lost =>
        /\ job.pc \in Applying /\ policy.enabled => job.oldPac = policy.url /\ server # "off"
        /\ job.pc \in OldPac => pac = job.oldPac
        /\ job.pc \in NewPac => pac = job.cfg.source
        /\ job.pc \in Serving => server # "off"
        /\ job.pc = "xserver" => ~policy.enabled
        /\ job.pc = "xunit" /\ ~policy.enabled => server = "off"
        /\ job.pc \in DisableSteps \ {"dserver"} => pac = policy.url /\ server # "off"

\* No job begins over a setting that drifted from the route.
DriftStands ==
    touched = "drift" =>
        job.pc = "idle" /\ policy.enabled /\ setting # Active(policy.url)

IInv ==
    /\ TypeOK
    /\ RestorePointSafe
    /\ ExactSettings
    /\ ServedAsRegistered
    /\ JobLocals
    /\ SettingsOfJob
    /\ ServerOfJob
    /\ DriftStands

LEMMA IdleType ==
  /\ NoPolicy \in Policies /\ ~NoPolicy.enabled
  /\ Idle \in [pc : {"idle"}, cfg : {NoSource}, prev : Policies, old : {NoSetting},
               oldPac : {NoSource}, created : BOOLEAN, changed : BOOLEAN]
<1>1. NoPolicy \in Policies /\ ~NoPolicy.enabled
  BY DEF NoPolicy, Policies
<1>2. QED
  BY <1>1 DEF Idle

LEMMA InitInv == Init => IInv
<1> SUFFICES ASSUME Init PROVE IInv
  OBVIOUS
<1> USE LinuxSelectiveAssumption, IdleType
    DEF Init, Settings, Policies, NoPolicy, Applying, ApplySteps, UndoSteps, DisableSteps,
        Unwritten, Undone, OldPac, NewPac, Serving
<1>1. TypeOK
  <2>1. setting \in Settings /\ baseline \in Settings
    BY DEF Settings
  <2>2. job \in [pc : {"idle"} \cup ApplySteps \cup UndoSteps \cup DisableSteps,
                cfg : Configs \cup {NoSource}, prev : Policies,
                old : Settings \cup {NoSetting}, oldPac : Sources \cup {NoSource},
                created : BOOLEAN, changed : BOOLEAN]
    BY DEF Idle
  <2>3. QED
    BY <2>1, <2>2 DEF TypeOK
<1>2. RestorePointSafe /\ ExactSettings /\ ServedAsRegistered
  BY DEF RestorePointSafe, ExactSettings, ServedAsRegistered
<1>3. JobLocals /\ SettingsOfJob /\ ServerOfJob /\ DriftStands
  BY DEF JobLocals, SettingsOfJob, ServerOfJob, DriftStands
<1>4. QED
  BY <1>1, <1>2, <1>3 DEF IInv

LEMMA InductiveStep == IInv /\ [Next]_vars => IInv'
<1> SUFFICES ASSUME IInv, [Next]_vars PROVE IInv'
  OBVIOUS
<1> USE LinuxSelectiveAssumption, IdleType
    DEF IInv, TypeOK, RestorePointSafe, ExactSettings, ServedAsRegistered, JobLocals,
        SettingsOfJob, ServerOfJob, DriftStands, Clean, Applying, Unwritten, Undone,
        OldPac, NewPac, Serving, ApplySteps, UndoSteps, DisableSteps, Settings, Policies,
        Configs, Active, history, Goto
<1>1. ASSUME NEW c \in Configs, StartApply(c) PROVE IInv'
  BY <1>1 DEF StartApply, MayApply, Job
<1>2. CASE WriteUnit
  BY <1>2 DEF WriteUnit
<1>3. CASE WritePac
  BY <1>3 DEF WritePac
<1>4. CASE EnableUnit
  BY <1>4 DEF EnableUnit
<1>5. CASE AwaitPac
  BY <1>5 DEF AwaitPac, PacOnline
<1>6. CASE WriteUrl
  <2>a. setting' \in Settings
    BY <1>6 DEF WriteUrl
  <2>b. job' \in [pc : {"idle"} \cup ApplySteps \cup UndoSteps \cup DisableSteps,
                   cfg : Configs \cup {NoSource}, prev : Policies,
                   old : Settings \cup {NoSetting}, oldPac : Sources \cup {NoSource},
                   created : BOOLEAN, changed : BOOLEAN]
    BY <1>6 DEF WriteUrl
  <2>1. TypeOK'
    BY <1>6, <2>a, <2>b DEF WriteUrl
  <2>2. RestorePointSafe' /\ ExactSettings' /\ ServedAsRegistered'
    BY <1>6 DEF WriteUrl
  <2>3. JobLocals' /\ DriftStands'
    BY <1>6 DEF WriteUrl
  <2>4. SettingsOfJob'
    BY <1>6 DEF WriteUrl
  <2>5. ServerOfJob'
    BY <1>6 DEF WriteUrl
  <2>6. QED
    BY <2>1, <2>2, <2>3, <2>4, <2>5
<1>7. CASE WriteUrlTimesOut
  BY <1>7 DEF WriteUrlTimesOut
<1>8. CASE WriteMode
  BY <1>8 DEF WriteMode
<1>9. CASE Verify
  BY <1>9 DEF Verify
<1>10. CASE Commit
  <2>1. TypeOK'
    BY <1>10 DEF Commit, Restore
  <2>a. /\ policy'.enabled /\ policy'.url = job.cfg.source /\ policy'.previous = Restore
        /\ job.prev = policy /\ job' = Idle /\ UNCHANGED <<setting, pac, server, history>>
    BY <1>10 DEF Commit
  <2>b. RestorePointSafe'
    BY <1>10, <2>a DEF Commit, Restore
  <2>c. ExactSettings' /\ ServedAsRegistered'
    BY <1>10, <2>a DEF Commit
  <2>2. RestorePointSafe' /\ ExactSettings' /\ ServedAsRegistered'
    BY <2>b, <2>c
  <2>3. JobLocals' /\ DriftStands'
    BY <1>10 DEF Commit, Restore
  <2>4. SettingsOfJob'
    BY <1>10 DEF Commit, Restore
  <2>5. ServerOfJob'
    BY <1>10 DEF Commit, Restore
  <2>6. QED
    BY <2>1, <2>2, <2>3, <2>4, <2>5
<1>11. CASE ApplyRaises
  BY <1>11 DEF ApplyRaises
<1>12. CASE UndoUrl
  <2>1. TypeOK'
    BY <1>12 DEF UndoUrl, MustUndo
  <2>2. RestorePointSafe' /\ ExactSettings' /\ ServedAsRegistered'
    BY <1>12 DEF UndoUrl, MustUndo
  <2>a. job' = [job EXCEPT !.pc = "xmode"] \/ job' = [job EXCEPT !.pc = "xpac"]
    BY <1>12 DEF UndoUrl
  <2>b. /\ job'.pc \in {"xmode", "xpac"}
        /\ job'.old = job.old /\ job'.prev = job.prev /\ job'.cfg = job.cfg
    BY <2>a
  <2>c. job.pc = "xurl" /\ touched' = touched /\ policy' = policy
    BY <1>12 DEF UndoUrl
  <2>3. JobLocals' /\ DriftStands'
    BY <2>b, <2>c
  <2>4. SettingsOfJob'
    BY <1>12 DEF UndoUrl, MustUndo
  <2>5. ServerOfJob'
    BY <1>12 DEF UndoUrl, MustUndo
  <2>6. QED
    BY <2>1, <2>2, <2>3, <2>4, <2>5
<1>13. CASE UndoMode
  BY <1>13 DEF UndoMode
<1>14. CASE UndoRefused
  BY <1>14 DEF UndoRefused, MustUndo
<1>15. CASE UndoPac
  BY <1>15 DEF UndoPac
<1>16. CASE UndoServer
  <2>a. server' \in {"off", "starting", "up"} /\ lost' \in BOOLEAN
    <3>1. CASE server' = "off" /\ UNCHANGED lost
      BY <3>1
    <3>2. CASE lost' = TRUE /\ UNCHANGED server
      BY <3>2
    <3>3. QED
      BY <1>16, <3>1, <3>2 DEF UndoServer
  <2>b. job' \in [pc : {"idle"} \cup ApplySteps \cup UndoSteps \cup DisableSteps,
                   cfg : Configs \cup {NoSource}, prev : Policies,
                   old : Settings \cup {NoSetting}, oldPac : Sources \cup {NoSource},
                   created : BOOLEAN, changed : BOOLEAN]
    BY <1>16 DEF UndoServer
  <2>1. TypeOK'
    BY <1>16, <2>a, <2>b DEF UndoServer
  <2>2. RestorePointSafe' /\ ExactSettings' /\ ServedAsRegistered'
    BY <1>16 DEF UndoServer
  <2>3. JobLocals' /\ DriftStands'
    BY <1>16 DEF UndoServer
  <2>4. SettingsOfJob'
    BY <1>16 DEF UndoServer
  <2>5. ServerOfJob'
    BY <1>16 DEF UndoServer
  <2>6. QED
    BY <2>1, <2>2, <2>3, <2>4, <2>5
<1>17. CASE UndoUnit
  BY <1>17 DEF UndoUnit
<1>18. CASE UndoRaises
  BY <1>18 DEF UndoRaises
<1>19. CASE StartDisable
  BY <1>19 DEF StartDisable, MayDisable, Job
<1>20. CASE RestoreUrl
  BY <1>20 DEF RestoreUrl
<1>21. CASE RestoreMode
  BY <1>21 DEF RestoreMode
<1>22. CASE VerifyRestore
  BY <1>22 DEF VerifyRestore
<1>23. CASE Release
  <2>a. policy' \in Policies /\ policy'.enabled = FALSE
    BY <1>23 DEF Release
  <2>b. job' \in [pc : {"idle"} \cup ApplySteps \cup UndoSteps \cup DisableSteps,
                   cfg : Configs \cup {NoSource}, prev : Policies,
                   old : Settings \cup {NoSetting}, oldPac : Sources \cup {NoSource},
                   created : BOOLEAN, changed : BOOLEAN]
    BY <1>23 DEF Release
  <2>1. TypeOK'
    BY <1>23, <2>a, <2>b DEF Release
  <2>2. RestorePointSafe' /\ ExactSettings' /\ ServedAsRegistered'
    BY <1>23 DEF Release
  <2>3. JobLocals' /\ DriftStands'
    BY <1>23 DEF Release
  <2>4. SettingsOfJob'
    BY <1>23 DEF Release
  <2>5. ServerOfJob'
    BY <1>23 DEF Release
  <2>6. QED
    BY <2>1, <2>2, <2>3, <2>4, <2>5
<1>24. CASE StopServer
  BY <1>24 DEF StopServer
<1>25. CASE DisablePartial
  <2>1. TypeOK'
    BY <1>25 DEF DisablePartial
  <2>2. RestorePointSafe' /\ ExactSettings' /\ ServedAsRegistered'
    BY <1>25 DEF DisablePartial
  <2>3. JobLocals' /\ DriftStands'
    BY <1>25 DEF DisablePartial
  <2>4. SettingsOfJob'
    BY <1>25 DEF DisablePartial
  <2>5. ServerOfJob'
    BY <1>25 DEF DisablePartial
  <2>6. QED
    BY <2>1, <2>2, <2>3, <2>4, <2>5
<1>26. CASE Crash
  BY <1>26 DEF Crash
<1>27. CASE ServerFlaps
  BY <1>27 DEF ServerFlaps
<1>28. CASE SomebodyWrites
  BY <1>28 DEF SomebodyWrites
<1>29. CASE UNCHANGED vars
  BY <1>29 DEF vars
<1>30. QED
  BY <1>1, <1>2, <1>3, <1>4, <1>5, <1>6, <1>7, <1>8, <1>9, <1>10, <1>11, <1>12, <1>13, <1>14, <1>15, <1>16, <1>17, <1>18, <1>19, <1>20, <1>21, <1>22, <1>23, <1>24, <1>25, <1>26, <1>27, <1>28, <1>29
     DEF Next, Apply, Undo, Disable

-----------------------------------------------------------------------------

\* Every state of the Linux route, its files, its server and a running job has
\* the shape TypeOK gives.
THEOREM LinuxRouteTypeCorrect == Spec => []TypeOK
<1>1. IInv => TypeOK
  BY DEF IInv
<1>2. QED
  BY InitInv, InductiveStep, <1>1, PTL DEF Spec

\* apply() never records one of its own routes as the settings to put back.
THEOREM LinuxRestorePointSafe == Spec => []RestorePointSafe
<1>1. IInv => RestorePointSafe
  BY DEF IInv
<1>2. QED
  BY InitInv, InductiveStep, <1>1, PTL DEF Spec

\* Where nobody else wrote and nothing was lost, apply(), its except clause and
\* disable() leave exactly the settings their policy stands for.
THEOREM LinuxSettingsExact == Spec => []ExactSettings
<1>1. IInv => ExactSettings
  BY DEF IInv
<1>2. QED
  BY InitInv, InductiveStep, <1>1, PTL DEF Spec

\* Foreign edits notwithstanding, the PAC file and its server are those of the
\* policy whenever no job runs and nothing was lost.
THEOREM LinuxServedAsRegistered == Spec => []ServedAsRegistered
<1>1. IInv => ServedAsRegistered
  BY DEF IInv
<1>2. QED
  BY InitInv, InductiveStep, <1>1, PTL DEF Spec

\* The check of the settings in front of apply() and disable() keeps every
\* later write off a setting somebody else made over the route.
THEOREM LinuxDriftNeverOverwritten == Spec => NoDriftOverwrite
<1>1. IInv => (job.pc # "idle" => touched # "drift")
  BY DEF IInv, DriftStands
<1>2. IInv /\ [Next]_vars =>
        [setting # setting' /\ touched' = touched /\ job.pc # "idle" => touched # "drift"]_vars
  BY <1>1
<1>3. QED
  BY InitInv, InductiveStep, <1>2, PTL DEF Spec, NoDriftOverwrite
=============================================================================
