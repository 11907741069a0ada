---------------------------- MODULE LinuxSelective ----------------------------
(***************************************************************************)
(* Selective domain routing on Linux: apply() and disable() move GNOME's   *)
(* per-user proxy mode and PAC URL, the PAC file, the systemd unit that    *)
(* serves it and the policy file.  Unlike the Windows router it writes the *)
(* policy, with the settings to put back, after the two settings.  Each    *)
(* action is the code between two points where the caller can be killed, a *)
(* command can fail or time out, or somebody else can write the settings.  *)
(*                                                                         *)
(* A PAC text is identified with its content-hashed URL; "via" is the      *)
(* method, which the text does not mention.                                *)
(***************************************************************************)
CONSTANTS Sources,      \* PAC texts (domains and port), and their URLs
          ForeignUrls,  \* autoconfig-url values of somebody else
          Vias, NoSource, NoVia, NoSetting

ASSUME LinuxSelectiveAssumption ==
    /\ Sources \cap ForeignUrls = {}
    /\ NoSource \notin Sources \cup ForeignUrls
    /\ NoVia \notin Vias
    /\ NoSetting \notin [mode : {"none", "auto", "manual"}, url : Sources \cup ForeignUrls]

VARIABLES setting,   \* org.gnome.system.proxy
          pac,       \* PAC_FILE
          policy,    \* POLICY
          unit,      \* SERVICE exists
          server,    \* the PAC server: "off", "starting" (wanted), "up"
          job,       \* the running apply() or disable()
          \* History, read by properties only:
          baseline,  \* the settings nobody but the user chose
          touched,   \* "no", or how somebody else wrote over a route
          lost       \* a job was killed, or a failure swallowed, with
                     \* the settings or the server not yet put back

vars == <<setting, pac, policy, unit, server, job, baseline, touched, lost>>
history == <<baseline, touched, lost>>

Settings == [mode : {"none", "auto", "manual"}, url : Sources \cup ForeignUrls]
Active(s) == [mode |-> "auto", url |-> s]
Configs == [source : Sources, via : Vias]
Policies == [enabled : BOOLEAN, url : Sources \cup {NoSource},
             via : Vias \cup {NoVia}, previous : Settings \cup {NoSetting}]
NoPolicy == [enabled |-> FALSE, url |-> NoSource, via |-> NoVia, previous |-> NoSetting]

ApplySteps == {"unit", "pac", "enable", "await", "url", "mode", "verify", "commit"}
UndoSteps == {"xurl", "xmode", "xpac", "xserver", "xunit"}
DisableSteps == {"durl", "dmode", "dverify", "dpolicy", "dserver"}

Job(pc, c, old, created) ==
    [pc |-> pc, cfg |-> c, prev |-> policy, old |-> old, oldPac |-> pac,
     created |-> created, changed |-> FALSE]
Idle == [pc |-> "idle", cfg |-> NoSource, prev |-> NoPolicy, old |-> NoSetting,
         oldPac |-> NoSource, created |-> FALSE, changed |-> FALSE]

TypeOK ==
    /\ setting \in Settings
    /\ pac \in Sources \cup {NoSource}
    /\ policy \in Policies
    /\ policy.enabled => policy.url \in Sources /\ policy.previous \in Settings
    /\ unit \in BOOLEAN
    /\ server \in {"off", "starting", "up"}
    /\ job \in [pc : {"idle"} \cup ApplySteps \cup UndoSteps \cup DisableSteps,
                cfg : Configs \cup {NoSource}, prev : Policies,
                old : Settings \cup {NoSetting}, oldPac : Sources \cup {NoSource},
                created : BOOLEAN, changed : BOOLEAN]
    /\ baseline \in Settings
    /\ touched \in {"no", "drift", "window"}
    /\ lost \in BOOLEAN

Init ==
    /\ setting \in [mode : {"none", "auto", "manual"}, url : ForeignUrls]
    /\ pac = NoSource
    /\ policy = NoPolicy
    /\ unit = FALSE
    /\ server = "off"
    /\ job = Idle
    /\ baseline = setting
    /\ touched = "no"
    /\ lost = FALSE

Goto(pc) == job' = [job EXCEPT !.pc = pc]

\* Mutant: the policy's own restore point, also when it is off.
RestoreOfPolicy == job.prev.previous

\* The settings disable() will put back.
Restore == IF job.prev.enabled THEN job.prev.previous ELSE job.old

\* _pac_online: the server answers with the text of PAC_FILE, under its URL.
PacOnline(s) == server = "up" /\ pac = s

Healthy == policy.enabled /\ setting = Active(policy.url) /\ pac # NoSource /\ PacOnline(pac)

-----------------------------------------------------------------------------
(* apply() *)

\* Mutant: the orphan check skipped.
MayApplyOverOrphan(c) ==
    /\ policy.enabled => setting = Active(policy.url)
    /\ ~(policy.enabled /\ policy.url = c.source /\ policy.via = c.via /\ Healthy)

\* The checks in front of the first write; the other outcomes raise, or answer
\* "unchanged", and change nothing.
MayApply(c) ==
    /\ policy.enabled => setting = Active(policy.url)
    /\ ~policy.enabled => ~(setting.mode = "auto" /\ setting.url \in Sources)
    /\ ~(policy.enabled /\ policy.url = c.source /\ policy.via = c.via /\ Healthy)

StartApply(c) ==
    /\ job.pc = "idle"
    /\ MayApply(c)
    /\ job' = Job("unit", c, setting, ~unit)
    /\ UNCHANGED <<setting, pac, policy, unit, server, history>>

WriteUnit ==
    /\ job.pc = "unit"
    /\ unit' = TRUE
    /\ Goto("pac")
    /\ UNCHANGED <<setting, pac, policy, server, history>>

WritePac ==
    /\ job.pc = "pac"
    /\ pac' = job.cfg.source
    /\ Goto("enable")
    /\ UNCHANGED <<setting, policy, unit, server, history>>

\* daemon-reload, enable --now
EnableUnit ==
    /\ job.pc = "enable"
    /\ server' = IF server = "off" THEN "starting" ELSE server
    /\ Goto("await")
    /\ UNCHANGED <<setting, pac, policy, unit, history>>

AwaitPac ==
    /\ job.pc = "await"
    /\ PacOnline(job.cfg.source)
    /\ Goto("url")
    /\ UNCHANGED <<setting, pac, policy, unit, server, history>>

WriteUrl ==
    /\ job.pc = "url"
    /\ setting' = [setting EXCEPT !.url = job.cfg.source]
    /\ job' = [job EXCEPT !.pc = "mode", !.changed = TRUE]
    /\ UNCHANGED <<pac, policy, unit, server, history>>

\* gsettings wrote, and answered too late: "changed_proxy" stays False.
WriteUrlTimesOut ==
    /\ job.pc = "url"
    /\ setting' = [setting EXCEPT !.url = job.cfg.source]
    /\ lost' = TRUE
    /\ Goto("xurl")
    /\ UNCHANGED <<pac, policy, unit, server, baseline, touched>>

WriteMode ==
    /\ job.pc = "mode"
    /\ setting' = [setting EXCEPT !.mode = "auto"]
    /\ Goto("verify")
    /\ UNCHANGED <<pac, policy, unit, server, history>>

Verify ==
    /\ job.pc = "verify"
    /\ setting = Active(job.cfg.source)
    /\ Goto("commit")
    /\ UNCHANGED <<setting, pac, policy, unit, server, history>>

Commit ==
    /\ job.pc = "commit"
    /\ policy' = [enabled |-> TRUE, url |-> job.cfg.source, via |-> job.cfg.via,
                  previous |-> Restore]
    /\ job' = Idle
    /\ UNCHANGED <<setting, pac, unit, server, history>>

ApplyRaises ==
    /\ job.pc \in ApplySteps
    /\ Goto("xurl")
    /\ UNCHANGED <<setting, pac, policy, unit, server, history>>

-----------------------------------------------------------------------------
(* its except clause *)

MustUndo == job.changed /\ setting.url = job.cfg.source

UndoUrl ==
    /\ job.pc = "xurl"
    /\ IF MustUndo THEN /\ setting' = [setting EXCEPT !.url = job.old.url]
                        /\ Goto("xmode")
                   ELSE Goto("xpac") /\ UNCHANGED setting
    /\ UNCHANGED <<pac, policy, unit, server, history>>

\* Mutant: the mode left as apply() set it.
UndoModeNot ==
    /\ job.pc = "xmode"
    /\ Goto("xpac")
    /\ UNCHANGED <<setting, pac, policy, unit, server, history>>

UndoMode ==
    /\ job.pc = "xmode"
    /\ setting' = [setting EXCEPT !.mode = job.old.mode]
    /\ Goto("xpac")
    /\ UNCHANGED <<pac, policy, unit, server, history>>

\* gsettings failed; the inner except passes.
UndoRefused ==
    /\ job.pc \in {"xurl", "xmode"}
    /\ job.pc = "xurl" => MustUndo
    /\ lost' = TRUE
    /\ Goto("xpac")
    /\ UNCHANGED <<setting, pac, policy, unit, server, baseline, touched>>

\* Mutant: the new PAC file left in place.
UndoPacNot ==
    /\ job.pc = "xpac"
    /\ Goto(IF job.prev.enabled THEN "xunit" ELSE "xserver")
    /\ UNCHANGED <<setting, pac, policy, unit, server, history>>

UndoPac ==
    /\ job.pc = "xpac"
    /\ pac' = job.oldPac
    /\ Goto(IF job.prev.enabled THEN "xunit" ELSE "xserver")
    /\ UNCHANGED <<setting, policy, unit, server, history>>

\* disable --now; a failure is swallowed too.
UndoServer ==
    /\ job.pc = "xserver"
    /\ \/ server' = "off" /\ UNCHANGED lost
       \/ lost' = TRUE /\ UNCHANGED server
    /\ Goto("xunit")
    /\ UNCHANGED <<setting, pac, policy, unit, baseline, touched>>

UndoUnit ==
    /\ job.pc = "xunit"
    /\ unit' = (unit /\ ~job.created)
    /\ job' = Idle
    /\ UNCHANGED <<setting, pac, policy, server, history>>

\* The read in front of the rollback, or a write of PAC_FILE, raises again.
UndoRaises ==
    /\ \/ job.pc = "xurl" /\ job.changed
       \/ job.pc = "xpac"
    /\ lost' = TRUE
    /\ job' = Idle
    /\ UNCHANGED <<setting, pac, policy, unit, server, baseline, touched>>

-----------------------------------------------------------------------------
(* disable() *)

\* Mutant: the settings are not looked at first.
MayDisableOverDrift == policy.enabled

MayDisable == policy.enabled /\ setting = Active(policy.url)

StartDisable ==
    /\ job.pc = "idle"
    /\ MayDisable
    /\ job' = Job("durl", NoSource, setting, FALSE)
    /\ UNCHANGED <<setting, pac, policy, unit, server, history>>

RestoreUrl ==
    /\ job.pc = "durl"
    /\ setting' = [setting EXCEPT !.url = job.prev.previous.url]
    /\ Goto("dmode")
    /\ UNCHANGED <<pac, policy, unit, server, history>>

RestoreMode ==
    /\ job.pc = "dmode"
    /\ setting' = [setting EXCEPT !.mode = job.prev.previous.mode]
    /\ Goto("dverify")
    /\ UNCHANGED <<pac, policy, unit, server, history>>

VerifyRestore ==
    /\ job.pc = "dverify"
    /\ setting = job.prev.previous
    /\ Goto("dpolicy")
    /\ UNCHANGED <<setting, pac, policy, unit, server, history>>

Release ==
    /\ job.pc = "dpolicy"
    /\ policy' = [job.prev EXCEPT !.enabled = FALSE, !.previous = NoSetting]
    /\ Goto("dserver")
    /\ UNCHANGED <<setting, pac, unit, server, history>>

StopServer ==
    /\ job.pc = "dserver"
    /\ server' = "off"
    /\ job' = Idle
    /\ UNCHANGED <<setting, pac, policy, unit, history>>

\* SELECTIVE_DISABLE_PARTIAL: what was done stays done, the rest undone.
DisablePartial ==
    /\ job.pc \in DisableSteps
    /\ lost' = (lost \/ job.pc # "durl")
    /\ job' = Idle
    /\ UNCHANGED <<setting, pac, policy, unit, server, baseline, touched>>

-----------------------------------------------------------------------------
(* The environment *)

\* Killed, or the session ends; systemd starts a wanted server again.
Crash ==
    /\ job.pc # "idle"
    /\ job' = Idle
    /\ lost' = TRUE
    /\ server' \in IF server = "up" THEN {"up", "starting"} ELSE {server}
    /\ UNCHANGED <<setting, pac, policy, unit, baseline, touched>>

\* Restart=on-failure
ServerFlaps ==
    /\ server # "off"
    /\ server' = IF server = "up" THEN "starting" ELSE "up"
    /\ UNCHANGED <<setting, pac, policy, unit, job, history>>

SomebodyWrites ==
    /\ \E s \in Settings :
         /\ s # setting
         /\ s.url \in ForeignUrls \/ s.url = setting.url
         /\ setting' = s
    /\ IF job.pc # "idle"
       THEN touched' = "window" /\ UNCHANGED baseline
       ELSE IF policy.enabled
       THEN /\ touched' = IF setting' = Active(policy.url) THEN "window" ELSE "drift"
            /\ UNCHANGED baseline
       ELSE baseline' = setting' /\ UNCHANGED touched
    /\ UNCHANGED <<pac, policy, unit, server, job, lost>>

Apply == (\E c \in Configs : StartApply(c)) \/ WriteUnit \/ WritePac \/ EnableUnit
         \/ AwaitPac \/ WriteUrl \/ WriteUrlTimesOut \/ WriteMode \/ Verify
         \/ Commit \/ ApplyRaises
Undo == UndoUrl \/ UndoMode \/ UndoRefused \/ UndoPac \/ UndoServer \/ UndoUnit
        \/ UndoRaises
Disable == StartDisable \/ RestoreUrl \/ RestoreMode \/ VerifyRestore \/ Release
           \/ StopServer \/ DisablePartial

Next == Apply \/ Undo \/ Disable \/ Crash \/ ServerFlaps \/ SomebodyWrites

Spec == Init /\ [][Next]_vars

-----------------------------------------------------------------------------
(* Properties *)

\* Whatever was killed, refused or timed out before: the settings that will be
\* put back are never a route of FreeNet Hub's (the FOREIGN check and "restore").
RestorePointSafe ==
    policy.enabled => ~ \E s \in Sources : policy.previous = Active(s)

\* A router that says it is off has left exactly the settings the user had, and
\* one that says it is on can be turned off: its URL is still the one in force.
\* Unless somebody else wrote them, or "lost".
ExactSettings ==
    job.pc = "idle" /\ touched = "no" /\ ~lost
        => setting = IF policy.enabled THEN Active(policy.url) ELSE baseline

\* An apply() that fails leaves the PAC file the registered URL stands for, and
\* a route that is off leaves no server.
ServedAsRegistered ==
    job.pc = "idle" /\ ~lost
        => IF policy.enabled THEN pac = policy.url /\ server # "off" ELSE server = "off"

\* A setting somebody else made over a route is not overwritten by a later job;
\* only an edit inside a job's own window is.
NoDriftOverwrite ==
    [][setting # setting' /\ touched' = touched /\ job.pc # "idle"
          => touched # "drift"]_vars
===============================================================================
