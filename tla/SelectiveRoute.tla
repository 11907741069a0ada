--------------------------- MODULE SelectiveRoute ---------------------------
(***************************************************************************)
(* Selective domain routing on Windows (app/selective_route_windows.py):   *)
(* enable() and disable() run inside an engine job, one job at a time, and *)
(* move through the PAC file, the policy file, the PAC/CONNECT server and  *)
(* two registry values.  Each action below is the code between two points  *)
(* where the job can be killed, a write can raise, the server can die or   *)
(* somebody else can write the registry.                                   *)
(*                                                                         *)
(* A PAC text is identified with its content-hashed URL; its "via" is the  *)
(* method and proxy host the text does not mention.                        *)
(***************************************************************************)
CONSTANTS Sources,      \* PAC texts the user can ask for, and their URLs
          ForeignUrls,  \* AutoConfigURL values of somebody else (or none at all)
          Vias,         \* (method, proxy host) choices
          Tokens,       \* server tokens: enough for a fresh one to differ
          NoSource, NoVia, NoToken, NoSettings

ASSUME SelectiveAssumption ==
    /\ NoSource \notin Sources
    /\ Sources \cap ForeignUrls = {}
    /\ NoVia \notin Vias
    /\ NoToken \notin Tokens
    /\ NoSettings \notin [url : Sources \cup ForeignUrls, enable : {"zero", "other"}]

VARIABLES registry,   \* the two values of MUTATED_VALUES
          pac,        \* PAC_FILE
          policy,     \* POLICY
          server,     \* the serve() process
          job,        \* the running engine job: its program counter and locals
          \* History, read by properties only:
          baseline,   \* the settings nobody but the user chose
          touched,    \* "no", or how somebody else wrote under the lease
          lost        \* a rollback write was refused and swallowed

vars == <<registry, pac, policy, server, job, baseline, touched, lost>>

Settings == [url : Sources \cup ForeignUrls, enable : {"zero", "other"}]
Own == [url : Sources, enable : {"zero", "other"}]

\* _active_registry: a REG_SZ URL and ProxyEnable as REG_DWORD 0.
Active(s) == [url |-> s, enable |-> "zero"]

Configs == [source : Sources, via : Vias]

Policies == [enabled : BOOLEAN, inFlight : BOOLEAN,
             token : Tokens \cup {NoToken},
             previous : Settings \cup {NoSettings},
             url : Sources \cup {NoSource},
             domains : Sources \cup {NoSource},   \* the text the stored domains make
             via : Vias \cup {NoVia}]

NoPolicy == [enabled |-> FALSE, inFlight |-> FALSE, token |-> NoToken,
             previous |-> NoSettings, url |-> NoSource, domains |-> NoSource,
             via |-> NoVia]

EnableSteps == {"writePac", "writePending", "startService", "awaitService",
                "writeUrl", "writeFlag", "verify", "commit"}
RollbackSteps == {"undoUrl", "undoFlag", "undoPac", "undoServer", "undoPolicy"}
DisableSteps == {"dropServer", "dropPolicy", "restoreUrl", "restoreFlag",
                 "verifyRestore", "release", "stopServer"}

Jobs == [pc : {"idle"} \cup EnableSteps \cup RollbackSteps \cup DisableSteps,
         cfg : Configs \cup {NoSource},
         prev : Policies,
         snap : Settings \cup {NoSettings},
         restore : Settings \cup {NoSettings},
         token : Tokens \cup {NoToken},
         oldPac : Sources \cup {NoSource},
         changed : BOOLEAN]

\* A job that has no locals but the policy it read.
Plain(pc, p) == [pc |-> pc, cfg |-> NoSource, prev |-> p, snap |-> NoSettings,
                 restore |-> NoSettings, token |-> NoToken, oldPac |-> NoSource,
                 changed |-> FALSE]

Idle == Plain("idle", NoPolicy)

TypeOK ==
    /\ registry \in Settings
    /\ pac \in Sources \cup {NoSource}
    /\ policy \in Policies
    /\ server \in {"down", "starting", "up"}
    /\ job \in Jobs
    /\ baseline \in Settings
    /\ touched \in {"no", "drift", "window"}
    /\ lost \in BOOLEAN

Init ==
    /\ registry \in Settings \ Own
    /\ pac = NoSource
    /\ policy = NoPolicy
    /\ server = "down"
    /\ job = Idle
    /\ baseline = registry
    /\ touched = "no"
    /\ lost = FALSE

Leased(p) == p.enabled \/ p.inFlight

\* _health and _bridge_health: both listeners read the token from POLICY.
Answers(token) == server = "up" /\ token # NoToken /\ policy.token = token

\* status()["healthy"]: the PAC it fetches is the one PAC_FILE holds now.
Healthy ==
    /\ policy.enabled /\ ~policy.inFlight
    /\ registry = Active(policy.url)
    /\ Answers(policy.token)
    /\ pac # NoSource

\* do_CONNECT serves a selected host.
BridgeServes ==
    server = "up" /\ policy.enabled /\ ~policy.inFlight /\ policy.token # NoToken

\* What GET /route.pac answers for the registered URL: do_GET compares it with
\* the hash of the file it reads now.
PacServed == server = "up" /\ pac # NoSource /\ pac = registry.url

-----------------------------------------------------------------------------
(* enable() *)

\* Mutants: the drift check skipped; the orphan check skipped.
MayEnableOverDrift(c) ==
    /\ ~policy.inFlight
    /\ ~policy.enabled => registry.url \notin Sources

MayEnableOverOrphan(c) ==
    /\ ~policy.inFlight
    /\ policy.enabled => registry = Active(policy.url)

\* The checks in front of the first write.  The other outcomes raise, or return
\* "unchanged", and change nothing.
MayEnable(c) ==
    /\ ~policy.inFlight
    /\ policy.enabled => registry = Active(policy.url)
    /\ ~policy.enabled => registry.url \notin Sources
    /\ ~(policy.enabled /\ policy.domains = c.source /\ policy.via = c.via /\ Healthy)

\* The local or tailnet SOCKS handshake is the last check; if it fails nothing
\* happens at all.
StartEnable(c) ==
    /\ job.pc = "idle"
    /\ MayEnable(c)
    /\ \E t \in IF policy.enabled THEN {policy.token} ELSE Tokens \ {policy.token} :
         job' = [pc |-> "writePac", cfg |-> c, prev |-> policy, snap |-> registry,
                 restore |-> IF policy.enabled THEN policy.previous ELSE registry,
                 token |-> t, oldPac |-> pac, changed |-> FALSE]
    /\ IF policy.enabled
       THEN UNCHANGED <<baseline, touched, lost>>
       ELSE baseline' = registry /\ touched' = "no" /\ lost' = FALSE
    /\ UNCHANGED <<registry, pac, policy, server>>

Goto(pc) == job' = [job EXCEPT !.pc = pc]

WritePac ==
    /\ job.pc = "writePac"
    /\ pac' = job.cfg.source
    /\ Goto("writePending")
    /\ UNCHANGED <<registry, policy, server, baseline, touched, lost>>

\* Mutants: the pending record not marked inFlight; the restore point taken
\* from the present registry on every enable; the new URL left out of it.
PendingNotInFlight(j) ==
    [j.prev EXCEPT !.token = j.token, !.previous = j.restore,
                   !.url = j.cfg.source, !.via = j.cfg.via]

PendingSelfCapture(j) ==
    [j.prev EXCEPT !.inFlight = TRUE, !.token = j.token, !.previous = j.snap,
                   !.url = j.cfg.source, !.via = j.cfg.via]

PendingOldUrl(j) ==
    [j.prev EXCEPT !.inFlight = TRUE, !.token = j.token, !.previous = j.restore,
                   !.via = j.cfg.via]

\* dict(previous, ...): the stored domains stay the old ones until the commit.
Pending(j) ==
    [j.prev EXCEPT !.inFlight = TRUE, !.token = j.token, !.previous = j.restore,
                   !.url = j.cfg.source, !.via = j.cfg.via]

WritePending ==
    /\ job.pc = "writePending"
    /\ policy' = Pending(job)
    /\ Goto("startService")
    /\ UNCHANGED <<registry, pac, server, baseline, touched, lost>>

\* _start_service returns at once if both listeners answer the token, and
\* otherwise spawns serve(), which comes up (or not) in its own time.
StartService ==
    /\ job.pc = "startService"
    /\ server' = IF server = "down" THEN "starting" ELSE server
    /\ Goto("awaitService")
    /\ UNCHANGED <<registry, pac, policy, baseline, touched, lost>>

AwaitService ==
    /\ job.pc = "awaitService"
    /\ Answers(job.token) /\ pac = job.cfg.source
    /\ Goto("writeUrl")
    /\ UNCHANGED <<registry, pac, policy, server, baseline, touched, lost>>

\* Mutant: "changed" not noted.
WriteUrlUnmarked ==
    /\ job.pc = "writeUrl"
    /\ registry' = [registry EXCEPT !.url = job.cfg.source]
    /\ Goto("writeFlag")
    /\ UNCHANGED <<pac, policy, server, baseline, touched, lost>>

WriteUrl ==
    /\ job.pc = "writeUrl"
    /\ registry' = [registry EXCEPT !.url = job.cfg.source]
    /\ job' = [job EXCEPT !.pc = "writeFlag", !.changed = TRUE]
    /\ UNCHANGED <<pac, policy, server, baseline, touched, lost>>

WriteFlag ==
    /\ job.pc = "writeFlag"
    /\ registry' = [registry EXCEPT !.enable = "zero"]
    /\ Goto("verify")
    /\ UNCHANGED <<pac, policy, server, baseline, touched, lost>>

Verify ==
    /\ job.pc = "verify"
    /\ registry = Active(job.cfg.source)
    /\ Goto("commit")
    /\ UNCHANGED <<registry, pac, policy, server, baseline, touched, lost>>

\* Mutant: the whole request stored where its method and host belong.
CommittedRequest(j) ==
    [enabled |-> TRUE, inFlight |-> FALSE, token |-> j.token, previous |-> j.restore,
     url |-> j.cfg.source, domains |-> j.cfg.source, via |-> j.cfg]

Committed(j) ==
    [enabled |-> TRUE, inFlight |-> FALSE, token |-> j.token, previous |-> j.restore,
     url |-> j.cfg.source, domains |-> j.cfg.source, via |-> j.cfg.via]

Commit ==
    /\ job.pc = "commit"
    /\ policy' = Committed(job)
    /\ job' = Idle
    /\ UNCHANGED <<registry, pac, server, baseline, touched, lost>>

\* Any step of enable() may raise before it has its effect.
EnableRaises ==
    /\ job.pc \in EnableSteps
    /\ Goto(IF job.changed THEN "undoUrl" ELSE "undoPac")
    /\ UNCHANGED <<registry, pac, policy, server, baseline, touched, lost>>

-----------------------------------------------------------------------------
(* The except clause of enable() *)

UndoUrl ==
    /\ job.pc = "undoUrl"
    /\ registry' = [registry EXCEPT !.url = job.snap.url]
    /\ Goto("undoFlag")
    /\ UNCHANGED <<pac, policy, server, baseline, touched, lost>>

UndoFlag ==
    /\ job.pc = "undoFlag"
    /\ registry' = [registry EXCEPT !.enable = job.snap.enable]
    /\ Goto("undoPac")
    /\ UNCHANGED <<pac, policy, server, baseline, touched, lost>>

\* "except Exception: pass": a refused write-back is swallowed.
UndoRefused ==
    /\ job.pc \in {"undoUrl", "undoFlag"}
    /\ lost' = TRUE
    /\ Goto("undoPac")
    /\ UNCHANGED <<registry, pac, policy, server, baseline, touched>>

UndoPac ==
    /\ job.pc = "undoPac"
    /\ pac' = job.oldPac
    /\ Goto(IF job.prev.enabled THEN "undoPolicy" ELSE "undoServer")
    /\ UNCHANGED <<registry, policy, server, baseline, touched, lost>>

\* _stop_service: nothing to do when the listeners do not answer the token; a
\* server that answers may also refuse to go within its three seconds.
Stopped(token) ==
    IF Answers(token) THEN server' \in {"down", "up"} ELSE UNCHANGED server

UndoServer ==
    /\ job.pc = "undoServer"
    /\ Stopped(job.token)
    /\ Goto("undoPolicy")
    /\ UNCHANGED <<registry, pac, policy, baseline, touched, lost>>

UndoPolicy ==
    /\ job.pc = "undoPolicy"
    /\ policy' = job.prev
    /\ job' = Idle
    /\ UNCHANGED <<registry, pac, server, baseline, touched, lost>>

\* A file the handler cannot write ends the job where it is.
RollbackRaises ==
    /\ job.pc \in {"undoPac", "undoPolicy"}
    /\ job' = Idle
    /\ UNCHANGED <<registry, pac, policy, server, baseline, touched, lost>>

-----------------------------------------------------------------------------
(* disable() *)

\* Mutant: the registry put back whatever it holds now.
PutsBackBlindly == TRUE

\* The registry is put back only when it is exactly what enable() wrote.
PutsBack == registry = Active(policy.url)

StartDisable ==
    /\ job.pc = "idle"
    /\ Leased(policy)
    /\ \/ /\ policy.inFlight /\ registry = policy.previous
          /\ job' = Plain("dropServer", policy)
       \/ /\ ~(policy.inFlight /\ registry = policy.previous)
          /\ PutsBack
          /\ job' = Plain("restoreUrl", policy)
    /\ UNCHANGED <<registry, pac, policy, server, baseline, touched, lost>>

Released(p) ==
    [p EXCEPT !.enabled = FALSE, !.inFlight = FALSE, !.previous = NoSettings]

\* The recovery of an enable() interrupted before it wrote the registry.
DropServer ==
    /\ job.pc = "dropServer"
    /\ Stopped(job.prev.token)
    /\ IF Answers(job.prev.token) /\ server' = "up"
       THEN job' = Idle
       ELSE Goto("dropPolicy")
    /\ UNCHANGED <<registry, pac, policy, baseline, touched, lost>>

DropPolicy ==
    /\ job.pc = "dropPolicy"
    /\ policy' = Released(job.prev)
    /\ job' = Idle
    /\ UNCHANGED <<registry, pac, server, baseline, touched, lost>>

RestoreUrl ==
    /\ job.pc = "restoreUrl"
    /\ registry' = [registry EXCEPT !.url = job.prev.previous.url]
    /\ Goto("restoreFlag")
    /\ UNCHANGED <<pac, policy, server, baseline, touched, lost>>

RestoreFlag ==
    /\ job.pc = "restoreFlag"
    /\ registry' = [registry EXCEPT !.enable = job.prev.previous.enable]
    /\ Goto("verifyRestore")
    /\ UNCHANGED <<pac, policy, server, baseline, touched, lost>>

VerifyRestore ==
    /\ job.pc = "verifyRestore"
    /\ registry = job.prev.previous
    /\ Goto("release")
    /\ UNCHANGED <<registry, pac, policy, server, baseline, touched, lost>>

Release ==
    /\ job.pc = "release"
    /\ policy' = Released(job.prev)
    /\ Goto("stopServer")
    /\ UNCHANGED <<registry, pac, server, baseline, touched, lost>>

StopServer ==
    /\ job.pc = "stopServer"
    /\ Stopped(job.prev.token)
    /\ job' = Idle
    /\ UNCHANGED <<registry, pac, policy, baseline, touched, lost>>

\* SELECTIVE_WINDOWS_RESTORE_INCOMPLETE, or the unhandled raise of the recovery.
DisableRaises ==
    /\ job.pc \in {"dropPolicy", "restoreUrl", "restoreFlag", "verifyRestore", "release"}
    /\ job' = Idle
    /\ UNCHANGED <<registry, pac, policy, server, baseline, touched, lost>>

-----------------------------------------------------------------------------
(* The environment *)

\* The job's process is killed (or interrupted: the except clause does not
\* catch KeyboardInterrupt), maybe with the whole machine.
Crash ==
    /\ job.pc # "idle"
    /\ job' = Idle
    /\ server' \in {server, "down"}
    /\ UNCHANGED <<registry, pac, policy, baseline, touched, lost>>

ServerUp ==
    /\ server = "starting"
    /\ server' = "up"
    /\ UNCHANGED <<registry, pac, policy, job, baseline, touched, lost>>

ServerDown ==
    /\ server # "down"
    /\ server' = "down"
    /\ UNCHANGED <<registry, pac, policy, job, baseline, touched, lost>>

\* The user or another VPN writes one or both values.
SomebodyWrites ==
    /\ \E s \in Settings :
         /\ s # registry
         /\ s.url \in ForeignUrls \/ s.url = registry.url
         /\ registry' = s
    /\ IF job.pc # "idle"
       THEN touched' = "window" /\ UNCHANGED baseline
       ELSE IF Leased(policy)
       THEN /\ touched' = IF registry' = Active(policy.url) THEN "window" ELSE "drift"
            /\ UNCHANGED baseline
       ELSE baseline' = registry' /\ UNCHANGED touched
    /\ UNCHANGED <<pac, policy, server, job, lost>>

Enable == (\E c \in Configs : StartEnable(c)) \/ WritePac \/ WritePending
          \/ StartService \/ AwaitService \/ WriteUrl \/ WriteFlag \/ Verify
          \/ Commit \/ EnableRaises
Rollback == UndoUrl \/ UndoFlag \/ UndoRefused \/ UndoPac \/ UndoServer
            \/ UndoPolicy \/ RollbackRaises
Disable == StartDisable \/ DropServer \/ DropPolicy \/ RestoreUrl \/ RestoreFlag
           \/ VerifyRestore \/ Release \/ StopServer \/ DisableRaises
Environment == Crash \/ ServerUp \/ ServerDown \/ SomebodyWrites

Next == Enable \/ Rollback \/ Disable \/ Environment

Spec == Init /\ [][Next]_vars

-----------------------------------------------------------------------------
(* Properties *)

\* What will be put back is never FreeNet Hub's own URL: a restore point taken
\* from an enabled or orphaned registry would make disable() "restore" the dead
\* PAC (enable(), the choice of "restore").
RestorePointForeign == Leased(policy) => policy.previous \in Settings \ Own

\* FreeNet Hub's URL is registered only while POLICY on disk says so and holds
\* the way back, whatever step a job died in; the one exception is the rollback
\* whose refused write enable() swallows.
UrlNeedsLease == registry \in Own /\ ~lost => Leased(policy)

\* After any number of enables, re-enables, failures and crashes, a router that
\* says it is off has left exactly the settings the user had, if nobody else
\* wrote them meanwhile.
ExactRestore ==
    job.pc = "idle" /\ ~Leased(policy) /\ touched = "no" /\ ~lost
        => registry = baseline

\* The CONNECT bridge never pairs one request's domains with another request's
\* provider: POLICY mixes the two while an enable() is under way.
BridgeConsistent == BridgeServes => policy.domains = policy.url

\* A first enable() killed anywhere can be undone by disable(), when the user's
\* ProxyEnable was a plain zero (one write to undo).
FirstEnableRecovers ==
    /\ job.pc = "idle" /\ policy.inFlight /\ ~policy.enabled
    /\ touched = "no" /\ ~lost /\ baseline.enable = "zero"
    => registry \in {policy.previous, Active(policy.url)}

\* A setting somebody else made over an applied route is never overwritten by a
\* later job (WINDOWS_PROXY_DRIFT); only an edit inside a job's own window is.
NoDriftOverwrite ==
    [][registry' # registry /\ touched' = touched /\ job.pc # "idle"
          => touched # "drift"]_vars

\* The promise as an abstract machine.
Lease == INSTANCE ProxyLease WITH
    Settings <- Settings, Own <- Own, NoLease <- NoSettings,
    registry <- registry, faulty <- lost,
    lease <- IF Leased(policy) THEN policy.previous ELSE NoSettings

\* enable() and disable() implement the lease: no write to the registry without
\* a restore point on disk, no release over a registered URL without a fault.
LeaseRefined == Lease!LeaseSpec

\* A status() that says "healthy" means that Windows can fetch the registered PAC.
HealthyMeansServed == job.pc = "idle" /\ Healthy => PacServed

\* An enable() that was interrupted can be recovered by disable().
InterruptedRecovers ==
    job.pc = "idle" /\ policy.inFlight /\ touched = "no" /\ ~lost
        => registry \in {policy.previous, Active(policy.url)}
=============================================================================
