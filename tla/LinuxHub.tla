------------------------------- MODULE LinuxHub -------------------------------
(***************************************************************************)
(* The Linux hub as a whole: the window runs one action at a time in a     *)
(* worker thread, and its full exit runs stop_all() in a thread of its     *)
(* own.  An action starts, tests and stops provider processes that other   *)
(* things rest on: the session file, the selective route and the tailnet   *)
(* share of CFON.  The processes outlive the hub.                          *)
(*                                                                         *)
(* "plan" is what an action still has to try, in order; "stops" is what it *)
(* has to stop before it goes on at "then".  Nodes are told apart only by  *)
(* whether the running one is the selected one; WarpTrial models the       *)
(* system-wide WARP connection, LinuxSelective the route and               *)
(* TailnetGateway the share.                                               *)
(***************************************************************************)
EXTENDS Naturals, Sequences

CONSTANTS WarpOrder,  \* the modes of warp-plus, in the order of WARPPLUS_PORTS
          MayOverlap, \* bound: actions begun while the full exit is at work
          MaxFaults   \* bound: exits, strangers, refusals to die, failed writes,
                      \* kills of the hub

Warps == {WarpOrder[i] : i \in DOMAIN WarpOrder}

ASSUME LinuxHubAssumption ==
    /\ WarpOrder \in Seq({"WARP", "GOOL", "CFON"})
    /\ \A i, j \in DOMAIN WarpOrder : WarpOrder[i] = WarpOrder[j] => i = j
    /\ {"WARP", "CFON"} \subseteq Warps
    /\ MayOverlap \in BOOLEAN
    /\ MaxFaults \in Nat

VARIABLES proc,      \* FreeNet Hub's process of each provider, the newest
          rec,       \* its owner record proves that process
          aliens,    \* providers whose port is somebody else's: a stranger's, or
                     \* that of a process of ours which another one was recorded over
          session,   \* the mode in the session file
          route,     \* "off", or the method the selective route goes through
          drift,     \* the route's settings were written over
          share,     \* CFON is lent to a tailnet peer
          app,       \* "up", "quit" after a full exit, "killed"
          job,       \* the worker threads: "action" and "exit"
          \* History, read by properties only:
          faults,
          stray,     \* processes that outlived a job: it was killed or a write
                     \* of its start failed, or they did not die when told to
          gone,      \* providers that ended by themselves (all of them when
                     \* the hub was killed), or whose session could not be
                     \* cleared when they were stopped, and have none since
          before     \* what ran when the running test began

vars == <<proc, rec, aliens, session, route, drift, share, app, job,
          faults, stray, gone, before>>
procVars == <<proc, rec>>
routeVars == <<route, drift>>
history == <<faults, stray, gone, before>>

Providers == Warps \cup {"NODE", "TOR"}
Modes == Providers \cup {"CUSTOM", "DIRECT"}
Threads == {"action", "exit"}
Kinds == {"connect", "selective", "bench", "benchall", "stop", "single"}
Steps == {"idle", "share", "route", "try", "stop", "launch",
          "spawn", "await", "record", "session", "verify", "reuse", "sites",
          "apply", "bench", "failed", "clear", "end"}

\* The other modes of warp-plus, in order.
Without(m) == LET i == CHOOSE i \in DOMAIN WarpOrder : WarpOrder[i] = m
              IN SubSeq(WarpOrder, 1, i - 1) \o SubSeq(WarpOrder, i + 1, Len(WarpOrder))

Job(kind, plan, pc) == [kind |-> kind, plan |-> plan, pc |-> pc, stops |-> <<>>,
                        then |-> "end", temp |-> FALSE, ok |-> TRUE]
Idle == Job("stop", <<>>, "idle")

TypeOK ==
    /\ proc \in [Providers -> {"none", "starting", "up"}]
    /\ rec \in [Providers -> BOOLEAN]
    /\ \A p \in Providers : rec[p] => proc[p] # "none"
    /\ aliens \subseteq {p \in Providers : proc[p] # "up"}
    /\ session \in Modes \cup {"none"}
    /\ route \in Providers \cup {"off"}
    /\ drift \in BOOLEAN /\ share \in BOOLEAN
    /\ app \in {"up", "quit", "killed"}
    /\ \A t \in Threads :
         /\ job[t].kind \in Kinds /\ job[t].pc \in Steps /\ job[t].then \in Steps
         /\ job[t].plan \in Seq(Modes) /\ job[t].stops \in Seq(Providers)
         /\ job[t].temp \in BOOLEAN /\ job[t].ok \in BOOLEAN
    /\ faults \in 0 .. MaxFaults
    /\ stray \subseteq Providers /\ gone \subseteq Providers /\ before \subseteq Providers

Init ==
    /\ proc = [p \in Providers |-> "none"]
    /\ rec = [p \in Providers |-> FALSE]
    /\ aliens = {}
    /\ session = "none"
    /\ route = "off" /\ drift = FALSE
    /\ share = FALSE
    /\ app = "up"
    /\ job = [t \in Threads |-> Idle]
    /\ faults = 0 /\ stray = {} /\ gone = {} /\ before = {}

-----------------------------------------------------------------------------
(* What the code looks at *)

PortOpen(p) == proc[p] = "up" \/ p \in aliens

Running == {p \in Providers : proc[p] # "none"}

\* The record names a process of ours that listens on the provider's port.
Proven(p) == rec[p] /\ PortOpen(p)

\* What the session calls its method, if a proven process of ours carries it.
ActiveProxy(m) == session = m /\ Proven(m)

\* What start of m stops first.
StopsFor(m) ==
    CASE m = "NODE" -> <<"TOR">> \o WarpOrder
      [] m \in Warps -> Without(m) \o <<"NODE", "TOR">>
      [] OTHER -> <<>>

\* What connect_method stops before it hands over to legacy.connect_mode().
PreStops(j) ==
    CASE j.plan = <<"TOR">>    -> <<"NODE">> \o WarpOrder
      [] j.plan = <<"DIRECT">> -> <<"NODE">> \o WarpOrder \o <<"TOR">>
      [] OTHER -> <<>>

StopAll == <<"NODE">> \o WarpOrder \o <<"TOR">>
AutoPlan == <<"NODE", "CFON", "WARP", "TOR">>
AutoTest == <<"NODE", "WARP", "TOR">>

-----------------------------------------------------------------------------
(* Moves of a worker *)

M(t) == Head(job[t].plan)
At(t, pc) == job[t].pc = pc
Goto(t, pc) == job' = [job EXCEPT ![t].pc = pc]

Stopping(t, s, next) ==
    job' = [job EXCEPT ![t].pc = IF s = <<>> THEN next ELSE "stop",
                       ![t].stops = s, ![t].then = next]

\* The attempt is over: the next of the plan, if there is one.
NextAttempt(j) == IF Len(j.plan) > 1 THEN [j EXCEPT !.plan = Tail(@), !.pc = "try", !.temp = FALSE]
                                     ELSE [j EXCEPT !.pc = "end", !.ok = FALSE]
\* After a node that failed the automatic choice tries another node.
Fail(t) == \/ job' = [job EXCEPT ![t] = NextAttempt(@)]
           \/ M(t) = "NODE" /\ Len(job[t].plan) > 1 /\ Goto(t, "try")

\* An exception ends the action, of a test of all methods the method.
Raised(j) == LET cut == [j EXCEPT !.stops = <<>>] IN
    IF j.kind = "benchall" THEN NextAttempt(cut) ELSE [cut EXCEPT !.pc = "end", !.ok = FALSE]
Raise(t) == job' = [job EXCEPT ![t] = Raised(@)]

Good(t) == CASE job[t].kind = "selective" -> "apply"
             [] job[t].kind \in {"bench", "benchall"} -> "bench"
             [] OTHER -> IF M(t) = "CFON" /\ Len(job[t].plan) > 1 THEN "sites" ELSE "end"

Fault == faults < MaxFaults /\ faults' = faults + 1

-----------------------------------------------------------------------------
(* The window *)

\* run_async: refused while an action runs, not while the exit is at work.
Begin(j) ==
    /\ app = "up"
    /\ At("action", "idle")
    /\ job' = [job EXCEPT !["action"] = j]
    /\ At("exit", "idle") \/ MayOverlap
    /\ UNCHANGED <<procVars, aliens, session, routeVars, share, app, faults, stray, gone>>

\* connect_method: the protected methods, and the automatic choice.
Connect ==
    /\ \E plan \in {<<m>> : m \in Modes} \cup {AutoPlan} :
           Begin(Job("connect", plan, "route"))
    /\ UNCHANGED before

\* selective_connect: refused over a session of another method.
SelectiveConnect ==
    /\ \E m \in Providers :
         /\ session \in {"none", "DIRECT", m}
         /\ Begin(Job("selective", <<m>>,
                      IF session = m THEN "apply" ELSE "route"))
    /\ UNCHANGED before

\* benchmark_method, benchmark_all_methods
Test ==
    /\ \/ \E plan \in {<<m>> : m \in Providers} \cup {AutoTest} :
             Begin(Job("bench", plan, "try"))
       \/ session = "none" /\ Begin(Job("benchall", StopAll, "try"))
    /\ before' = Running

StopPressed == Begin(Job("stop", <<>>, "share")) /\ UNCHANGED before

\* Node Stop, Tor Stop, Tor Direct, the repair of a Tor session
StopOne ==
    /\ \E p \in {"NODE", "TOR"} :
         Begin([Job("single", <<>>, "stop") EXCEPT !.stops = <<p>>])
    /\ UNCHANGED before
StartTor == Begin(Job("single", <<"TOR">>, "try")) /\ UNCHANGED before

\* finish_action
ActionEnds ==
    /\ At("action", "end")
    /\ job' = [job EXCEPT !["action"] = Idle]
    /\ before' = {}
    /\ UNCHANGED <<procVars, aliens, session, routeVars, share, app,
                   faults, stray, gone>>

\* request_full_exit: while an action runs the user is told to ask again.
RequestExit ==
    /\ app = "up"
    /\ At("action", "idle") /\ At("exit", "idle")
    /\ job' = [job EXCEPT !["exit"] = Job("stop", <<>>, "share")]
    /\ UNCHANGED <<procVars, aliens, session, routeVars, share, app, history>>

\* What starts in a hub that ends stays behind.
Cut == proc' = [p \in Providers |-> IF proc[p] = "starting" /\ ~rec[p]
                                    THEN IF p \in aliens THEN "none" ELSE "up"
                                    ELSE proc[p]]

\* Mutant: the window leaves although the cleanup did not pass.
FinishExitAnyway ==
    /\ At("exit", "end")
    /\ job' = [t \in Threads |-> Idle]
    /\ app' = "quit"
    /\ Cut
    /\ before' = {}
    /\ UNCHANGED <<rec, aliens, session, routeVars, share, faults, stray, gone>>

\* _finish_full_exit: quit() takes an unfinished action's thread with it; the
\* console's part of the cleanup may fail as well.
FinishExit ==
    /\ At("exit", "end")
    /\ \/ /\ job["exit"].ok
          /\ job' = [t \in Threads |-> Idle]
          /\ app' = "quit"
          /\ Cut
          /\ before' = {}
       \/ /\ job' = [job EXCEPT !["exit"] = Idle]
          /\ UNCHANGED <<proc, app, before>>
    /\ UNCHANGED <<rec, aliens, session, routeVars, share, faults, stray, gone>>

-----------------------------------------------------------------------------
(* stop_all() down to the route, and connect_method() *)

\* The peer browser, which nothing else looks at, and the share are closed, or
\* the whole call returns an error.
Refuse(t) == job' = [job EXCEPT ![t].pc = "end", ![t].ok = FALSE]

StopShare(t) ==
    /\ At(t, "share")
    /\ \/ share' = FALSE /\ Goto(t, "route")
       \/ Refuse(t) /\ UNCHANGED share
    /\ UNCHANGED <<procVars, aliens, session, routeVars, app, history>>

PastRoute(t) == IF job[t].kind = "stop" THEN Stopping(t, StopAll, "clear")
                                        ELSE Stopping(t, PreStops(job[t]), "try")

\* Mutant: a route that cannot be withdrawn is left behind.
DisableRouteOrNot(t) ==
    /\ At(t, "route")
    /\ IF drift THEN UNCHANGED route ELSE route' = "off"
    /\ PastRoute(t)
    /\ UNCHANGED <<procVars, aliens, session, drift, share, app, history>>

DisableRoute(t) ==
    /\ At(t, "route")
    /\ \/ /\ route = "off" \/ ~drift
          /\ route' = "off"
          /\ PastRoute(t)
       \/ /\ route # "off"
          /\ Refuse(t)
          /\ UNCHANGED route
    /\ UNCHANGED <<procVars, aliens, session, drift, share, app, history>>

\* The end of legacy.stop_all()
ClearSession(t) ==
    /\ At(t, "clear")
    /\ session' = "none"
    /\ Goto(t, "end")
    /\ UNCHANGED <<procVars, aliens, routeVars, share, app, history>>

-----------------------------------------------------------------------------
(* node_stop, _warpplus_stop, stop_tor *)

Stopped(t, ok) ==
    LET j == job[t] IN
    job' = [job EXCEPT ![t].stops = Tail(@), ![t].ok = (@ /\ ok),
                       ![t].pc = IF Len(j.stops) > 1 THEN "stop" ELSE j.then]

\* Mutant: the session keeps the mode that was stopped.
StopOwnedOnly(t) ==
    /\ At(t, "stop")
    /\ LET p == Head(job[t].stops) IN
         /\ rec[p]
         /\ proc' = [proc EXCEPT ![p] = "none"]
         /\ rec' = [rec EXCEPT ![p] = FALSE]
         /\ stray' = stray \ {p}
    /\ Stopped(t, TRUE)
    /\ UNCHANGED <<aliens, session, routeVars, share, app, faults, gone, before>>

\* The process ends, its record goes, and the session if it names the mode.
StopOwned(t) ==
    /\ At(t, "stop")
    /\ LET p == Head(job[t].stops) IN
         /\ rec[p]
         /\ proc' = [proc EXCEPT ![p] = "none"]
         /\ rec' = [rec EXCEPT ![p] = FALSE]
         /\ stray' = stray \ {p}
         /\ session' = IF session = p THEN "none" ELSE session
    /\ Stopped(t, TRUE)
    /\ UNCHANGED <<aliens, routeVars, share, app, faults, gone, before>>

\* The session could not be written when the record was gone already.
StopRaises(t) ==
    /\ At(t, "stop")
    /\ LET p == Head(job[t].stops) IN
         /\ rec[p] /\ session = p
         /\ proc' = [proc EXCEPT ![p] = "none"]
         /\ rec' = [rec EXCEPT ![p] = FALSE]
         /\ stray' = stray \ {p}
         /\ gone' = gone \cup {p}
    /\ Fault
    /\ Raise(t)
    /\ UNCHANGED <<aliens, session, routeVars, share, app, before>>

\* Neither signal ended it in time.
StopTimesOut(t) ==
    /\ At(t, "stop")
    /\ rec[Head(job[t].stops)]
    /\ Fault
    /\ stray' = stray \cup {Head(job[t].stops)}
    /\ Stopped(t, FALSE)
    /\ UNCHANGED <<procVars, aliens, session, routeVars, share, app,
                   gone, before>>

\* An open port that is not proven ours is an error, except for Tor.
StopNotOwned(t) ==
    /\ At(t, "stop")
    /\ LET p == Head(job[t].stops) IN
         /\ ~rec[p]
         /\ Stopped(t, p = "TOR" \/ ~PortOpen(p))
         /\ session' = IF p = "NODE" /\ session = p /\ ~PortOpen(p) THEN "none" ELSE session
    /\ UNCHANGED <<procVars, aliens, routeVars, share, app, history>>

-----------------------------------------------------------------------------
(* node_connect, warpplus_start, start_tor *)

\* The binary is missing or altered, no node is selected, no node answers.
NotReady(t) ==
    /\ At(t, "try")
    /\ Fail(t)
    /\ UNCHANGED <<procVars, aliens, session, routeVars, share, app, history>>

\* Is the method measured through a process of the test's own?  Tor counts as
\* down when its trace fails.
TryTest(t) ==
    /\ At(t, "try") /\ job[t].kind \in {"bench", "benchall"} /\ ~job[t].temp
    /\ LET up == Proven(M(t)) IN
       \/ up /\ Goto(t, "bench")
       \/ (~up \/ M(t) = "TOR") /\ job' = [job EXCEPT ![t].temp = TRUE]
    /\ UNCHANGED <<procVars, aliens, session, routeVars, share, app, history>>

TryProvider(t) ==
    /\ At(t, "try")
    /\ job[t].kind \in {"bench", "benchall"} => job[t].temp
    /\ LET m == M(t) IN
       /\ m \in Providers
       /\ \/ Proven(m) /\ Goto(t, "reuse")
          \/ /\ m = "NODE" /\ rec[m]                \* another node
             /\ Stopping(t, <<m>> \o StopsFor(m), "spawn")
          \/ /\ m # "TOR" /\ ~rec[m] /\ PortOpen(m)  \* FOREIGN_OR_UNPROVEN
             /\ Fail(t)
          \/ /\ m # "TOR" /\ ~PortOpen(m) /\ (m = "NODE" => ~rec[m])
             /\ Stopping(t, StopsFor(m), "spawn")
          \/ m = "TOR" /\ ~Proven(m) /\ Goto(t, "launch")
    /\ UNCHANGED <<procVars, aliens, session, routeVars, share, app, history>>

\* No process of ours: the trace, or a measurement through the user's proxy.
TryPlain(t) ==
    /\ At(t, "try")
    /\ M(t) \in {"CUSTOM", "DIRECT"}
    /\ session' = M(t)
    /\ Goto(t, "end")
    /\ UNCHANGED <<procVars, aliens, routeVars, share, app, history>>

\* It runs already: verified, and kept even if that fails, unless it is Tor.
Reuse(t) ==
    /\ At(t, "reuse")
    /\ LET m == M(t) IN
       \/ /\ Proven(m)
          /\ session' = IF m \in Warps THEN session ELSE m
          /\ Goto(t, Good(t))
       \/ /\ session' = IF m = "NODE" THEN m ELSE session
          /\ IF m = "TOR" THEN Stopping(t, <<m>>, "launch") ELSE Fail(t)
    /\ UNCHANGED <<procVars, aliens, routeVars, share, app, history>>

\* recover_stale_project_listener: Tor without a record is recognised by its
\* executable and its torrc, and stopped.  "ss" may name nobody.
LaunchTor(t) ==
    /\ At(t, "launch")
    /\ \/ Goto(t, "spawn") /\ UNCHANGED <<proc, stray>>
       \/ /\ proc["TOR"] = "up" /\ ~rec["TOR"]
          /\ proc' = [proc EXCEPT !["TOR"] = "none"]
          /\ stray' = stray \ {"TOR"}
          /\ Goto(t, "spawn")
       \/ /\ rec["TOR"] \/ "TOR" \in aliens
          /\ PortOpen("TOR")
          /\ Fail(t)
          /\ UNCHANGED <<proc, stray>>
    /\ UNCHANGED <<rec, aliens, session, routeVars, share, app,
                   faults, gone, before>>

Spawn(t) ==
    /\ At(t, "spawn")
    /\ proc[M(t)] = "none"
    /\ proc' = [proc EXCEPT ![M(t)] = "starting"]
    /\ Goto(t, "await")
    /\ UNCHANGED <<rec, aliens, session, routeVars, share, app, history>>

\* The stop before did not work, and nobody looked: a second process is started
\* beside the first.  It ends, or it is put on record over the first, which keeps
\* the port if it has it; Tor does not come up without it.  One step.
SpawnBeside(t) ==
    /\ At(t, "spawn")
    /\ LET m == M(t) IN
       /\ proc[m] # "none"
       /\ \/ /\ Fail(t) \/ (m = "TOR" /\ Goto(t, "launch"))
             /\ UNCHANGED <<procVars, aliens, stray>>
          \/ /\ m = "TOR" => ~PortOpen(m)
             /\ proc' = [proc EXCEPT ![m] = IF PortOpen(m) THEN "starting" ELSE "up"]
             /\ rec' = [rec EXCEPT ![m] = TRUE]
             /\ aliens' = IF proc[m] = "up" THEN aliens \cup {m} ELSE aliens
             /\ stray' = stray \ {m}
             /\ Goto(t, IF m = "TOR" THEN "verify" ELSE "session")
    /\ UNCHANGED <<session, routeVars, share, app, faults, gone, before>>

\* The port answers, for Tor the log says 100%, and the process is there.
Await(t) ==
    /\ At(t, "await")
    /\ IF M(t) = "TOR" THEN proc["TOR"] = "up" ELSE proc[M(t)] # "none" /\ PortOpen(M(t))
    /\ Goto(t, "record")
    /\ UNCHANGED <<procVars, aliens, session, routeVars, share, app, history>>

\* Mutant: a process that is too slow is left to itself.
AwaitGivesUpOnly(t) ==
    /\ At(t, "await")
    /\ Fail(t)
    /\ UNCHANGED <<procVars, aliens, session, routeVars, share, app, history>>

\* It exited or the time is over; Tor goes on with its next transport.
AwaitGivesUp(t) ==
    /\ At(t, "await")
    /\ proc' = [proc EXCEPT ![M(t)] = "none"]
    /\ Fail(t) \/ (M(t) = "TOR" /\ Goto(t, "launch"))
    /\ UNCHANGED <<rec, aliens, session, routeVars, share, app, history>>

\* Mutant: what is recorded is not looked at.
RecordBlindly(t) ==
    /\ At(t, "record")
    /\ rec' = [rec EXCEPT ![M(t)] = TRUE]
    /\ Goto(t, IF M(t) = "TOR" THEN "verify" ELSE "session")
    /\ UNCHANGED <<proc, aliens, session, routeVars, share, app, history>>

\* identity() of a process that is gone is nothing to record; Tor goes on without.
Record(t) ==
    /\ At(t, "record")
    /\ IF proc[M(t)] = "none"
       THEN /\ IF M(t) = "TOR" THEN Goto(t, "verify") ELSE Fail(t)
            /\ UNCHANGED rec
       ELSE /\ rec' = [rec EXCEPT ![M(t)] = TRUE]
            /\ Goto(t, IF M(t) = "TOR" THEN "verify" ELSE "session")
    /\ UNCHANGED <<proc, aliens, session, routeVars, share, app, history>>

\* For Tor the session is written once it is verified.
SetSession(t) ==
    /\ At(t, "session")
    /\ session' = M(t)
    /\ gone' = IF rec[M(t)] THEN gone \ {M(t)} ELSE gone
    /\ Goto(t, IF M(t) = "TOR" THEN Good(t) ELSE "verify")
    /\ UNCHANGED <<procVars, aliens, routeVars, share, app,
                   faults, stray, before>>

\* A write fails: nobody undoes the start.
StartRaises(t) ==
    /\ job[t].pc \in {"record", "session"}
    /\ Fault
    /\ stray' = stray \cup {M(t)}
    /\ Raise(t)
    /\ UNCHANGED <<procVars, aliens, session, routeVars, share, app,
                   gone, before>>

\* The other writes of the session: by a method that runs already or has no
\* process, by the stop of a node that is gone, at the end of stop_all().
SessionRaises(t) ==
    /\ \/ At(t, "reuse") \/ At(t, "clear")
       \/ At(t, "try") /\ M(t) \in {"CUSTOM", "DIRECT"}
       \/ /\ At(t, "stop") /\ Head(job[t].stops) = "NODE" /\ session = "NODE"
          /\ ~rec["NODE"] /\ ~PortOpen("NODE")
    /\ Fault
    /\ Raise(t)
    /\ UNCHANGED <<procVars, aliens, session, routeVars, share, app,
                   stray, gone, before>>

\* A start that fails ends its process, but does not look at whether it died.
Outlives(t) ==
    /\ \/ At(t, "await") /\ proc[M(t)] # "none"
       \/ At(t, "launch") /\ proc["TOR"] = "up" /\ ~rec["TOR"]
       \/ At(t, "verify") /\ M(t) = "TOR" /\ rec["TOR"]
    /\ Fault
    /\ rec' = [rec EXCEPT ![M(t)] = FALSE]
    /\ stray' = stray \cup {M(t)}
    /\ Fail(t) \/ (M(t) = "TOR" /\ Goto(t, "launch"))
    /\ UNCHANGED <<proc, aliens, session, routeVars, share, app, gone, before>>

VerifyPasses(t) ==
    /\ At(t, "verify")
    /\ rec[M(t)] \/ M(t) = "TOR"
    /\ PortOpen(M(t))
    /\ Goto(t, IF M(t) = "TOR" THEN "session" ELSE Good(t))
    /\ UNCHANGED <<procVars, aliens, session, routeVars, share, app, history>>

VerifyFails(t) ==
    /\ At(t, "verify")
    /\ IF M(t) = "TOR"
       THEN /\ proc' = [proc EXCEPT !["TOR"] = "none"]
            /\ rec' = [rec EXCEPT !["TOR"] = FALSE]
            /\ Fail(t) \/ Goto(t, "launch")
       ELSE /\ Stopping(t, <<M(t)>>, "failed")
            /\ UNCHANGED procVars
    /\ UNCHANGED <<aliens, session, routeVars, share, app, history>>

\* The automatic choice keeps CFON only if it reaches the sites.
Sites(t) ==
    /\ At(t, "sites")
    /\ Goto(t, "end") \/ Stopping(t, <<M(t)>>, "failed")
    /\ UNCHANGED <<procVars, aliens, session, routeVars, share, app, history>>

Failed(t) ==
    /\ At(t, "failed")
    /\ Fail(t)
    /\ UNCHANGED <<procVars, aliens, session, routeVars, share, app, history>>

-----------------------------------------------------------------------------
(* selective_connect and the tests, once the method is up *)

Apply(t) ==
    /\ At(t, "apply")
    /\ LET m == M(t) IN
       \/ /\ ActiveProxy(m)
          /\ ~ (route # "off" /\ drift)
          /\ route' = m /\ drift' = FALSE
          /\ Goto(t, "end")
       \/ /\ Refuse(t)
          /\ UNCHANGED routeVars
    /\ UNCHANGED <<procVars, aliens, session, share, app, history>>

\* Mutant: what was started for the test stays.
MeasureOnly(t) ==
    /\ At(t, "bench")
    /\ \E next \in IF job[t].kind = "bench" THEN {"end", "failed"} ELSE {"failed"} :
         Goto(t, next)
    /\ UNCHANGED <<procVars, aliens, session, routeVars, share, app, history>>

\* The automatic test ends with the first good result; "finally" stops what
\* was started for it.
Measure(t) ==
    /\ At(t, "bench")
    /\ \E next \in IF job[t].kind = "bench" THEN {"end", "failed"} ELSE {"failed"} :
         Stopping(t, IF job[t].temp THEN <<M(t)>> ELSE <<>>, next)
    /\ UNCHANGED <<procVars, aliens, session, routeVars, share, app, history>>

-----------------------------------------------------------------------------
(* Short actions, each within one module's own lock-free call *)

Short == /\ app = "up"
         /\ At("action", "idle")
         /\ At("exit", "idle") \/ MayOverlap
         /\ UNCHANGED <<procVars, aliens, session, app, job, faults, stray, gone, before>>

\* tailnet_start: _owned_cfon() asks for CFON's session, record and port.
ShareStart == /\ Short /\ ~share /\ ActiveProxy("CFON")
              /\ share' = TRUE
              /\ UNCHANGED routeVars

\* tailnet_stop, selective_disable
Undo == /\ Short
        /\ \/ share /\ share' = FALSE /\ UNCHANGED routeVars
           \/ route # "off" /\ ~drift /\ route' = "off" /\ UNCHANGED <<drift, share>>

-----------------------------------------------------------------------------
(* Around the hub *)

Binds(p) ==
    /\ proc[p] = "starting" /\ p \notin aliens
    /\ proc' = [proc EXCEPT ![p] = "up"]
    /\ UNCHANGED <<rec, aliens, session, routeVars, share, app, job, history>>

\* A process whose port is taken ends; others end for reasons of their own.
Exits(p) ==
    /\ proc[p] # "none"
    /\ IF proc[p] = "starting" /\ p \in aliens THEN UNCHANGED faults ELSE Fault
    /\ proc' = [proc EXCEPT ![p] = "none"]
    /\ rec' = [rec EXCEPT ![p] = FALSE]
    /\ gone' = gone \cup {p}
    /\ stray' = stray \ {p}
    /\ UNCHANGED <<aliens, session, routeVars, share, app, job, before>>

StrangerComes(p) ==
    /\ ~PortOpen(p)
    /\ Fault
    /\ aliens' = aliens \cup {p}
    /\ UNCHANGED <<procVars, session, routeVars, share, app, job,
                   stray, gone, before>>

StrangerGoes(p) ==
    /\ p \in aliens
    /\ aliens' = aliens \ {p}
    /\ UNCHANGED <<procVars, session, routeVars, share, app, job, history>>

\* The deadline, or CFON is lost (TailnetGateway).
ShareEnds ==
    /\ share
    /\ share' = FALSE
    /\ UNCHANGED <<procVars, aliens, session, routeVars, app, job, history>>

SomebodyWrites ==
    /\ route # "off"
    /\ drift' = ~drift
    /\ UNCHANGED <<procVars, aliens, session, route, share, app, job, history>>

HubKilled ==
    /\ app = "up"
    /\ Fault
    /\ app' = "killed"
    /\ job' = [t \in Threads |-> Idle]
    /\ Cut
    /\ stray' = stray \cup {p \in Providers : proc[p] # "none" /\ ~rec[p]}
    /\ gone' = Providers
    /\ before' = {}
    /\ UNCHANGED <<rec, aliens, session, routeVars, share>>

HubStarts ==
    /\ app # "up"
    /\ app' = "up"
    /\ UNCHANGED <<procVars, aliens, session, routeVars, share, job, history>>

Window == Connect \/ SelectiveConnect \/ Test \/ StopPressed \/ StopOne \/ StartTor
          \/ ActionEnds \/ RequestExit \/ FinishExit \/ ShareStart \/ Undo

Worker(t) ==
    \/ StopShare(t) \/ DisableRoute(t) \/ ClearSession(t)
    \/ StopOwned(t) \/ StopRaises(t) \/ StopTimesOut(t) \/ StopNotOwned(t)
    \/ NotReady(t) \/ TryTest(t) \/ TryProvider(t) \/ TryPlain(t) \/ Reuse(t)
    \/ LaunchTor(t) \/ Spawn(t) \/ SpawnBeside(t) \/ Await(t) \/ AwaitGivesUp(t)
    \/ Record(t) \/ SetSession(t) \/ StartRaises(t) \/ SessionRaises(t) \/ Outlives(t)
    \/ VerifyPasses(t) \/ VerifyFails(t) \/ Sites(t) \/ Failed(t) \/ Apply(t) \/ Measure(t)

Around == (\E p \in Providers : Binds(p) \/ Exits(p) \/ StrangerComes(p) \/ StrangerGoes(p))
          \/ ShareEnds \/ SomebodyWrites \/ HubKilled \/ HubStarts

Next == Window \/ (\E t \in Threads : Worker(t)) \/ Around

Spec == Init /\ [][Next]_vars

-----------------------------------------------------------------------------
(* Properties *)

\* A connection and a stop take the route off a provider before they take the
\* provider down, and a stop ends the share before CFON.  Nothing is said of Node
\* Stop, Tor Stop and the tests, which end a provider with the route on it.
RouteFirst ==
    [][\A t \in Threads, p \in Providers :
          /\ At(t, "stop") /\ Head(job[t].stops) = p /\ job'[t] # job[t]
          /\ rec[p] /\ ~rec'[p]
          /\ job[t].kind \in {"connect", "selective", "stop"}
          => /\ route # p
             /\ job[t].kind = "stop" => ~share \/ p # "CFON"]_vars

\* Between actions the session names a method that a proven process carries,
\* unless that process ended by itself since, the write that clears the session
\* failed when it was stopped, or the hub was killed.
SessionProven ==
    (\A t \in Threads : At(t, "idle")) /\ session \in Providers
        => rec[session] \/ session \in gone

\* A test leaves running only what ran before it, unless a process would not die
\* or a write of its start failed.
TestLeavesNothing ==
    At("action", "end") /\ job["action"].kind \in {"bench", "benchall"}
        => Running \subseteq before \cup stray

\* The newest process of each provider is on record, or a worker is about to
\* record it, whatever ends an action; unless it would not die when told to, the
\* hub was killed, or the write of the record failed.
NothingUnowned ==
    \A p \in Running \ stray :
        rec[p] \/ \E t \in Threads : job[t].pc \in {"await", "record"} /\ M(t) = p

\* The full exit leaves no process but one that would not die, no route, no share
\* ("the program stayed open to prevent orphans").  With MayOverlap it does leave them: an action
\* begun while the exit is at work is cut off by quit().
ExitLeavesNothing ==
    app = "quit" => Running \subseteq stray /\ route = "off" /\ ~share
===============================================================================
