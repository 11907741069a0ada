---------------------------- MODULE TailnetGateway ----------------------------
(***************************************************************************)
(* The peer-only share of CFON over the tailnet.  start() writes an owner  *)
(* record and a systemd unit and has systemd run serve(), which lends the  *)
(* CFON listener to one peer until a deadline.  The caller may be killed   *)
(* anywhere, systemd may be too slow, CFON may go away: the server is a    *)
(* process of systemd's and outlives the caller.                           *)
(*                                                                         *)
(* A tick is a minute: longer than a round of the serving loop (1 s) and   *)
(* than a server takes to come up, so no tick passes during either.        *)
(***************************************************************************)
EXTENDS Naturals, FiniteSets

CONSTANTS Peers,        \* tailnet addresses a share may be for
          Nobody,       \* no such address
          Handlers,     \* threads that serve connections
          MaxSessions,  \* MAX_SESSIONS
          Lifetime,     \* limit_minutes
          MaxTime       \* bound on the clock

ASSUME TailnetAssumption ==
    /\ Nobody \notin Peers
    /\ MaxSessions \in Nat \ {0}
    /\ Lifetime \in 1 .. 60
    /\ MaxTime \in Nat

VARIABLES now,      \* the clock, in minutes
          cfon,     \* who listens on CFON's port: "ours", "down", "stranger"
          lost,     \* ticks since CFON was last ours, up to 2
          owner,    \* tailnet_cfon_gateway.json
          unit,     \* the unit file: "none", "foreign", or the peer it serves
          service,  \* the process systemd runs for the unit; "spared" is kept
                    \* for the properties: an undo's systemctl stop was refused
          session,  \* what each handler thread is doing
          free,     \* the value of session_sem
          call      \* the start() or stop() in progress, or how it ended

vars == <<now, cfon, lost, owner, unit, service, session, free, call>>
fileVars == <<owner, unit>>
envVars == <<now, cfon, lost>>
shareVars == <<session, free>>

Record(state, enabled, p, t) ==
    [state |-> state, enabled |-> enabled, peer |-> p, expires |-> t]
NoRecord == Record("absent", FALSE, Nobody, 0)
Off == [pc |-> "off", peer |-> Nobody, deadline |-> 0, spared |-> FALSE]
Process(p) == [Off EXCEPT !.pc = "starting", !.peer = p]
Caller(pc, p, old) == [pc |-> pc, peer |-> p, old |-> old]

StartSteps == {"owner", "unit", "reload", "launch", "poll"}
UndoSteps == {"xstop", "xunit", "xreload", "xowner"}
Idle == {"idle", "started", "failed", "escaped", "killed"}
Bound == service.pc \in {"check", "wait"}
HoldsSlot(h) == session[h] \in {"asking", "dialing", "relaying"}
Serving == service.pc = "wait" \/ \E h \in Handlers : session[h] # "none"

TypeOK ==
    /\ now \in 0 .. MaxTime
    /\ cfon \in {"ours", "down", "stranger"}
    /\ lost \in 0 .. 2
    /\ owner \in [state : {"absent", "bad", "kept"}, enabled : BOOLEAN,
                  peer : Peers \cup {Nobody}, expires : Nat]
    /\ unit \in {"none", "foreign"} \cup Peers
    /\ service \in [pc : {"off", "starting", "loaded", "check", "wait"},
                    peer : Peers \cup {Nobody}, deadline : Nat, spared : BOOLEAN]
    /\ session \in [Handlers -> {"none", "peer", "other", "asking",
                                 "dialing", "relaying"}]
    /\ free \in 0 .. MaxSessions
    /\ call \in [pc : Idle \cup StartSteps \cup UndoSteps \cup {"qstop", "qowner"},
                 peer : Peers \cup {Nobody}, old : {"none", "foreign"} \cup Peers]

Init ==
    /\ now = 0
    /\ cfon = "ours"
    /\ lost = 0
    /\ owner = NoRecord
    /\ unit \in {"none", "foreign"}
    /\ service = Off
    /\ session = [h \in Handlers |-> "none"]
    /\ free = MaxSessions
    /\ call = Caller("idle", Nobody, "none")

-----------------------------------------------------------------------------
(* What the code looks at *)

OwnedCfon == cfon = "ours"

Expired == now >= owner.expires

\* status(): is-active may fail to answer, the port does not.
Active == service.pc # "off" /\ Bound

\* Mutant: a record that is enabled and not expired is not looked at.
MayStartAnyway ==
    /\ owner.state # "bad"
    /\ unit # "foreign"
    /\ ~Bound

MayStart ==
    /\ owner.state # "bad"                      \* _load() raises
    /\ unit # "foreign"                         \* no marker in it
    /\ ~ (owner.enabled /\ ~Expired)
    /\ ~Bound                                   \* _port_open

Return(how) == call' = [call EXCEPT !.pc = how]

\* A call that is over has nothing to go by any more.
Ended(how) == call' = Caller(how, Nobody, "none")

\* The process ends: its port, its threads and its semaphore go with it.
ServiceEnds ==
    /\ service' = Off
    /\ session' = [h \in Handlers |-> "none"]
    /\ free' = MaxSessions

-----------------------------------------------------------------------------
(* start() *)

\* Refusals leave everything as it was.  What tailscale says of the peer
\* (verify_peers) is an outcome like any other: Start need not happen.
Start(p) ==
    /\ call.pc \in Idle
    /\ OwnedCfon
    /\ MayStart
    /\ call' = Caller("owner", p, unit)
    /\ UNCHANGED <<fileVars, service, shareVars, envVars>>

WriteOwner ==
    /\ call.pc = "owner"
    /\ now + Lifetime < MaxTime                 \* bound
    /\ owner' = Record("kept", TRUE, call.peer, now + Lifetime)
    /\ Return("unit")
    /\ UNCHANGED <<unit, service, shareVars, envVars>>

WriteUnit ==
    /\ call.pc = "unit"
    /\ unit' = call.peer
    /\ Return("reload")
    /\ UNCHANGED <<owner, service, shareVars, envVars>>

DaemonReload ==
    /\ call.pc = "reload"
    /\ Return("launch")
    /\ UNCHANGED <<fileVars, service, shareVars, envVars>>

\* systemctl start: of a unit that runs already it does nothing.
Launch ==
    /\ call.pc = "launch"
    /\ service' = IF service.pc = "off"
                  THEN Process(unit)
                  ELSE service
    /\ Return("poll")
    /\ UNCHANGED <<fileVars, shareVars, envVars>>

StartVerified ==
    /\ call.pc = "poll"
    /\ Active
    /\ Ended("started")
    /\ UNCHANGED <<fileVars, service, shareVars, envVars>>

\* A write, systemctl or the five seconds of polling failed.
StartRaises ==
    /\ call.pc \in StartSteps
    /\ Return("xstop")
    /\ UNCHANGED <<fileVars, service, shareVars, envVars>>

\* systemctl start answered too late or with an error after the launch.
LaunchRaises ==
    /\ call.pc = "launch"
    /\ service.pc = "off"
    /\ service' = Process(unit)
    /\ Return("xstop")
    /\ UNCHANGED <<fileVars, shareVars, envVars>>

\* Mutant: the server left running.
UndoStopNothing ==
    /\ call.pc = "xstop"
    /\ Return("xunit")
    /\ UNCHANGED <<fileVars, service, shareVars, envVars>>

UndoStop ==
    /\ call.pc = "xstop"
    /\ ServiceEnds
    /\ Return("xunit")
    /\ UNCHANGED <<fileVars, envVars>>

\* check=False: systemctl exits non-zero, the server stays, the undo goes on.
UndoStopRefused ==
    /\ call.pc = "xstop"
    /\ service' = [service EXCEPT !.spared = service.pc # "off"]
    /\ Return("xunit")
    /\ UNCHANGED <<fileVars, shareVars, envVars>>

\* Neither the timeouts of the handler's systemctl calls nor the errors of its
\* writes are caught.
UndoEscapes ==
    /\ call.pc \in UndoSteps
    /\ Ended("escaped")
    /\ UNCHANGED <<fileVars, service, shareVars, envVars>>

UndoUnit ==
    /\ call.pc = "xunit"
    /\ unit' = call.old
    /\ Return("xreload")
    /\ UNCHANGED <<owner, service, shareVars, envVars>>

UndoReload ==
    /\ call.pc = "xreload"
    /\ Return("xowner")
    /\ UNCHANGED <<fileVars, service, shareVars, envVars>>

\* Where nothing was recorded, {"enabled": false} is written: no "schema".
UndoOwner ==
    /\ call.pc = "xowner"
    /\ owner' = IF owner.state = "absent" THEN [NoRecord EXCEPT !.state = "bad"]
                                          ELSE [owner EXCEPT !.enabled = FALSE]
    /\ Return("failed")
    /\ UNCHANGED <<unit, service, shareVars, envVars>>

-----------------------------------------------------------------------------
(* stop() *)

Stop ==
    /\ call.pc \in Idle
    /\ owner.state = "kept"
    /\ unit # "foreign"
    /\ call' = Caller("qstop", Nobody, unit)
    /\ UNCHANGED <<fileVars, service, shareVars, envVars>>

StopService ==
    /\ call.pc = "qstop"
    /\ ServiceEnds
    /\ Return("qowner")
    /\ UNCHANGED <<fileVars, envVars>>

\* systemctl failed or timed out, or the write did: the record stays enabled.
StopRaises ==
    /\ call.pc \in {"qstop", "qowner"}
    /\ Ended("escaped")
    /\ UNCHANGED <<fileVars, service, shareVars, envVars>>

StopRecords ==
    /\ call.pc = "qowner"
    /\ ~Bound
    /\ owner' = [owner EXCEPT !.enabled = FALSE]
    /\ Ended("idle")
    /\ UNCHANGED <<unit, service, shareVars, envVars>>

\* The app is closed or killed: nothing of the call is undone.
Killed ==
    /\ call.pc \notin Idle
    /\ Ended("killed")
    /\ UNCHANGED <<fileVars, service, shareVars, envVars>>

-----------------------------------------------------------------------------
(* serve() *)

ServeLoads ==
    /\ service.pc = "starting"
    /\ OwnedCfon
    /\ owner.state = "kept" /\ owner.enabled /\ owner.peer = service.peer
    /\ service' = [service EXCEPT !.pc = "loaded",
                     !.deadline = IF owner.expires < now + Lifetime
                                  THEN owner.expires ELSE now + Lifetime]
    /\ UNCHANGED <<fileVars, call, shareVars, envVars>>

ServeBinds ==
    /\ service.pc = "loaded"
    /\ service' = [service EXCEPT !.pc = "check"]
    /\ UNCHANGED <<fileVars, call, shareVars, envVars>>

\* Mutant: CFON verified once, before the loop.
ServeRoundUnchecked ==
    /\ service.pc = "check"
    /\ now < service.deadline
    /\ service' = [service EXCEPT !.pc = "wait"]
    /\ UNCHANGED <<fileVars, call, shareVars, envVars>>

\* One round: the deadline, then CFON, then up to a second in handle_request.
ServeRound ==
    /\ service.pc = "check"
    /\ now < service.deadline /\ OwnedCfon
    /\ service' = [service EXCEPT !.pc = "wait"]
    /\ UNCHANGED <<fileVars, call, shareVars, envVars>>

\* Refused at the start (by verify_peers at any time), or the loop is over.
ServeReturns ==
    /\ \/ service.pc = "starting"
       \/ service.pc = "check" /\ ~ (now < service.deadline /\ OwnedCfon)
    /\ ServiceEnds
    /\ UNCHANGED <<fileVars, call, envVars>>

\* Killed, or RuntimeMaxSec.
ServeDies ==
    /\ service.pc # "off"
    /\ ServiceEnds
    /\ UNCHANGED <<fileVars, call, envVars>>

Accept(h) ==
    /\ service.pc = "wait"
    /\ session[h] = "none"
    /\ \E from \in {"peer", "other"} : session' = [session EXCEPT ![h] = from]
    /\ service' = [service EXCEPT !.pc = "check"]
    /\ UNCHANGED <<fileVars, call, free, envVars>>

NoRequest ==
    /\ service.pc = "wait"
    /\ service' = [service EXCEPT !.pc = "check"]
    /\ UNCHANGED <<fileVars, call, shareVars, envVars>>

-----------------------------------------------------------------------------
(* _Handler and exchange(), in a thread of the server's *)

Admit(h) ==
    /\ session[h] = "peer"
    /\ free > 0
    /\ free' = free - 1
    /\ session' = [session EXCEPT ![h] = "asking"]
    /\ UNCHANGED <<fileVars, service, call, envVars>>

\* Mutant: a slot given back that was never taken.
TurnAwayReleases(h) ==
    /\ session[h] = "other" \/ (session[h] = "peer" /\ free = 0)
    /\ session' = [session EXCEPT ![h] = "none"]
    /\ free' = free + 1
    /\ UNCHANGED <<fileVars, service, call, envVars>>

TurnAway(h) ==
    /\ session[h] = "other" \/ (session[h] = "peer" /\ free = 0)
    /\ session' = [session EXCEPT ![h] = "none"]
    /\ UNCHANGED <<fileVars, service, call, free, envVars>>

ReadRequest(h) ==
    /\ session[h] = "asking"
    /\ session' = [session EXCEPT ![h] = "dialing"]
    /\ UNCHANGED <<fileVars, service, call, free, envVars>>

\* Whoever answers on the port by now.
ConnectUpstream(h) ==
    /\ session[h] = "dialing"
    /\ cfon # "down"
    /\ session' = [session EXCEPT ![h] = "relaying"]
    /\ UNCHANGED <<fileVars, service, call, free, envVars>>

\* Mutant: the slot given back only by a relay that ended.
EndSessionLeaky(h) ==
    /\ HoldsSlot(h)
    /\ session' = [session EXCEPT ![h] = "none"]
    /\ free' = IF session[h] = "relaying" THEN free + 1 ELSE free
    /\ UNCHANGED <<fileVars, service, call, envVars>>

\* Closed, idle, refused or failed: the finally blocks run all the same.
EndSession(h) ==
    /\ HoldsSlot(h)
    /\ session' = [session EXCEPT ![h] = "none"]
    /\ free' = free + 1
    /\ UNCHANGED <<fileVars, service, call, envVars>>

-----------------------------------------------------------------------------
(* Around it *)

\* Mutant: a loop that waits for a request without a timeout.
TickInHandleRequest ==
    /\ now < MaxTime
    /\ service.pc \in {"off", "wait"}
    /\ now' = now + 1
    /\ lost' = IF cfon = "ours" THEN 0 ELSE IF lost < 2 THEN lost + 1 ELSE 2
    /\ UNCHANGED <<cfon, fileVars, call, shareVars, service>>

Tick ==
    /\ now < MaxTime
    /\ service.pc \in {"off", "wait"}
    /\ now' = now + 1
    /\ lost' = IF cfon = "ours" THEN 0 ELSE IF lost < 2 THEN lost + 1 ELSE 2
    /\ service' = IF service.pc = "wait" THEN [service EXCEPT !.pc = "check"]
                                         ELSE service
    /\ UNCHANGED <<cfon, fileVars, call, shareVars>>

CfonChanges ==
    /\ \E c \in {"ours", "down", "stranger"} :
         /\ c # cfon
         /\ cfon' = c
         /\ lost' = IF c = "ours" THEN 0 ELSE lost
    /\ UNCHANGED <<now, fileVars, service, shareVars, call>>

CallStep ==
    \/ \E p \in Peers : Start(p)
    \/ WriteOwner \/ WriteUnit \/ DaemonReload \/ Launch \/ StartVerified
    \/ StartRaises \/ LaunchRaises
    \/ UndoStop \/ UndoStopRefused \/ UndoEscapes \/ UndoUnit \/ UndoReload \/ UndoOwner
    \/ Stop \/ StopService \/ StopRaises \/ StopRecords \/ Killed

ServeStep == ServeLoads \/ ServeBinds \/ ServeRound \/ ServeReturns \/ NoRequest

SessionStep ==
    \E h \in Handlers : \/ Accept(h) \/ Admit(h) \/ TurnAway(h) \/ ReadRequest(h)
                        \/ ConnectUpstream(h) \/ EndSession(h)

Next == CallStep \/ ServeStep \/ ServeDies \/ SessionStep
        \/ Tick \/ CfonChanges

\* Time does not stop (a second in handle_request is part of a minute) and the
\* loop runs; nothing is asked of callers, of CFON or of systemd.
Fairness ==
    /\ SF_vars(Tick)
    /\ WF_vars(ServeLoads \/ ServeBinds \/ ServeRound \/ ServeReturns)

Spec == Init /\ [][Next]_vars /\ Fairness

-----------------------------------------------------------------------------
(* Properties *)

\* Whoever is served is the peer on record and is served no longer than the
\* record says, whatever calls failed, timed out or were killed before.  Only a
\* server that an undo asked systemctl to stop, in vain, may outlive its record
\* and run beside the next one; it too ends at the deadline it started with.
ServesRecorded ==
    Serving => /\ now <= service.deadline
               /\ \/ service.spared
                  \/ /\ owner.state = "kept"
                     /\ owner.peer = service.peer
                     /\ service.deadline <= owner.expires

\* A start() that failed and got to the end of its cleaning up leaves no record
\* that claims a server and the unit file it found; and no server, except one
\* that systemctl was asked to stop and refused to.
FailedStartLeavesNothing ==
    call.pc = "failed" => /\ ~owner.enabled
                          /\ unit = call.old
                          /\ service = Off \/ service.spared

\* Once CFON is gone the share is withdrawn within the next round, so it is
\* not open two ticks later, however busy its sessions are.
LossEndsShare == Bound => lost <= 1

\* Every slot is free or held by a session that is still there.
SlotsMatch ==
    free + Cardinality({h \in Handlers : HoldsSlot(h)}) = MaxSessions

\* Every server ends.
ShareEnds == service.pc # "off" ~> service.pc = "off"
===============================================================================
