------------------------ MODULE TailnetGatewayProofs ------------------------
(***************************************************************************)
(* For any peers, handlers, number of slots and lifetime of a share: who   *)
(* is served, what a failed start() leaves, how soon the loss of CFON ends *)
(* the share, and that no slot is lost or given back twice.                *)
(*                                                                         *)
(* The argument in short: a loop that runs was loaded from the record on   *)
(* disk, and start() replaces that record only where it is no longer in    *)
(* force, when such a loop has no time left and no session, or is one that *)
(* an undo's systemctl stop failed to end.                                 *)
(***************************************************************************)
EXTENDS TailnetGateway, FiniteSetTheorems, TLAPS

NoSessions == \A h \in Handlers : session[h] = "none"

\* A loop that was loaded from the record on disk, and ends no later than it.
FromRecord ==
    /\ owner.state = "kept" /\ owner.enabled
    /\ owner.peer = service.peer
    /\ service.deadline <= owner.expires

\* A loop whose time is over before its first round.
Spent == service.deadline <= now /\ service.pc # "wait" /\ NoSessions

LoopFromRecord ==
    /\ service.pc \in {"loaded", "check", "wait"} =>
          FromRecord \/ Spent \/ service.spared
    /\ service.pc = "wait" => now < service.deadline
    /\ service.pc = "check" => NoSessions \/ now <= service.deadline
    /\ ~Bound => NoSessions

\* start() is past its checks: the record it will replace is not in force.
Replaces ==
    call.pc = "owner" =>
        /\ ~owner.enabled \/ Expired
        /\ service.pc \in {"off", "starting"} \/ Spent \/ service.spared

\* What the unit file holds at the steps of a call.
UnitOfCall ==
    /\ call.pc \in StartSteps => call.peer \in Peers
    /\ call.pc \in {"reload", "launch", "poll"} => unit = call.peer
    /\ call.pc \in {"xreload", "xowner", "failed"} => unit = call.old

\* Behind a stop that worked no server runs until a start() launches one; the
\* undo goes on behind one that was refused, stop() does not.
Stopped ==
    /\ call.pc \in {"xunit", "xreload", "xowner", "failed"} =>
          service = Off \/ service.spared
    /\ call.pc = "qowner" \/ service.pc = "off" => service = Off
    /\ call.pc = "failed" => ~owner.enabled

LossSeen ==
    /\ cfon = "ours" => lost = 0
    /\ service.pc \in {"loaded", "wait"} => lost = 0
    /\ service.pc = "check" => lost <= 1

Holders == {h \in Handlers : HoldsSlot(h)}

\* SlotsMatch, with what makes Cardinality mean something.
SlotsCounted == IsFiniteSet(Holders) /\ SlotsMatch

IInv ==
    /\ TypeOK
    /\ LoopFromRecord
    /\ Replaces
    /\ UnitOfCall
    /\ Stopped
    /\ LossSeen
    /\ SlotsCounted

-----------------------------------------------------------------------------
(* The slots *)

\* A slot is held by one handler more, one fewer, or the same ones.
LEMMA SlotsStep == TypeOK /\ SlotsCounted /\ [Next]_vars => SlotsCounted'
<1> SUFFICES ASSUME TypeOK, SlotsCounted, [Next]_vars PROVE SlotsCounted'
  OBVIOUS
<1> USE DEF SlotsCounted, SlotsMatch, Holders
<1>t. session \in [Handlers -> {"none", "peer", "other", "asking", "dialing", "relaying"}]
      /\ free \in Nat /\ MaxSessions \in Nat
  BY TailnetAssumption DEF TypeOK
<1>1. CASE UNCHANGED shareVars
  BY <1>1 DEF shareVars, HoldsSlot
<1>2. CASE ServiceEnds
  <2>1. Holders' = {}
    BY <1>2 DEF ServiceEnds, HoldsSlot
  <2>2. IsFiniteSet({}) /\ Cardinality({}) = 0
    BY FS_EmptySet
  <2>3. QED
    BY <1>2, <1>t, <2>1, <2>2 DEF ServiceEnds
<1>3. ASSUME NEW h \in Handlers, Admit(h) PROVE SlotsCounted'
  <2>1. Holders' = Holders \cup {h} /\ h \notin Holders
    BY <1>3, <1>t DEF Admit, HoldsSlot
  <2>2. IsFiniteSet(Holders') /\ Cardinality(Holders') = Cardinality(Holders) + 1
    BY <2>1, FS_AddElement
  <2>3. Cardinality(Holders) \in Nat
    BY FS_CardinalityType
  <2>4. QED
    BY <1>3, <1>t, <2>2, <2>3 DEF Admit
<1>4. ASSUME NEW h \in Handlers, EndSession(h) PROVE SlotsCounted'
  <2>1. Holders' = Holders \ {h} /\ h \in Holders
    BY <1>4, <1>t DEF EndSession, HoldsSlot
  <2>2. IsFiniteSet(Holders') /\ Cardinality(Holders') = Cardinality(Holders) - 1
    BY <2>1, FS_RemoveElement
  <2>3. Cardinality(Holders) \in Nat
    BY FS_CardinalityType
  <2>4. QED
    BY <1>4, <1>t, <2>2, <2>3 DEF EndSession
<1>5. ASSUME NEW h \in Handlers,
             Accept(h) \/ TurnAway(h) \/ ReadRequest(h) \/ ConnectUpstream(h)
      PROVE  SlotsCounted'
  <2>1. Holders' = Holders /\ free' = free
    BY <1>5, <1>t DEF Accept, TurnAway, ReadRequest, ConnectUpstream, HoldsSlot
  <2>2. QED
    BY <2>1
<1>6. CASE CallStep
  <2>1. ServiceEnds \/ UNCHANGED shareVars
    BY <1>6 DEF CallStep, Start, WriteOwner, WriteUnit, DaemonReload, Launch, StartVerified,
                StartRaises, LaunchRaises, UndoStop, UndoStopRefused, UndoEscapes, UndoUnit, UndoReload,
                UndoOwner, Stop, StopService, StopRaises, StopRecords, Killed
  <2>2. QED
    BY <1>1, <1>2, <2>1
<1>7. CASE ServeStep \/ ServeDies \/ Tick \/ CfonChanges \/ UNCHANGED vars
  <2>1. ServiceEnds \/ UNCHANGED shareVars
    BY <1>7 DEF ServeStep, ServeLoads, ServeBinds, ServeRound, ServeReturns, NoRequest,
                ServeDies, Tick, CfonChanges, vars, shareVars
  <2>2. QED
    BY <1>1, <1>2, <2>1
<1>8. QED
  BY <1>3, <1>4, <1>5, <1>6, <1>7 DEF Next, SessionStep

\* A handler that holds a slot makes the semaphore short of it.
LEMMA HeldSlotIsTaken ==
  ASSUME TypeOK, SlotsCounted, NEW h \in Handlers, HoldsSlot(h)
  PROVE  free < MaxSessions
<1>1. h \in Holders
  BY DEF Holders
<1>2. Cardinality(Holders) # 0 /\ Cardinality(Holders) \in Nat
  BY <1>1, FS_EmptySet, FS_CardinalityType DEF SlotsCounted
<1>3. QED
  BY <1>2, TailnetAssumption DEF SlotsCounted, SlotsMatch, Holders, TypeOK

-----------------------------------------------------------------------------
(* The rest of the invariant *)

Control == TypeOK /\ LoopFromRecord /\ Replaces /\ UnitOfCall /\ Stopped /\ LossSeen

LEMMA InitInv == Init => IInv
<1> SUFFICES ASSUME Init PROVE IInv
  OBVIOUS
<1> USE TailnetAssumption DEF Init, Off, Caller, NoRecord, Record, Idle, StartSteps, UndoSteps
<1>1. TypeOK
  BY DEF TypeOK
<1>2. LoopFromRecord /\ Replaces /\ UnitOfCall /\ Stopped /\ LossSeen
  BY DEF LoopFromRecord, Replaces, UnitOfCall, Stopped, LossSeen, NoSessions, Bound
<1>3. SlotsCounted
  <2>1. Holders = {}
    BY DEF Holders, HoldsSlot
  <2>2. IsFiniteSet(Holders) /\ Cardinality(Holders) = 0
    BY <2>1, FS_EmptySet
  <2>3. free + Cardinality(Holders) = MaxSessions
    BY <2>2
  <2>4. QED
    BY <2>2, <2>3 DEF SlotsCounted, SlotsMatch, Holders
<1>4. QED
  BY <1>1, <1>2, <1>3 DEF IInv

LEMMA ControlStep == IInv /\ [Next]_vars => Control'
<1> SUFFICES ASSUME IInv, [Next]_vars PROVE Control'
  OBVIOUS
<1> USE TailnetAssumption
    DEF IInv, Control, TypeOK, LoopFromRecord, Replaces, UnitOfCall, Stopped, LossSeen,
        NoSessions, FromRecord, Spent, Bound, Expired, Off, Idle, StartSteps, UndoSteps,
        Return, Ended, Caller, Record, NoRecord, Process, ServiceEnds, fileVars, envVars, shareVars
<1>1. ASSUME NEW p \in Peers, Start(p) PROVE Control'
  BY <1>1 DEF Start, MayStart, OwnedCfon
<1>2. CASE WriteOwner
  BY <1>2 DEF WriteOwner
<1>3. CASE WriteUnit
  BY <1>3 DEF WriteUnit
<1>4. CASE DaemonReload
  BY <1>4 DEF DaemonReload
<1>5. CASE Launch
  <2>1. CASE service.pc = "off"
    <3>1. service' = [pc |-> "starting", peer |-> unit, deadline |-> 0, spared |-> FALSE]
      BY <1>5, <2>1 DEF Launch, Process
    <3>0. unit \in Peers
      BY <1>5 DEF Launch
    <3>2. /\ service'.pc = "starting" /\ service'.spared = FALSE
          /\ service' \in [pc : {"off", "starting", "loaded", "check", "wait"},
                           peer : Peers \cup {Nobody}, deadline : Nat, spared : BOOLEAN]
      BY <3>0, <3>1
    <3>3. QED
      BY <1>5, <2>1, <3>0, <3>2 DEF Launch
  <2>2. CASE service.pc # "off"
    BY <1>5, <2>2 DEF Launch
  <2>3. QED
    BY <2>1, <2>2
<1>6. CASE StartVerified
  BY <1>6 DEF StartVerified, Active
<1>7. CASE StartRaises
  BY <1>7 DEF StartRaises
<1>8. CASE LaunchRaises
  BY <1>8 DEF LaunchRaises
<1>9. CASE UndoStop
  BY <1>9 DEF UndoStop
<1>10. CASE UndoEscapes
  BY <1>10 DEF UndoEscapes
<1>11. CASE UndoUnit
  BY <1>11 DEF UndoUnit
<1>12. CASE UndoReload
  BY <1>12 DEF UndoReload
<1>13. CASE UndoOwner
  <2>1. /\ owner' \in [state : {"absent", "bad", "kept"}, enabled : BOOLEAN,
                      peer : Peers \cup {Nobody}, expires : Nat]
        /\ owner'.enabled = FALSE
    BY <1>13 DEF UndoOwner
  <2>2. QED
    BY <1>13, <2>1 DEF UndoOwner
<1>14. CASE Stop
  BY <1>14 DEF Stop
<1>15. CASE StopService
  BY <1>15 DEF StopService
<1>16. CASE StopRaises
  BY <1>16 DEF StopRaises
<1>17. CASE StopRecords
  <2>1. owner' \in [state : {"absent", "bad", "kept"}, enabled : BOOLEAN,
                   peer : Peers \cup {Nobody}, expires : Nat]
    BY <1>17 DEF StopRecords
  <2>2. QED
    BY <1>17, <2>1 DEF StopRecords
<1>18. CASE Killed
  BY <1>18 DEF Killed
<1>19. CASE ServeLoads
  <2> DEFINE d == IF owner.expires < now + Lifetime THEN owner.expires ELSE now + Lifetime
  <2>0. owner.expires \in Nat /\ d \in Nat /\ d <= owner.expires
    OBVIOUS
  <2>a. service' = [service EXCEPT !.pc = "loaded", !.deadline = d]
    BY <1>19 DEF ServeLoads
  <2> HIDE DEF d
  <2>1. /\ service'.pc = "loaded" /\ service'.peer = service.peer
        /\ service'.deadline \in Nat /\ service'.deadline <= owner.expires
        /\ service' \in [pc : {"off", "starting", "loaded", "check", "wait"},
                         peer : Peers \cup {Nobody}, deadline : Nat, spared : BOOLEAN]
    BY <2>0, <2>a
  <2>2. QED
    BY <1>19, <2>1 DEF ServeLoads, OwnedCfon
<1>20. CASE ServeBinds
  BY <1>20 DEF ServeBinds
<1>21. CASE ServeRound
  BY <1>21 DEF ServeRound, OwnedCfon
<1>22. CASE ServeReturns
  BY <1>22 DEF ServeReturns, OwnedCfon
<1>23. CASE NoRequest
  BY <1>23 DEF NoRequest
<1>24. CASE ServeDies
  BY <1>24 DEF ServeDies
<1>25. CASE Tick
  <2>1. CASE service.pc = "wait"
    BY <1>25, <2>1 DEF Tick
  <2>2. CASE service.pc = "off"
    BY <1>25, <2>2 DEF Tick
  <2>3. QED
    BY <1>25, <2>1, <2>2 DEF Tick
<1>26. CASE CfonChanges
  BY <1>26 DEF CfonChanges
<1>28. ASSUME NEW h \in Handlers, Accept(h) PROVE Control'
  BY <1>28 DEF Accept
<1>29. ASSUME NEW h \in Handlers, Admit(h) PROVE Control'
  BY <1>29 DEF Admit
<1>30. ASSUME NEW h \in Handlers, TurnAway(h) PROVE Control'
  BY <1>30 DEF TurnAway
<1>31. ASSUME NEW h \in Handlers, ReadRequest(h) PROVE Control'
  BY <1>31 DEF ReadRequest
<1>32. ASSUME NEW h \in Handlers, ConnectUpstream(h) PROVE Control'
  BY <1>32 DEF ConnectUpstream
<1>33. ASSUME NEW h \in Handlers, EndSession(h) PROVE Control'
  BY <1>33, HeldSlotIsTaken DEF EndSession, HoldsSlot
<1>34. CASE UNCHANGED vars
  BY <1>34 DEF vars
<1>35. CASE UndoStopRefused
  <2>1. CASE service.pc = "off"
    <3>1. service = Off /\ service' = service
      BY <1>35, <2>1 DEF UndoStopRefused
    <3>2. QED
      BY <1>35, <3>1 DEF UndoStopRefused
  <2>2. CASE service.pc # "off"
    <3>1. service' = [service EXCEPT !.spared = TRUE]
      BY <1>35, <2>2 DEF UndoStopRefused
    <3>2. /\ service'.pc = service.pc /\ service'.peer = service.peer
          /\ service'.deadline = service.deadline /\ service'.spared = TRUE
          /\ service' \in [pc : {"off", "starting", "loaded", "check", "wait"},
                           peer : Peers \cup {Nobody}, deadline : Nat, spared : BOOLEAN]
      BY <3>1
    <3>3. QED
      BY <1>35, <2>2, <3>2 DEF UndoStopRefused
  <2>3. QED
    BY <2>1, <2>2
<1>36. QED
  BY <1>35, <1>1, <1>2, <1>3, <1>4, <1>5, <1>6, <1>7, <1>8, <1>9, <1>10, <1>11, <1>12, <1>13, <1>14, <1>15, <1>16, <1>17, <1>18, <1>19, <1>20, <1>21, <1>22, <1>23, <1>24, <1>25, <1>26, <1>28, <1>29, <1>30, <1>31, <1>32, <1>33, <1>34
     DEF Next, CallStep, ServeStep, SessionStep

LEMMA InductiveStep == IInv /\ [Next]_vars => IInv'
  BY ControlStep, SlotsStep DEF IInv, Control

-----------------------------------------------------------------------------

\* Every variable of the share keeps its type; in particular no release of the
\* semaphore in a finally block raises it over MAX_SESSIONS.
THEOREM ShareTypeCorrect == Spec => []TypeOK
<1>1. IInv => TypeOK
  BY DEF IInv
<1>2. QED
  BY InitInv, InductiveStep, <1>1, PTL DEF Spec

\* serve() serves nobody past its deadline, and nobody but the peer on record
\* unless an undo's systemctl stop was refused, whatever start() and stop()
\* calls failed or were killed.
THEOREM OnlyRecordedServed == Spec => []ServesRecorded
<1>1. IInv => ServesRecorded
  BY TailnetAssumption
     DEF IInv, TypeOK, LoopFromRecord, FromRecord, Spent, NoSessions, ServesRecorded,
         Serving, Bound
<1>2. QED
  BY InitInv, InductiveStep, <1>1, PTL DEF Spec

\* The except clause of start(), where it gets to its end, leaves no enabled
\* record and the unit file it found, and no server but one that systemctl
\* refused to stop.
THEOREM FailedStartUndone == Spec => []FailedStartLeavesNothing
<1>1. IInv => FailedStartLeavesNothing
  BY DEF IInv, UnitOfCall, Stopped, FailedStartLeavesNothing
<1>2. QED
  BY InitInv, InductiveStep, <1>1, PTL DEF Spec

\* The loop of serve() notices within a round that CFON is gone.
THEOREM LossAlwaysEndsShare == Spec => []LossEndsShare
<1>1. IInv => LossEndsShare
  BY DEF IInv, TypeOK, LossSeen, LossEndsShare, Bound
<1>2. QED
  BY InitInv, InductiveStep, <1>1, PTL DEF Spec

\* session_sem and the handlers agree for any number of handlers and slots.
THEOREM SlotsAlwaysMatch == Spec => []SlotsMatch
<1>1. IInv => SlotsMatch
  BY DEF IInv, SlotsCounted
<1>2. QED
  BY InitInv, InductiveStep, <1>1, PTL DEF Spec
=============================================================================
