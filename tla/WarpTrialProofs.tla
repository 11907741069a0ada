--------------------------- MODULE WarpTrialProofs ---------------------------
(***************************************************************************)
(* For any number of trials: no guard cuts a connection that was confirmed *)
(* before the guard's last check.  The fairness of the specification plays *)
(* no part.                                                                *)
(***************************************************************************)
EXTENDS WarpTrial, TLAPS

GuardStates == {"unborn", "waiting", "kept", "expired", "cutting", "clearing", "refused",
                "failed", "writing", "gone"}

\* A guard that is about to cut under a confirmed session was past its last
\* check when the session was confirmed: the check itself asks for a trial.
CutsAreRaces ==
    \A t \in Tokens : guard[t] = "cutting" /\ session.mode = "WARP" => t \in raced

IInv ==
    /\ guard \in [Tokens -> GuardStates]
    /\ CutsAreRaces

LEMMA Modes ==
  /\ \A m, t : Session(m, t).mode = m
  /\ NoSession.mode = "none"
  BY DEF Session, NoSession

LEMMA InitInv == Init => IInv
  BY DEF Init, IInv, CutsAreRaces, GuardStates

\* Requests, the hub and the user of the machine: only WriteKept confirms.
LEMMA HubStep ==
  ASSUME IInv, Requests \/ HubSteps \/ HubCrash \/ UserConnects \/ UserDisconnects
  PROVE  IInv'
<1>1. CASE WriteKept
  BY <1>1, Modes DEF WriteKept, IInv, CutsAreRaces
<1>2. CASE StartGuard
  <2>1. PICK t \in Tokens : guard' = [guard EXCEPT ![t] = "waiting"]
    BY <1>2 DEF StartGuard
  <2>2. UNCHANGED <<session, raced>>
    BY <1>2 DEF StartGuard
  <2>3. QED
    BY <2>1, <2>2 DEF IInv, CutsAreRaces, GuardStates
<1>3. CASE UNCHANGED <<guard, raced>> /\ (session' = session \/ session'.mode # "WARP")
  BY <1>3 DEF IInv, CutsAreRaces
<1>4. ASSUME Requests \/ HubCrash \/ UserConnects \/ UserDisconnects
      PROVE  UNCHANGED <<guard, raced>> /\ (session' = session \/ session'.mode # "WARP")
  BY <1>4, Modes DEF Requests, HubCrash, UserConnects, UserDisconnects, ConnectFindsExternal,
     ConnectBegins, KeepBegins, DisconnectBegins, DisconnectNothing
<1>5. ASSUME HubSteps, ~WriteKept, ~StartGuard
      PROVE  UNCHANGED <<guard, raced>> /\ (session' = session \/ session'.mode # "WARP")
  <2>1. CASE CliConnect \/ CliConnectFails \/ TraceOff \/ WriteKeep \/ CancelGuard \/ CliDisconnect
    BY <2>1 DEF CliConnect, CliConnectFails, TraceOff, WriteKeep, CancelGuard, CliDisconnect
  <2>2. CASE TraceOn \/ Untrace
    BY <2>2, Modes DEF TraceOn, Untrace
  <2>3. QED
    BY <1>5, <2>1, <2>2 DEF HubSteps
<1>6. QED
  BY <1>1, <1>2, <1>3, <1>4, <1>5

\* A guard that begins to cut has just seen a trial.
LEMMA GuardStep ==
  ASSUME IInv, NEW t \in Tokens, GuardSteps(t)
  PROVE  IInv'
<1>1. UNCHANGED raced /\ (session' = session \/ session'.mode # "WARP")
  BY Modes DEF GuardSteps, GuardKept, GuardExpires, GuardChecks, GuardCuts, GuardFails, GuardLooks, GuardClears
<1>2. PICK x \in GuardStates : guard' = [guard EXCEPT ![t] = x]
  BY DEF GuardSteps, GuardKept, GuardExpires, GuardChecks, GuardCuts, GuardFails, GuardLooks, GuardClears,
     GuardStates
<1>3. guard'[t] = "cutting" => session'.mode # "WARP"
  BY Modes DEF GuardSteps, GuardKept, GuardExpires, GuardChecks, GuardCuts, GuardFails,
     GuardLooks, GuardClears, Current, IInv
<1>4. QED
  BY <1>1, <1>2, <1>3 DEF IInv, CutsAreRaces

LEMMA StepInv == IInv /\ [Next]_vars => IInv'
<1> SUFFICES ASSUME IInv, [Next]_vars PROVE IInv'
  OBVIOUS
<1>1. CASE Requests \/ HubSteps \/ HubCrash \/ UserConnects \/ UserDisconnects
  BY <1>1, HubStep
<1>2. CASE \E t \in Tokens : GuardSteps(t)
  BY <1>2, GuardStep
<1>3. CASE UNCHANGED vars
  BY <1>3 DEF vars, IInv, CutsAreRaces
<1>4. QED
  BY <1>1, <1>2, <1>3 DEF Next

LEMMA Inductive == Spec => []IInv
  BY InitInv, StepInv, PTL DEF Spec

\* Whatever the hub, older guards and the user do, the guard that cuts a
\* confirmed connection had passed trial_is_current() before warp_keep() wrote
\* the session: the race that is left is between those two steps only.
THEOREM ConfirmedAlwaysSurvives == Spec => ConfirmedSurvives
<1>1. IInv /\ [Next]_vars =>
        [\A t \in Tokens :
            guard[t] = "cutting" /\ session.mode = "WARP" /\ link' # link /\ guard' # guard
                => t \in raced]_vars
  BY DEF IInv, CutsAreRaces
<1>2. QED
  BY <1>1, Inductive, PTL DEF Spec, ConfirmedSurvives
==============================================================================
