------------------------------ MODULE WarpTrial ------------------------------
(***************************************************************************)
(* Full-system WARP on Linux.  warp_connect_safe() starts a detached guard *)
(* process (warp_guard.py), then connects; a connection nobody confirms    *)
(* with warp_keep() is a trial that the guard ends when its time is up.    *)
(* Hub and guards share session.json, the keep files and the one system    *)
(* connection that warp-cli switches, which its user may switch too.       *)
(*                                                                         *)
(* Time is left out: a guard's deadline (60 s) and the 15 attempts of up   *)
(* to 9 s each in which the hub looks for warp=on can end in either order. *)
(***************************************************************************)
CONSTANTS Tokens, NoToken

ASSUME TokenAssumption == NoToken \notin Tokens

VARIABLES link,      \* the system connection: "off", or who switched it on
          session,   \* session.json, as far as it speaks of WARP
          keepFile,  \* tokens with a warp_keep_<token>.ok
          guard,     \* the guard processes
          hub,       \* the running hub action
          pending,   \* the token the GUI's Keep button would confirm
          reply,     \* what the last connect told the user
          raced      \* history: guards past their last check when the
                     \* session was confirmed

vars == <<link, session, keepFile, guard, hub, pending, reply, raced>>

Session(mode, t) == [mode |-> mode, token |-> t]

NoSession == Session("none", NoToken)
Hub(pc, t) == [pc |-> pc, token |-> t]
HubIdle == Hub("idle", NoToken)

Init ==
    /\ link \in {"off", "user"}
    /\ session = NoSession
    /\ keepFile = {}
    /\ guard = [t \in Tokens |-> "unborn"]
    /\ hub = HubIdle
    /\ pending = NoToken
    /\ reply = "none"
    /\ raced = {}

\* A trace shows warp=on only through a connection that is on; it may fail
\* even then.
Traced == link # "off"

-----------------------------------------------------------------------------
(* warp_connect_safe() *)

\* A connection that is on and passes the trace is somebody else's.
ConnectFindsExternal ==
    /\ hub.pc = "idle"
    /\ Traced
    /\ session' = Session("WARP_EXTERNAL", NoToken)
    /\ reply' = "none"
    /\ UNCHANGED <<link, keepFile, guard, hub, pending, raced>>

\* Off, or on with a trace that fails just now.
ConnectBegins ==
    /\ hub.pc = "idle"
    /\ hub' = Hub("guard", NoToken)
    /\ reply' = "none"
    /\ UNCHANGED <<link, session, keepFile, guard, pending, raced>>

StartGuard ==
    /\ hub.pc = "guard"
    /\ \E t \in Tokens :
         /\ guard[t] = "unborn"
         /\ guard' = [guard EXCEPT ![t] = "waiting"]
         /\ hub' = Hub("connect", t)
    /\ UNCHANGED <<link, session, keepFile, pending, reply, raced>>

CliConnect ==
    /\ hub.pc = "connect"
    /\ link' = IF link = "off" THEN "hub" ELSE link
    /\ hub' = Hub("trace", hub.token)
    /\ UNCHANGED <<session, keepFile, guard, pending, reply, raced>>

\* It may have connected and answered too late.  The GUI remembers the guard's
\* token whatever else connect answered.
CliConnectFails ==
    /\ \/ hub.pc = "guard" /\ UNCHANGED <<link, pending>>
       \/ /\ hub.pc = "connect"
          /\ link' \in {link, IF link = "off" THEN "hub" ELSE link}
          /\ pending' = hub.token
    /\ hub' = HubIdle
    /\ UNCHANGED <<session, keepFile, guard, reply, raced>>

TraceOn ==
    /\ hub.pc = "trace"
    /\ Traced
    /\ session' = Session("WARP_TRIAL", hub.token)
    /\ pending' = hub.token
    /\ reply' = "trial"
    /\ hub' = HubIdle
    /\ UNCHANGED <<link, keepFile, guard, raced>>

\* All 15 traces failed.
TraceOff ==
    /\ hub.pc = "trace"
    /\ pending' = hub.token
    /\ reply' = "guard will auto-disconnect"
    /\ hub' = HubIdle
    /\ UNCHANGED <<link, session, keepFile, guard, raced>>

-----------------------------------------------------------------------------
(* warp_keep() *)

\* Pressed, and the trace shows warp=on; without that nothing changes.
KeepBegins ==
    /\ hub.pc = "idle"
    /\ pending # NoToken
    /\ Traced
    /\ hub' = Hub("keepFile", pending)
    /\ reply' = "none"
    /\ UNCHANGED <<link, session, keepFile, guard, pending, raced>>

WriteKeep ==
    /\ hub.pc = "keepFile"
    /\ keepFile' = keepFile \cup {hub.token}
    /\ hub' = Hub("keepSession", hub.token)
    /\ UNCHANGED <<link, session, guard, pending, reply, raced>>

WriteKept ==
    /\ hub.pc = "keepSession"
    /\ session' = Session("WARP", hub.token)
    /\ pending' = NoToken
    /\ raced' = {t \in Tokens : guard[t] = "cutting"}
    /\ hub' = HubIdle
    /\ UNCHANGED <<link, keepFile, guard, reply>>

-----------------------------------------------------------------------------
(* warp_disconnect(), as disable_full_system(), connect_mode() for a browser *)
(* method and stop_all() call it                                             *)

OwnedSession == session.mode \in {"WARP", "WARP_TRIAL"}

DisconnectBegins ==
    /\ hub.pc = "idle"
    /\ OwnedSession /\ link # "off"
    /\ hub' = IF session.mode = "WARP_TRIAL" THEN Hub("cancel", session.token)
                                             ELSE Hub("disconnect", NoToken)
    /\ reply' = "none"
    /\ UNCHANGED <<link, session, keepFile, guard, pending, raced>>

\* Nothing to switch off, or warp_status() failed: stop_all() and a browser method
\* still rewrite the session, disable_full_system() one that is owned.
DisconnectNothing ==
    /\ hub.pc = "idle"
    /\ session' = NoSession
    /\ reply' = "none"
    /\ UNCHANGED <<link, keepFile, guard, hub, pending, raced>>

\* The keep file calls the guard of the trial off.
CancelGuard ==
    /\ hub.pc = "cancel"
    /\ keepFile' = keepFile \cup {hub.token}
    /\ hub' = Hub("disconnect", NoToken)
    /\ UNCHANGED <<link, session, guard, pending, reply, raced>>

CliDisconnect ==
    /\ hub.pc = "disconnect"
    /\ link' \in {link, "off"}
    /\ hub' = Hub("untrace", NoToken)
    /\ UNCHANGED <<session, keepFile, guard, pending, reply, raced>>

\* "disconnected"; or "disconnect-unverified", after which disable_full_system()
\* keeps the session and the other callers rewrite it all the same.
Untrace ==
    /\ hub.pc = "untrace"
    /\ \/ session' = NoSession
       \/ UNCHANGED session
    /\ hub' = HubIdle
    /\ UNCHANGED <<link, keepFile, guard, pending, reply, raced>>

HubCrash ==
    /\ hub.pc # "idle"
    /\ hub' = HubIdle
    /\ pending' = NoToken
    /\ UNCHANGED <<link, session, keepFile, guard, reply, raced>>

-----------------------------------------------------------------------------
(* warp_guard.py *)

\* Mutant: the token alone.
CurrentByToken(t) == session.token = t

\* trial_is_current()
Current(t) == session = Session("WARP_TRIAL", t)

GuardKept(t) ==
    /\ guard[t] = "waiting"
    /\ t \in keepFile
    /\ keepFile' = keepFile \ {t}
    /\ guard' = [guard EXCEPT ![t] = "kept"]
    /\ UNCHANGED <<link, session, hub, pending, reply, raced>>

\* The deadline, and the last look for the keep file.
GuardExpires(t) ==
    /\ guard[t] = "waiting"
    /\ t \notin keepFile
    /\ guard' = [guard EXCEPT ![t] = "expired"]
    /\ UNCHANGED <<link, session, keepFile, hub, pending, reply, raced>>

\* STALE_NO_ACTION otherwise.
GuardChecks(t) ==
    /\ guard[t] = "expired"
    /\ guard' = [guard EXCEPT ![t] = IF Current(t) THEN "cutting" ELSE "gone"]
    /\ UNCHANGED <<link, session, keepFile, hub, pending, reply, raced>>

\* Mutant: warp-cli not asked.
GuardCutsNothing(t) ==
    /\ guard[t] = "cutting"
    /\ guard' = [guard EXCEPT ![t] = "clearing"]
    /\ UNCHANGED <<link, session, keepFile, hub, pending, reply, raced>>

GuardCuts(t) ==
    /\ guard[t] = "cutting"
    /\ link' = "off"
    /\ guard' = [guard EXCEPT ![t] = "clearing"]
    /\ UNCHANGED <<session, keepFile, hub, pending, reply, raced>>

\* A return code clears the session all the same; a timeout does not.
GuardFails(t) ==
    /\ guard[t] = "cutting"
    /\ \E after \in {"refused", "failed"} : guard' = [guard EXCEPT ![t] = after]
    /\ UNCHANGED <<link, session, keepFile, hub, pending, reply, raced>>

\* clear_trial_session() looks at the session, and writes it a moment later,
\* whatever it says by then.
GuardLooks(t) ==
    /\ guard[t] \in {"clearing", "refused"}
    /\ guard' = [guard EXCEPT ![t] = IF Current(t) THEN "writing" ELSE "gone"]
    /\ UNCHANGED <<link, session, keepFile, hub, pending, reply, raced>>

GuardClears(t) ==
    /\ guard[t] = "writing"
    /\ session' = NoSession
    /\ guard' = [guard EXCEPT ![t] = "gone"]
    /\ UNCHANGED <<link, keepFile, hub, pending, reply, raced>>

-----------------------------------------------------------------------------
\* The user of the machine, with warp-cli or Cloudflare's own client.
UserConnects ==
    /\ link = "off"
    /\ link' = "user"
    /\ UNCHANGED <<session, keepFile, guard, hub, pending, reply, raced>>

UserDisconnects ==
    /\ link # "off"
    /\ link' = "off"
    /\ UNCHANGED <<session, keepFile, guard, hub, pending, reply, raced>>

\* What the user asks of the hub, and what the hub then does by itself.
Requests == ConnectFindsExternal \/ ConnectBegins \/ KeepBegins
            \/ DisconnectBegins \/ DisconnectNothing
HubSteps == StartGuard \/ CliConnect \/ CliConnectFails \/ TraceOn \/ TraceOff
            \/ WriteKeep \/ WriteKept \/ CancelGuard \/ CliDisconnect \/ Untrace
GuardSteps(t) == GuardKept(t) \/ GuardExpires(t) \/ GuardChecks(t)
                 \/ GuardCuts(t) \/ GuardFails(t) \/ GuardLooks(t) \/ GuardClears(t)

Next ==
    \/ Requests \/ HubSteps \/ HubCrash
    \/ \E t \in Tokens : GuardSteps(t)
    \/ UserConnects \/ UserDisconnects

\* Guards and hub actions go on by themselves; nobody has to press a button.
Fairness == WF_vars(HubSteps) /\ \A t \in Tokens : WF_vars(GuardSteps(t))

Spec == Init /\ [][Next]_vars /\ Fairness

-----------------------------------------------------------------------------
(* Properties *)

\* A confirmed connection is not cut by any guard, its own or an older one,
\* that had not passed its last check before the confirmation.
ConfirmedSurvives ==
    [][\A t \in Tokens :
          guard[t] = "cutting" /\ session.mode = "WARP" /\ link' # link /\ guard' # guard
              => t \in raced]_vars

\* A trial that was marked while its guard waits does not stay on by itself:
\* the guard ends it, unless the user confirms it, calls it off or starts
\* another one before the guard is through, or warp-cli itself fails.
MarkedTrialEnds ==
    \A t \in Tokens :
        (session = Session("WARP_TRIAL", t) /\ guard[t] = "waiting" /\ link = "hub")
            ~> \/ link # "hub"
               \/ guard[t] \in {"kept", "refused", "failed"}
               \/ /\ session # Session("WARP_TRIAL", t)
                  /\ guard[t] \in {"waiting", "expired", "cutting"}

\* What warp_connect_safe() answers when it saw no warp=on.
PromisedDisconnect ==
    (reply = "guard will auto-disconnect" /\ link = "hub")
        ~> (reply # "guard will auto-disconnect" \/ link # "hub")

\* What disable_full_system() says of itself.
ExternalNeverStopped ==
    [][link = "user" /\ link' # link => UNCHANGED hub]_vars
=============================================================================
