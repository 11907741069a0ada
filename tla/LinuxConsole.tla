------------------------------ MODULE LinuxConsole ------------------------------
(***************************************************************************)
(* The hotspot for game consoles of the Linux hub: a NetworkManager        *)
(* profile the hub adds, configures, brings up and takes down.  Profiles   *)
(* are found by name and told apart by uuid: the hub touches only the one  *)
(* whose uuid console.json holds, or the only one of that name that        *)
(* matches, field by field, a console.json written before uuids were       *)
(* recorded.  The user edits profiles as well.                             *)
(*                                                                         *)
(* run() gives up on nmcli after some seconds and calls that a failure,    *)
(* whether or not NetworkManager did what it was asked.  A listing of the  *)
(* names that fails looks like an empty one.                               *)
(***************************************************************************)
EXTENDS Naturals, FiniteSets

CONSTANTS Profiles,  \* uuids
          Devices,   \* wireless devices that are not the uplink
          Keys,      \* passwords of the hotspot
          None,
          MaxEdits   \* bound: edits of the user

ASSUME LinuxConsoleAssumption ==
    /\ None \notin Profiles \cup Devices \cup Keys
    /\ IsFiniteSet(Profiles)
    /\ Devices # {}
    /\ MaxEdits \in Nat

VARIABLES profile,  \* what NetworkManager keeps under each uuid
          up,       \* the profiles that are active
          cfg,      \* console.json
          job,      \* the call in progress
          edits,
          robbed    \* history: the user took away a profile that was just added

vars == <<profile, up, cfg, job, edits, robbed>>
bounds == <<edits, robbed>>

\* A uuid is given once: "unused" ones have no profile yet, "deleted" ones never again.
Unused == [by |-> "nobody", state |-> "unused", set |-> FALSE, dev |-> None, key |-> None]
Deleted == [Unused EXCEPT !.state = "deleted"]
Profile(by, dev, key) == [by |-> by, state |-> "named", set |-> key # None, dev |-> dev, key |-> key]

NoCfg == [is |-> FALSE, uuid |-> None, dev |-> None, key |-> None]
Config(uuid, dev, key) == [is |-> TRUE, uuid |-> uuid, dev |-> dev, key |-> key]

Idle == [kind |-> "none", pc |-> "idle", cfg |-> NoCfg, existing |-> {}, uuid |-> None,
         created |-> FALSE, dev |-> None, key |-> None]

\* Nothing of the hub's, or what an older hub left: a profile and a
\* console.json without its uuid.  The user may have a profile of that name.
Init ==
    /\ \E legacy \in SUBSET Profiles, users \in SUBSET Profiles, d \in Devices, k \in Keys :
         /\ Cardinality(legacy) <= 1 /\ Cardinality(users) <= 1 /\ legacy \cap users = {}
         /\ profile = [u \in Profiles |-> IF u \in legacy THEN Profile("hub", d, k)
                                          ELSE IF u \in users THEN Profile("user", d, None)
                                          ELSE Unused]
         /\ cfg = IF legacy = {} THEN NoCfg ELSE Config(None, d, k)
         /\ up \in SUBSET legacy
    /\ job = Idle
    /\ edits = 0
    /\ robbed = FALSE

Exists(u) == profile[u].state \in {"named", "renamed"}
Named == {u \in Profiles : profile[u].state = "named"}

\* nm_connection_uuids
Listings == {Named, {}}

\* Mutant: whatever carries the hub's name is the hub's.
OwnedByName(c, listed) == IF c.is THEN {c.uuid} \cap listed ELSE listed

\* console_owned_uuid, given what a listing said
Owned(c, listed) == {c.uuid} \cap listed

Goto(pc) == job' = [job EXCEPT !.pc = pc]
End == job' = Idle

-----------------------------------------------------------------------------
(* The three calls *)

\* console_prepare: a device is chosen, console.json is read.
Prepare ==
    /\ job = Idle
    /\ \E d \in Devices :
          job' = [Idle EXCEPT !.kind = "prepare", !.pc = "look", !.cfg = cfg, !.dev = d]
    /\ UNCHANGED <<profile, up, cfg, bounds>>

\* console_start and console_stop: refused, or done, without a console.json.
StartOrStop ==
    /\ job = Idle
    /\ cfg.is
    /\ \E kind \in {"start", "stop"} :
          job' = [Idle EXCEPT !.kind = kind, !.pc = "own", !.cfg = cfg]
    /\ UNCHANGED <<profile, up, cfg, bounds>>

Look ==
    /\ job.pc = "look"
    /\ \E listed \in Listings : job' = [job EXCEPT !.pc = "own", !.existing = listed]
    /\ UNCHANGED <<profile, up, cfg, bounds>>

\* Mutant: a new password every time.
KeyForFresh(c, key) == TRUE

\* The password of a profile that is the hub's is kept; the random one of a new
\* profile is like no other.
KeyFor(c, key) ==
    IF c.is THEN key = c.key
    ELSE key \notin {profile[u].key : u \in Profiles}

\* What follows once u is known to be the hub's, c being console.json.
Use(c, u) ==
    IF job.kind = "stop" THEN job' = [job EXCEPT !.pc = "down", !.uuid = u]
    ELSE \E key \in Keys :
           /\ IF job.kind = "start" THEN key = c.key ELSE KeyFor(c, key)
           /\ job' = [job EXCEPT !.pc = "modify", !.uuid = u, !.key = key,
                                 !.dev = IF job.kind = "start" THEN c.dev ELSE @]

Own ==
    /\ job.pc = "own"
    /\ \E listed \in Listings :
          IF Owned(job.cfg, listed) # {}
          THEN \E u \in Owned(job.cfg, listed) : Use(job.cfg, u)
          ELSE Goto(IF job.kind = "prepare" /\ job.existing = {} THEN "add" ELSE "migrate")
    /\ UNCHANGED <<profile, up, cfg, bounds>>

\* nm_connection_profile against the fields of a console.json
Matches(c, u) ==
    /\ profile[u].set
    /\ profile[u].dev = c.dev
    /\ profile[u].key = c.key

\* migrate_legacy_console_profile: it lists the names again, and refuses
\* unless the profile is proven.
Migrate ==
    /\ job.pc = "migrate"
    /\ \E listed \in Listings :
         \/ /\ job.cfg.uuid # None /\ Owned(job.cfg, listed) # {}
            /\ \E u \in Owned(job.cfg, listed) : Use(job.cfg, u)
            /\ UNCHANGED cfg
         \/ /\ job.cfg.is /\ job.cfg.uuid = None
            /\ \E u \in listed :
                 /\ listed = {u} /\ Matches(job.cfg, u)
                 /\ cfg' = [job.cfg EXCEPT !.uuid = u]
                 /\ Use(cfg', u)
    /\ UNCHANGED <<profile, up, bounds>>

\* CONSOLE_PROFILE_NAME_OCCUPIED_UNOWNED, CONSOLE_PROFILE_NOT_OWNED: the
\* listing, the reading of the profile or the comparison says no.
NotMigrated ==
    /\ job.pc = "migrate"
    /\ End
    /\ UNCHANGED <<profile, up, cfg, bounds>>

-----------------------------------------------------------------------------
(* What they ask of NetworkManager *)

Add ==
    /\ job.pc = "add"
    /\ \/ \E u \in Profiles :
            /\ profile[u] = Unused
            /\ profile' = [profile EXCEPT ![u] = Profile("hub", job.dev, None)]
            /\ Goto("list") \/ End
       \/ End /\ UNCHANGED profile
    /\ UNCHANGED <<up, cfg, bounds>>

\* Exactly one profile is new, or the one that was added is left where it is.
ListNew ==
    /\ job.pc = "list"
    /\ \E listed \in Listings :
          LET new == listed \ job.existing IN
          IF Cardinality(new) # 1 THEN End
          ELSE \E u \in new, key \in Keys :
                 /\ KeyFor(NoCfg, key)
                 /\ job' = [job EXCEPT !.pc = "modify", !.uuid = u, !.key = key, !.created = TRUE]
    /\ UNCHANGED <<profile, up, cfg, bounds>>

\* apply_console_profile_policy
Modify ==
    /\ job.pc = "modify"
    /\ LET u == job.uuid
           failed == IF job.created THEN Goto("delete") ELSE End
       IN \/ /\ Exists(u)
             /\ profile' = [profile EXCEPT ![u].set = TRUE, ![u].dev = job.dev, ![u].key = job.key]
             /\ Goto(IF job.kind = "prepare" THEN "save" ELSE "trace") \/ failed
          \/ failed /\ UNCHANGED profile
    /\ UNCHANGED <<up, cfg, bounds>>

\* The answer is not looked at.
DeleteCreated ==
    /\ job.pc = "delete"
    /\ \/ /\ profile' = [profile EXCEPT ![job.uuid] = Deleted]
          /\ up' = up \ {job.uuid}
       \/ UNCHANGED <<profile, up>>
    /\ End
    /\ UNCHANGED <<cfg, bounds>>

SaveCfg ==
    /\ job.pc = "save"
    /\ cfg' = Config(job.uuid, job.dev, job.key)
    /\ End
    /\ UNCHANGED <<profile, up, bounds>>

\* The trace must show warp=on.
TraceWarp ==
    /\ job.pc = "trace"
    /\ Goto("up") \/ End
    /\ UNCHANGED <<profile, up, cfg, bounds>>

\* A device carries one profile.
Activated(u) == {u} \cup {v \in up : profile[v].dev # profile[u].dev}

Up ==
    /\ job.pc = "up"
    /\ \/ Exists(job.uuid) /\ up' = Activated(job.uuid)
       \/ up' = up
    /\ End
    /\ UNCHANGED <<profile, cfg, bounds>>

Down ==
    /\ job.pc = "down"
    /\ up' \in {up, up \ {job.uuid}}
    /\ End
    /\ UNCHANGED <<profile, cfg, bounds>>

HubStep ==
    \/ Prepare \/ StartOrStop \/ Look \/ Own \/ Migrate \/ NotMigrated
    \/ Add \/ ListNew \/ Modify \/ DeleteCreated \/ SaveCfg \/ TraceWarp \/ Up \/ Down

-----------------------------------------------------------------------------
(* Around them *)

Killed ==
    /\ job # Idle
    /\ End
    /\ UNCHANGED <<profile, up, cfg, bounds>>

\* The user adds a profile of the hub's name, deletes or renames a profile, or
\* brings his own up.
UserEdits ==
    /\ edits < MaxEdits
    /\ edits' = edits + 1
    /\ \E u \in Profiles :
         \/ /\ profile[u] = Unused
            /\ \E d \in Devices : profile' = [profile EXCEPT ![u] = Profile("user", d, None)]
            /\ UNCHANGED <<up, robbed>>
         \/ /\ Exists(u)
            /\ \/ profile' = [profile EXCEPT ![u] = Deleted] /\ up' = up \ {u}
               \/ profile' = [profile EXCEPT ![u].state = "renamed"] /\ up' = up
            /\ robbed' = (robbed \/ (job.pc = "list" /\ profile[u].by = "hub"))
         \/ /\ Exists(u) /\ profile[u].by = "user"
            /\ up' = Activated(u)
            /\ UNCHANGED <<profile, robbed>>
    /\ UNCHANGED <<cfg, job>>

\* The radio goes, the user disconnects.
Drops ==
    /\ \E u \in up : up' = up \ {u}
    /\ UNCHANGED <<profile, cfg, job, bounds>>

Next == HubStep \/ Killed \/ UserEdits \/ Drops

Spec == Init /\ [][Next]_vars

-----------------------------------------------------------------------------
(* Properties *)

\* The hub never changes or deletes a profile of the user's, of whatever name,
\* and neither brings it up nor takes it down, other than by bringing up the hotspot on
\* the same device; through listings that fail, commands that outlive their
\* timeout and edits in between.  The one way around it, the user taking away
\* the very profile a prepare has just added (robbed), ends what is said here.
OthersKept ==
    [][HubStep /\ ~robbed =>
         \A u \in Profiles :
            profile[u].by = "user" =>
               /\ profile'[u] = profile[u]
               /\ u \in up' => u \in up
               /\ u \in up => \/ u \in up'
                             \/ /\ job.pc = "up" /\ job.uuid \in up'
                                /\ profile[job.uuid].dev = profile[u].dev]_vars

\* console_stop finds u, if its queries are answered: by the uuid on record,
\* or as the only profile of its name, equal to an older hub's console.json.
Stoppable(u) ==
    /\ cfg.is
    /\ \/ cfg.uuid = u
       \/ cfg.uuid = None /\ Named = {u} /\ Matches(cfg, u)

\* The one case in which it does not: an older hub's console.json, without a
\* uuid, and a second profile of that name.
Rival(u) == cfg.is /\ cfg.uuid = None /\ Named # {u}

\* A hotspot of the hub's that is up, under its name, can be named and stopped,
\* unless it has a Rival; and console.json holds the password of the profile
\* it names: no failed, killed or repeated prepare comes between them.  Once
\* the user took away the very profile a prepare had just added (robbed), that
\* prepare may record another one as its own, and nothing is said any more.
HotspotKnown ==
    robbed \/ \A u \in Named :
       /\ u \in up /\ profile[u].by = "hub" => Stoppable(u) \/ Rival(u)
       /\ cfg.uuid = u => profile[u].by = "hub" /\ profile[u].key = cfg.key
===============================================================================
