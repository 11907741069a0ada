--------------------------- MODULE LinuxConsoleProofs ---------------------------
(***************************************************************************)
(* For any finite set of uuids and any devices, passwords and number of    *)
(* edits: the hub leaves the user's profiles alone, and a hotspot of its   *)
(* own that is up can be named by console.json, and so be stopped.         *)
(***************************************************************************)
EXTENDS LinuxConsole, FiniteSetTheorems, TLAPS

Steps == {"idle", "look", "own", "migrate", "add", "list", "modify", "delete", "save",
          "trace", "up", "down"}
Settled == {"modify", "delete", "save", "trace", "up", "down"}

Entries == [by : {"nobody", "hub", "user"}, state : {"unused", "named", "renamed", "deleted"},
            set : BOOLEAN, dev : Devices \cup {None}, key : Keys \cup {None}]
Configs == [is : BOOLEAN, uuid : Profiles \cup {None}, dev : Devices \cup {None},
            key : Keys \cup {None}]
Jobs == [kind : {"none", "prepare", "start", "stop"}, pc : Steps, cfg : Configs,
         existing : SUBSET Profiles, uuid : Profiles \cup {None}, created : BOOLEAN,
         dev : Devices \cup {None}, key : Keys \cup {None}]

Types ==
    /\ profile \in [Profiles -> Entries]
    /\ \A u \in Profiles : Exists(u) => profile[u].by # "nobody"
    /\ up \subseteq {u \in Profiles : Exists(u)}
    /\ cfg \in Configs
    /\ job \in Jobs
    /\ robbed \in BOOLEAN

\* What each step of a call knows, whatever the user does.
Flow ==
    /\ cfg.uuid \in Profiles => cfg.is
    /\ job.pc \in {"look", "own", "migrate", "add", "list"} => job.cfg = cfg /\ ~job.created
    /\ job.pc \in {"add", "list"} => job.kind = "prepare" /\ job.existing = {}
    /\ job.pc \in Settled => job.uuid \in Profiles
    /\ job.pc \in {"trace", "up", "down"} => ~job.created
    /\ job.pc = "delete" => job.created
    /\ job.pc \in Settled /\ ~job.created =>
         /\ job.uuid = cfg.uuid
         /\ job.pc # "down" => job.key = cfg.key
    /\ job.created => job.kind = "prepare"

\* console.json names no profile of the user's, and every hotspot of the hub's
\* that is up.
Known ==
    /\ \A u \in Profiles : profile[u].by = "user" => ~profile[u].set
    /\ cfg.uuid \in Profiles => /\ profile[cfg.uuid].state # "unused"
                                /\ profile[cfg.uuid].by # "user"
    /\ \A u \in Named :
         /\ u \in up /\ profile[u].by = "hub" =>
              /\ cfg.is
              /\ cfg.uuid \in {u, None}
              /\ cfg.uuid = None => Matches(cfg, u)
         /\ cfg.uuid = u => profile[u].by = "hub" /\ profile[u].key = cfg.key

\* A prepare that has added a profile looks for it, and then knows it as the
\* only one of that name that is not the user's.
Added ==
    /\ job.pc = "list" =>
         \E u \in Named : profile[u].by = "hub" /\ u # cfg.uuid /\ u \notin up
    /\ job.pc \in Settled /\ job.created =>
         /\ job.uuid # cfg.uuid /\ job.uuid \notin up
         /\ profile[job.uuid].state # "unused" /\ profile[job.uuid].by # "user"
         /\ job.uuid \in Named => profile[job.uuid].by = "hub"
         /\ job.pc = "save" /\ job.uuid \in Named => profile[job.uuid].key = job.key
         /\ \A v \in Named \ {job.uuid} : profile[v].by = "user"

IInv == Types /\ Flow /\ (~robbed => Known /\ Added)

-----------------------------------------------------------------------------
(* The shapes of what the calls write *)

LEMMA ProfileFields ==
  ASSUME NEW by \in {"hub", "user"}, NEW dev \in Devices \cup {None},
         NEW key \in Keys \cup {None}
  PROVE  /\ Profile(by, dev, key) \in Entries
         /\ Profile(by, dev, key).by = by /\ Profile(by, dev, key).state = "named"
         /\ Profile(by, dev, key).key = key /\ Profile(by, dev, key).dev = dev
         /\ (Profile(by, dev, key).set <=> key # None)
  BY DEF Profile, Entries

LEMMA EntryFields ==
  /\ Unused \in Entries /\ Unused.state = "unused" /\ Unused.by = "nobody" /\ ~Unused.set
  /\ Deleted \in Entries /\ Deleted.state = "deleted" /\ Deleted.by = "nobody" /\ ~Deleted.set
  BY DEF Unused, Deleted, Entries

LEMMA ConfigFields ==
  /\ NoCfg \in Configs /\ NoCfg.uuid = None /\ ~NoCfg.is
  /\ \A u \in Profiles \cup {None}, d \in Devices \cup {None}, k \in Keys \cup {None} :
        /\ Config(u, d, k) \in Configs
        /\ Config(u, d, k).is /\ Config(u, d, k).uuid = u /\ Config(u, d, k).key = k
        /\ Config(u, d, k).dev = d
  BY DEF NoCfg, Config, Configs

LEMMA IdleFields ==
  Idle \in Jobs /\ Idle.pc = "idle" /\ ~Idle.created /\ Idle.kind = "none" /\ Idle.existing = {}
  BY ConfigFields DEF Idle, Jobs, Steps

LEMMA Goes ==
  ASSUME job \in Jobs, NEW x \in Steps, Goto(x)
  PROVE  /\ job' \in Jobs /\ job'.pc = x
         /\ job'.kind = job.kind /\ job'.cfg = job.cfg /\ job'.existing = job.existing
         /\ job'.uuid = job.uuid /\ job'.created = job.created /\ job'.dev = job.dev
         /\ job'.key = job.key
  BY DEF Goto, Jobs

\* What a call that has found its profile goes on with.
LEMMA Uses ==
  ASSUME job \in Jobs, NEW c \in Configs, c.is, NEW u \in Profiles, Use(c, u)
  PROVE  /\ job' \in Jobs /\ job'.pc \in {"modify", "down"}
         /\ job'.kind = job.kind /\ job'.created = job.created /\ job'.uuid = u
         /\ job'.pc # "down" => job'.key = c.key
<1>1. CASE job.kind = "stop"
  BY <1>1 DEF Use, Jobs, Steps
<1>2. CASE job.kind # "stop"
  <2>1. PICK key \in Keys :
          /\ IF job.kind = "start" THEN key = c.key ELSE KeyFor(c, key)
          /\ job' = [job EXCEPT !.pc = "modify", !.uuid = u, !.key = key,
                                !.dev = IF job.kind = "start" THEN c.dev ELSE @]
    BY <1>2 DEF Use
  <2>2. key = c.key
    BY <2>1 DEF KeyFor
  <2>3. c.dev \in Devices \cup {None}
    BY DEF Configs
  <2>4. QED
    BY <2>1, <2>2, <2>3 DEF Jobs, Steps
<1>3. QED
  BY <1>1, <1>2

LEMMA OnlyOne ==
  ASSUME NEW S \in SUBSET Profiles, Cardinality(S) = 1, NEW x \in S, NEW y \in S
  PROVE  x = y
<1>1. IsFiniteSet(S)
  BY LinuxConsoleAssumption, FS_Subset
<1>2. PICK z : S = {z}
  BY <1>1, FS_Singleton
<1>3. QED
  BY <1>2

-----------------------------------------------------------------------------
(* IInv is inductive *)

LEMMA InitInv == Init => IInv
<1> SUFFICES ASSUME Init PROVE IInv
  OBVIOUS
<1>1. PICK legacy \in SUBSET Profiles, users \in SUBSET Profiles, d \in Devices, k \in Keys :
         /\ legacy \cap users = {}
         /\ profile = [u \in Profiles |-> IF u \in legacy THEN Profile("hub", d, k)
                                          ELSE IF u \in users THEN Profile("user", d, None)
                                          ELSE Unused]
         /\ cfg = IF legacy = {} THEN NoCfg ELSE Config(None, d, k)
         /\ up \in SUBSET legacy
  BY DEF Init
<1>2. Types
  <2>1. profile \in [Profiles -> Entries]
    BY <1>1, ProfileFields, EntryFields
  <2>2. \A u \in legacy : profile[u] = Profile("hub", d, k)
    BY <1>1
  <2>3. \A u \in legacy : Exists(u)
    BY <2>2, ProfileFields DEF Exists
  <2>4. cfg \in Configs
    BY <1>1, ConfigFields
  <2>5. \A u \in Profiles : Exists(u) => profile[u].by # "nobody"
    BY <1>1, ProfileFields, EntryFields DEF Exists
  <2>6. QED
    BY <1>1, <2>1, <2>3, <2>4, <2>5, IdleFields DEF Init, Types
<1>3. cfg.uuid = None /\ cfg.uuid \notin Profiles
  BY <1>1, ConfigFields, LinuxConsoleAssumption
<1>4. Flow /\ Added
  BY <1>3, IdleFields DEF Init, Flow, Added, Settled
<1>5. Known
  <2>1. \A u \in Profiles : profile[u].by = "user" => ~profile[u].set
    <3>1. \A u \in legacy : profile[u].by = "hub"
      BY <1>1, ProfileFields
    <3>2. \A u \in users \ legacy : ~profile[u].set
      BY <1>1, ProfileFields
    <3>3. \A u \in Profiles \ (users \cup legacy) : ~profile[u].set
      BY <1>1, EntryFields
    <3>4. QED
      BY <3>1, <3>2, <3>3
  <2>2. up # {} => cfg.is
    BY <1>1, ConfigFields
  <2>3. \A u \in up : Matches(cfg, u)
    BY <1>1, ProfileFields, ConfigFields, LinuxConsoleAssumption DEF Matches
  <2>4. QED
    BY <1>3, <2>1, <2>2, <2>3 DEF Known, Named
<1>6. QED
  BY <1>2, <1>4, <1>5 DEF IInv

\* The calls up to the first command: only the job, or console.json with it.
LEMMA LookingStep ==
  ASSUME IInv, Prepare \/ StartOrStop \/ Look \/ Own \/ NotMigrated \/ TraceWarp \/ Killed
  PROVE  IInv'
<1> USE DEF IInv, bounds
<1>0. Types /\ Flow /\ UNCHANGED <<profile, up, cfg, robbed>>
  BY DEF Prepare, StartOrStop, Look, Own, NotMigrated, TraceWarp, Killed
<1>1. (Known => Known') /\ Named' = Named
  BY <1>0 DEF Known, Matches, Named
<1>2. ASSUME job' \in Jobs PROVE Types'
  BY <1>0, <1>2 DEF Types, Exists
<1>3. CASE End
  BY <1>0, <1>1, <1>2, <1>3, IdleFields DEF End, Flow, Added, Settled
<1>4. CASE Prepare \/ StartOrStop
  <2>1. /\ job' \in Jobs /\ job'.pc \in {"look", "own"} /\ job'.cfg = cfg /\ ~job'.created
    BY <1>0, <1>4, IdleFields DEF Prepare, StartOrStop, Types, Jobs, Steps
  <2>2. QED
    BY <1>0, <1>1, <1>2, <2>1 DEF Flow, Added, Settled
<1>5. CASE Look
  <2>1. PICK listed \in Listings : job' = [job EXCEPT !.pc = "own", !.existing = listed]
    BY <1>5 DEF Look
  <2>2. listed \in SUBSET Profiles
    BY <2>1 DEF Listings, Named
  <2>3. /\ job' \in Jobs /\ job'.pc = "own" /\ job'.cfg = cfg /\ ~job'.created
    BY <1>0, <1>5, <2>1, <2>2 DEF Look, Types, Flow, Jobs, Steps
  <2>4. QED
    BY <1>0, <1>1, <1>2, <2>3 DEF Flow, Added, Settled
<1>6. CASE Own
  <2>0. job.pc = "own" /\ job.cfg = cfg /\ ~job.created /\ job \in Jobs /\ cfg \in Configs
    BY <1>0, <1>6 DEF Own, Flow, Types
  <2>1. CASE \E x \in {"add", "migrate"} : Goto(x) /\ (x = "add" => job.kind = "prepare" /\ job.existing = {})
    BY <1>0, <1>1, <1>2, <2>0, <2>1, Goes DEF Flow, Added, Settled, Steps
  <2>2. CASE \E u \in Profiles : u = cfg.uuid /\ Use(cfg, u)
    <3>1. PICK u \in Profiles : u = cfg.uuid /\ Use(cfg, u)
      BY <2>2
    <3>2. cfg.is
      BY <1>0, <3>1 DEF Flow
    <3>3. /\ job' \in Jobs /\ job'.pc \in {"modify", "down"} /\ ~job'.created /\ job'.uuid = cfg.uuid
          /\ job'.pc # "down" => job'.key = cfg.key
      BY <2>0, <3>1, <3>2, Uses
    <3>4. QED
      BY <1>0, <1>1, <1>2, <3>1, <3>3 DEF Flow, Added, Settled
  <2>3. QED
    <3>1. PICK listed \in Listings :
            IF Owned(job.cfg, listed) # {}
            THEN \E u \in Owned(job.cfg, listed) : Use(job.cfg, u)
            ELSE Goto(IF job.kind = "prepare" /\ job.existing = {} THEN "add" ELSE "migrate")
      BY <1>6 DEF Own
    <3>2. listed \in SUBSET Profiles
      BY DEF Listings, Named
    <3>3. QED
      BY <2>0, <2>1, <2>2, <3>1, <3>2 DEF Owned
<1>7. CASE TraceWarp
  <2>1. CASE Goto("up")
    BY <1>0, <1>1, <1>2, <1>7, <2>1, Goes DEF TraceWarp, Types, Flow, Added, Settled, Steps
  <2>2. QED
    BY <1>3, <1>7, <2>1 DEF TraceWarp
<1>8. QED
  BY <1>3, <1>4, <1>5, <1>6, <1>7 DEF NotMigrated, Killed

LEMMA MigrateStep == ASSUME IInv, Migrate PROVE IInv'
<1> USE DEF IInv, bounds
<1>0. /\ Types /\ Flow /\ UNCHANGED <<profile, up, robbed>> /\ job.pc = "migrate"
      /\ job.cfg = cfg /\ ~job.created /\ job \in Jobs /\ cfg \in Configs
  BY DEF Migrate, Flow, Types
<1>1. PICK listed \in Listings :
         \/ /\ job.cfg.uuid # None /\ Owned(job.cfg, listed) # {}
            /\ \E u \in Owned(job.cfg, listed) : Use(job.cfg, u)
            /\ UNCHANGED cfg
         \/ /\ job.cfg.is /\ job.cfg.uuid = None
            /\ \E u \in listed :
                 /\ listed = {u} /\ Matches(job.cfg, u)
                 /\ cfg' = [job.cfg EXCEPT !.uuid = u]
                 /\ Use(cfg', u)
  BY DEF Migrate
<1>2. listed \in SUBSET Profiles /\ Named' = Named
  BY <1>0 DEF Listings, Named
<1>3. CASE UNCHANGED cfg /\ \E u \in Owned(job.cfg, listed) : Use(job.cfg, u)
  <2>1. PICK u \in Profiles : u = cfg.uuid /\ Use(cfg, u)
    BY <1>0, <1>2, <1>3 DEF Owned
  <2>2. cfg.is
    BY <1>0, <2>1 DEF Flow
  <2>3. /\ job' \in Jobs /\ job'.pc \in {"modify", "down"} /\ ~job'.created /\ job'.uuid = cfg.uuid
        /\ job'.pc # "down" => job'.key = cfg.key
    BY <1>0, <2>1, <2>2, Uses
  <2>4. Types' /\ Flow' /\ Added'
    BY <1>0, <1>3, <2>1, <2>3 DEF Types, Exists, Flow, Added, Settled
  <2>5. Known => Known'
    BY <1>0, <1>2, <1>3 DEF Known, Matches
  <2>6. QED
    BY <1>0, <2>4, <2>5
<1>4. ASSUME NEW u \in listed, job.cfg.is, listed = {u}, Matches(job.cfg, u),
             cfg' = [job.cfg EXCEPT !.uuid = u], Use(cfg', u)
      PROVE  IInv'
  <2>1. /\ cfg' \in Configs /\ cfg'.is /\ cfg'.uuid = u /\ cfg'.key = cfg.key
        /\ u \in Profiles /\ listed = Named
    BY <1>0, <1>2, <1>4 DEF Configs, Listings
  <2>2. /\ job' \in Jobs /\ job'.pc \in {"modify", "down"} /\ ~job'.created /\ job'.uuid = u
        /\ job'.pc # "down" => job'.key = cfg'.key
    BY <1>0, <1>4, <2>1, Uses
  <2>3. Types' /\ Flow' /\ Added'
    BY <1>0, <2>1, <2>2 DEF Types, Exists, Flow, Added, Settled
  <2>4. ASSUME Known PROVE Known'
    <3>1. profile[u].by # "user" /\ profile[u].key = cfg'.key
      BY <1>0, <1>4, <2>1, <2>4 DEF Known, Matches
    <3>2. profile[u].state = "named"
      BY <1>4, <2>1 DEF Named
    <3>3. profile[u].by = "hub"
      BY <1>0, <2>1, <3>1, <3>2 DEF Types, Entries, Exists
    <3>4. QED
      BY <1>0, <1>2, <1>4, <2>1, <2>4, <3>2, <3>3, <3>1 DEF Known, Matches
  <2>5. QED
    BY <1>0, <2>3, <2>4
<1>5. QED
  BY <1>0, <1>1, <1>3, <1>4

\* A job that goes on, or ends, leaves the rest as typed as it was.
LEMMA JobTyped ==
  ASSUME Types, UNCHANGED <<profile, up, cfg, robbed>>, job' \in Jobs
  PROVE  Types'
  BY DEF Types, Exists

LEMMA AddStep == ASSUME IInv, Add PROVE IInv'
<1> USE DEF IInv, bounds
<1>0. /\ Types /\ Flow /\ UNCHANGED <<up, cfg, robbed>> /\ job.pc = "add" /\ job \in Jobs
      /\ ~job.created /\ job.cfg = cfg /\ job.kind = "prepare" /\ job.existing = {}
  BY DEF Add, Types, Flow
<1>1. Goto("list") \/ End
  BY DEF Add
<1>2. /\ job' \in Jobs /\ Flow' /\ job'.pc \notin Settled
      /\ job'.pc = "list" => Goto("list")
  <2>1. CASE Goto("list")
    BY <1>0, <2>1, Goes DEF Flow, Steps, Settled
  <2>2. CASE End
    BY <1>0, <2>2, IdleFields DEF End, Flow, Settled
  <2>3. QED
    BY <1>1, <2>1, <2>2
<1>3. CASE UNCHANGED profile /\ End
  <2>1. Types' /\ job'.pc # "list"
    BY <1>0, <1>2, <1>3, JobTyped, IdleFields DEF End
  <2>2. Known => Known'
    BY <1>0, <1>3 DEF Known, Matches, Named
  <2>3. QED
    BY <1>0, <1>2, <2>1, <2>2 DEF Added
<1>4. ASSUME NEW u \in Profiles, profile[u] = Unused,
             profile' = [profile EXCEPT ![u] = Profile("hub", job.dev, None)]
      PROVE  IInv'
  <2>0. job.dev \in Devices \cup {None}
    BY <1>0 DEF Jobs
  <2>1. /\ profile'[u] \in Entries /\ profile'[u].by = "hub" /\ profile'[u].state = "named"
        /\ profile'[u].key = None /\ ~profile'[u].set
        /\ \A v \in Profiles \ {u} : profile'[v] = profile[v]
        /\ profile' \in [Profiles -> Entries]
    BY <1>0, <1>4, <2>0, ProfileFields DEF Types
  <2>2. profile[u].state = "unused" /\ u \notin up
    BY <1>0, <1>4, EntryFields DEF Types, Exists
  <2>3. Types'
    BY <1>0, <1>2, <2>1, <2>2 DEF Types, Exists
  <2>4. ASSUME Known PROVE Known' /\ Added'
    <3>1. u # cfg.uuid
      BY <2>2, <2>4 DEF Known, Matches
    <3>2. Named' = Named \cup {u}
      BY <2>1 DEF Named
    <3>3. Known'
      <4>1. \A v \in Profiles : profile'[v].by = "user" => ~profile'[v].set
        BY <2>1, <2>4 DEF Known, Matches
      <4>2. cfg'.uuid \in Profiles => /\ profile'[cfg'.uuid].state # "unused"
                                      /\ profile'[cfg'.uuid].by # "user"
        BY <1>0, <2>1, <2>4, <3>1 DEF Known, Matches
      <4>3. ASSUME NEW v \in Named'
            PROVE  /\ v \in up' /\ profile'[v].by = "hub" =>
                        /\ cfg'.is /\ cfg'.uuid \in {v, None}
                        /\ cfg'.uuid = None => Matches(cfg, v)'
                   /\ cfg'.uuid = v => profile'[v].by = "hub" /\ profile'[v].key = cfg'.key
        <5>1. v = u \/ (v # u /\ v \in Named /\ profile'[v] = profile[v])
          BY <2>1, <3>2 DEF Named
        <5>2. QED
          BY <1>0, <2>2, <2>4, <3>1, <5>1 DEF Known, Matches
      <4>4. QED
        BY <4>1, <4>2, <4>3 DEF Known
    <3>4. Added'
      BY <1>0, <1>2, <2>1, <2>2, <3>1, <3>2 DEF Added
    <3>5. QED
      BY <3>3, <3>4
  <2>5. QED
    BY <1>0, <1>2, <2>3, <2>4
<1>5. QED
  BY <1>3, <1>4 DEF Add

LEMMA ListNewStep == ASSUME IInv, ListNew PROVE IInv'
<1> USE DEF IInv, bounds
<1>0. /\ Types /\ Flow /\ UNCHANGED <<profile, up, cfg, robbed>> /\ job.pc = "list"
      /\ job \in Jobs /\ ~job.created /\ job.cfg = cfg /\ job.kind = "prepare"
      /\ job.existing = {} /\ Named' = Named
  BY DEF ListNew, Types, Flow, Named
<1>1. Known => Known'
  BY <1>0 DEF Known, Matches
<1>2. CASE End
  BY <1>0, <1>1, <1>2, IdleFields, JobTyped DEF End, Flow, Added, Settled
<1>3. ASSUME NEW listed \in Listings, Cardinality(listed \ job.existing) = 1,
             NEW u \in listed \ job.existing, NEW key \in Keys,
             job' = [job EXCEPT !.pc = "modify", !.uuid = u, !.key = key, !.created = TRUE]
      PROVE  IInv'
  <2>1. listed \ job.existing = Named /\ Named \in SUBSET Profiles
    BY <1>0, <1>3 DEF Listings, Named
  <2>2. /\ job' \in Jobs /\ job'.pc = "modify" /\ job'.uuid = u /\ job'.created
        /\ job'.kind = "prepare" /\ u \in Profiles
    BY <1>0, <1>3, <2>1 DEF Jobs, Steps
  <2>3. Types' /\ Flow'
    BY <1>0, <2>2, JobTyped DEF Flow, Settled
  <2>4. ASSUME Added PROVE Added'
    <3>1. PICK w \in Named : profile[w].by = "hub" /\ w # cfg.uuid /\ w \notin up
      BY <1>0, <2>4 DEF Added
    <3>2. \A v \in Named : v = u
      BY <1>3, <2>1, OnlyOne
    <3>3. u \in Named /\ profile[u].by = "hub" /\ u # cfg.uuid /\ u \notin up /\ profile[u].state = "named"
      BY <3>1, <3>2 DEF Named
    <3>4. QED
      BY <1>0, <2>2, <3>2, <3>3 DEF Added
  <2>5. QED
    BY <1>0, <1>1, <2>3, <2>4
<1>4. QED
  BY <1>2, <1>3 DEF ListNew

LEMMA ModifyStep == ASSUME IInv, Modify PROVE IInv'
<1> USE DEF IInv, bounds
<1>0. /\ Types /\ Flow /\ UNCHANGED <<up, cfg, robbed>> /\ job.pc = "modify" /\ job \in Jobs
      /\ job.uuid \in Profiles
  BY DEF Modify, Types, Flow, Settled
<1> DEFINE failed == IF job.created THEN Goto("delete") ELSE End
           written == [profile EXCEPT ![job.uuid].set = TRUE, ![job.uuid].dev = job.dev,
                                      ![job.uuid].key = job.key]
           after == IF job.kind = "prepare" THEN "save" ELSE "trace"
<1>1. \/ Exists(job.uuid) /\ profile' = written /\ (Goto(after) \/ failed)
      \/ failed /\ UNCHANGED profile
  BY DEF Modify
<1>2. /\ job' \in Jobs /\ Flow' /\ job'.pc # "list"
      /\ job'.pc \in Settled => job'.uuid = job.uuid /\ job'.created = job.created
                                /\ job'.key = job.key
      /\ job'.pc = "save" => Goto(after)
  <2>1. CASE Goto(after)
    <3>1. after \in Steps
      BY DEF Steps
    <3>2. job' \in Jobs /\ job'.pc = after
      BY <1>0, <2>1, <3>1, Goes
    <3>3. QED
      BY <1>0, <2>1, <3>1, <3>2, Goes DEF Flow, Settled
  <2>2. CASE job.created /\ Goto("delete")
    BY <1>0, <2>2, Goes DEF Flow, Settled, Steps
  <2>3. CASE End
    BY <1>0, <2>3, IdleFields DEF End, Flow, Settled
  <2>4. QED
    BY <1>1, <2>1, <2>2, <2>3
<1>3. CASE UNCHANGED profile /\ failed
  <2>1. Types' /\ job'.pc # "save"
    BY <1>0, <1>2, <1>3, JobTyped, Goes, IdleFields DEF End, Steps
  <2>2. Known => Known'
    BY <1>0, <1>3 DEF Known, Matches, Named
  <2>3. Added => Added'
    BY <1>0, <1>2, <1>3, <2>1 DEF Added, Named, Settled
  <2>4. QED
    BY <1>0, <1>2, <2>1, <2>2, <2>3
<1>4. CASE Exists(job.uuid) /\ profile' = written
  <2>1. /\ profile'[job.uuid].by = profile[job.uuid].by
        /\ profile'[job.uuid].state = profile[job.uuid].state
        /\ profile'[job.uuid].key = job.key /\ profile'[job.uuid].set
        /\ \A v \in Profiles \ {job.uuid} : profile'[v] = profile[v]
        /\ profile' \in [Profiles -> Entries]
    <3>1. job.dev \in Devices \cup {None} /\ job.key \in Keys \cup {None}
      BY <1>0 DEF Jobs
    <3>2. profile \in [Profiles -> Entries]
      BY <1>0 DEF Types
    <3>3. PICK p \in Entries : p = profile[job.uuid]
      BY <1>0, <3>2
    <3>4. [p EXCEPT !.set = TRUE, !.dev = job.dev, !.key = job.key] \in Entries
      BY <3>1 DEF Entries
    <3>5. /\ profile'[job.uuid] = [p EXCEPT !.set = TRUE, !.dev = job.dev, !.key = job.key]
          /\ profile' \in [Profiles -> Entries]
          /\ \A v \in Profiles \ {job.uuid} : profile'[v] = profile[v]
      BY <1>0, <1>4, <3>2, <3>3, <3>4
    <3>6. QED
      BY <3>3, <3>5 DEF Entries
  <2>2. Named' = Named /\ \A v \in Profiles : profile'[v].by = profile[v].by
    BY <2>1 DEF Named
  <2>3. Types'
    BY <1>0, <1>2, <2>1, <2>2 DEF Types, Exists
  <2>4. ASSUME Known, Added PROVE Known' /\ Added'
    <3>1. profile[job.uuid].by # "user"
      BY <1>0, <1>4, <2>4 DEF Known, Matches, Added, Flow, Settled, Exists
    <3>2. ~job.created => job.uuid = cfg.uuid /\ job.key = cfg.key
      BY <1>0 DEF Flow, Settled
    <3>3. job.created => job.uuid # cfg.uuid /\ job.uuid \notin up
      BY <1>0, <2>4 DEF Added, Settled
    <3>4. Known'
      <4>1. \A v \in Profiles : profile'[v].by = "user" => ~profile'[v].set
        BY <2>1, <2>2, <2>4, <3>1 DEF Known, Matches
      <4>2. cfg'.uuid \in Profiles => /\ profile'[cfg'.uuid].state # "unused"
                                      /\ profile'[cfg'.uuid].by # "user"
        BY <1>0, <2>1, <2>4 DEF Known, Matches
      <4>3. ASSUME NEW v \in Named'
            PROVE  /\ v \in up' /\ profile'[v].by = "hub" =>
                        /\ cfg'.is /\ cfg'.uuid \in {v, None}
                        /\ cfg'.uuid = None => Matches(cfg, v)'
                   /\ cfg'.uuid = v => profile'[v].by = "hub" /\ profile'[v].key = cfg'.key
        <5>1. v \in Named /\ v \in Profiles
          BY <2>2 DEF Named
        <5>2. CASE v # job.uuid
          BY <1>0, <2>1, <2>4, <5>1, <5>2 DEF Known, Matches
        <5>3. CASE v = job.uuid
          BY <1>0, <2>1, <2>4, <3>2, <3>3, <5>1, <5>3, LinuxConsoleAssumption DEF Known
        <5>4. QED
          BY <5>2, <5>3
      <4>4. QED
        BY <4>1, <4>2, <4>3 DEF Known
    <3>5. Added'
      <4>1. ASSUME job'.pc \in Settled, job'.created
            PROVE  /\ job.created /\ job'.uuid = job.uuid /\ job'.key = job.key
                   /\ job.uuid # cfg.uuid /\ job.uuid \notin up
                   /\ profile[job.uuid].state # "unused" /\ profile[job.uuid].by # "user"
                   /\ job.uuid \in Named => profile[job.uuid].by = "hub"
                   /\ \A v \in Named \ {job.uuid} : profile[v].by = "user"
        BY <1>0, <1>2, <2>4, <4>1 DEF Added, Settled
      <4>2. Named \subseteq Profiles
        BY DEF Named
      <4>3. QED
        BY <1>0, <1>2, <2>1, <2>2, <4>1, <4>2 DEF Added
    <3>6. QED
      BY <3>4, <3>5
  <2>5. QED
    BY <1>0, <1>2, <2>3, <2>4
<1>5. QED
  BY <1>1, <1>3, <1>4

LEMMA DeleteStep == ASSUME IInv, DeleteCreated PROVE IInv'
<1> USE DEF IInv, bounds
<1>0. /\ Types /\ Flow /\ UNCHANGED <<cfg, robbed>> /\ job.pc = "delete" /\ End
      /\ job.uuid \in Profiles /\ job.created
  BY DEF DeleteCreated, Types, Flow, Settled
<1>1. job' \in Jobs /\ Flow' /\ Added'
  BY <1>0, IdleFields DEF End, Flow, Added, Settled
<1>2. CASE UNCHANGED <<profile, up>>
  <2>1. Types'
    BY <1>0, <1>1, <1>2, JobTyped
  <2>2. Known => Known'
    BY <1>0, <1>2 DEF Known, Matches, Named
  <2>3. QED
    BY <1>0, <1>1, <2>1, <2>2
<1>3. CASE profile' = [profile EXCEPT ![job.uuid] = Deleted] /\ up' = up \ {job.uuid}
  <2>1. /\ profile' \in [Profiles -> Entries]
        /\ profile'[job.uuid].by = "nobody" /\ profile'[job.uuid].state = "deleted"
        /\ ~profile'[job.uuid].set
        /\ \A v \in Profiles \ {job.uuid} : profile'[v] = profile[v]
    BY <1>0, <1>3, EntryFields DEF Types
  <2>2. Types'
    BY <1>0, <1>1, <1>3, <2>1 DEF Types, Exists
  <2>3. ASSUME Known, Added PROVE Known'
    <3>1. job.uuid # cfg.uuid
      BY <1>0, <2>3 DEF Added, Settled
    <3>2. Named' \subseteq Named \ {job.uuid} /\ Named \subseteq Profiles
      BY <2>1 DEF Named
    <3>3. QED
      BY <1>0, <1>3, <2>1, <2>3, <3>1, <3>2 DEF Known, Matches
  <2>4. QED
    BY <1>0, <1>1, <2>2, <2>3
<1>4. QED
  BY <1>2, <1>3 DEF DeleteCreated

LEMMA SaveStep == ASSUME IInv, SaveCfg PROVE IInv'
<1> USE DEF IInv, bounds
<1>0. /\ Types /\ Flow /\ UNCHANGED <<profile, up, robbed>> /\ job.pc = "save" /\ End
      /\ job \in Jobs /\ job.uuid \in Profiles /\ cfg' = Config(job.uuid, job.dev, job.key)
      /\ Named' = Named
  BY DEF SaveCfg, Types, Flow, Settled, Named
<1>1. cfg' \in Configs /\ cfg'.is /\ cfg'.uuid = job.uuid /\ cfg'.key = job.key
  BY <1>0, ConfigFields DEF Jobs
<1>2. job' \in Jobs /\ Flow' /\ Added'
  BY <1>0, <1>1, IdleFields DEF End, Flow, Added, Settled
<1>3. Types'
  BY <1>0, <1>1, <1>2 DEF Types, Exists
<1>4. ASSUME Known, Added PROVE Known'
  <2>1. CASE job.created
    <3>1. /\ profile[job.uuid].state # "unused" /\ profile[job.uuid].by # "user"
          /\ job.uuid \in Named => profile[job.uuid].by = "hub" /\ profile[job.uuid].key = job.key
          /\ \A v \in Named \ {job.uuid} : profile[v].by = "user"
      BY <1>0, <1>4, <2>1 DEF Added, Settled
    <3>2. QED
      BY <1>0, <1>1, <1>4, <3>1, LinuxConsoleAssumption DEF Known
  <2>2. CASE ~job.created
    <3>1. job.uuid = cfg.uuid /\ job.key = cfg.key
      BY <1>0, <2>2 DEF Flow, Settled
    <3>2. QED
      BY <1>0, <1>1, <1>4, <3>1, LinuxConsoleAssumption DEF Known
  <2>3. QED
    BY <2>1, <2>2
<1>5. QED
  BY <1>0, <1>2, <1>3, <1>4

\* The hotspot goes up or down; a radio goes.
LEMMA ActiveStep == ASSUME IInv, Up \/ Down \/ Drops PROVE IInv'
<1> USE DEF IInv, bounds
<1>0. Types /\ Flow /\ UNCHANGED <<profile, cfg, robbed>> /\ Named' = Named
  BY DEF Up, Down, Drops, Named
<1>1. (job' = job /\ up' \subseteq up) \/ End
  BY DEF Up, Down, Drops
<1>2. job' \in Jobs /\ Flow' /\ (Added => Added')
  <2>1. CASE End
    BY <1>0, <2>1, IdleFields DEF End, Flow, Added, Settled
  <2>2. CASE job' = job /\ up' \subseteq up
    BY <1>0, <2>2 DEF Types, Flow, Added
  <2>3. QED
    BY <1>1, <2>1, <2>2
<1>3. CASE up' \subseteq up
  <2>1. Types'
    BY <1>0, <1>2, <1>3 DEF Types, Exists
  <2>2. Known => Known'
    BY <1>0, <1>3 DEF Known, Matches
  <2>3. QED
    BY <1>0, <1>2, <2>1, <2>2
<1>4. CASE Up /\ Exists(job.uuid) /\ up' = Activated(job.uuid)
  <2>1. job.uuid \in Profiles /\ job.uuid = cfg.uuid /\ cfg.is
    BY <1>0, <1>4 DEF Up, Flow, Settled
  <2>2. up' \subseteq up \cup {job.uuid}
    BY <1>4 DEF Activated
  <2>3. Types'
    BY <1>0, <1>2, <1>4, <2>1, <2>2 DEF Types, Exists
  <2>4. Known => Known'
    BY <1>0, <2>1, <2>2, LinuxConsoleAssumption DEF Known, Matches
  <2>5. QED
    BY <1>0, <1>2, <2>3, <2>4
<1>5. QED
  BY <1>3, <1>4 DEF Up, Down, Drops

LEMMA UserStep == ASSUME IInv, UserEdits PROVE IInv'
<1> USE DEF IInv, bounds
<1>0. Types /\ Flow /\ UNCHANGED <<cfg, job>> /\ Flow'
  BY DEF UserEdits, Flow
<1>1. ASSUME NEW u \in Profiles, profile[u] = Unused, NEW d \in Devices,
             profile' = [profile EXCEPT ![u] = Profile("user", d, None)],
             UNCHANGED <<up, robbed>>
      PROVE  IInv'
  <2>1. /\ profile'[u] \in Entries /\ profile'[u].by = "user" /\ profile'[u].state = "named"
        /\ ~profile'[u].set
        /\ \A v \in Profiles \ {u} : profile'[v] = profile[v]
        /\ profile' \in [Profiles -> Entries]
    BY <1>0, <1>1, ProfileFields DEF Types
  <2>2. profile[u].state = "unused" /\ u \notin up /\ u \notin Named
    BY <1>0, <1>1, EntryFields DEF Types, Exists, Named
  <2>3. Types'
    BY <1>0, <1>1, <2>1, <2>2 DEF Types, Exists
  <2>4. Named' = Named \cup {u} /\ Named \subseteq Profiles
    BY <2>1 DEF Named
  <2>5. ASSUME Known, Added PROVE Known' /\ Added'
    <3>1. u # cfg.uuid
      BY <2>2, <2>5 DEF Known, Matches
    <3>2. ASSUME NEW v \in Named'
          PROVE  /\ v \in up' /\ profile'[v].by = "hub" =>
                      /\ cfg'.is /\ cfg'.uuid \in {v, None}
                      /\ cfg'.uuid = None => Matches(cfg, v)'
                 /\ cfg'.uuid = v => profile'[v].by = "hub" /\ profile'[v].key = cfg'.key
      <4>1. v = u \/ (v # u /\ v \in Named /\ profile'[v] = profile[v])
        BY <2>1, <2>4
      <4>2. QED
        BY <1>0, <1>1, <2>2, <2>5, <3>1, <4>1 DEF Known, Matches
    <3>3. Known'
      <4>1. \A v \in Profiles : profile'[v].by = "user" => ~profile'[v].set
        BY <2>1, <2>5 DEF Known, Matches
      <4>2. cfg'.uuid \in Profiles => /\ profile'[cfg'.uuid].state # "unused"
                                      /\ profile'[cfg'.uuid].by # "user"
        BY <1>0, <2>1, <2>5, <3>1 DEF Known, Matches
      <4>3. QED
        BY <3>2, <4>1, <4>2 DEF Known
    <3>4. Added'
      <4>1. job.pc = "list" => \E w \in Named' : profile'[w].by = "hub" /\ w # cfg.uuid /\ w \notin up'
        <5>1. ASSUME job.pc = "list"
              PROVE  \E w \in Named : profile[w].by = "hub" /\ w # cfg.uuid /\ w \notin up
          BY <2>5, <5>1 DEF Added
        <5>2. QED
          BY <1>1, <2>1, <2>2, <2>4, <5>1
      <4>2. ASSUME job.pc \in Settled, job.created
            PROVE  job.uuid \in Profiles /\ job.uuid # u /\ profile'[job.uuid] = profile[job.uuid]
        BY <1>0, <2>1, <2>2, <2>5, <4>2 DEF Added, Flow
      <4>3. QED
        BY <1>0, <1>1, <2>1, <2>4, <2>5, <4>1, <4>2 DEF Added
    <3>5. QED
      BY <3>3, <3>4
  <2>6. QED
    BY <1>0, <1>1, <2>3, <2>5
<1>2. ASSUME NEW u \in Profiles, Exists(u),
             \/ profile' = [profile EXCEPT ![u] = Deleted] /\ up' = up \ {u}
             \/ profile' = [profile EXCEPT ![u].state = "renamed"] /\ up' = up,
             robbed' = (robbed \/ (job.pc = "list" /\ profile[u].by = "hub"))
      PROVE  IInv'
  <2>1. /\ profile'[u].state \in {"deleted", "renamed"}
        /\ profile'[u].by \in {"nobody", profile[u].by}
        /\ profile'[u].state = "renamed" => profile'[u].by = profile[u].by
        /\ profile'[u].state = "deleted" => up' = up \ {u}
        /\ ~profile'[u].set \/ profile'[u].set = profile[u].set
        /\ \A v \in Profiles \ {u} : profile'[v] = profile[v]
        /\ profile' \in [Profiles -> Entries] /\ up' \subseteq up
    <3>1. profile \in [Profiles -> Entries]
      BY <1>0 DEF Types
    <3>2. CASE profile' = [profile EXCEPT ![u] = Deleted] /\ up' = up \ {u}
      BY <3>1, <3>2, EntryFields
    <3>3. CASE profile' = [profile EXCEPT ![u].state = "renamed"] /\ up' = up
      <4>1. PICK p \in Entries : p = profile[u]
        BY <3>1
      <4>2. [p EXCEPT !.state = "renamed"] \in Entries
        BY <4>1 DEF Entries
      <4>3. /\ profile'[u] = [p EXCEPT !.state = "renamed"]
            /\ profile' \in [Profiles -> Entries]
            /\ \A v \in Profiles \ {u} : profile'[v] = profile[v]
        BY <3>1, <3>3, <4>1, <4>2
      <4>4. QED
        BY <3>3, <4>1, <4>3 DEF Entries
    <3>4. QED
      BY <1>2, <3>2, <3>3
  <2>2. Types'
    BY <1>0, <1>2, <2>1 DEF Types, Exists
  <2>3. Named' = Named \ {u} /\ Named \subseteq Profiles
    BY <2>1 DEF Named
  <2>4. ASSUME Known, Added, ~(job.pc = "list" /\ profile[u].by = "hub") PROVE Known' /\ Added'
    <3>1. Known'
      BY <1>0, <2>1, <2>3, <2>4 DEF Known, Matches
    <3>2. job.pc = "list" => \E w \in Named' : profile'[w].by = "hub" /\ w # cfg.uuid /\ w \notin up'
      <4>1. ASSUME job.pc = "list"
            PROVE  \E w \in Named : profile[w].by = "hub" /\ w # cfg.uuid /\ w \notin up
        BY <2>4, <4>1 DEF Added
      <4>2. QED
        BY <2>1, <2>3, <2>4, <4>1
    <3>3. Added'
      BY <1>0, <2>1, <2>3, <2>4, <3>2 DEF Added, Flow
    <3>4. QED
      BY <3>1, <3>3
  <2>5. QED
    BY <1>0, <1>2, <2>2, <2>4
<1>3. ASSUME NEW u \in Profiles, Exists(u), profile[u].by = "user", up' = Activated(u),
             UNCHANGED <<profile, robbed>>
      PROVE  IInv'
  <2>1. up' \subseteq up \cup {u} /\ Named' = Named
    BY <1>3 DEF Activated, Named
  <2>2. Types'
    BY <1>0, <1>3, <2>1 DEF Types, Exists
  <2>3. Known => Known'
    BY <1>0, <1>3, <2>1 DEF Known, Matches
  <2>4. Added => Added'
    BY <1>0, <1>3, <2>1 DEF Added
  <2>5. QED
    BY <1>0, <1>3, <2>2, <2>3, <2>4
<1>4. QED
  BY <1>1, <1>2, <1>3 DEF UserEdits

LEMMA StepInv == IInv /\ [Next]_vars => IInv'
<1> SUFFICES ASSUME IInv, [Next]_vars PROVE IInv'
  OBVIOUS
<1>1. CASE UNCHANGED vars
  BY <1>1 DEF vars, IInv, Types, Exists, Flow, Known, Matches, Added, Named
<1>2. CASE Prepare \/ StartOrStop \/ Look \/ Own \/ NotMigrated \/ TraceWarp \/ Killed
  BY <1>2, LookingStep
<1>3. CASE Migrate
  BY <1>3, MigrateStep
<1>4. CASE Add
  BY <1>4, AddStep
<1>5. CASE ListNew
  BY <1>5, ListNewStep
<1>6. CASE Modify
  BY <1>6, ModifyStep
<1>7. CASE DeleteCreated
  BY <1>7, DeleteStep
<1>8. CASE SaveCfg
  BY <1>8, SaveStep
<1>9. CASE Up \/ Down \/ Drops
  BY <1>9, ActiveStep
<1>10. CASE UserEdits
  BY <1>10, UserStep
<1>11. QED
  BY <1>1, <1>2, <1>3, <1>4, <1>5, <1>6, <1>7, <1>8, <1>9, <1>10 DEF Next, HubStep

LEMMA Inductive == Spec => []IInv
  BY InitInv, StepInv, PTL DEF Spec

-----------------------------------------------------------------------------
(* The theorems *)

\* Whatever fails, is killed or is edited in between, a hotspot of the hub's
\* that is up under its name is the one console.json knows, with its password,
\* unless the user took away a profile just added.
THEOREM HotspotAlwaysKnown == Spec => []HotspotKnown
<1>1. IInv => HotspotKnown
  BY DEF IInv, Known, HotspotKnown, Stoppable, Rival, Named
<1>2. QED
  BY <1>1, Inductive, PTL

\* One step: a call changes, brings up or takes down no profile of the user's,
\* but for the one on the device of the hotspot it brings up.
LEMMA OthersKeptStep ==
  ASSUME IInv, HubStep, ~robbed, NEW u \in Profiles, profile[u].by = "user"
  PROVE  /\ profile'[u] = profile[u]
         /\ u \in up' => u \in up
         /\ u \in up => \/ u \in up'
                       \/ /\ job.pc = "up" /\ job.uuid \in up'
                          /\ profile[job.uuid].dev = profile[u].dev
<1>0. Types /\ Flow /\ Known /\ Added
  BY DEF IInv
<1>1. ASSUME job.pc \in Settled PROVE job.uuid \in Profiles /\ job.uuid # u
  <2>1. CASE job.created
    BY <1>0, <1>1, <2>1 DEF Flow, Added
  <2>2. CASE ~job.created
    BY <1>0, <1>1, <2>2 DEF Flow, Known, Matches
  <2>3. QED
    BY <2>1, <2>2
<1>2. CASE Prepare \/ StartOrStop \/ Look \/ Own \/ Migrate \/ NotMigrated \/ ListNew
           \/ SaveCfg \/ TraceWarp
  BY <1>2 DEF Prepare, StartOrStop, Look, Own, Migrate, NotMigrated, ListNew, SaveCfg, TraceWarp
<1>3. CASE Add
  <2>1. profile[u] # Unused
    BY EntryFields
  <2>2. QED
    BY <1>0, <1>3, <2>1 DEF Add, Types
<1>4. CASE Modify
  BY <1>0, <1>1, <1>4 DEF Modify, Types, Settled
<1>5. CASE DeleteCreated
  BY <1>0, <1>1, <1>5 DEF DeleteCreated, Types, Settled
<1>6. CASE Up
  BY <1>0, <1>1, <1>6 DEF Up, Activated, Settled
<1>7. CASE Down
  BY <1>0, <1>1, <1>7 DEF Down, Settled
<1>8. QED
  BY <1>2, <1>3, <1>4, <1>5, <1>6, <1>7 DEF HubStep

\* The user's profiles, of whatever name, are left alone.
THEOREM OthersAlwaysKept == Spec => OthersKept
<1>1. IInv /\ [Next]_vars =>
        [HubStep /\ ~robbed =>
           \A u \in Profiles :
              profile[u].by = "user" =>
                 /\ profile'[u] = profile[u]
                 /\ u \in up' => u \in up
                 /\ u \in up => \/ u \in up'
                               \/ /\ job.pc = "up" /\ job.uuid \in up'
                                  /\ profile[job.uuid].dev = profile[u].dev]_vars
  BY OthersKeptStep
<1>2. QED
  BY <1>1, Inductive, PTL DEF Spec, OthersKept
===============================================================================
