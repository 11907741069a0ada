-------------------------- MODULE ProviderLifecycle --------------------------
(***************************************************************************)
(* How app/engine.py starts, verifies, adopts and stops the provider       *)
(* process of one mode.  The mode is NODE (sing-box), the one whose        *)
(* process also carries a choice, the selected node; the other modes run   *)
(* the same code without it.                                               *)
(*                                                                         *)
(* A process is known by (process id, creation time).  The operating       *)
(* system reuses process ids, strangers can take the mode's port, and      *)
(* processes exit when they like.  One job runs at a time (manager.lock)   *)
(* and can be killed between any two of its steps.  The pair "port_open,   *)
(* then recover_owned" is one step here, and so are OpenProcess and        *)
(* TerminateProcess, which hold the process by its handle; between the     *)
(* identity check and OpenProcess the process id may change hands.         *)
(***************************************************************************)
EXTENDS Integers, FiniteSets

CONSTANTS Pids, Nodes, MaxBirths, Dead, NoNode, NoId

ASSUME LifecycleAssumption ==
    /\ NoNode \notin Nodes
    /\ MaxBirths \in Nat \ {0}
    /\ Dead \notin [kind : {"ours", "sameExe", "other"},
                    phase : {"new", "loaded", "up", "quiet"},
                    node : Nodes \cup {NoNode}, born : 1..MaxBirths]
    /\ NoId \notin [pid : Pids, born : 1..MaxBirths]
    /\ NoId \notin [pid : Pids, born : 1..MaxBirths, node : Nodes \cup {NoNode}]

VARIABLES procs,      \* the processes of the machine that matter here
          births,     \* creation times given out
          owner,      \* data/NODE/owner.json
          config,     \* config.json and node-id.txt: the node they name
          selected,   \* "selected" in nodes.json
          job,        \* the running job: program counter and locals
          orphans,    \* history: births of processes whose owner.json was
                      \* never written because their job died or failed
          outdated    \* history: those of them that had loaded a configuration
                      \* which was then rewritten or removed under them

vars == <<procs, births, owner, config, selected, job, orphans, outdated>>

Procs == [kind : {"ours", "sameExe", "other"},
          phase : {"new", "loaded", "up", "quiet"},
          node : Nodes \cup {NoNode}, born : 1..MaxBirths]
Ids == [pid : Pids, born : 1..MaxBirths]
Owners == [pid : Pids, born : 1..MaxBirths, node : Nodes \cup {NoNode}]

StopSteps == {"find", "kill", "terminate", "await"}
Steps == {"ensure", "start", "configure", "spawn", "record", "poll", "probe",
          "verified", "giveUp", "failed", "cleanup", "end"} \cup StopSteps

Jobs == [pc : {"idle"} \cup Steps,
         kind : {"none", "connect", "test", "stop"},
         was : BOOLEAN,                \* the provider was owned when the job began
         started : BOOLEAN,            \* STARTED contains the mode
         child : Ids \cup {NoId},      \* what start() returned
         target : Ids \cup {NoId},     \* whom stop() found
         victim : Ids \cup {NoId},     \* whom kill_identity() is to end: that one,
                                       \* or who took the port over from it
         seen : 0..MaxBirths,          \* history: births when its identity was checked
         next : {"start", "giveUp", "cleanup", "end"},   \* where stop() returns to
         ok : BOOLEAN,                 \* the path was verified
         refused : BOOLEAN,            \* a stop() of this job raised
         blind : BOOLEAN]              \* one could not tell whose listener it found

Begin(kind, pc, was) ==
    [pc |-> pc, kind |-> kind, was |-> was, started |-> FALSE, child |-> NoId,
     target |-> NoId, victim |-> NoId, seen |-> 0, next |-> "end", ok |-> FALSE,
     refused |-> FALSE, blind |-> FALSE]
Idle == Begin("none", "idle", FALSE)

TypeOK ==
    /\ procs \in [Pids -> Procs \cup {Dead}]
    /\ births \in 0..MaxBirths
    /\ owner \in Owners \cup {NoId}
    /\ config \in Nodes \cup {NoNode}
    /\ selected \in Nodes
    /\ job \in Jobs
    /\ orphans \subseteq 1..MaxBirths
    /\ outdated \subseteq orphans

Init ==
    /\ procs = [p \in Pids |-> Dead]
    /\ births = 0
    /\ owner = NoId
    /\ config = NoNode
    /\ selected \in Nodes
    /\ job = Idle
    /\ orphans = {} /\ outdated = {}

-----------------------------------------------------------------------------
(* What the code can ask the system *)

Alive == {p \in Pids : procs[p] # Dead}
Ours == {p \in Alive : procs[p].kind = "ours"}
Id(p) == [pid |-> p, born |-> procs[p].born]
IdOf(r) == [pid |-> r.pid, born |-> r.born]

\* Mutant: the process id alone.
SamePid(r) == r # NoId /\ r.pid \in Alive

\* identity(): process id and creation time.
Runs(r) == r # NoId /\ r.pid \in Alive /\ procs[r.pid].born = r.born

\* owned()
Owned == Runs(owner)

Listening == {p \in Alive : procs[p].phase = "up"}
PortOpen == Listening # {}

\* Mutants: the command line not looked at; nothing ever adopted.
AdoptableByExe(notBefore) ==
    {p \in Listening : procs[p].kind \in {"ours", "sameExe"} /\ procs[p].born >= notBefore}
AdoptableNever(notBefore) == {}

\* recover_owned(), when its queries are answered: the listener, if it runs the
\* pinned executable with the project's command line and is not older than asked
\* for.  Without netstat's answer or the command line it finds nobody.
Adoptable(notBefore) ==
    {p \in Listening : procs[p].kind = "ours" /\ procs[p].born >= notBefore}

\* Mutant: an adopted record that names no node.
AdoptedBare(p) == Id(p)

\* Mutant: the node read from the selection.
AdoptedSelected(p) == [pid |-> p, born |-> procs[p].born, node |-> selected]

\* The node of the record is read back from node-id.txt.
Adopted(p) == [pid |-> p, born |-> procs[p].born, node |-> config]

\* The survivors of dead jobs that run on, not yet on the port, with another
\* configuration than the one that is there now.
Passed(node) ==
    {procs[p].born : p \in {q \in Ours : /\ procs[q].born \in orphans
                                         /\ procs[q].phase # "new" /\ procs[q].node # node}}
Configured(node) ==
    /\ config' = node
    /\ outdated' = outdated \cup Passed(node)

Goto(pc) == job' = [job EXCEPT !.pc = pc]
CallStop(next) == job' = [job EXCEPT !.pc = "find", !.next = next]

\* stop() returns or raises; what it held is gone.
Leave(pc, refused, blind) ==
    job' = [job EXCEPT !.pc = pc, !.next = "end", !.target = NoId, !.victim = NoId,
                       !.seen = 0, !.refused = @ \/ refused, !.blind = @ \/ blind]
Return == Leave(job.next, FALSE, FALSE)

-----------------------------------------------------------------------------
(* The jobs *)

\* Mutant: NODE_ACTIVE_STOP_FIRST not asked.
MayUseAny(n) == TRUE

MayUse(n) == Owned => owner.node = n

\* ConnectSelectedNode, NodeTest and NodeSpeed
Request(kind) ==
    /\ job.pc = "idle"
    /\ MayUse(selected)
    /\ job' = Begin(kind, "ensure", Owned)
    /\ UNCHANGED <<procs, births, owner, config, selected, orphans, outdated>>

\* StopOne
RequestStop ==
    /\ job.pc = "idle"
    /\ job' = Begin("stop", "find", FALSE)
    /\ UNCHANGED <<procs, births, owner, config, selected, orphans, outdated>>

\* NodeSelect
Select(n) ==
    /\ job.pc = "idle"
    /\ MayUse(n)
    /\ selected' = n
    /\ UNCHANGED <<procs, births, owner, config, job, orphans, outdated>>

\* An import or a refresh of the pool chooses again when the selected node has
\* left it, whatever runs.
PoolRewritten(n) ==
    /\ job.pc = "idle"
    /\ selected' = n
    /\ UNCHANGED <<procs, births, owner, config, job, orphans, outdated>>

\* Verify: adopts what it finds, as every status request does.
Verify ==
    /\ job.pc = "idle"
    /\ ~Owned
    /\ \E p \in Adoptable(0) : owner' = Adopted(p)
    /\ UNCHANGED <<procs, births, config, selected, job, orphans, outdated>>

-----------------------------------------------------------------------------
(* ensure() and start() *)

\* probe() goes through whatever listens; a path that does not listen is unhealthy.
Ensure ==
    /\ job.pc = "ensure"
    /\ \/ ~Owned /\ Goto("start")
       \/ Owned /\ PortOpen /\ job' = [job EXCEPT !.pc = "verified", !.ok = TRUE]
       \/ Owned /\ CallStop("start")
    /\ UNCHANGED <<procs, births, owner, config, selected, orphans, outdated>>

\* ensure() calls start() only when the mode is not owned, so start()'s first
\* return, for an existing process, is never taken.
StartAdopts ==
    /\ job.pc = "start"
    /\ ~Owned
    /\ \E p \in Adoptable(0) :
         /\ owner' = Adopted(p)
         /\ job' = [job EXCEPT !.pc = "poll", !.child = Id(p)]
    /\ UNCHANGED <<procs, births, config, selected, orphans, outdated>>

\* PORT_OWNED_BY_ANOTHER_PROCESS: a stranger's, or a query failed.
StartRefused ==
    /\ job.pc = "start"
    /\ ~Owned /\ PortOpen
    /\ Goto("failed")
    /\ UNCHANGED <<procs, births, owner, config, selected, orphans, outdated>>

StartFresh ==
    /\ job.pc = "start"
    /\ ~Owned /\ ~PortOpen
    /\ Goto("configure")
    /\ UNCHANGED <<procs, births, owner, config, selected, orphans, outdated>>

\* Mutant: a configuration that is there already is kept.
ConfigureOnce ==
    /\ job.pc = "configure"
    /\ Configured(IF config = NoNode THEN selected ELSE config)
    /\ Goto("spawn")
    /\ UNCHANGED <<procs, births, owner, selected, orphans>>

\* service_config()
Configure ==
    /\ job.pc = "configure"
    /\ Configured(selected)
    /\ Goto("spawn")
    /\ UNCHANGED <<procs, births, owner, selected, orphans>>

\* Popen
Spawn ==
    /\ job.pc = "spawn"
    /\ births < MaxBirths
    /\ births' = births + 1
    /\ \E p \in Pids \ Alive :
         /\ procs' = [procs EXCEPT ![p] = [kind |-> "ours", phase |-> "new",
                                           node |-> NoNode, born |-> births + 1]]
         /\ job' = [job EXCEPT !.pc = "record", !.child = [pid |-> p, born |-> births + 1]]
    /\ UNCHANGED <<owner, config, selected, orphans, outdated>>

\* Mutants: STARTED not appended to; the record written without the new process.
RecordNotStarted ==
    /\ job.pc = "record"
    /\ Runs(job.child)
    /\ owner' = [pid |-> job.child.pid, born |-> job.child.born, node |-> selected]
    /\ job' = [job EXCEPT !.pc = "poll"]
    /\ UNCHANGED <<procs, births, config, selected, orphans, outdated>>

RecordSkipped ==
    /\ job.pc = "record"
    /\ Runs(job.child)
    /\ job' = [job EXCEPT !.pc = "poll", !.started = TRUE]
    /\ UNCHANGED <<procs, births, owner, config, selected, orphans, outdated>>

Record ==
    /\ job.pc = "record"
    /\ Runs(job.child)
    /\ owner' = [pid |-> job.child.pid, born |-> job.child.born, node |-> selected]
    /\ job' = [job EXCEPT !.pc = "poll", !.started = TRUE]
    /\ UNCHANGED <<procs, births, config, selected, orphans, outdated>>

\* Mutant: a successor that is older than the process.
SuccessorsAny == Adoptable(0)

Successors == Adoptable(job.child.born)

\* The owned process, or a successor of it; otherwise, or while a query fails,
\* the path is given up (when the grace period is over).
Poll ==
    /\ job.pc = "poll"
    /\ \/ Owned /\ Goto("probe") /\ UNCHANGED owner
       \/ /\ ~Owned
          /\ \E p \in Successors : owner' = Adopted(p)
          /\ Goto("probe")
       \/ ~Owned /\ CallStop("giveUp") /\ UNCHANGED owner
    /\ UNCHANGED <<procs, births, config, selected, orphans, outdated>>

Probe ==
    /\ job.pc = "probe"
    /\ \/ PortOpen /\ job' = [job EXCEPT !.pc = "verified", !.ok = TRUE]
       \/ Goto("poll")
       \/ CallStop("giveUp")
    /\ UNCHANGED <<procs, births, owner, config, selected, orphans, outdated>>

\* A connection stays; a test gives back what it started.
Verified ==
    /\ job.pc = "verified"
    /\ IF job.kind = "test" /\ ~job.was THEN CallStop("end") ELSE Goto("end")
    /\ UNCHANGED <<procs, births, owner, config, selected, orphans, outdated>>

\* PATH_NOT_VERIFIED_NODE
GiveUp ==
    /\ job.pc = "giveUp"
    /\ Goto("failed")
    /\ UNCHANGED <<procs, births, owner, config, selected, orphans, outdated>>

\* Cancellation, deadline, a write or a child that fails; a verified path in
\* the wrong country.
Raise ==
    /\ job.pc \in {"ensure", "start", "configure", "spawn", "record", "poll",
                   "probe", "verified"}
    /\ job' = [job EXCEPT !.pc = "failed", !.ok = FALSE]
    /\ orphans' = IF job.pc = "record" THEN orphans \cup {job.child.born} ELSE orphans
    /\ UNCHANGED <<procs, births, owner, config, selected, outdated>>

\* The action's own except or finally clause.
Failed ==
    /\ job.pc = "failed"
    /\ IF job.kind # "stop" /\ ~job.was THEN CallStop("cleanup") ELSE Goto("cleanup")
    /\ UNCHANGED <<procs, births, owner, config, selected, orphans, outdated>>

\* main(): "for m in set(STARTED)".
Cleanup ==
    /\ job.pc = "cleanup"
    /\ IF job.started THEN CallStop("end") ELSE Goto("end")
    /\ UNCHANGED <<procs, births, owner, config, selected, orphans, outdated>>

End ==
    /\ job.pc = "end"
    /\ job' = Idle
    /\ UNCHANGED <<procs, births, owner, config, selected, orphans, outdated>>

-----------------------------------------------------------------------------
(* stop() and kill_identity() *)

Found(id) == job' = [job EXCEPT !.pc = "kill", !.target = id, !.victim = id]

FindOwned ==
    /\ job.pc = "find"
    /\ Owned
    /\ Found(IdOf(owner))
    /\ UNCHANGED <<procs, births, owner, config, selected, orphans, outdated>>

FindAdoptable ==
    /\ job.pc = "find"
    /\ ~Owned
    /\ \E p \in Adoptable(0) : owner' = Adopted(p) /\ Found(Id(p))
    /\ UNCHANGED <<procs, births, config, selected, orphans, outdated>>

\* A stale record is removed only when nobody listens.
FindNothing ==
    /\ job.pc = "find"
    /\ ~Owned /\ Adoptable(0) = {}
    /\ IF PortOpen THEN UNCHANGED <<owner, config, outdated>>
                   ELSE owner' = NoId /\ Configured(NoNode)
    /\ Return
    /\ UNCHANGED <<procs, births, selected, orphans>>

\* netstat or the command line did not answer: stop() returns and leaves
\* everything as it is, a process of FreeNet Hub's on the port included.
FindBlind ==
    /\ job.pc = "find"
    /\ ~Owned /\ PortOpen
    /\ Leave(job.next, FALSE, TRUE)
    /\ UNCHANGED <<procs, births, owner, config, selected, orphans, outdated>>

\* Mutant: only the process id compared.
CheckedByPid == SamePid(job.victim)

Checked == Runs(job.victim)

\* kill_identity(): the identity is read once more ...
CheckIdentity ==
    /\ job.pc = "kill"
    /\ job' = IF Checked THEN [job EXCEPT !.pc = "terminate", !.seen = births]
                         ELSE [job EXCEPT !.pc = "await", !.victim = NoId]
    /\ UNCHANGED <<procs, births, owner, config, selected, orphans, outdated>>

\* ... and whoever has the process id when it is opened is ended.  A stranger's
\* process may refuse, and a process id that nobody has is no error.
Terminate ==
    /\ job.pc = "terminate"
    /\ \/ /\ job.victim.pid \in Alive
          /\ procs' = [procs EXCEPT ![job.victim.pid] = Dead]
       \/ ~Runs(job.victim) /\ UNCHANGED procs
    /\ job' = [job EXCEPT !.pc = "await", !.victim = NoId, !.seen = 0]
    /\ UNCHANGED <<births, owner, config, selected, orphans, outdated>>

AwaitClosed ==
    /\ job.pc = "await"
    /\ ~PortOpen
    /\ owner' = NoId
    /\ Configured(NoNode)
    /\ Return
    /\ UNCHANGED <<procs, births, selected, orphans>>

\* The port is still served: by a process of ours that replaced the first ...
AwaitNewer ==
    /\ job.pc = "await"
    /\ \E p \in Adoptable(0) :
         /\ owner' = Adopted(p)
         /\ job' = IF p = job.target.pid THEN job
                                         ELSE [job EXCEPT !.pc = "kill", !.victim = Id(p)]
    /\ UNCHANGED <<procs, births, config, selected, orphans, outdated>>

\* OWNED_PROCESS_STOP_INCOMPLETE, a process that may not be ended, or a record
\* that cannot be removed.  Stops inside an except or finally clause swallow it.
StopRaises ==
    /\ \/ job.pc = "await"
       \/ job.pc = "terminate" /\ Runs(job.victim)
       \/ job.pc = "find" /\ ~Owned /\ ~PortOpen
    /\ Leave(IF job.next \in {"start", "giveUp"} \/ job.kind = "stop" THEN "failed" ELSE job.next,
             TRUE, FALSE)
    /\ UNCHANGED <<procs, births, owner, config, selected, orphans, outdated>>

-----------------------------------------------------------------------------
(* The environment *)

\* The job's process is killed.
Crash ==
    /\ job.pc # "idle"
    /\ job' = Idle
    /\ orphans' = IF job.pc = "record" THEN orphans \cup {job.child.born} ELSE orphans
    /\ UNCHANGED <<procs, births, owner, config, selected, outdated>>

\* sing-box reads its configuration, then opens the port, or exits.
Load(p) ==
    /\ p \in Ours /\ procs[p].phase = "new"
    /\ procs' = [procs EXCEPT ![p] = IF config = NoNode THEN Dead
                                     ELSE [@ EXCEPT !.phase = "loaded", !.node = config]]
    /\ UNCHANGED <<births, owner, config, selected, job, orphans, outdated>>

Bind(p) ==
    /\ p \in Ours /\ procs[p].phase = "loaded"
    /\ procs' = [procs EXCEPT ![p] = IF PortOpen THEN Dead ELSE [@ EXCEPT !.phase = "up"]]
    /\ UNCHANGED <<births, owner, config, selected, job, orphans, outdated>>

Exit(p) ==
    /\ p \in Alive
    /\ procs' = [procs EXCEPT ![p] = Dead]
    /\ UNCHANGED <<births, owner, config, selected, job, orphans, outdated>>

\* Somebody else's process takes a free process id, maybe the port too.
Stranger(p, kind, phase) ==
    /\ p \notin Alive
    /\ births < MaxBirths
    /\ phase = "up" => ~PortOpen
    /\ births' = births + 1
    /\ procs' = [procs EXCEPT ![p] = [kind |-> kind, phase |-> phase,
                                      node |-> NoNode, born |-> births + 1]]
    /\ UNCHANGED <<owner, config, selected, job, orphans, outdated>>

JobSteps ==
    \/ Request("connect") \/ Request("test") \/ RequestStop \/ Verify
    \/ \E n \in Nodes : Select(n) \/ PoolRewritten(n)
    \/ Ensure \/ StartAdopts \/ StartRefused \/ StartFresh
    \/ Configure \/ Spawn \/ Record \/ Poll \/ Probe \/ Verified \/ GiveUp
    \/ Raise \/ Failed \/ Cleanup \/ End
    \/ FindOwned \/ FindAdoptable \/ FindNothing \/ FindBlind \/ CheckIdentity
    \/ Terminate \/ AwaitClosed \/ AwaitNewer \/ StopRaises

Environment ==
    \/ Crash
    \/ \E p \in Pids : Load(p) \/ Bind(p) \/ Exit(p)
    \/ \E p \in Pids, kind \in {"sameExe", "other"}, phase \in {"up", "quiet"} :
         Stranger(p, kind, phase)

Next == JobSteps \/ Environment

Spec == Init /\ [][Next]_vars

-----------------------------------------------------------------------------
(* Properties *)

\* No job ends a process that is not FreeNet Hub's own, whatever became of the
\* recorded process id and whoever took the port (kill_identity, recover_owned).
\* Excepted is one that took the process id in the moment between the check of
\* the identity and OpenProcess, which the code does not check again.
StrangersSurvive ==
    [][job' # job => \A p \in Alive \ Ours :
          \/ procs'[p] = procs[p]
          \/ job.pc = "terminate" /\ p = job.victim.pid /\ procs[p].born > job.seen]_vars

\* A process that FreeNet Hub started and recorded never runs unrecorded: no
\* failure, adoption, replacement or stop loses it.
NothingUnowned ==
    \A p \in Ours :
        \/ procs[p].born \in orphans
        \/ owner # NoId /\ IdOf(owner) = Id(p)
        \/ job.pc = "record" /\ job.child = Id(p)

\* The node owner.json names is the node the process runs or, before it has read
\* its configuration, will run; also for the survivor of a killed job that is
\* adopted with the node of node-id.txt.  Excepted is a survivor that had loaded
\* its configuration, and not yet opened the port, when a later job wrote or
\* removed that file (engine.py 1140): the text is then not about it.
OwnerNodeTrue ==
    Owned /\ owner.born \notin outdated =>
        IF procs[owner.pid].phase = "new" THEN config = owner.node
                                          ELSE procs[owner.pid].node = owner.node

\* What a job verified, and records as the health of the selected node, is a
\* process that runs that node, although imports and refreshes choose another
\* under a running one (NODE_ACTIVE_STOP_FIRST, not_before).  Excepted is a
\* survivor that the job itself adopted, whose node it does not look at (engine.py 1312-1314),
\* and one that owner.json names wrongly (OwnerNodeTrue).
VerifiesSelected ==
    /\ job.pc = "verified" /\ Owned /\ procs[owner.pid].phase # "new"
    /\ job.started \/ (job.child = NoId /\ owner.born \notin outdated)
    => procs[owner.pid].node = selected

\* A job that failed or was cancelled leaves no process that it started or that
\* was not there before, and a test leaves none even when it succeeds, unless
\* the system refused to end it.
NothingLeft ==
    /\ job.pc = "end" /\ job.kind \in {"connect", "test"} /\ ~job.refused
    /\ \/ ~job.ok /\ (job.child # NoId \/ ~job.was)
       \/ job.kind = "test" /\ ~job.was
    => \A p \in Ours : procs[p].born \in orphans

\* A StopOne that returns leaves nothing of FreeNet Hub's on the port, the
\* survivors of killed jobs included, unless it could not tell whose the listener
\* was: then it returns all the same.
StopFrees ==
    [][job.kind = "stop" /\ job.pc # "end" /\ job'.pc = "end" /\ ~job'.refused /\ ~job'.blind
          => \A p \in Ours : procs'[p] # Dead => procs'[p].phase # "up"]_vars
=============================================================================
