----------------------- MODULE ProviderLifecycleProofs -----------------------
(***************************************************************************)
(* Why a provider process is never lost, never mistaken for another and    *)
(* never a stranger's, for any number of process ids, nodes and births.    *)
(*                                                                         *)
(* The argument in short: an identity (process id, birth) is used once, so *)
(* a record that does not run now never will again.  Whatever is adopted   *)
(* is therefore a process whose record was never written (an orphan),      *)
(* because every other one is still recorded.                              *)
(***************************************************************************)
EXTENDS ProviderLifecycle, TLAPS

\* Nothing older than the clock: a new process has a new identity.
Births ==
    /\ \A p \in Alive : procs[p].born <= births
    /\ owner # NoId => owner.born <= births
    /\ job.child # NoId => job.child.born <= births
    /\ \A b \in orphans : b <= births

OneListener == \A p, q \in Listening : p = q

\* The record, if it runs, is of a process of ours; so is a child not yet recorded.
RecordOurs ==
    /\ Owned => procs[owner.pid].kind = "ours"
    /\ job.pc = "record" =>
         /\ job.child # NoId
         /\ Runs(job.child) => procs[job.child.pid].kind = "ours"

\* Nothing of ours is recorded when start() writes a configuration and spawns.
FreshStart == job.pc \in {"configure", "spawn", "record"} => ~Owned

\* stop() kills whom the record names ...
KillsRecorded ==
    job.pc \in {"kill", "terminate"} => owner # NoId /\ job.victim = IdOf(owner)

\* ... and waits with nothing recorded but an orphan that took the port.
AwaitsOrphan ==
    job.pc = "await" /\ Owned =>
        procs[owner.pid].phase = "up" /\ owner.born \in orphans

\* From the configuration to the record, the child can only load the selected node.
ChildNode ==
    /\ job.pc \in {"spawn", "record"} => config = selected
    /\ job.pc = "record" /\ Runs(job.child) /\ procs[job.child.pid].phase # "new" =>
         procs[job.child.pid].node = selected

\* config.json and node-id.txt are about the recorded process, and about every
\* survivor but the outdated ones.
Labelled ==
    Owned /\ owner.born \notin outdated =>
        /\ config = owner.node
        /\ procs[owner.pid].phase # "new" => procs[owner.pid].node = config

SurvivorsLabelled ==
    \A p \in Ours : procs[p].born \in orphans \ outdated /\ procs[p].phase # "new" =>
        procs[p].node = config

AllOrphans == \A p \in Ours : procs[p].born \in orphans

\* What the two cleanup paths have achieved so far.
CleanedUp ==
    /\ job.child # NoId /\ ~job.started /\ job.pc # "record" => AllOrphans
    /\ job.pc = "cleanup" /\ ~job.was /\ job.kind # "stop" /\ ~job.refused => AllOrphans
    /\ job.pc = "verified" => job.ok

\* A StopOne is inside stop(), or has been refused.
StopJob ==
    job.kind = "stop" =>
        /\ \/ job.pc \in StopSteps \cup {"end"}
           \/ job.refused /\ job.pc \in {"failed", "cleanup"}
        /\ ~job.started
        /\ job.next = "end"

\* A child that was just started, or that STARTED lists, is no survivor, and
\* nothing of ours is younger.
Youngest ==
    /\ job.pc = "record" \/ job.started =>
         /\ job.child # NoId /\ job.child.born \notin orphans
         /\ \A p \in Ours : procs[p].born <= job.child.born
    /\ job.pc \in {"poll", "probe"} => job.child # NoId
    /\ \/ job.pc \in {"ensure", "start", "configure", "spawn", "record"}
       \/ job.pc \in StopSteps /\ job.next = "start"
       => ~job.started

\* The record a job works on names the selected node, unless the job adopted it.
Chosen ==
    /\ \/ job.pc = "ensure"
       \/ job.pc = "verified" /\ job.child = NoId
       \/ job.pc \in {"poll", "probe", "verified"} /\ job.started
    /\ Owned
    => owner.node = selected /\ (job.pc # "ensure" /\ job.started => owner.born = job.child.born)

\* From the check of its identity on, the victim is there or its process id has
\* gone to a younger process.
Identified ==
    job.pc = "terminate" =>
        /\ job.seen <= births
        /\ \A p \in Alive : p = job.victim.pid =>
              procs[p].born = job.victim.born \/ job.seen < procs[p].born

\* What holds of processes and records, and what of the job's place in its work.
Machine ==
    /\ TypeOK
    /\ Births
    /\ OneListener
    /\ RecordOurs
    /\ ChildNode
    /\ NothingUnowned
    /\ Labelled
    /\ SurvivorsLabelled

Progress ==
    /\ FreshStart
    /\ KillsRecorded
    /\ AwaitsOrphan
    /\ CleanedUp
    /\ StopJob
    /\ NothingLeft

Course == Youngest /\ Chosen /\ Identified

IInv == Machine /\ Progress /\ Course

\* The jobs that begin, and the idle one, are well-formed and hold nothing.
LEMMA BeginTypes ==
  ASSUME NEW k \in {"none", "connect", "test", "stop"}, NEW w \in BOOLEAN,
         NEW x \in {"idle", "ensure", "find"}
  PROVE  /\ Begin(k, x, w) \in Jobs
         /\ Begin(k, x, w).pc = x /\ Begin(k, x, w).kind = k /\ Begin(k, x, w).was = w
         /\ Begin(k, x, w).child = NoId /\ ~Begin(k, x, w).started
         /\ Begin(k, x, w).next = "end"
  BY LifecycleAssumption DEF Begin, Jobs, Steps, StopSteps

\* What a request, the end and the death of a job do to the job's own state.
LEMMA RequestEffect ==
  ASSUME NEW k \in {"connect", "test"}, Request(k)
  PROVE  /\ job.pc = "idle" /\ job' \in Jobs /\ job'.pc = "ensure" /\ job'.kind = k
         /\ job'.child = NoId /\ ~job'.started
         /\ UNCHANGED <<procs, births, owner, config, selected, orphans, outdated>>
<1>1. Owned \in BOOLEAN
  BY DEF Owned, Runs
<1>2. QED
  BY <1>1, BeginTypes DEF Request

LEMMA RequestStopEffect ==
  ASSUME RequestStop
  PROVE  /\ job.pc = "idle" /\ job' \in Jobs /\ job'.pc = "find" /\ job'.kind = "stop" /\ job'.next = "end"
         /\ job'.child = NoId /\ ~job'.started
         /\ UNCHANGED <<procs, births, owner, config, selected, orphans, outdated>>
  BY BeginTypes DEF RequestStop

LEMMA IdleTypes ==
  /\ Idle \in Jobs /\ Idle.pc = "idle" /\ Idle.kind = "none"
  /\ Idle.child = NoId /\ ~Idle.started
  BY LifecycleAssumption DEF Idle, Begin, Jobs, Steps, StopSteps

LEMMA IdleEffect ==
  ASSUME job' = Idle
  PROVE  /\ job' \in Jobs /\ job'.pc = "idle" /\ job'.kind = "none"
         /\ job'.child = NoId /\ ~job'.started
  BY IdleTypes

\* What each way of moving the job on leaves alone.
LEMMA GotoEffect ==
  ASSUME job \in Jobs, NEW x \in Steps, Goto(x)
  PROVE  /\ job' \in Jobs /\ job'.pc = x
         /\ job'.kind = job.kind /\ job'.was = job.was /\ job'.started = job.started
         /\ job'.child = job.child /\ job'.target = job.target /\ job'.victim = job.victim /\ job'.seen = job.seen
         /\ job'.next = job.next /\ job'.ok = job.ok /\ job'.refused = job.refused
  BY DEF Goto, Jobs

LEMMA CallEffect ==
  ASSUME job \in Jobs, NEW v \in {"start", "giveUp", "cleanup", "end"}, CallStop(v)
  PROVE  /\ job' \in Jobs /\ job'.pc = "find" /\ job'.next = v
         /\ job'.kind = job.kind /\ job'.was = job.was /\ job'.started = job.started
         /\ job'.child = job.child /\ job'.target = job.target /\ job'.victim = job.victim /\ job'.seen = job.seen
         /\ job'.ok = job.ok /\ job'.refused = job.refused
  BY DEF CallStop, Steps, StopSteps, Jobs

LEMMA OkEffect ==
  ASSUME job \in Jobs, NEW x \in Steps, NEW v \in BOOLEAN,
         job' = [job EXCEPT !.pc = x, !.ok = v]
  PROVE  /\ job' \in Jobs /\ job'.pc = x /\ job'.ok = v
         /\ job'.kind = job.kind /\ job'.was = job.was /\ job'.started = job.started
         /\ job'.child = job.child /\ job'.target = job.target /\ job'.victim = job.victim /\ job'.seen = job.seen
         /\ job'.next = job.next /\ job'.refused = job.refused
  BY DEF Jobs

LEMMA ChildEffect ==
  ASSUME job \in Jobs, NEW x \in Steps, NEW v \in Ids,
         job' = [job EXCEPT !.pc = x, !.child = v]
  PROVE  /\ job' \in Jobs /\ job'.pc = x /\ job'.child = v
         /\ job'.kind = job.kind /\ job'.was = job.was /\ job'.started = job.started
         /\ job'.target = job.target /\ job'.victim = job.victim /\ job'.seen = job.seen /\ job'.next = job.next
         /\ job'.ok = job.ok /\ job'.refused = job.refused
  BY DEF Jobs

LEMMA StartedEffect ==
  ASSUME job \in Jobs, NEW x \in Steps, NEW v \in BOOLEAN,
         job' = [job EXCEPT !.pc = x, !.started = v]
  PROVE  /\ job' \in Jobs /\ job'.pc = x /\ job'.started = v
         /\ job'.kind = job.kind /\ job'.was = job.was /\ job'.child = job.child
         /\ job'.target = job.target /\ job'.victim = job.victim /\ job'.seen = job.seen /\ job'.next = job.next
         /\ job'.ok = job.ok /\ job'.refused = job.refused
  BY DEF Jobs

LEMMA FoundEffect ==
  ASSUME job \in Jobs, NEW v \in Ids, Found(v)
  PROVE  /\ job' \in Jobs /\ job'.pc = "kill" /\ job'.target = v /\ job'.victim = v
         /\ job'.kind = job.kind /\ job'.was = job.was /\ job'.started = job.started
         /\ job'.child = job.child /\ job'.seen = job.seen /\ job'.next = job.next
         /\ job'.ok = job.ok /\ job'.refused = job.refused
  BY DEF Found, Jobs, Steps, StopSteps

LEMMA VictimEffect ==
  ASSUME job \in Jobs, NEW x \in Steps, NEW v \in Ids \cup {NoId}, NEW w \in 0..MaxBirths,
         \/ job' = [job EXCEPT !.pc = x, !.victim = v, !.seen = w]
         \/ job' = [job EXCEPT !.pc = x, !.victim = v] /\ w = job.seen
         \/ job' = [job EXCEPT !.pc = x, !.seen = w] /\ v = job.victim
  PROVE  /\ job' \in Jobs /\ job'.pc = x /\ job'.victim = v /\ job'.seen = w
         /\ job'.kind = job.kind /\ job'.was = job.was /\ job'.started = job.started
         /\ job'.child = job.child /\ job'.target = job.target /\ job'.next = job.next
         /\ job'.ok = job.ok /\ job'.refused = job.refused
  BY DEF Jobs

LEMMA LeaveEffect ==
  ASSUME job \in Jobs, NEW x \in Steps, NEW b \in BOOLEAN, NEW c \in BOOLEAN, Leave(x, b, c)
  PROVE  /\ job' \in Jobs /\ job'.pc = x /\ job'.next = "end"
         /\ job'.kind = job.kind /\ job'.was = job.was /\ job'.started = job.started
         /\ job'.child = job.child /\ job'.ok = job.ok
         /\ job'.refused = (job.refused \/ b) /\ job'.blind = (job.blind \/ c)
<1> DEFINE d == job.refused \/ b
           e == job.blind \/ c
<1>1. d \in BOOLEAN /\ e \in BOOLEAN /\ 0 \in 0..MaxBirths
  BY LifecycleAssumption DEF Jobs
<1>2. job' = [job EXCEPT !.pc = x, !.next = "end", !.target = NoId, !.victim = NoId,
                         !.seen = 0, !.refused = d, !.blind = e]
  BY DEF Leave
<1> HIDE DEF d, e
<1>3. /\ job' \in Jobs /\ job'.pc = x /\ job'.next = "end"
      /\ job'.kind = job.kind /\ job'.was = job.was /\ job'.started = job.started
      /\ job'.child = job.child /\ job'.ok = job.ok /\ job'.refused = d /\ job'.blind = e
  BY <1>1, <1>2 DEF Jobs
<1>4. QED
  BY <1>3 DEF d, e

\* A step of the job alone, outside the writing of the record.
LEMMA JobMoves ==
  ASSUME IInv, UNCHANGED <<procs, births, owner, config, selected, orphans, outdated>>,
         job' \in Jobs, job.pc # "record", job'.pc \notin {"spawn", "record"},
         job'.child \in {job.child, NoId}
  PROVE  Machine'
<1> USE DEF IInv, Machine, Alive, Ours, Id, IdOf, Runs, Owned, Listening
<1>1. TypeOK' /\ Births' /\ OneListener'
  BY DEF TypeOK, Births, OneListener
<1>2. RecordOurs' /\ ChildNode'
  BY DEF RecordOurs, ChildNode
<1>3. NothingUnowned'
  BY DEF NothingUnowned
<1>4. Labelled'
  BY DEF Labelled
<1>5. SurvivorsLabelled'
  BY DEF SurvivorsLabelled
<1>6. QED
  BY <1>1, <1>2, <1>3, <1>4, <1>5

\* With nothing recorded that runs, every process of ours is an orphan.
LEMMA UnownedAreOrphans ==
  ASSUME IInv, ~Owned, job.pc # "record"
  PROVE  AllOrphans
  BY DEF IInv, Machine, NothingUnowned, AllOrphans, Owned, Runs, Ours, Alive, Id, IdOf

\* Adoption: recover_owned() finds an orphan.
LEMMA Adoption ==
  ASSUME IInv, ~Owned, NEW p \in Listening \cap Ours, owner' = Adopted(p),
         UNCHANGED <<procs, births, config, selected, orphans, outdated>>,
         job' \in Jobs, job.pc # "record", job'.pc \notin {"spawn", "record"},
         job'.child \in {job.child, NoId, Id(p)}
  PROVE  /\ Machine'
         /\ procs[p].born \in orphans /\ procs[p].phase = "up"
         /\ owner' # NoId /\ IdOf(owner') = Id(p) /\ owner'.born = procs[p].born
<1>1. p \in Pids /\ procs[p] \in Procs /\ procs[p].kind = "ours" /\ procs[p].phase = "up"
  BY DEF IInv, Machine, TypeOK, Listening, Ours, Alive
<1>2. AllOrphans
  BY UnownedAreOrphans
<1>3. procs[p].born \in orphans
  BY <1>2 DEF AllOrphans
<1>4. owner' \in Owners /\ owner' # NoId /\ owner'.pid = p /\ owner'.born = procs[p].born
  BY <1>1, LifecycleAssumption DEF IInv, Machine, TypeOK, Adopted, Owners, Procs
<1>5. IdOf(owner') = Id(p) /\ Id(p) \in Ids /\ Id(p) # NoId /\ Id(p).born = procs[p].born
  BY <1>1, <1>4, LifecycleAssumption DEF IdOf, Id, Ids, Procs
<1>6. TypeOK' /\ Births' /\ OneListener'
  BY <1>1, <1>4, <1>5 DEF IInv, Machine, TypeOK, Births, OneListener, Alive, Ours, Listening
<1>7. RecordOurs' /\ ChildNode'
  BY <1>1, <1>4 DEF RecordOurs, ChildNode, Owned, Runs, Alive
<1>8. NothingUnowned'
  BY <1>2 DEF NothingUnowned, AllOrphans, Ours, Alive
<1>9. SurvivorsLabelled'
  BY DEF IInv, Machine, SurvivorsLabelled, Ours, Alive
<1>10. Labelled'
  <2>1. owner'.node = config
    BY DEF Adopted
  <2>2. procs[p].born \notin outdated /\ procs[p].phase # "new" => procs[p].node = config
    BY <1>1, <1>3 DEF IInv, Machine, SurvivorsLabelled
  <2>3. QED
    BY <1>1, <1>4, <2>1, <2>2 DEF Labelled, Owned, Runs
<1>11. QED
  BY <1>1, <1>3, <1>4, <1>5, <1>6, <1>7, <1>8, <1>9, <1>10 DEF Machine

\* A configuration that is written, or removed, is about the survivors that it
\* does not make outdated.
LEMMA ConfiguredFacts ==
  ASSUME IInv, NEW c \in Nodes \cup {NoNode}, Configured(c), UNCHANGED <<procs, orphans>>
  PROVE  config' \in Nodes \cup {NoNode} /\ outdated' \subseteq orphans' /\ SurvivorsLabelled'
<1>1. config' = c /\ outdated' = outdated \cup Passed(c)
  BY DEF Configured
<1>2. Passed(c) \subseteq orphans
  BY DEF Passed
<1>3. \A p \in Ours : procs[p].born \in orphans \ Passed(c) /\ procs[p].phase # "new" =>
                     procs[p].node = c
  BY DEF Passed
<1>4. Ours' = Ours
  BY DEF Ours, Alive
<1>5. QED
  BY <1>1, <1>2, <1>3, <1>4 DEF IInv, Machine, TypeOK, SurvivorsLabelled

\* The removal of a record that does not run.
LEMMA Removal ==
  ASSUME IInv, ~Owned, UNCHANGED <<procs, births, selected, orphans>>,
         owner' \in {owner, NoId}, UNCHANGED <<config, outdated>> \/ Configured(NoNode),
         job' \in Jobs, job.pc # "record", job'.pc \notin {"spawn", "record"},
         job'.child \in {job.child, NoId}
  PROVE  Machine' /\ AllOrphans' /\ ~Owned'
<1>1. AllOrphans' /\ ~Owned'
  BY UnownedAreOrphans DEF AllOrphans, Ours, Alive, Owned, Runs
<1>2. TypeOK' /\ SurvivorsLabelled'
  BY ConfiguredFacts DEF IInv, Machine, TypeOK, SurvivorsLabelled, Ours, Alive
<1>3. Births' /\ OneListener'
  BY DEF IInv, Machine, Births, OneListener, Alive, Ours, Listening
<1>4. RecordOurs' /\ ChildNode' /\ Labelled'
  BY <1>1 DEF RecordOurs, ChildNode, Labelled
<1>5. NothingUnowned'
  BY <1>1 DEF NothingUnowned, AllOrphans
<1>6. QED
  BY <1>1, <1>2, <1>3, <1>4, <1>5 DEF Machine

\* A child that is never recorded becomes an orphan.
LEMMA Abandoned ==
  ASSUME IInv, job.pc = "record", orphans' = orphans \cup {job.child.born},
         UNCHANGED <<procs, births, owner, config, selected, outdated>>,
         job' \in Jobs, job'.pc \notin {"spawn", "record"},
         job'.child \in {job.child, NoId}
  PROVE  Machine' /\ AllOrphans'
<1>1. ~Owned /\ job.child # NoId
  BY DEF IInv, Machine, Progress, FreshStart, RecordOurs
<1>2. job.child.born \in 1..MaxBirths
  BY <1>1 DEF IInv, Machine, TypeOK, Jobs, Ids
<1>3. AllOrphans'
  <2>1. ASSUME NEW q \in Ours, Id(q) = job.child PROVE procs[q].born \in orphans'
    <3>1. procs[q].born = job.child.born
      BY <2>1 DEF Id
    <3>2. QED
      BY <3>1
  <2>2. ASSUME NEW q \in Ours PROVE ~(owner # NoId /\ IdOf(owner) = Id(q))
    <3>1. owner # NoId /\ owner.pid = q /\ owner.born = procs[q].born => Owned
      BY DEF Owned, Runs, Ours
    <3>2. QED
      BY <1>1, <3>1 DEF IdOf, Id
  <2>3. \A q \in Ours : procs[q].born \in orphans'
    BY <2>1, <2>2 DEF IInv, Machine, NothingUnowned
  <2>4. QED
    BY <2>3 DEF AllOrphans, Ours, Alive
<1>4. TypeOK' /\ Births' /\ OneListener'
  BY <1>1, <1>2 DEF IInv, Machine, TypeOK, Births, OneListener, Alive, Ours, Listening
<1>5. RecordOurs' /\ ChildNode' /\ Labelled'
  BY <1>1 DEF RecordOurs, ChildNode, Labelled, Owned, Runs, Alive
<1>6. NothingUnowned'
  BY <1>3 DEF NothingUnowned, AllOrphans
<1>7. SurvivorsLabelled'
  <2>1. config = selected
    BY DEF IInv, Machine, ChildNode
  <2>2. ASSUME NEW q \in Ours, procs[q].born = job.child.born, procs[q].phase # "new",
               procs[q].born \notin orphans
        PROVE  procs[q].node = config
    <3>1. ~(owner # NoId /\ IdOf(owner) = Id(q))
      BY <1>1 DEF Owned, Runs, Ours, IdOf, Id
    <3>2. job.child = Id(q)
      BY <2>2, <3>1 DEF IInv, Machine, NothingUnowned
    <3>3. Runs(job.child) /\ job.child.pid = q
      BY <1>1, <3>2 DEF Runs, Id, Ours
    <3>4. QED
      BY <2>1, <2>2, <3>3 DEF IInv, Machine, ChildNode
  <2>3. QED
    BY <2>2 DEF IInv, Machine, SurvivorsLabelled, Ours, Alive
<1>8. QED
  BY <1>3, <1>4, <1>5, <1>6, <1>7 DEF Machine

\* While stop() waits, what it adopts a second time is the orphan it adopted before.
LEMMA Readoption ==
  ASSUME IInv, Owned, job.pc = "await", NEW p \in Listening \cap Ours, owner' = Adopted(p),
         UNCHANGED <<procs, births, config, selected, orphans, outdated>>,
         job' \in Jobs, job'.pc \notin {"spawn", "record"}, job'.child = job.child
  PROVE  /\ Machine'
         /\ procs[p].born \in orphans /\ procs[p].phase = "up"
         /\ owner' # NoId /\ IdOf(owner') = Id(p) /\ owner'.born = procs[p].born
<1>1. p \in Pids /\ procs[p] \in Procs /\ procs[p].kind = "ours" /\ procs[p].phase = "up"
  BY DEF IInv, Machine, TypeOK, Listening, Ours, Alive
<1>2. owner # NoId /\ owner.pid = p /\ owner.born = procs[p].born /\ owner.born \in orphans
  BY DEF IInv, Machine, Progress, AwaitsOrphan, OneListener, Owned, Runs, Listening
<1>3. owner' \in Owners /\ owner' # NoId /\ owner'.pid = p /\ owner'.born = procs[p].born
  BY <1>1, LifecycleAssumption DEF IInv, Machine, TypeOK, Adopted, Owners, Procs
<1>4. IdOf(owner) = Id(p) /\ IdOf(owner') = Id(p)
  BY <1>2, <1>3 DEF IdOf, Id
<1>5. TypeOK' /\ Births' /\ OneListener'
  BY <1>2, <1>3 DEF IInv, Machine, TypeOK, Births, OneListener, Alive, Ours, Listening
<1>6. RecordOurs' /\ ChildNode'
  BY <1>1, <1>3 DEF RecordOurs, ChildNode, Owned, Runs, Alive
<1>7. NothingUnowned'
  BY <1>3, <1>4 DEF IInv, Machine, NothingUnowned, Ours, Alive, Id
<1>8. SurvivorsLabelled'
  BY DEF IInv, Machine, SurvivorsLabelled, Ours, Alive
<1>9. Labelled'
  <2>1. owner'.node = config
    BY DEF Adopted
  <2>2. procs[p].born \notin outdated /\ procs[p].phase # "new" => procs[p].node = config
    BY <1>2 DEF IInv, Machine, SurvivorsLabelled
  <2>3. QED
    BY <1>1, <1>3, <2>1, <2>2 DEF Labelled, Owned, Runs
<1>10. QED
  BY <1>1, <1>2, <1>3, <1>4, <1>5, <1>6, <1>7, <1>8, <1>9 DEF Machine

\* Processes may end at any time.
LEMMA ProcessesEnd ==
  ASSUME IInv, \A p \in Pids : procs'[p] \in {procs[p], Dead},
         procs' \in [Pids -> Procs \cup {Dead}],
         UNCHANGED <<births, owner, config, selected, orphans, outdated>>,
         job' \in Jobs, job'.pc \notin {"spawn", "record"} \/ job'.pc = job.pc,
         job'.child = job.child, job'.pc # "record" => job.pc # "record"
  PROVE  Machine'
<1> USE DEF IInv, Machine
<1>1. \A p \in Alive' : p \in Alive /\ procs'[p] = procs[p]
  BY DEF Alive
<1>2. Ours' \subseteq Ours /\ Listening' \subseteq Listening
  BY <1>1 DEF Ours, Listening
<1>3. \A p \in Alive' : Id(p)' = Id(p)
  BY <1>1 DEF Id
<1>4. TypeOK' /\ OneListener'
  BY <1>2 DEF TypeOK, OneListener
<1>5. Births'
  BY <1>1 DEF Births
<1>6. RecordOurs' /\ ChildNode' /\ Labelled'
  BY <1>1 DEF RecordOurs, ChildNode, Labelled, Owned, Runs
<1>7. NothingUnowned'
  BY <1>1, <1>2, <1>3 DEF NothingUnowned, Ours
<1>8. SurvivorsLabelled'
  BY <1>1, <1>2 DEF SurvivorsLabelled, Ours
<1>9. QED
  BY <1>4, <1>5, <1>6, <1>7, <1>8

\* What the environment does to processes: they load the configuration, take
\* the port, end; strangers start.
LEMMA Environs ==
  ASSUME IInv, UNCHANGED <<owner, config, selected, job, orphans, outdated>>,
         procs' \in [Pids -> Procs \cup {Dead}], births' \in 0..MaxBirths,
         births <= births', OneListener',
         \A p \in Alive' :
           \/ p \in Alive /\ procs'[p] = procs[p]
           \/ /\ p \in Alive /\ procs'[p].kind = procs[p].kind /\ procs'[p].born = procs[p].born
              /\ \/ procs[p].phase = "new" /\ procs'[p].phase = "loaded" /\ procs'[p].node = config
                 \/ /\ procs[p].phase = "loaded" /\ procs'[p].phase = "up"
                    /\ procs'[p].node = procs[p].node
           \/ procs'[p].kind # "ours" /\ births < procs'[p].born /\ procs'[p].born <= births'
  PROVE  IInv'
<1>1. /\ \A p \in Alive : procs[p].born \in Nat
      /\ owner # NoId => owner.born \in Nat
      /\ job.child # NoId => job.child.born \in Nat
      /\ births \in Nat /\ births' \in Nat
  BY DEF IInv, Machine, TypeOK, Alive, Procs, Owners, Jobs, Ids
<1>2. \A p \in Ours' : p \in Ours /\ procs'[p].born = procs[p].born /\ Id(p)' = Id(p)
  BY DEF Ours, Id, Alive
<1>3. \A p \in Alive' : procs'[p].born \in Nat
  BY DEF Alive, Procs
<1>4. ASSUME NEW r, r.born \in Nat, r.born <= births, r # NoId, r.pid \in Alive',
             procs'[r.pid].born = r.born
      PROVE  /\ r.pid \in Alive /\ procs[r.pid].born = r.born
             /\ procs'[r.pid].kind = procs[r.pid].kind
  BY <1>1, <1>3, <1>4
<1>5. Owned' => Owned
  BY <1>1, <1>4 DEF Owned, Runs, IInv, Machine, Births
<1>6. job.child # NoId /\ Runs(job.child)' => Runs(job.child)
  BY <1>1, <1>4 DEF Runs, IInv, Machine, Births
<1>7. TypeOK'
  BY DEF IInv, Machine, TypeOK
<1>8. Births'
  <2>1. \A b \in orphans : b \in Nat
    BY DEF IInv, Machine, TypeOK
  <2>2. QED
    BY <1>1, <1>3, <2>1 DEF IInv, Machine, Births
<1>9. RecordOurs'
  BY <1>1, <1>4, <1>5, <1>6 DEF IInv, Machine, Births, RecordOurs, Owned, Runs
<1>10. ChildNode'
  BY <1>1, <1>4, <1>6 DEF IInv, Machine, Births, RecordOurs, ChildNode, Runs
<1>11. NothingUnowned'
  BY <1>2 DEF IInv, Machine, NothingUnowned
<1>12. SurvivorsLabelled'
  BY <1>2 DEF IInv, Machine, SurvivorsLabelled, Ours, Alive
<1>13. Labelled'
  BY <1>1, <1>4, <1>5 DEF IInv, Machine, Births, RecordOurs, Labelled, Owned, Runs
<1>14. AllOrphans => AllOrphans'
  BY <1>2 DEF AllOrphans
<1>15. AwaitsOrphan'
  BY <1>1, <1>4, <1>5 DEF IInv, Machine, Births, Progress, AwaitsOrphan, Owned, Runs
<1>16. FreshStart' /\ KillsRecorded' /\ CleanedUp' /\ StopJob'
  BY <1>5, <1>14 DEF IInv, Progress, FreshStart, KillsRecorded, CleanedUp, StopJob, IdOf
<1>17. NothingLeft'
  BY <1>2 DEF IInv, Progress, NothingLeft
<1>18. Youngest' /\ Chosen'
  BY <1>2, <1>5 DEF IInv, Course, Youngest, Chosen
<1>19. Identified'
  <2>1. job.seen \in Nat /\ (job.pc = "terminate" => job.seen <= births)
    BY DEF IInv, Course, Identified, Machine, TypeOK, Jobs
  <2>2. ASSUME NEW p \in Alive' PROVE (p \in Alive /\ procs'[p].born = procs[p].born) \/ births < procs'[p].born
    BY <2>2
  <2>3. QED
    BY <1>1, <1>3, <2>1, <2>2 DEF IInv, Course, Identified
<1>20. QED
  BY <1>7, <1>8, <1>9, <1>10, <1>11, <1>12, <1>13, <1>15, <1>16, <1>17, <1>18, <1>19
     DEF IInv, Machine, Progress, Course


\* The inductive invariant is kept by each handler, crash and process in turn.
LEMMA InductiveStep == IInv /\ [Next]_vars => IInv'
<1> SUFFICES ASSUME IInv, [Next]_vars PROVE IInv'
  OBVIOUS
<1>0. job \in Jobs
  BY DEF IInv, Machine, TypeOK
<1>1. ASSUME NEW k \in {"connect", "test"}, Request(k) PROVE IInv'
  <2>1. Machine'
    BY <1>1, RequestEffect, JobMoves
  <2>2. Progress'
    BY <1>1, RequestEffect DEF IInv, Machine, Progress, FreshStart, KillsRecorded, AwaitsOrphan, CleanedUp, StopJob, NothingLeft, AllOrphans, Owned, Runs, Alive, Ours, IdOf, Id, StopSteps
  <2>3. Course'
    BY <1>1, RequestEffect DEF Request, MayUse, IInv, Course, Youngest, Chosen, Identified, StopSteps, Owned, Runs, Ours, Alive
  <2>4. QED
    BY <2>1, <2>2, <2>3 DEF IInv
<1>2. CASE RequestStop
  <2>1. Machine'
    BY <1>2, RequestStopEffect, JobMoves
  <2>2. Progress'
    BY <1>2, RequestStopEffect DEF IInv, Machine, Progress, FreshStart, KillsRecorded, AwaitsOrphan, CleanedUp, StopJob, NothingLeft, AllOrphans, Owned, Runs, Alive, Ours, IdOf, Id, StopSteps
  <2>3. Course'
    BY <1>2, RequestStopEffect DEF IInv, Course, Youngest, Chosen, Identified, StopSteps, Owned, Runs, Ours, Alive
  <2>4. QED
    BY <2>1, <2>2, <2>3 DEF IInv
<1>3. CASE Verify
  <2>1. PICK p \in Listening \cap Ours : owner' = Adopted(p)
    BY <1>3 DEF Verify, Adoptable, Ours, Listening
  <2>2. Machine'
    BY <1>3, <2>1, <1>0, Adoption DEF Verify
  <2>3. Progress'
    BY <1>3 DEF Verify, IInv, Machine, Progress, FreshStart, KillsRecorded, AwaitsOrphan, CleanedUp, StopJob, NothingLeft, AllOrphans, Owned, Runs, Alive, Ours, IdOf, Id, StopSteps
  <2>4. Course'
    BY <1>3 DEF Verify, IInv, Course, Youngest, Chosen, Identified, StopSteps, Owned, Runs, Ours, Alive
  <2>5. QED
    BY <2>2, <2>3, <2>4 DEF IInv
<1>4. ASSUME NEW n \in Nodes, Select(n) \/ PoolRewritten(n) PROVE IInv'
  <2>1. TypeOK' /\ Births' /\ OneListener' /\ RecordOurs' /\ ChildNode'
    BY <1>4 DEF Select, PoolRewritten, IInv, Machine, TypeOK, Births, OneListener, RecordOurs, ChildNode,
       Alive, Ours, Listening, Owned, Runs
  <2>2. NothingUnowned' /\ SurvivorsLabelled'
    BY <1>4 DEF Select, PoolRewritten, IInv, Machine, NothingUnowned, SurvivorsLabelled, Ours, Alive, IdOf, Id
  <2>3. Labelled'
    BY <1>4 DEF Select, PoolRewritten, IInv, Machine, Labelled, Owned, Runs, Alive
  <2>4. Progress'
    BY <1>4 DEF Select, PoolRewritten, IInv, Machine, Progress, FreshStart, KillsRecorded, AwaitsOrphan, CleanedUp, StopJob, NothingLeft, AllOrphans, Owned, Runs, Alive, Ours, IdOf, Id, StopSteps
  <2>5. Course'
    BY <1>4 DEF Select, PoolRewritten, IInv, Course, Youngest, Chosen, Identified, StopSteps, Owned, Runs, Ours, Alive
  <2>6. QED
    BY <2>1, <2>2, <2>3, <2>4, <2>5 DEF IInv, Machine
<1>5. CASE Ensure
  <2>1. CASE ~Owned /\ Goto("start")
    <3>1. /\ job' \in Jobs /\ job'.pc = "start"
          /\ job'.kind = job.kind /\ job'.was = job.was /\ job'.started = job.started /\ job'.child = job.child
          /\ job'.target = job.target /\ job'.victim = job.victim /\ job'.seen = job.seen /\ job'.next = job.next /\ job'.ok = job.ok
          /\ job'.refused = job.refused
      BY <1>0, <1>5, <2>1, GotoEffect DEF Ensure, Steps, StopSteps
    <3>2. Machine'
      BY <1>5, <2>1, <3>1, JobMoves DEF Ensure
    <3>3. Progress'
      BY <1>5, <2>1, <3>1 DEF Ensure, IInv, Machine, Progress, FreshStart, KillsRecorded, AwaitsOrphan, CleanedUp, StopJob, NothingLeft, AllOrphans, Owned, Runs, Alive, Ours, IdOf, Id, StopSteps
    <3>4. Course'
      BY <1>5, <2>1, <3>1 DEF Ensure, IInv, Course, Youngest, Chosen, Identified, StopSteps, Owned, Runs, Ours, Alive
    <3>5. QED
      BY <3>2, <3>3, <3>4 DEF IInv
  <2>2. CASE job' = [job EXCEPT !.pc = "verified", !.ok = TRUE]
    <3>1. /\ job' \in Jobs /\ job'.pc = "verified" /\ job'.ok = TRUE
          /\ job'.kind = job.kind /\ job'.was = job.was /\ job'.started = job.started /\ job'.child = job.child
          /\ job'.target = job.target /\ job'.victim = job.victim /\ job'.seen = job.seen /\ job'.next = job.next /\ job'.refused = job.refused
      BY <1>0, <1>5, <2>2, OkEffect DEF Ensure, Steps, StopSteps
    <3>2. Machine'
      BY <1>5, <2>2, <3>1, JobMoves DEF Ensure
    <3>3. Progress'
      BY <1>5, <2>2, <3>1 DEF Ensure, IInv, Machine, Progress, FreshStart, KillsRecorded, AwaitsOrphan, CleanedUp, StopJob, NothingLeft, AllOrphans, Owned, Runs, Alive, Ours, IdOf, Id, StopSteps
    <3>4. Course'
      BY <1>5, <2>2, <3>1 DEF Ensure, IInv, Course, Youngest, Chosen, Identified, StopSteps, Owned, Runs, Ours, Alive
    <3>5. QED
      BY <3>2, <3>3, <3>4 DEF IInv
  <2>3. CASE CallStop("start")
    <3>1. /\ job' \in Jobs /\ job'.pc = "find" /\ job'.next = "start"
          /\ job'.kind = job.kind /\ job'.was = job.was /\ job'.started = job.started /\ job'.child = job.child
          /\ job'.target = job.target /\ job'.victim = job.victim /\ job'.seen = job.seen /\ job'.ok = job.ok /\ job'.refused = job.refused
      BY <1>0, <1>5, <2>3, CallEffect DEF Ensure, Steps, StopSteps
    <3>2. Machine'
      BY <1>5, <2>3, <3>1, JobMoves DEF Ensure
    <3>3. Progress'
      BY <1>5, <2>3, <3>1 DEF Ensure, IInv, Machine, Progress, FreshStart, KillsRecorded, AwaitsOrphan, CleanedUp, StopJob, NothingLeft, AllOrphans, Owned, Runs, Alive, Ours, IdOf, Id, StopSteps
    <3>4. Course'
      BY <1>5, <2>3, <3>1 DEF Ensure, IInv, Course, Youngest, Chosen, Identified, StopSteps, Owned, Runs, Ours, Alive
    <3>5. QED
      BY <3>2, <3>3, <3>4 DEF IInv
  <2>4. QED
    BY <1>5, <2>1, <2>2, <2>3 DEF Ensure
<1>6. CASE StartAdopts
  <2>1. PICK p \in Listening \cap Ours :
          owner' = Adopted(p) /\ job' = [job EXCEPT !.pc = "poll", !.child = Id(p)]
    BY <1>6 DEF StartAdopts, Adoptable, Ours, Listening
  <2>2. Id(p) \in Ids
    BY DEF IInv, Machine, TypeOK, Ours, Alive, Id, Ids, Procs
  <2>3. /\ job' \in Jobs /\ job'.pc = "poll" /\ job'.child = Id(p)
        /\ job'.kind = job.kind /\ job'.was = job.was /\ job'.started = job.started /\ job'.target = job.target
        /\ job'.victim = job.victim /\ job'.seen = job.seen /\ job'.next = job.next /\ job'.ok = job.ok /\ job'.refused = job.refused
    BY <1>0, <2>1, <2>2, ChildEffect DEF Steps
  <2>4. Machine'
    BY <1>6, <2>1, <2>3, Adoption DEF StartAdopts
  <2>5. AllOrphans'
    BY <1>6, UnownedAreOrphans DEF StartAdopts, AllOrphans, Ours, Alive
  <2>6. Progress'
    BY <1>6, <2>3, <2>5 DEF StartAdopts, IInv, Machine, Progress, FreshStart, KillsRecorded, AwaitsOrphan, CleanedUp, StopJob, NothingLeft, StopSteps
  <2>7. Course'
    <3>1. ~job.started /\ job'.child # NoId
      BY <1>6, <2>2, <2>3, LifecycleAssumption DEF StartAdopts, IInv, Course, Youngest, Ids
    <3>2. Youngest'
      BY <2>3, <3>1 DEF Youngest, StopSteps
    <3>3. Chosen' /\ Identified'
      BY <1>6, <2>3, <3>1 DEF StartAdopts, Chosen, Identified
    <3>4. QED
      BY <3>2, <3>3 DEF Course
  <2>8. QED
    BY <2>4, <2>6, <2>7 DEF IInv
<1>7. CASE StartRefused
  <2>1. /\ job' \in Jobs /\ job'.pc = "failed"
        /\ job'.kind = job.kind /\ job'.was = job.was /\ job'.started = job.started /\ job'.child = job.child
        /\ job'.target = job.target /\ job'.victim = job.victim /\ job'.seen = job.seen /\ job'.next = job.next /\ job'.ok = job.ok
        /\ job'.refused = job.refused
    BY <1>0, <1>7, GotoEffect DEF StartRefused, Steps, StopSteps
  <2>2. Machine'
    BY <1>7, <2>1, JobMoves DEF StartRefused
  <2>3. Progress'
    BY <1>7, <2>1 DEF StartRefused, IInv, Machine, Progress, FreshStart, KillsRecorded, AwaitsOrphan, CleanedUp, StopJob, NothingLeft, AllOrphans, Owned, Runs, Alive, Ours, IdOf, Id, StopSteps
  <2>4. Course'
    BY <1>7, <2>1 DEF StartRefused, IInv, Course, Youngest, Chosen, Identified, StopSteps, Owned, Runs, Ours, Alive
  <2>5. QED
    BY <2>2, <2>3, <2>4 DEF IInv
<1>8. CASE StartFresh
  <2>1. /\ job' \in Jobs /\ job'.pc = "configure"
        /\ job'.kind = job.kind /\ job'.was = job.was /\ job'.started = job.started /\ job'.child = job.child
        /\ job'.target = job.target /\ job'.victim = job.victim /\ job'.seen = job.seen /\ job'.next = job.next /\ job'.ok = job.ok
        /\ job'.refused = job.refused
    BY <1>0, <1>8, GotoEffect DEF StartFresh, Steps, StopSteps
  <2>2. Machine'
    BY <1>8, <2>1, JobMoves DEF StartFresh
  <2>3. Progress'
    BY <1>8, <2>1 DEF StartFresh, IInv, Machine, Progress, FreshStart, KillsRecorded, AwaitsOrphan, CleanedUp, StopJob, NothingLeft, AllOrphans, Owned, Runs, Alive, Ours, IdOf, Id, StopSteps
  <2>4. Course'
    BY <1>8, <2>1 DEF StartFresh, IInv, Course, Youngest, Chosen, Identified, StopSteps, Owned, Runs, Ours, Alive
  <2>5. QED
    BY <2>2, <2>3, <2>4 DEF IInv
<1>9. CASE Configure
  <2>1. /\ job' \in Jobs /\ job'.pc = "spawn"
        /\ job'.kind = job.kind /\ job'.was = job.was /\ job'.started = job.started /\ job'.child = job.child
        /\ job'.target = job.target /\ job'.victim = job.victim /\ job'.seen = job.seen /\ job'.next = job.next /\ job'.ok = job.ok
        /\ job'.refused = job.refused
    BY <1>0, <1>9, GotoEffect DEF Configure, Steps
  <2>2. AllOrphans /\ ~Owned
    BY <1>9, UnownedAreOrphans DEF Configure, IInv, Progress, FreshStart
  <2>15. selected \in Nodes
    BY DEF IInv, Machine, TypeOK
  <2>3. TypeOK' /\ SurvivorsLabelled' /\ Births' /\ OneListener'
    BY <1>9, <2>1, <2>15, ConfiguredFacts
       DEF Configure, IInv, Machine, TypeOK, Births, OneListener, Alive, Listening
  <2>4. RecordOurs' /\ ChildNode' /\ Labelled'
    BY <1>9, <2>1, <2>2 DEF Configure, Configured, RecordOurs, ChildNode, Labelled, Owned, Runs, Alive
  <2>5. NothingUnowned'
    BY <1>9, <2>2 DEF Configure, NothingUnowned, AllOrphans, Ours, Alive
  <2>6. Progress'
    BY <1>9, <2>1 DEF Configure, IInv, Machine, Progress, FreshStart, KillsRecorded, AwaitsOrphan, CleanedUp, StopJob, NothingLeft, AllOrphans, Owned, Runs, Alive, Ours, IdOf, Id, StopSteps
  <2>7. Course'
    BY <1>9, <2>1 DEF Configure, IInv, Course, Youngest, Chosen, Identified, StopSteps, Owned, Runs, Ours, Alive
  <2>8. QED
    BY <2>3, <2>4, <2>5, <2>6, <2>7 DEF IInv, Machine
<1>10. CASE Spawn
  <2> DEFINE new == [kind |-> "ours", phase |-> "new", node |-> NoNode, born |-> births + 1]
             i(p) == [pid |-> p, born |-> births + 1]
  <2>1. PICK p \in Pids \ Alive :
          procs' = [procs EXCEPT ![p] = new] /\ job' = [job EXCEPT !.pc = "record", !.child = i(p)]
    BY <1>10 DEF Spawn
  <2>2. new \in Procs /\ new # Dead /\ i(p) \in Ids /\ births \in Nat /\ births + 1 \in 1..MaxBirths
    BY <1>10, LifecycleAssumption DEF Spawn, IInv, Machine, TypeOK, Procs, Ids
  <2> HIDE DEF new, i
  <2>3. /\ job' \in Jobs /\ job'.pc = "record" /\ job'.child = i(p)
        /\ job'.kind = job.kind /\ job'.was = job.was /\ job'.started = job.started /\ job'.target = job.target
        /\ job'.victim = job.victim /\ job'.seen = job.seen /\ job'.next = job.next /\ job'.ok = job.ok /\ job'.refused = job.refused
    BY <1>0, <2>1, <2>2, ChildEffect DEF Steps
  <2>4. /\ procs' \in [Pids -> Procs \cup {Dead}]
        /\ procs'[p] = new /\ \A q \in Pids : q # p => procs'[q] = procs[q]
        /\ Alive' = Alive \cup {p}
    BY <2>1, <2>2 DEF IInv, Machine, TypeOK, Alive
  <2>5. new.kind = "ours" /\ new.phase = "new" /\ new.born = births + 1
        /\ i(p).pid = p /\ i(p).born = births + 1 /\ i(p) # NoId
    BY <2>2, LifecycleAssumption DEF new, i, Ids
  <2>6. Ours' = Ours \cup {p} /\ Listening' = Listening
    <3>1. p \notin Alive /\ Alive \subseteq Pids
      BY <2>1 DEF Alive
    <3>2. \A q \in Alive : procs'[q] = procs[q]
      BY <2>4, <3>1
    <3>3. Ours' = Ours \cup {p}
      BY <2>4, <2>5, <3>1, <3>2 DEF Ours
    <3>4. Listening' = Listening
      BY <2>4, <2>5, <3>1, <3>2 DEF Listening
    <3>5. QED
      BY <3>3, <3>4
  <2>7. AllOrphans /\ ~Owned
    BY <1>10, UnownedAreOrphans DEF Spawn, IInv, Progress, FreshStart
  <2>8. ~Owned'
    BY <1>10, <2>2, <2>4, <2>5, <2>7 DEF Spawn, Owned, Runs, IInv, Machine, TypeOK, Births, Owners
  <2>9. TypeOK'
    BY <1>10, <2>2, <2>3, <2>4 DEF Spawn, IInv, Machine, TypeOK
  <2>10. Births'
    <3>1. \A q \in Alive : procs[q].born \in Nat
      BY DEF IInv, Machine, TypeOK, Alive, Procs
    <3>2. owner # NoId => owner.born \in Nat
      BY DEF IInv, Machine, TypeOK, Owners
    <3>3. \A b \in orphans : b \in Nat
      BY DEF IInv, Machine, TypeOK
    <3>4. QED
      BY <1>10, <2>2, <2>3, <2>4, <2>5, <3>1, <3>2, <3>3 DEF Spawn, IInv, Machine, Births, Alive
  <2>11. OneListener' /\ Labelled'
    BY <2>6, <2>8 DEF IInv, Machine, OneListener, Labelled
  <2>12. RecordOurs' /\ ChildNode'
    BY <1>10, <2>3, <2>4, <2>5, <2>8 DEF Spawn, RecordOurs, ChildNode, IInv, Machine
  <2>13. \A q \in Ours' \ {p} : procs'[q].born \in orphans'
    BY <1>10, <2>4, <2>6, <2>7 DEF Spawn, AllOrphans, Ours, Alive
  <2>14. Id(p)' = i(p)
    BY <2>4, <2>5 DEF Id, i
  <2>15. NothingUnowned'
    BY <2>3, <2>13, <2>14 DEF NothingUnowned
  <2>16. SurvivorsLabelled'
    BY <1>10, <2>4, <2>5, <2>6 DEF Spawn, IInv, Machine, SurvivorsLabelled, Ours, Alive
  <2>17. Progress'
    BY <1>10, <2>3, <2>8 DEF Spawn, IInv, Machine, Progress, FreshStart, KillsRecorded, AwaitsOrphan, CleanedUp, StopJob, NothingLeft, StopSteps
  <2>18. Course'
    <3>1. \A q \in Ours : procs[q].born \in Nat /\ procs[q].born <= births /\ procs'[q] = procs[q]
      BY <2>1, <2>4 DEF IInv, Machine, TypeOK, Births, Procs, Ours, Alive
    <3>2. job'.child.born \notin orphans'
      BY <1>10, <2>2, <2>3, <2>5 DEF Spawn, IInv, Machine, Births
    <3>3. \A q \in Ours' : procs'[q].born <= job'.child.born
      BY <2>2, <2>3, <2>4, <2>5, <2>6, <3>1
    <3>4. QED
      BY <1>10, <2>2, <2>3, <2>5, <3>2, <3>3
         DEF Spawn, IInv, Course, Youngest, Chosen, Identified, StopSteps
  <2>19. QED
    BY <2>9, <2>10, <2>11, <2>12, <2>15, <2>16, <2>17, <2>18 DEF IInv, Machine
<1>11. CASE Record
  <2> DEFINE new == [pid |-> job.child.pid, born |-> job.child.born, node |-> selected]
  <2>1. owner' = new /\ job' = [job EXCEPT !.pc = "poll", !.started = TRUE] /\ Runs(job.child)
    BY <1>11 DEF Record
  <2>2. new \in Owners /\ new.pid = job.child.pid /\ new.born = job.child.born
        /\ new.node = selected /\ IdOf(new) = job.child /\ new # NoId
    BY <1>11, LifecycleAssumption DEF Record, Runs, IInv, Machine, TypeOK, Jobs, Owners, Ids, IdOf
  <2> HIDE DEF new
  <2>3. /\ job' \in Jobs /\ job'.pc = "poll" /\ job'.started = TRUE
        /\ job'.kind = job.kind /\ job'.was = job.was /\ job'.child = job.child /\ job'.target = job.target
        /\ job'.victim = job.victim /\ job'.seen = job.seen /\ job'.next = job.next /\ job'.ok = job.ok /\ job'.refused = job.refused
    BY <1>0, <2>1, StartedEffect DEF Steps
  <2>4. UNCHANGED <<procs, births, config, selected, orphans, outdated>>
    BY <1>11 DEF Record
  <2>5. ~Owned /\ procs[job.child.pid].kind = "ours" /\ job.child # NoId
    BY <1>11, <2>1 DEF Record, IInv, Machine, Progress, FreshStart, RecordOurs
  <2>6. \A q \in Ours : procs[q].born \in orphans \/ Id(q) = job.child
    BY <2>5 DEF IInv, Machine, NothingUnowned, Owned, Runs, Ours, Alive, Id, IdOf
  <2>7. TypeOK' /\ Births' /\ OneListener'
    <3>1. TypeOK'
      BY <2>1, <2>2, <2>3, <2>4 DEF IInv, Machine, TypeOK
    <3>2. Births'
      BY <2>1, <2>2, <2>3, <2>4, <2>5 DEF IInv, Machine, Births, Alive
    <3>3. OneListener'
      BY <2>4 DEF IInv, Machine, OneListener, Alive, Listening
    <3>4. QED
      BY <3>1, <3>2, <3>3
  <2>8. RecordOurs' /\ ChildNode'
    BY <2>1, <2>2, <2>3, <2>4, <2>5 DEF RecordOurs, ChildNode, Owned, Runs, Alive
  <2>9. NothingUnowned'
    BY <2>1, <2>2, <2>4, <2>6 DEF NothingUnowned, Ours, Alive, Id, IdOf
  <2>10. SurvivorsLabelled'
    BY <2>4 DEF IInv, Machine, SurvivorsLabelled, Ours, Alive
  <2>11. Labelled'
    <3>1. config = selected /\ (procs[job.child.pid].phase # "new" => procs[job.child.pid].node = selected)
      BY <1>11, <2>1 DEF Record, IInv, Machine, ChildNode
    <3>2. QED
      BY <2>1, <2>2, <2>4, <3>1 DEF Labelled
  <2>12. Progress'
    BY <1>11, <2>3 DEF Record, IInv, Machine, Progress, FreshStart, KillsRecorded, AwaitsOrphan, CleanedUp, StopJob, NothingLeft, StopSteps
  <2>13. Course'
    BY <1>11, <2>3 DEF Record, IInv, Course, Youngest, Chosen, Identified, StopSteps, Owned, Runs, Ours, Alive
  <2>14. QED
    BY <2>7, <2>8, <2>9, <2>10, <2>11, <2>12, <2>13 DEF IInv, Machine
<1>12. CASE Poll
  <2>1. CASE Owned /\ Goto("probe") /\ UNCHANGED owner
    <3>1. /\ job' \in Jobs /\ job'.pc = "probe"
          /\ job'.kind = job.kind /\ job'.was = job.was /\ job'.started = job.started /\ job'.child = job.child
          /\ job'.target = job.target /\ job'.victim = job.victim /\ job'.seen = job.seen /\ job'.next = job.next /\ job'.ok = job.ok
          /\ job'.refused = job.refused
      BY <1>0, <2>1, GotoEffect DEF Steps
    <3>2. Machine'
      BY <1>12, <2>1, <3>1, JobMoves DEF Poll
    <3>3. Progress'
      BY <1>12, <2>1, <3>1 DEF Poll, IInv, Machine, Progress, FreshStart, KillsRecorded, AwaitsOrphan, CleanedUp, StopJob, NothingLeft, AllOrphans, Owned, Runs, Alive, Ours, IdOf, Id, StopSteps
    <3>4. Course'
      BY <1>12, <2>1, <3>1 DEF Poll, IInv, Course, Youngest, Chosen, Identified, StopSteps, Owned, Runs, Ours, Alive
    <3>5. QED
      BY <3>2, <3>3, <3>4 DEF IInv
  <2>2. CASE ~Owned /\ (\E p \in Successors : owner' = Adopted(p)) /\ Goto("probe")
    <3>1. /\ job' \in Jobs /\ job'.pc = "probe"
          /\ job'.kind = job.kind /\ job'.was = job.was /\ job'.started = job.started /\ job'.child = job.child
          /\ job'.target = job.target /\ job'.victim = job.victim /\ job'.seen = job.seen /\ job'.next = job.next /\ job'.ok = job.ok
          /\ job'.refused = job.refused
      BY <1>0, <2>2, GotoEffect DEF Steps
    <3>2. PICK p \in Listening \cap Ours : owner' = Adopted(p)
      BY <2>2 DEF Successors, Adoptable, Ours, Listening
    <3>3. Machine'
      BY <1>12, <2>2, <3>1, <3>2, Adoption DEF Poll
    <3>4. Progress'
      BY <1>12, <2>2, <3>1 DEF Poll, IInv, Machine, Progress, FreshStart, KillsRecorded, AwaitsOrphan, CleanedUp, StopJob, NothingLeft, StopSteps, AllOrphans, Alive, Ours
    <3>5. Course'
      <4>1. CASE job.started
        <5>1. PICK s \in Ours : procs[s].born >= job.child.born /\ procs[s].born \in orphans
          BY <1>12, <2>2, UnownedAreOrphans DEF Poll, Successors, Adoptable, Ours, Listening, AllOrphans
        <5>2. procs[s].born = job.child.born
          BY <1>0, <4>1, <5>1 DEF IInv, Course, Youngest, Machine, TypeOK, Procs, Ours, Alive, Jobs, Ids
        <5>3. QED
          BY <4>1, <5>1, <5>2 DEF IInv, Course, Youngest
      <4>2. CASE ~job.started
        BY <1>12, <2>2, <3>1, <4>2 DEF Poll, IInv, Course, Youngest, Chosen, Identified, StopSteps, Ours, Alive
      <4>3. QED
        BY <4>1, <4>2
    <3>6. QED
      BY <3>3, <3>4, <3>5 DEF IInv
  <2>3. CASE ~Owned /\ CallStop("giveUp") /\ UNCHANGED owner
    <3>1. /\ job' \in Jobs /\ job'.pc = "find" /\ job'.next = "giveUp"
          /\ job'.kind = job.kind /\ job'.was = job.was /\ job'.started = job.started /\ job'.child = job.child
          /\ job'.target = job.target /\ job'.victim = job.victim /\ job'.seen = job.seen /\ job'.ok = job.ok /\ job'.refused = job.refused
      BY <1>0, <2>3, CallEffect
    <3>2. Machine'
      BY <1>12, <2>3, <3>1, JobMoves DEF Poll
    <3>3. Progress'
      BY <1>12, <2>3, <3>1 DEF Poll, IInv, Machine, Progress, FreshStart, KillsRecorded, AwaitsOrphan, CleanedUp, StopJob, NothingLeft, AllOrphans, Owned, Runs, Alive, Ours, IdOf, Id, StopSteps
    <3>4. Course'
      BY <1>12, <2>3, <3>1 DEF Poll, IInv, Course, Youngest, Chosen, Identified, StopSteps, Owned, Runs, Ours, Alive
    <3>5. QED
      BY <3>2, <3>3, <3>4 DEF IInv
  <2>4. QED
    BY <1>12, <2>1, <2>2, <2>3 DEF Poll
<1>13. CASE Probe
  <2>1. CASE job' = [job EXCEPT !.pc = "verified", !.ok = TRUE]
    <3>1. /\ job' \in Jobs /\ job'.pc = "verified" /\ job'.ok = TRUE
          /\ job'.kind = job.kind /\ job'.was = job.was /\ job'.started = job.started /\ job'.child = job.child
          /\ job'.target = job.target /\ job'.victim = job.victim /\ job'.seen = job.seen /\ job'.next = job.next /\ job'.refused = job.refused
      BY <1>0, <1>13, <2>1, OkEffect DEF Probe, Steps, StopSteps
    <3>2. Machine'
      BY <1>13, <2>1, <3>1, JobMoves DEF Probe
    <3>3. Progress'
      BY <1>13, <2>1, <3>1 DEF Probe, IInv, Machine, Progress, FreshStart, KillsRecorded, AwaitsOrphan, CleanedUp, StopJob, NothingLeft, AllOrphans, Owned, Runs, Alive, Ours, IdOf, Id, StopSteps
    <3>4. Course'
      BY <1>13, <2>1, <3>1 DEF Probe, IInv, Course, Youngest, Chosen, Identified, StopSteps, Owned, Runs, Ours, Alive
    <3>5. QED
      BY <3>2, <3>3, <3>4 DEF IInv
  <2>2. CASE Goto("poll")
    <3>1. /\ job' \in Jobs /\ job'.pc = "poll"
          /\ job'.kind = job.kind /\ job'.was = job.was /\ job'.started = job.started /\ job'.child = job.child
          /\ job'.target = job.target /\ job'.victim = job.victim /\ job'.seen = job.seen /\ job'.next = job.next /\ job'.ok = job.ok
          /\ job'.refused = job.refused
      BY <1>0, <1>13, <2>2, GotoEffect DEF Probe, Steps, StopSteps
    <3>2. Machine'
      BY <1>13, <2>2, <3>1, JobMoves DEF Probe
    <3>3. Progress'
      BY <1>13, <2>2, <3>1 DEF Probe, IInv, Machine, Progress, FreshStart, KillsRecorded, AwaitsOrphan, CleanedUp, StopJob, NothingLeft, AllOrphans, Owned, Runs, Alive, Ours, IdOf, Id, StopSteps
    <3>4. Course'
      BY <1>13, <2>2, <3>1 DEF Probe, IInv, Course, Youngest, Chosen, Identified, StopSteps, Owned, Runs, Ours, Alive
    <3>5. QED
      BY <3>2, <3>3, <3>4 DEF IInv
  <2>3. CASE CallStop("giveUp")
    <3>1. /\ job' \in Jobs /\ job'.pc = "find" /\ job'.next = "giveUp"
          /\ job'.kind = job.kind /\ job'.was = job.was /\ job'.started = job.started /\ job'.child = job.child
          /\ job'.target = job.target /\ job'.victim = job.victim /\ job'.seen = job.seen /\ job'.ok = job.ok /\ job'.refused = job.refused
      BY <1>0, <1>13, <2>3, CallEffect DEF Probe, Steps, StopSteps
    <3>2. Machine'
      BY <1>13, <2>3, <3>1, JobMoves DEF Probe
    <3>3. Progress'
      BY <1>13, <2>3, <3>1 DEF Probe, IInv, Machine, Progress, FreshStart, KillsRecorded, AwaitsOrphan, CleanedUp, StopJob, NothingLeft, AllOrphans, Owned, Runs, Alive, Ours, IdOf, Id, StopSteps
    <3>4. Course'
      BY <1>13, <2>3, <3>1 DEF Probe, IInv, Course, Youngest, Chosen, Identified, StopSteps, Owned, Runs, Ours, Alive
    <3>5. QED
      BY <3>2, <3>3, <3>4 DEF IInv
  <2>4. QED
    BY <1>13, <2>1, <2>2, <2>3 DEF Probe
<1>14. CASE Verified
  <2>1. CASE job.kind = "test" /\ ~job.was
    <3>1. /\ job' \in Jobs /\ job'.pc = "find" /\ job'.next = "end"
          /\ job'.kind = job.kind /\ job'.was = job.was /\ job'.started = job.started /\ job'.child = job.child
          /\ job'.target = job.target /\ job'.victim = job.victim /\ job'.seen = job.seen /\ job'.ok = job.ok /\ job'.refused = job.refused
      BY <1>0, <1>14, <2>1, CallEffect DEF Verified, Steps, StopSteps
    <3>2. Machine'
      BY <1>14, <2>1, <3>1, JobMoves DEF Verified
    <3>3. Progress'
      BY <1>14, <2>1, <3>1 DEF Verified, IInv, Machine, Progress, FreshStart, KillsRecorded, AwaitsOrphan, CleanedUp, StopJob, NothingLeft, AllOrphans, Owned, Runs, Alive, Ours, IdOf, Id, StopSteps
    <3>4. Course'
      BY <1>14, <2>1, <3>1 DEF Verified, IInv, Course, Youngest, Chosen, Identified, StopSteps, Owned, Runs, Ours, Alive
    <3>5. QED
      BY <3>2, <3>3, <3>4 DEF IInv
  <2>2. CASE ~(job.kind = "test" /\ ~job.was)
    <3>1. /\ job' \in Jobs /\ job'.pc = "end"
          /\ job'.kind = job.kind /\ job'.was = job.was /\ job'.started = job.started /\ job'.child = job.child
          /\ job'.target = job.target /\ job'.victim = job.victim /\ job'.seen = job.seen /\ job'.next = job.next /\ job'.ok = job.ok
          /\ job'.refused = job.refused
      BY <1>0, <1>14, <2>2, GotoEffect DEF Verified, Steps, StopSteps
    <3>2. Machine'
      BY <1>14, <2>2, <3>1, JobMoves DEF Verified
    <3>3. Progress'
      BY <1>14, <2>2, <3>1 DEF Verified, IInv, Machine, Progress, FreshStart, KillsRecorded, AwaitsOrphan, CleanedUp, StopJob, NothingLeft, AllOrphans, Owned, Runs, Alive, Ours, IdOf, Id, StopSteps
    <3>4. Course'
      BY <1>14, <2>2, <3>1 DEF Verified, IInv, Course, Youngest, Chosen, Identified, StopSteps, Owned, Runs, Ours, Alive
    <3>5. QED
      BY <3>2, <3>3, <3>4 DEF IInv
  <2>3. QED
    BY <1>14, <2>1, <2>2 DEF Verified
<1>15. CASE GiveUp
  <2>1. /\ job' \in Jobs /\ job'.pc = "failed"
        /\ job'.kind = job.kind /\ job'.was = job.was /\ job'.started = job.started /\ job'.child = job.child
        /\ job'.target = job.target /\ job'.victim = job.victim /\ job'.seen = job.seen /\ job'.next = job.next /\ job'.ok = job.ok
        /\ job'.refused = job.refused
    BY <1>0, <1>15, GotoEffect DEF GiveUp, Steps, StopSteps
  <2>2. Machine'
    BY <1>15, <2>1, JobMoves DEF GiveUp
  <2>3. Progress'
    BY <1>15, <2>1 DEF GiveUp, IInv, Machine, Progress, FreshStart, KillsRecorded, AwaitsOrphan, CleanedUp, StopJob, NothingLeft, AllOrphans, Owned, Runs, Alive, Ours, IdOf, Id, StopSteps
  <2>4. Course'
    BY <1>15, <2>1 DEF GiveUp, IInv, Course, Youngest, Chosen, Identified, StopSteps, Owned, Runs, Ours, Alive
  <2>5. QED
    BY <2>2, <2>3, <2>4 DEF IInv
<1>16. CASE Raise
  <2>1. /\ job' \in Jobs /\ job'.pc = "failed" /\ job'.ok = FALSE
        /\ job'.kind = job.kind /\ job'.was = job.was /\ job'.started = job.started /\ job'.child = job.child
        /\ job'.target = job.target /\ job'.victim = job.victim /\ job'.seen = job.seen /\ job'.next = job.next /\ job'.refused = job.refused
    BY <1>0, <1>16, OkEffect DEF Raise, Steps
  <2>2. CASE job.pc # "record"
    <3>1. UNCHANGED <<procs, births, owner, config, selected, orphans, outdated>>
      BY <1>16, <2>2 DEF Raise
    <3>2. Machine'
      BY <2>1, <2>2, <3>1, JobMoves
    <3>3. Progress'
      BY <1>16, <2>1, <2>2, <3>1 DEF Raise, IInv, Machine, Progress, FreshStart, KillsRecorded, AwaitsOrphan, CleanedUp, StopJob, NothingLeft, AllOrphans, Owned, Runs, Alive, Ours, IdOf, Id, StopSteps
    <3>4. Course'
      BY <1>16, <2>1, <2>2, <3>1 DEF Raise, IInv, Course, Youngest, Chosen, Identified, StopSteps, Owned, Runs, Ours, Alive
    <3>5. QED
      BY <3>2, <3>3, <3>4 DEF IInv
  <2>3. CASE job.pc = "record"
    <3>1. orphans' = orphans \cup {job.child.born} /\ UNCHANGED <<procs, births, owner, config, selected, outdated>>
      BY <1>16, <2>3 DEF Raise
    <3>2. Machine' /\ AllOrphans'
      BY <2>1, <2>3, <3>1, Abandoned
    <3>3. Progress'
      BY <1>16, <2>1, <2>3, <3>1, <3>2 DEF Raise, IInv, Machine, Progress, FreshStart, KillsRecorded, AwaitsOrphan, CleanedUp, StopJob, NothingLeft, StopSteps
    <3>4. Course'
      BY <1>16, <2>1, <2>3, <3>1, <3>2 DEF Raise, IInv, Course, Youngest, Chosen, Identified, StopSteps, Owned, Runs, Ours, Alive
    <3>5. QED
      BY <3>2, <3>3, <3>4 DEF IInv
  <2>4. QED
    BY <2>2, <2>3
<1>17. CASE Failed
  <2>1. CASE job.kind # "stop" /\ ~job.was
    <3>1. /\ job' \in Jobs /\ job'.pc = "find" /\ job'.next = "cleanup"
          /\ job'.kind = job.kind /\ job'.was = job.was /\ job'.started = job.started /\ job'.child = job.child
          /\ job'.target = job.target /\ job'.victim = job.victim /\ job'.seen = job.seen /\ job'.ok = job.ok /\ job'.refused = job.refused
      BY <1>0, <1>17, <2>1, CallEffect DEF Failed, Steps, StopSteps
    <3>2. Machine'
      BY <1>17, <2>1, <3>1, JobMoves DEF Failed
    <3>3. Progress'
      BY <1>17, <2>1, <3>1 DEF Failed, IInv, Machine, Progress, FreshStart, KillsRecorded, AwaitsOrphan, CleanedUp, StopJob, NothingLeft, AllOrphans, Owned, Runs, Alive, Ours, IdOf, Id, StopSteps
    <3>4. Course'
      BY <1>17, <2>1, <3>1 DEF Failed, IInv, Course, Youngest, Chosen, Identified, StopSteps, Owned, Runs, Ours, Alive
    <3>5. QED
      BY <3>2, <3>3, <3>4 DEF IInv
  <2>2. CASE ~(job.kind # "stop" /\ ~job.was)
    <3>1. /\ job' \in Jobs /\ job'.pc = "cleanup"
          /\ job'.kind = job.kind /\ job'.was = job.was /\ job'.started = job.started /\ job'.child = job.child
          /\ job'.target = job.target /\ job'.victim = job.victim /\ job'.seen = job.seen /\ job'.next = job.next /\ job'.ok = job.ok
          /\ job'.refused = job.refused
      BY <1>0, <1>17, <2>2, GotoEffect DEF Failed, Steps, StopSteps
    <3>2. Machine'
      BY <1>17, <2>2, <3>1, JobMoves DEF Failed
    <3>3. Progress'
      BY <1>17, <2>2, <3>1 DEF Failed, IInv, Machine, Progress, FreshStart, KillsRecorded, AwaitsOrphan, CleanedUp, StopJob, NothingLeft, AllOrphans, Owned, Runs, Alive, Ours, IdOf, Id, StopSteps
    <3>4. Course'
      BY <1>17, <2>2, <3>1 DEF Failed, IInv, Course, Youngest, Chosen, Identified, StopSteps, Owned, Runs, Ours, Alive
    <3>5. QED
      BY <3>2, <3>3, <3>4 DEF IInv
  <2>3. QED
    BY <1>17, <2>1, <2>2 DEF Failed
<1>18. CASE Cleanup
  <2>1. CASE job.started
    <3>1. /\ job' \in Jobs /\ job'.pc = "find" /\ job'.next = "end"
          /\ job'.kind = job.kind /\ job'.was = job.was /\ job'.started = job.started /\ job'.child = job.child
          /\ job'.target = job.target /\ job'.victim = job.victim /\ job'.seen = job.seen /\ job'.ok = job.ok /\ job'.refused = job.refused
      BY <1>0, <1>18, <2>1, CallEffect DEF Cleanup, Steps, StopSteps
    <3>2. Machine'
      BY <1>18, <2>1, <3>1, JobMoves DEF Cleanup
    <3>3. Progress'
      BY <1>18, <2>1, <3>1 DEF Cleanup, IInv, Machine, Progress, FreshStart, KillsRecorded, AwaitsOrphan, CleanedUp, StopJob, NothingLeft, AllOrphans, Owned, Runs, Alive, Ours, IdOf, Id, StopSteps
    <3>4. Course'
      BY <1>18, <2>1, <3>1 DEF Cleanup, IInv, Course, Youngest, Chosen, Identified, StopSteps, Owned, Runs, Ours, Alive
    <3>5. QED
      BY <3>2, <3>3, <3>4 DEF IInv
  <2>2. CASE ~job.started
    <3>1. /\ job' \in Jobs /\ job'.pc = "end"
          /\ job'.kind = job.kind /\ job'.was = job.was /\ job'.started = job.started /\ job'.child = job.child
          /\ job'.target = job.target /\ job'.victim = job.victim /\ job'.seen = job.seen /\ job'.next = job.next /\ job'.ok = job.ok
          /\ job'.refused = job.refused
      BY <1>0, <1>18, <2>2, GotoEffect DEF Cleanup, Steps, StopSteps
    <3>2. Machine'
      BY <1>18, <2>2, <3>1, JobMoves DEF Cleanup
    <3>3. Progress'
      BY <1>18, <2>2, <3>1 DEF Cleanup, IInv, Machine, Progress, FreshStart, KillsRecorded, AwaitsOrphan, CleanedUp, StopJob, NothingLeft, AllOrphans, Owned, Runs, Alive, Ours, IdOf, Id, StopSteps
    <3>4. Course'
      BY <1>18, <2>2, <3>1 DEF Cleanup, IInv, Course, Youngest, Chosen, Identified, StopSteps, Owned, Runs, Ours, Alive
    <3>5. QED
      BY <3>2, <3>3, <3>4 DEF IInv
  <2>3. QED
    BY <1>18, <2>1, <2>2 DEF Cleanup
<1>19. CASE End
  <2>1. Machine'
    BY <1>19, IdleEffect, JobMoves DEF End
  <2>2. Progress'
    BY <1>19, IdleEffect DEF End, IInv, Machine, Progress, FreshStart, KillsRecorded, AwaitsOrphan, CleanedUp, StopJob, NothingLeft, AllOrphans, Owned, Runs, Alive, Ours, IdOf, Id, StopSteps
  <2>3. Course'
    BY <1>19, IdleEffect DEF End, IInv, Course, Youngest, Chosen, Identified, StopSteps, Owned, Runs, Ours, Alive
  <2>4. QED
    BY <2>1, <2>2, <2>3 DEF IInv
<1>20. CASE FindOwned
  <2>1. IdOf(owner) \in Ids /\ owner # NoId
    BY <1>20 DEF FindOwned, Owned, Runs, IInv, Machine, TypeOK, Owners, Ids, IdOf
  <2>2. /\ job' \in Jobs /\ job'.pc = "kill" /\ job'.target = IdOf(owner) /\ job'.victim = IdOf(owner)
        /\ job'.kind = job.kind /\ job'.was = job.was /\ job'.started = job.started /\ job'.child = job.child
        /\ job'.seen = job.seen /\ job'.next = job.next /\ job'.ok = job.ok /\ job'.refused = job.refused
    BY <1>0, <1>20, <2>1, FoundEffect DEF FindOwned
  <2>3. Machine'
    BY <1>20, <2>2, JobMoves DEF FindOwned
  <2>4. Progress'
    BY <1>20, <2>1, <2>2 DEF FindOwned, IInv, Machine, Progress, FreshStart, KillsRecorded, AwaitsOrphan, CleanedUp, StopJob, NothingLeft, AllOrphans, Owned, Runs, Alive, Ours, IdOf, Id, StopSteps
  <2>5. Course'
    BY <1>20, <2>1, <2>2 DEF FindOwned, IInv, Course, Youngest, Chosen, Identified, StopSteps, Owned, Runs, Ours, Alive
  <2>6. QED
    BY <2>3, <2>4, <2>5 DEF IInv
<1>21. CASE FindAdoptable
  <2>1. PICK p \in Listening \cap Ours :
          owner' = Adopted(p) /\ Found(Id(p))
    BY <1>21 DEF FindAdoptable, Adoptable, Ours, Listening
  <2>2. Id(p) \in Ids
    BY DEF IInv, Machine, TypeOK, Ours, Alive, Id, Ids, Procs
  <2>3. /\ job' \in Jobs /\ job'.pc = "kill" /\ job'.target = Id(p) /\ job'.victim = Id(p)
        /\ job'.kind = job.kind /\ job'.was = job.was /\ job'.started = job.started /\ job'.child = job.child
        /\ job'.seen = job.seen /\ job'.next = job.next /\ job'.ok = job.ok /\ job'.refused = job.refused
    BY <1>0, <2>1, <2>2, FoundEffect
  <2>4. Machine' /\ owner' # NoId /\ IdOf(owner') = Id(p)
    BY <1>21, <2>1, <2>3, Adoption DEF FindAdoptable
  <2>5. Progress'
    BY <1>21, <2>3, <2>4 DEF FindAdoptable, IInv, Machine, Progress, FreshStart, KillsRecorded, AwaitsOrphan, CleanedUp, StopJob, NothingLeft, StopSteps, AllOrphans, Alive, Ours
  <2>6. Course'
    BY <1>21, <2>3, <2>4 DEF FindAdoptable, IInv, Course, Youngest, Chosen, Identified, StopSteps, Owned, Runs, Ours, Alive
  <2>7. QED
    BY <2>4, <2>5, <2>6 DEF IInv
<1>22. CASE FindNothing
  <2>1. job.next \in Steps /\ job.next \in {"start", "giveUp", "cleanup", "end"}
    BY <1>0 DEF Jobs, Steps
  <2>2. /\ job' \in Jobs /\ job'.pc = job.next /\ job'.next = "end"
        /\ job'.kind = job.kind /\ job'.was = job.was /\ job'.started = job.started /\ job'.child = job.child
        /\ job'.ok = job.ok /\ job'.refused = job.refused
    BY <1>0, <1>22, <2>1, LeaveEffect DEF FindNothing, Return, Jobs
  <2>3. Machine' /\ AllOrphans' /\ ~Owned'
    BY <1>22, <2>1, <2>2, Removal DEF FindNothing
  <2>4. FreshStart' /\ KillsRecorded' /\ AwaitsOrphan'
    BY <2>1, <2>2, <2>3 DEF FreshStart, KillsRecorded, AwaitsOrphan
  <2>5. CleanedUp' /\ NothingLeft'
    BY <2>1, <2>2, <2>3 DEF CleanedUp, NothingLeft, AllOrphans
  <2>6. StopJob'
    BY <1>22, <2>2 DEF FindNothing, IInv, Progress, StopJob
  <2>7. Progress'
    BY <2>4, <2>5, <2>6 DEF Progress
  <2>8. Course'
    BY <1>22, <2>1, <2>2, <2>3 DEF FindNothing, IInv, Course, Youngest, Chosen, Identified, StopSteps, Ours, Alive
  <2>9. QED
    BY <2>3, <2>7, <2>8 DEF IInv
<1>34. CASE FindBlind
  <2>1. job.next \in Steps /\ job.next \in {"start", "giveUp", "cleanup", "end"}
    BY <1>0 DEF Jobs, Steps
  <2>2. /\ job' \in Jobs /\ job'.pc = job.next /\ job'.next = "end"
        /\ job'.kind = job.kind /\ job'.was = job.was /\ job'.started = job.started /\ job'.child = job.child
        /\ job'.ok = job.ok /\ job'.refused = job.refused
    BY <1>0, <1>34, <2>1, LeaveEffect DEF FindBlind, Jobs
  <2>3. Machine' /\ AllOrphans' /\ ~Owned'
    BY <1>34, <2>1, <2>2, Removal DEF FindBlind
  <2>4. FreshStart' /\ KillsRecorded' /\ AwaitsOrphan'
    BY <2>1, <2>2, <2>3 DEF FreshStart, KillsRecorded, AwaitsOrphan
  <2>5. CleanedUp' /\ NothingLeft'
    BY <2>1, <2>2, <2>3 DEF CleanedUp, NothingLeft, AllOrphans
  <2>6. StopJob'
    BY <1>34, <2>2 DEF FindBlind, IInv, Progress, StopJob
  <2>7. Progress'
    BY <2>4, <2>5, <2>6 DEF Progress
  <2>8. Course'
    BY <1>34, <2>1, <2>2, <2>3 DEF FindBlind, IInv, Course, Youngest, Chosen, Identified, StopSteps, Ours, Alive
  <2>9. QED
    BY <2>3, <2>7, <2>8 DEF IInv
<1>23. CASE CheckIdentity
  <2>1. owner # NoId /\ job.victim = IdOf(owner) /\ births \in 0..MaxBirths /\ UNCHANGED <<procs, births, owner, config, selected, orphans, outdated>>
    BY <1>23 DEF CheckIdentity, IInv, Machine, TypeOK, Progress, KillsRecorded
  <2>2. Checked <=> Owned
    BY <2>1, LifecycleAssumption DEF IInv, Machine, TypeOK, Owners, IdOf, Ids, Checked, Owned, Runs
  <2>3. CASE Checked
    <3>1. /\ job' \in Jobs /\ job'.pc = "terminate" /\ job'.seen = births
          /\ job'.kind = job.kind /\ job'.was = job.was /\ job'.started = job.started /\ job'.child = job.child
          /\ job'.target = job.target /\ job'.victim = job.victim /\ job'.next = job.next /\ job'.ok = job.ok
          /\ job'.refused = job.refused
      <4>1. job' = [job EXCEPT !.pc = "terminate", !.seen = births]
        BY <1>23, <2>3 DEF CheckIdentity
      <4>2. job.victim \in Ids \cup {NoId} /\ "terminate" \in Steps
        BY <1>0 DEF Jobs, Steps, StopSteps
      <4>3. QED
        BY <1>0, <2>1, <4>1, <4>2, VictimEffect
    <3>2. Machine'
      BY <1>23, <2>1, <3>1, JobMoves DEF CheckIdentity
    <3>3. Progress'
      BY <1>23, <2>1, <3>1 DEF CheckIdentity, IInv, Machine, Progress, FreshStart, KillsRecorded, AwaitsOrphan, CleanedUp, StopJob, NothingLeft, AllOrphans, Owned, Runs, Alive, Ours, IdOf, Id, StopSteps
    <3>4. Youngest' /\ Chosen'
      BY <1>23, <2>1, <3>1 DEF CheckIdentity, IInv, Course, Youngest, Chosen, StopSteps, Ours, Alive
    <3>5. Identified'
      BY <1>23, <2>1, <2>3, <3>1 DEF Identified, Checked, Runs, Alive
    <3>6. QED
      BY <3>2, <3>3, <3>4, <3>5 DEF IInv, Course
  <2>4. CASE ~Checked
    <3>1. /\ job' \in Jobs /\ job'.pc = "await"
          /\ job'.kind = job.kind /\ job'.was = job.was /\ job'.started = job.started /\ job'.child = job.child
          /\ job'.target = job.target /\ job'.next = job.next /\ job'.ok = job.ok
          /\ job'.refused = job.refused
      <4>1. job' = [job EXCEPT !.pc = "await", !.victim = NoId]
        BY <1>23, <2>4 DEF CheckIdentity
      <4>2. job.seen \in 0..MaxBirths /\ "await" \in Steps
        BY <1>0 DEF Jobs, Steps, StopSteps
      <4>3. QED
        BY <1>0, <4>1, <4>2, VictimEffect
    <3>2. Machine'
      BY <1>23, <2>1, <3>1, JobMoves DEF CheckIdentity
    <3>3. Progress'
      BY <1>23, <2>1, <2>2, <2>4, <3>1 DEF CheckIdentity, IInv, Machine, Progress, FreshStart, KillsRecorded, AwaitsOrphan, CleanedUp, StopJob, NothingLeft, AllOrphans, Owned, Runs, Alive, Ours, IdOf, Id, StopSteps
    <3>4. Course'
      BY <1>23, <2>1, <3>1 DEF CheckIdentity, IInv, Course, Youngest, Chosen, Identified, StopSteps, Ours, Alive
    <3>5. QED
      BY <3>2, <3>3, <3>4 DEF IInv
  <2>5. QED
    BY <2>3, <2>4
<1>35. CASE Terminate
  <2>1. /\ job' \in Jobs /\ job'.pc = "await"
        /\ job'.kind = job.kind /\ job'.was = job.was /\ job'.started = job.started /\ job'.child = job.child
        /\ job'.target = job.target /\ job'.next = job.next /\ job'.ok = job.ok
        /\ job'.refused = job.refused
    <3>1. job' = [job EXCEPT !.pc = "await", !.victim = NoId, !.seen = 0]
      BY <1>35 DEF Terminate
    <3>2. 0 \in 0..MaxBirths /\ "await" \in Steps
      BY LifecycleAssumption DEF Steps, StopSteps
    <3>3. QED
      BY <1>0, <3>1, <3>2, VictimEffect
  <2>2. UNCHANGED <<births, owner, config, selected, orphans, outdated>>
    BY <1>35 DEF Terminate
  <2>3. procs' \in [Pids -> Procs \cup {Dead}] /\ \A p \in Pids : procs'[p] \in {procs[p], Dead}
    BY <1>35 DEF Terminate, IInv, Machine, TypeOK
  <2>4. Machine'
    BY <1>35, <2>1, <2>2, <2>3, ProcessesEnd DEF Terminate
  <2>5. owner # NoId /\ job.victim = IdOf(owner)
    BY <1>35 DEF Terminate, IInv, Progress, KillsRecorded
  <2>6. ~Owned'
    <3>1. IdOf(owner) # NoId /\ IdOf(owner).pid = owner.pid /\ IdOf(owner).born = owner.born
      BY <2>5, LifecycleAssumption DEF IInv, Machine, TypeOK, Owners, IdOf, Ids
    <3>2. Runs(job.victim) <=> Owned
      BY <2>5, <3>1 DEF Owned, Runs
    <3>3. owner.pid \in Alive' => owner.pid \in Alive /\ procs'[owner.pid] = procs[owner.pid]
      BY <2>3 DEF Alive
    <3>4. Owned' => Owned
      BY <2>2, <3>3 DEF Owned, Runs
    <3>5. Owned => owner.pid \in Pids /\ procs'[owner.pid] = Dead
      BY <1>35, <2>5, <3>1, <3>2 DEF Terminate, IInv, Machine, TypeOK, Owned, Runs, Alive
    <3>6. QED
      BY <2>2, <3>4, <3>5 DEF Owned, Runs, Alive
  <2>7. Progress'
    BY <1>35, <2>1, <2>2, <2>3, <2>6 DEF Terminate, IInv, Machine, Progress, FreshStart, KillsRecorded, AwaitsOrphan, CleanedUp, StopJob, NothingLeft, StopSteps, AllOrphans, Alive, Ours
  <2>8. Course'
    <3>1. \A p \in Ours' : p \in Ours /\ procs'[p] = procs[p]
      BY <2>3 DEF Ours, Alive
    <3>2. QED
      BY <1>35, <2>1, <2>2, <3>1 DEF Terminate, IInv, Course, Youngest, Chosen, Identified, StopSteps
  <2>9. QED
    BY <2>4, <2>7, <2>8 DEF IInv
<1>24. CASE AwaitClosed
  <2>1. job.next \in Steps /\ job.next \in {"start", "giveUp", "cleanup", "end"}
    BY <1>0 DEF Jobs, Steps
  <2>2. /\ job' \in Jobs /\ job'.pc = job.next /\ job'.next = "end"
        /\ job'.kind = job.kind /\ job'.was = job.was /\ job'.started = job.started /\ job'.child = job.child
        /\ job'.ok = job.ok /\ job'.refused = job.refused
    BY <1>0, <1>24, <2>1, LeaveEffect DEF AwaitClosed, Return, Jobs
  <2>3. ~Owned
    BY <1>24 DEF AwaitClosed, IInv, Progress, AwaitsOrphan, PortOpen, Listening, Owned, Runs
  <2>4. Machine' /\ AllOrphans' /\ ~Owned'
    BY <1>24, <2>1, <2>2, <2>3, Removal DEF AwaitClosed
  <2>5. FreshStart' /\ KillsRecorded' /\ AwaitsOrphan'
    BY <2>1, <2>2, <2>4 DEF FreshStart, KillsRecorded, AwaitsOrphan
  <2>6. CleanedUp' /\ NothingLeft'
    BY <2>1, <2>2, <2>4 DEF CleanedUp, NothingLeft, AllOrphans
  <2>7. StopJob'
    BY <1>24, <2>2 DEF AwaitClosed, IInv, Progress, StopJob
  <2>8. Progress'
    BY <2>5, <2>6, <2>7 DEF Progress
  <2>9. Course'
    BY <1>24, <2>1, <2>2, <2>4 DEF AwaitClosed, IInv, Course, Youngest, Chosen, Identified, StopSteps, Ours, Alive
  <2>10. QED
    BY <2>4, <2>8, <2>9 DEF IInv
<1>25. CASE AwaitNewer
  <2>1. PICK p \in Listening \cap Ours :
          /\ owner' = Adopted(p)
          /\ job' = IF p = job.target.pid THEN job ELSE [job EXCEPT !.pc = "kill", !.victim = Id(p)]
    BY <1>25 DEF AwaitNewer, Adoptable, Ours, Listening
  <2>2. Id(p) \in Ids
    BY DEF IInv, Machine, TypeOK, Ours, Alive, Id, Ids, Procs
  <2>3. /\ job' \in Jobs
        /\ job'.pc = "await" \/ (job'.pc = "kill" /\ job'.victim = Id(p))
        /\ job'.kind = job.kind /\ job'.was = job.was /\ job'.started = job.started /\ job'.child = job.child
        /\ job'.target = job.target /\ job'.next = job.next /\ job'.ok = job.ok /\ job'.refused = job.refused
    <3>1. CASE job' = job
      BY <1>0, <1>25, <3>1 DEF AwaitNewer
    <3>2. CASE job' = [job EXCEPT !.pc = "kill", !.victim = Id(p)]
      <4>1. job.seen \in 0..MaxBirths /\ "kill" \in Steps
        BY <1>0 DEF Jobs, Steps, StopSteps
      <4>2. QED
        BY <1>0, <2>2, <3>2, <4>1, VictimEffect
    <3>3. QED
      BY <2>1, <3>1, <3>2
  <2>4. Machine' /\ procs[p].born \in orphans /\ procs[p].phase = "up"
        /\ owner' # NoId /\ IdOf(owner') = Id(p) /\ owner'.born = procs[p].born
    <3>1. CASE ~Owned
      BY <1>25, <2>1, <2>2, <2>3, <3>1, Adoption DEF AwaitNewer
    <3>2. CASE Owned
      BY <1>25, <2>1, <2>2, <2>3, <3>2, Readoption DEF AwaitNewer
    <3>3. QED
      BY <3>1, <3>2
  <2>5. Progress'
    BY <1>25, <2>2, <2>3, <2>4 DEF AwaitNewer, IInv, Machine, Progress, FreshStart, KillsRecorded, AwaitsOrphan, CleanedUp, StopJob, NothingLeft, AllOrphans, Owned, Runs, Alive, Ours, IdOf, Id, StopSteps
  <2>6. Course'
    BY <1>25, <2>3 DEF AwaitNewer, IInv, Course, Youngest, Chosen, Identified, StopSteps, Ours, Alive
  <2>7. QED
    BY <2>4, <2>5, <2>6 DEF IInv
<1>26. CASE StopRaises
  <2> DEFINE x == IF job.next \in {"start", "giveUp"} \/ job.kind = "stop" THEN "failed" ELSE job.next
  <2>1. x \in {"failed", "cleanup", "end"} /\ (job.kind = "stop" => x = "failed")
    BY <1>0 DEF Jobs
  <2>2. Leave(x, TRUE, FALSE)
    BY <1>26 DEF StopRaises
  <2> HIDE DEF x
  <2>3. /\ job' \in Jobs /\ job'.pc = x /\ job'.refused = TRUE /\ job'.next = "end"
        /\ job'.kind = job.kind /\ job'.was = job.was /\ job'.started = job.started /\ job'.child = job.child
        /\ job'.ok = job.ok
    <3>1. x \in Steps
      BY <2>1 DEF Steps
    <3>2. QED
      BY <1>0, <2>2, <3>1, LeaveEffect
  <2>4. job.pc \in StopSteps
        /\ UNCHANGED <<procs, births, owner, config, selected, orphans, outdated>>
    BY <1>26 DEF StopRaises, StopSteps
  <2>5. Machine'
    BY <2>1, <2>3, <2>4, JobMoves DEF StopSteps
  <2>6. Progress'
    BY <2>1, <2>3, <2>4 DEF IInv, Machine, Progress, FreshStart, KillsRecorded, AwaitsOrphan, CleanedUp, StopJob, NothingLeft, AllOrphans, Owned, Runs, Alive, Ours, IdOf, Id, StopSteps
  <2>7. Course'
    BY <2>1, <2>3, <2>4 DEF IInv, Course, Youngest, Chosen, Identified, StopSteps, Ours, Alive
  <2>8. QED
    BY <2>5, <2>6, <2>7 DEF IInv
<1>27. CASE Crash
  <2>1. job'.pc = "idle" /\ job' \in Jobs /\ job'.kind = "none" /\ job'.child = NoId
    BY <1>27, IdleEffect DEF Crash
  <2>2. Machine'
    <3>1. CASE job.pc # "record"
      BY <1>27, <2>1, <3>1, JobMoves DEF Crash
    <3>2. CASE job.pc = "record"
      BY <1>27, <2>1, <3>2, Abandoned DEF Crash
    <3>3. QED
      BY <3>1, <3>2
  <2>3. Progress'
    BY <2>1 DEF IInv, Machine, Progress, FreshStart, KillsRecorded, AwaitsOrphan, CleanedUp, StopJob, NothingLeft, StopSteps
  <2>4. Course'
    BY <1>27, <2>1, IdleEffect DEF Crash, IInv, Course, Youngest, Chosen, Identified, StopSteps
  <2>5. QED
    BY <2>2, <2>3, <2>4 DEF IInv
<1>28. ASSUME NEW p \in Pids, Load(p) PROVE IInv'
  <2>1. p \in Alive /\ procs[p] \in Procs /\ procs[p].kind = "ours" /\ procs[p].phase = "new"
    BY <1>28 DEF Load, Ours, Alive, IInv, Machine, TypeOK
  <2> DEFINE new == [procs[p] EXCEPT !.phase = "loaded", !.node = config]
  <2>2. new.kind = procs[p].kind /\ new.born = procs[p].born /\ new.phase = "loaded"
        /\ new.node = config /\ new \in Procs /\ new # Dead
    BY <2>1, LifecycleAssumption DEF IInv, Machine, TypeOK, Procs
  <2>3. procs' = [procs EXCEPT ![p] = IF config = NoNode THEN Dead ELSE new]
        /\ UNCHANGED <<births, owner, config, selected, job, orphans, outdated>>
    BY <1>28 DEF Load
  <2> HIDE DEF new
  <2>4. procs' \in [Pids -> Procs \cup {Dead}] /\ procs'[p] \in {Dead, new}
        /\ \A q \in Pids : q # p => procs'[q] = procs[q]
    BY <2>2, <2>3 DEF IInv, Machine, TypeOK
  <2>5. Listening' \subseteq Listening
    BY <2>2, <2>4 DEF Listening, Alive
  <2>6. OneListener' /\ births' \in 0..MaxBirths /\ births <= births'
    BY <2>3, <2>5 DEF IInv, Machine, TypeOK, OneListener
  <2>7. \A q \in Alive' : q \in Alive /\ (q = p \/ procs'[q] = procs[q])
    BY <2>1, <2>4 DEF Alive
  <2>8. QED
    BY <2>1, <2>2, <2>3, <2>4, <2>6, <2>7, Environs DEF Alive
<1>29. ASSUME NEW p \in Pids, Bind(p) PROVE IInv'
  <2>1. p \in Alive /\ procs[p] \in Procs /\ procs[p].kind = "ours" /\ procs[p].phase = "loaded"
    BY <1>29 DEF Bind, Ours, Alive, IInv, Machine, TypeOK
  <2> DEFINE new == [procs[p] EXCEPT !.phase = "up"]
  <2>2. new.kind = procs[p].kind /\ new.born = procs[p].born /\ new.phase = "up"
        /\ new.node = procs[p].node /\ new \in Procs /\ new # Dead
    BY <2>1, LifecycleAssumption DEF Procs
  <2>3. procs' = [procs EXCEPT ![p] = IF PortOpen THEN Dead ELSE new]
        /\ UNCHANGED <<births, owner, config, selected, job, orphans, outdated>>
    BY <1>29 DEF Bind
  <2> HIDE DEF new
  <2>4. procs' \in [Pids -> Procs \cup {Dead}] /\ procs'[p] = (IF PortOpen THEN Dead ELSE new)
        /\ \A q \in Pids : q # p => procs'[q] = procs[q]
    BY <2>2, <2>3 DEF IInv, Machine, TypeOK
  <2>5. OneListener'
    <3>1. CASE PortOpen
      BY <2>4, <3>1 DEF IInv, Machine, OneListener, Listening, Alive
    <3>2. CASE Listening = {}
      BY <2>4, <3>2 DEF OneListener, Listening, Alive
    <3>3. QED
      BY <3>1, <3>2 DEF PortOpen
  <2>6. births' \in 0..MaxBirths /\ births <= births'
    BY <2>3 DEF IInv, Machine, TypeOK
  <2>7. \A q \in Alive' : q \in Alive /\ (procs'[q] = procs[q] \/ (q = p /\ procs'[q] = new))
    BY <2>1, <2>4 DEF Alive
  <2>8. QED
    BY <2>1, <2>2, <2>3, <2>4, <2>5, <2>6, <2>7, Environs
<1>30. ASSUME NEW p \in Pids, Exit(p) PROVE IInv'
  <2>1. procs' = [procs EXCEPT ![p] = Dead]
        /\ UNCHANGED <<births, owner, config, selected, job, orphans, outdated>>
    BY <1>30 DEF Exit
  <2>2. procs' \in [Pids -> Procs \cup {Dead}]
        /\ \A q \in Alive' : q \in Alive /\ procs'[q] = procs[q]
    BY <2>1 DEF IInv, Machine, TypeOK, Alive
  <2>3. OneListener'
    BY <2>2 DEF IInv, Machine, OneListener, Listening
  <2>4. births' \in 0..MaxBirths /\ births <= births'
    BY <2>1 DEF IInv, Machine, TypeOK
  <2>5. QED
    BY <2>1, <2>2, <2>3, <2>4, Environs
<1>31. ASSUME NEW p \in Pids, NEW kind \in {"sameExe", "other"},
              NEW phase \in {"up", "quiet"}, Stranger(p, kind, phase)
       PROVE  IInv'
  <2> DEFINE new == [kind |-> kind, phase |-> phase, node |-> NoNode, born |-> births + 1]
  <2>1. procs' = [procs EXCEPT ![p] = new] /\ births' = births + 1 /\ births < MaxBirths
        /\ p \notin Alive /\ (phase = "up" => ~PortOpen)
        /\ UNCHANGED <<owner, config, selected, job, orphans, outdated>>
    BY <1>31 DEF Stranger
  <2>2. births \in Nat /\ births' \in 0..MaxBirths /\ births <= births'
    BY <2>1, LifecycleAssumption DEF IInv, Machine, TypeOK
  <2>3. new \in Procs /\ new.kind # "ours" /\ new.born = births' /\ new.phase = phase
    BY <2>1, <2>2, LifecycleAssumption DEF Procs
  <2> HIDE DEF new
  <2>4. procs' \in [Pids -> Procs \cup {Dead}] /\ procs'[p] = new
        /\ \A q \in Pids : q # p => procs'[q] = procs[q]
    BY <2>1, <2>3 DEF IInv, Machine, TypeOK
  <2>5. OneListener'
    <3>1. CASE phase = "up"
      BY <2>1, <2>4, <3>1 DEF OneListener, Listening, Alive, PortOpen
    <3>2. CASE phase # "up"
      BY <2>3, <2>4, <3>2 DEF IInv, Machine, OneListener, Listening, Alive
    <3>3. QED
      BY <3>1, <3>2
  <2>6. \A q \in Alive' : (q \in Alive /\ procs'[q] = procs[q]) \/ q = p
    BY <2>4 DEF Alive
  <2>7. births < births' /\ births' <= births'
    BY <2>1, <2>2
  <2>8. QED
    BY <2>1, <2>2, <2>3, <2>4, <2>5, <2>6, <2>7, Environs
<1>32. CASE UNCHANGED vars
  <2>1. Machine'
    BY <1>32 DEF vars, IInv, Machine, TypeOK, Births, OneListener, RecordOurs, ChildNode,
       NothingUnowned, Labelled, SurvivorsLabelled, Alive, Ours, Listening, Owned, Runs, Id, IdOf
  <2>2. Progress'
    BY <1>32 DEF vars, IInv, Machine, Progress, FreshStart, KillsRecorded, AwaitsOrphan, CleanedUp, StopJob, NothingLeft, AllOrphans, Owned, Runs, Alive, Ours, IdOf, Id, StopSteps
  <2>3. Course'
    BY <1>32 DEF vars, IInv, Course, Youngest, Chosen, Identified, StopSteps, Owned, Runs, Ours, Alive
  <2>4. QED
    BY <2>1, <2>2, <2>3 DEF IInv
<1>33. QED
  <2>1. CASE JobSteps
    BY <2>1, <1>1, <1>2, <1>3, <1>4, <1>5, <1>6, <1>7, <1>8, <1>9, <1>10, <1>11, <1>12, <1>13, <1>14, <1>15, <1>16, <1>17, <1>18, <1>19, <1>20, <1>21, <1>22, <1>23, <1>24, <1>25, <1>26, <1>34, <1>35, Zenon DEF JobSteps
  <2>2. CASE Environment
    BY <2>2, <1>27, <1>28, <1>29, <1>30, <1>31, Zenon DEF Environment
  <2>3. QED
    BY <2>1, <2>2, <1>32, Zenon DEF Next

\* The inductive invariant holds when nothing has been started yet, and so always.
LEMMA InitInv == Init => IInv
<1> SUFFICES ASSUME Init PROVE IInv
  OBVIOUS
<1>1. job \in Jobs /\ job.pc = "idle" /\ job.kind = "none" /\ job.child = NoId /\ ~job.started
  <2>1. job = Idle
    BY DEF Init
  <2>2. QED
    BY <2>1, IdleTypes
<1>2. Alive = {} /\ Ours = {} /\ Listening = {} /\ ~Owned
  BY LifecycleAssumption DEF Init, Alive, Ours, Listening, Owned, Runs
<1>3. TypeOK /\ Births
  BY <1>1, <1>2, LifecycleAssumption DEF Init, TypeOK, Births
<1>4. OneListener /\ RecordOurs /\ ChildNode /\ NothingUnowned /\ Labelled /\ SurvivorsLabelled
  BY <1>1, <1>2 DEF OneListener, RecordOurs, ChildNode, NothingUnowned, Labelled, SurvivorsLabelled
<1>5. Progress
  BY <1>1, <1>2 DEF Progress, FreshStart, KillsRecorded, AwaitsOrphan, CleanedUp, StopJob, NothingLeft
<1>6. Course
  BY <1>1 DEF Course, Youngest, Chosen, Identified, StopSteps
<1>7. QED
  BY <1>3, <1>4, <1>5, <1>6 DEF IInv, Machine

\* Every step of every job and of the environment keeps the inductive invariant.
THEOREM Inductive == Spec => []IInv
<1>1. QED
  BY InitInv, InductiveStep, PTL DEF Spec

\* The state of the records, the machine and the job is well-formed.
THEOREM ProviderTypeCorrect == Spec => []TypeOK
<1>1. IInv => TypeOK
  BY DEF IInv, Machine
<1>2. QED
  BY Inductive, <1>1, PTL

\* Whatever start(), stop(), recover_owned() and the environment do, and in
\* whatever order, a process that was recorded never runs without its record.
THEOREM ProcessesStayOwned == Spec => []NothingUnowned
<1>1. IInv => NothingUnowned
  BY DEF IInv, Machine
<1>2. QED
  BY Inductive, <1>1, PTL

\* owner.json names the node its process has loaded or will load, adopted
\* survivors included, unless a later job changed node-id.txt under a survivor
\* that was not yet on the port.
THEOREM OwnerNodeAlwaysTrue == Spec => []OwnerNodeTrue
<1>1. IInv => OwnerNodeTrue
  BY DEF IInv, Machine, Labelled, OwnerNodeTrue
<1>2. QED
  BY Inductive, <1>1, PTL

\* The path a job verified belongs to a process of the selected node, unless the
\* job itself adopted a survivor or owner.json was wrong already.
THEOREM VerifiedAlwaysSelected == Spec => []VerifiesSelected
<1>1. IInv => VerifiesSelected
  <2> SUFFICES ASSUME IInv, job.pc = "verified", Owned, procs[owner.pid].phase # "new",
                      job.started \/ (job.child = NoId /\ owner.born \notin outdated)
               PROVE  procs[owner.pid].node = selected
    BY DEF VerifiesSelected
  <2>1. owner.node = selected
    BY DEF IInv, Course, Chosen
  <2>2. owner.born \notin outdated
    <3>1. CASE job.started
      BY <3>1 DEF IInv, Machine, TypeOK, Course, Youngest, Chosen
    <3>2. QED
      BY <3>1
  <2>3. QED
    BY <2>1, <2>2 DEF IInv, Machine, Labelled
<1>2. QED
  BY Inductive, <1>1, PTL

\* The cleanup of a failed job, and of every test, ends what the job started.
THEOREM FailureLeavesNothing == Spec => []NothingLeft
<1>1. IInv => NothingLeft
  BY DEF IInv, Progress
<1>2. QED
  BY Inductive, <1>1, PTL

\* kill_identity() is only ever given the identity in owner.json.  That identity,
\* when it runs, is a process of FreeNet Hub; whoever else has its process id when
\* the process is ended came after the check.
LEMMA KillsOurs ==
  ASSUME IInv, Terminate, NEW p \in Alive \ Ours, procs'[p] # procs[p]
  PROVE  p = job.victim.pid /\ procs[p].born > job.seen
<1>1. owner # NoId /\ job.victim = IdOf(owner)
  BY DEF Terminate, IInv, Progress, KillsRecorded
<1>2. IdOf(owner).pid = owner.pid /\ IdOf(owner).born = owner.born
  BY DEF IdOf
<1>3. p = job.victim.pid
  BY DEF Terminate, IInv, Machine, TypeOK, Alive
<1>4. procs[p].born # owner.born
  BY <1>1, <1>2, <1>3 DEF IInv, Machine, RecordOurs, Owned, Runs, Ours
<1>5. QED
  BY <1>1, <1>2, <1>3, <1>4 DEF Terminate, IInv, Course, Identified, Machine, TypeOK, Jobs, Alive, Procs

\* No job ends, or takes the process id of, a running process that is not FreeNet
\* Hub's own, but for one that took the id between the check and OpenProcess.
THEOREM StrangersAlwaysSurvive == Spec => StrangersSurvive
<1> DEFINE Spared ==
      job' # job => \A p \in Alive \ Ours :
         \/ procs'[p] = procs[p]
         \/ job.pc = "terminate" /\ p = job.victim.pid /\ procs[p].born > job.seen
<1>1. ASSUME IInv, [Next]_vars PROVE [Spared]_vars
  <2>1. CASE Spawn
    <3>1. PICK q \in Pids \ Alive : procs' = [procs EXCEPT ![q] =
            [kind |-> "ours", phase |-> "new", node |-> NoNode, born |-> births + 1]]
      BY <2>1 DEF Spawn
    <3>2. \A p \in Alive : procs'[p] = procs[p]
      BY <1>1, <3>1 DEF Alive, IInv, Machine, TypeOK
    <3>3. QED
      BY <3>2
  <2>2. CASE Terminate
    <3>1. job.pc = "terminate"
      BY <2>2 DEF Terminate
    <3>2. QED
      BY <1>1, <2>2, <3>1, KillsOurs
  <2>3. CASE Environment
    <3>1. procs' = procs \/ job' = job
      BY <2>3 DEF Environment, Crash, Load, Bind, Exit, Stranger
    <3>2. QED
      BY <3>1
  <2>4. CASE JobSteps /\ ~Spawn /\ ~Terminate
    <3>1. procs' = procs
      BY <2>4 DEF JobSteps, Request, RequestStop, Verify, Select, PoolRewritten, Ensure, StartAdopts,
         StartRefused, StartFresh, Configure, Record, Poll, Probe, Verified, GiveUp, Raise,
         Failed, Cleanup, End, FindOwned, FindAdoptable, FindNothing, FindBlind, CheckIdentity,
         AwaitClosed, AwaitNewer, StopRaises
    <3>2. QED
      BY <3>1
  <2>5. CASE UNCHANGED vars
    BY <2>5
  <2>6. QED
    BY <1>1, <2>1, <2>2, <2>3, <2>4, <2>5 DEF Next
<1>2. QED
  BY Inductive, <1>1, PTL DEF Spec, StrangersSurvive

\* Where a StopOne that is not refused can end.
LEMMA StopEnds ==
  ASSUME IInv, Next, job.kind = "stop", job.pc # "end", job'.pc = "end", ~job'.refused, ~job'.blind
  PROVE  FindNothing \/ AwaitClosed
<1> SUFFICES ASSUME ~FindNothing, ~AwaitClosed PROVE FALSE
  OBVIOUS
<1>1. /\ job \in Jobs /\ ~job.started
      /\ job.pc \in StopSteps \/ (job.refused /\ job.pc \in {"failed", "cleanup"})
  BY DEF IInv, Machine, Progress, TypeOK, StopJob
<1>2. ~FindOwned /\ ~FindAdoptable /\ ~AwaitNewer
  BY <1>1 DEF FindOwned, FindAdoptable, AwaitNewer, Found, Jobs
<1>3. ~CheckIdentity /\ ~Terminate
  BY <1>1 DEF CheckIdentity, Terminate, Jobs
<1>4. ~StopRaises /\ ~FindBlind
  BY <1>1 DEF StopRaises, FindBlind, Leave, Jobs
<1>5. ~Failed
  BY <1>1, GotoEffect DEF Failed, Steps
<1>6. ~Cleanup
  BY <1>1, GotoEffect DEF Cleanup, Steps, StopSteps
<1>7. ~Crash
  BY IdleEffect DEF Crash
<1>8. ~Environment
  BY <1>7 DEF Environment, Load, Bind, Exit, Stranger
<1>9. JobSteps
  BY <1>8 DEF Next
<1>10. ~(Ensure \/ StartAdopts \/ StartRefused \/ StartFresh \/ Configure \/ Spawn \/ Record
         \/ Poll \/ Probe \/ Verified \/ GiveUp \/ Raise \/ End)
  BY <1>1 DEF StopSteps, Ensure, StartAdopts, StartRefused, StartFresh, Configure, Spawn, Record,
     Poll, Probe, Verified, GiveUp, Raise, End
<1>11. ~(Request("connect") \/ Request("test") \/ RequestStop \/ Verify)
       /\ \A n \in Nodes : ~Select(n) /\ ~PoolRewritten(n)
  BY <1>1 DEF StopSteps, Request, RequestStop, Verify, Select, PoolRewritten
<1>12. QED
  BY <1>2, <1>3, <1>4, <1>5, <1>6, <1>9, <1>10, <1>11, Zenon DEF JobSteps

\* A StopOne that returns without an error leaves nothing of FreeNet Hub's
\* listening, the orphans of killed jobs included.
THEOREM StopAlwaysFrees == Spec => StopFrees
<1> DEFINE Freed ==
      job.kind = "stop" /\ job.pc # "end" /\ job'.pc = "end" /\ ~job'.refused /\ ~job'.blind
          => \A p \in Ours : procs'[p] # Dead => procs'[p].phase # "up"
<1>1. ASSUME IInv, [Next]_vars PROVE [Freed]_vars
  <2> SUFFICES ASSUME Next, job.kind = "stop", job.pc # "end", job'.pc = "end", ~job'.refused, ~job'.blind
               PROVE  \A p \in Ours : procs'[p] # Dead => procs'[p].phase # "up"
    BY <1>1
  <2>1. \A p \in Alive : procs[p].born \in Nat
    BY <1>1 DEF IInv, Machine, TypeOK, Alive, Procs
  <2>2. \A p \in Ours : procs[p].phase = "up" => p \in Adoptable(0) /\ PortOpen
    BY <2>1 DEF Adoptable, Ours, Listening, PortOpen
  <2>3. CASE FindNothing
    BY <2>2, <2>3 DEF FindNothing
  <2>4. CASE AwaitClosed
    BY <2>2, <2>4 DEF AwaitClosed
  <2>5. QED
    BY <1>1, <2>3, <2>4, StopEnds
<1>2. QED
  BY Inductive, <1>1, PTL DEF Spec, StopFrees
=============================================================================
