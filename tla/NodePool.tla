------------------------------ MODULE NodePool ------------------------------
(***************************************************************************)
(* The node pool of both desktops: nodes.json, the operations of           *)
(* app/nodehub.py on it, and the jobs that test, choose and measure nodes  *)
(* through the NODE provider.                                              *)
(*                                                                         *)
(* On Windows (app/engine.py) one job runs at a time, may be killed, and   *)
(* alone edits the file.  On Linux (freenet_hub_linux_r37.py) a worker     *)
(* thread runs the jobs while the GTK thread edits the same file: each     *)
(* edit reads a copy, opens the one temporary name, writes the copy to it, *)
(* and renames it.  An edit is therefore four steps there and one on       *)
(* Windows.                                                                *)
(*                                                                         *)
(* Ranking is a free choice.  How the provider is started and stopped is   *)
(* ProviderLifecycle and LinuxHub; here some node's process has the port,  *)
(* or none, and the record, which is all the jobs look at, names it or     *)
(* does not.  A record that names another node than its process was        *)
(* started for is left to ProviderLifecycle.                               *)
(***************************************************************************)
EXTENDS Integers, Sequences, FiniteSets

CONSTANTS Ids,        \* node ids
          Outdated,   \* those an older parser gave
          Raw,        \* the link of each id
          ServedBy,   \* the public source that lists the link
          MaxNodes,   \* MAX_NODES
          MaxTurns,   \* bound: jobs begun and clicks made, per platform
          None, NoText

ASSUME PoolAssumption ==
    /\ None \notin Ids
    /\ Outdated \subseteq Ids
    \* The current parser gives a link one id, a digest of what it reads in it.
    /\ \A i, j \in Ids \ Outdated : Raw[i] = Raw[j] => i = j
    /\ MaxNodes \in Nat \ {0}

VARIABLES platform,  \* "windows" or "linux", never changes
          store,     \* nodes.json: the selected id and the list of nodes
          tmp,       \* nodes.json.tmp
          hand,      \* the edit each thread is in the middle of
          running,   \* the node of the process that has the NODE port, or None
          owner,     \* the node owned('NODE') and _node_owner() name, or None
          job,       \* the running job
          swayed,    \* history: a process ran without a record that names it, or,
                     \* on Linux, a click came between the choice of a node by a
                     \* batch and the record of what was measured, or the
                     \* benchmark of the method credited another node
          turns      \* counted against the bound

vars == <<platform, store, tmp, hand, running, owner, job, swayed, turns>>
provider == <<running, owner>>

Windows == platform = "windows"
Linux == platform = "linux"
Threads == {"worker", "window"}
Sources == {ServedBy[i] : i \in Ids}

\* marked: favorite or pinned, which the code keeps alike.  What else the user
\* wrote (rating, tags, note) keeps no node, and goes with it.  test is last_test
\* and perf is performance_test when they passed: the node through which they
\* were measured.
Node(id, source) ==
    [id |-> id, source |-> source, marked |-> FALSE, test |-> None, perf |-> None]

Records ==
    [id : Ids, source : Sources \cup {"own", "country"}, marked : BOOLEAN,
     test : Ids \cup {None}, perf : Ids \cup {None}]

\* No text is not the text of a pool.
ASSUME TextAssumption == NoText \notin [selected : Ids \cup {None}, nodes : Seq(Records)]

IdsOf(nodes) == {nodes[k].id : k \in DOMAIN nodes}
NodeOf(nodes, id) == nodes[CHOOSE k \in DOMAIN nodes : nodes[k].id = id]
First(nodes) == IF nodes = <<>> THEN None ELSE nodes[1].id
Pool == IdsOf(store.nodes)

\* The elements of s at these positions, in their order (a list comprehension).
Those(s, places) ==
    [k \in 1..Cardinality(places) |->
        s[CHOOSE i \in places : Cardinality({j \in places : j <= i}) = k]]

\* Every save and every read cuts at the limit.
Cut(nodes) == SubSeq(nodes, 1, IF Len(nodes) < MaxNodes THEN Len(nodes) ELSE MaxNodes)

-----------------------------------------------------------------------------
(* nodehub.merge *)

\* Mutant: the incoming record replaces the old one.
UpdatedForgetful(old, new) == new

\* The marks and what was measured are kept from the old record.
Updated(old, new) ==
    [new EXCEPT !.marked = old.marked, !.test = old.test, !.perf = old.perf]

\* Mutant: a link that is already there comes in a second time.
MergeAppends(existing, incoming) == Cut(existing \o incoming)

Merge(existing, incoming) ==
    Cut([k \in DOMAIN existing |->
            IF existing[k].id \in IdsOf(incoming)
            THEN Updated(existing[k], NodeOf(incoming, existing[k].id))
            ELSE existing[k]]
        \o Those(incoming, {k \in DOMAIN incoming : incoming[k].id \notin IdsOf(existing)}))

-----------------------------------------------------------------------------
(* The edits of the store.  s is the copy the thread has read. *)

\* The selected node, or the first one when it is gone.
Reselected(s, nodes) ==
    [selected |-> IF s.selected \in IdsOf(nodes) THEN s.selected ELSE First(nodes),
     nodes |-> nodes]

\* Only an empty selection is replaced: an import removes nothing.
Import(s, incoming) ==
    LET nodes == Merge(s.nodes, incoming)
    IN [selected |-> IF s.selected = None THEN First(nodes) ELSE s.selected,
        nodes |-> nodes]

\* The last old node with the same link, where an older parser gave another id.
Legacy(old, n) == {k \in DOMAIN old : n.id \notin IdsOf(old) /\ Raw[old[k].id] = Raw[n.id]}
LegacyOf(old, n) == old[CHOOSE k \in Legacy(old, n) : \A j \in Legacy(old, n) : j <= k]

\* Of a legacy node what the user wrote goes over to the new id, and no test.
Match(old, n) ==
    IF n.id \in IdsOf(old) THEN NodeOf(old, n.id)
    ELSE [n EXCEPT !.marked = LegacyOf(old, n).marked]

Matching(old, incoming) ==
    LET hits == Those(incoming, {k \in DOMAIN incoming : \/ incoming[k].id \in IdsOf(old)
                                                        \/ Legacy(old, incoming[k]) # {}})
    IN [k \in DOMAIN hits |-> Match(old, hits[k])]

Migrated(old, incoming) ==
    {LegacyOf(old, incoming[k]).id : k \in {j \in DOMAIN incoming : Legacy(old, incoming[j]) # {}}}

\* engine.node_refresh_public, with the sources that answered
RefreshWindows(s, ok, incoming) ==
    LET fresh == Merge(Matching(s.nodes, incoming), incoming)
        gone == IdsOf(incoming) \cup Migrated(s.nodes, incoming)
        kept == Those(s.nodes, {k \in DOMAIN s.nodes :
                                  LET n == s.nodes[k]
                                  IN n.id \notin gone /\ (n.source \notin ok \/ n.marked)})
    IN Reselected(s, Merge(kept, fresh))

\* engine.node_refresh_country_verified: the shard goes first
RefreshCountry(s, incoming) ==
    LET known == Those(incoming, {k \in DOMAIN incoming : incoming[k].id \in IdsOf(s.nodes)})
        fresh == Merge([k \in DOMAIN known |-> NodeOf(s.nodes, known[k].id)], incoming)
        kept == Those(s.nodes, {k \in DOMAIN s.nodes : s.nodes[k].id \notin IdsOf(fresh)})
    IN Reselected(s, Cut(fresh \o kept))

\* r37.node_refresh_public: the nodes of a source that failed go as well
RefreshLinux(s, incoming) ==
    Reselected(s, Merge(Those(s.nodes, {k \in DOMAIN s.nodes : \/ s.nodes[k].source \notin Sources
                                                               \/ s.nodes[k].marked}),
                        incoming))

\* The node with this id, if it is there, becomes n.
Changed(s, id, n) ==
    [s EXCEPT !.nodes = [k \in DOMAIN @ |-> IF @[k].id = id THEN n ELSE @[k]]]

RecordTest(s, id, through) == Changed(s, id, [NodeOf(s.nodes, id) EXCEPT !.test = through])
RecordPerf(s, id, through) == Changed(s, id, [NodeOf(s.nodes, id) EXCEPT !.perf = through])
Mark(s, id) == Changed(s, id, [NodeOf(s.nodes, id) EXCEPT !.marked = ~@])

\* node_batch_fast, node_test_all: endpoint_test of every node, which only the
\* ranking reads.
TestAll(s) == s

\* An edit: what is done, to which node, with what.
Op(what, id, with) == [what |-> what, id |-> id, with |-> with, ok |-> {}]
NoOp == Op("none", None, <<>>)

\* node_select, node_update_meta: NODE_NOT_FOUND
CanEdit(op, s) == op.what \in {"select", "mark"} => op.id \in IdsOf(s.nodes)

Edited(op, s) ==
    CASE op.what = "select" -> [s EXCEPT !.selected = op.id]
      [] op.what = "mark" -> Mark(s, op.id)
      [] op.what = "test" -> RecordTest(s, op.id, op.with)
      [] op.what = "perf" -> RecordPerf(s, op.id, op.with)
      [] op.what = "import" -> Import(s, op.with)
      [] op.what = "country" -> RefreshCountry(s, op.with)
      [] op.what = "refresh" -> IF Windows THEN RefreshWindows(s, op.ok, op.with)
                                ELSE RefreshLinux(s, op.with)
      [] op.what = "testall" -> TestAll(s)

-----------------------------------------------------------------------------
(* Threads and jobs *)

\* renamed: the file the thread has open was renamed by the other one.
FreeHand == [pc |-> "free", op |-> NoOp, copy |-> NoText, stale |-> FALSE, renamed |-> FALSE]
Idle == [kind |-> "none", pc |-> "idle", next |-> "end", todo |-> {}, node |-> None,
         was |-> FALSE, original |-> None, through |-> None]

Seqs(S) == UNION {{q \in [1..k -> S] : \A i, j \in 1..k : i # j => q[i] # q[j]} : k \in 1..MaxNodes}

\* What the current parser makes of a text: each link once.
Feeds == Seqs(Ids \ Outdated)
Imported(feed) == [k \in DOMAIN feed |-> Node(feed[k], "own")]
Listed(feed) == [k \in DOMAIN feed |-> Node(feed[k], ServedBy[feed[k]])]
Shard(feed) == [k \in DOMAIN feed |-> Node(feed[k], "country")]

Init ==
    /\ platform \in {"windows", "linux"}
    /\ \E nodes \in {<<>>} \cup Seqs(Ids), source \in {"own", "public"} :
          store = Reselected([selected |-> None], [k \in DOMAIN nodes |->
                      Node(nodes[k], IF source = "own" THEN "own" ELSE ServedBy[nodes[k]])])
    /\ tmp = NoText
    /\ hand = [t \in Threads |-> FreeHand]
    /\ running = None /\ owner = None
    /\ job = Idle
    /\ swayed = FALSE
    /\ turns = 0

Turn == turns < MaxTurns[platform] /\ turns' = turns + 1
Busy(t) == hand[t].pc # "free"
Choosing == job.kind = "batch" /\ job.pc \in {"connect", "measure", "perf", "saving"}

\* A thread reads the copy it will edit.
Take(t, op) ==
    LET overlap == \E u \in Threads \ {t} : Busy(u)
        another == op.what = "perf" /\ job.kind = "bench" /\ op.with \notin {None, op.id}
    IN /\ hand' = [u \in Threads |->
                      IF u = t THEN [FreeHand EXCEPT !.pc = "read", !.op = op, !.copy = store,
                                                     !.stale = overlap]
                      ELSE [hand[u] EXCEPT !.stale = Busy(u)]]
       /\ swayed' = (swayed \/ overlap \/ another \/ (t = "window" /\ Choosing))
       /\ UNCHANGED <<store, tmp>>

\* Where an exception takes a job: the finally blocks.
Raised(j) ==
    [j EXCEPT !.pc = IF j.kind \in {"connect", "test", "bench", "batch"} /\ j.pc # "end"
                     THEN "finish" ELSE "end",
              !.todo = {}, !.node = None, !.through = None]

\* The job goes on as j once the edit is saved.
Save(op, j) ==
    IF Windows
    THEN /\ store' = Edited(op, store)
         /\ job' = j
         /\ UNCHANGED <<tmp, hand, swayed>>
    ELSE /\ Take("worker", op)
         /\ job' = [j EXCEPT !.pc = "saving", !.next = j.pc]

Goto(pc) == job' = [job EXCEPT !.pc = pc]
Files == <<store, tmp, hand, swayed>>

\* The thread's edit fails: the caller sees the exception.
GiveUp(t) ==
    /\ hand' = [hand EXCEPT ![t] = FreeHand]
    /\ job' = IF t = "worker" THEN Raised([job EXCEPT !.pc = job.next]) ELSE job

\* What a reader makes of a file that is cut short, or of two texts written over
\* each other: the default.
Torn == [selected |-> None, nodes |-> <<>>]

\* tmp.write_text opens the one temporary name, which empties it.
Open(t) ==
    /\ hand[t].pc = "read"
    /\ IF CanEdit(hand[t].op, hand[t].copy)
       THEN /\ tmp' = Torn
            /\ hand' = [hand EXCEPT ![t].pc = "open"]
            /\ job' = job
       ELSE /\ GiveUp(t)
            /\ tmp' = tmp
    /\ UNCHANGED <<platform, store, provider, swayed, turns>>

\* The text goes to the file that was opened, wherever its name is by now; if
\* the other thread has written to it too, it may be neither's text.
Fill(t) ==
    /\ hand[t].pc = "open"
    /\ \E text \in {Edited(hand[t].op, hand[t].copy)}
                    \cup (IF hand[t].renamed \/ \E u \in Threads \ {t} : hand[u].pc = "filled"
                         THEN {Torn} ELSE {}) :
          IF hand[t].renamed THEN store' = text /\ tmp' = tmp
          ELSE tmp' = text /\ store' = store
    /\ hand' = [hand EXCEPT ![t] = [FreeHand EXCEPT !.pc = "filled", !.stale = hand[t].stale]]
    /\ UNCHANGED <<platform, provider, job, swayed, turns>>

\* os.replace publishes what is under the name, the other thread's file in any
\* state; that one's rename then finds nothing.
Publish(t) ==
    /\ hand[t].pc = "filled"
    /\ IF tmp # NoText
       THEN /\ store' = tmp
            /\ tmp' = NoText
            /\ hand' = [u \in Threads |-> IF u = t THEN FreeHand
                                          ELSE [hand[u] EXCEPT !.renamed = @ \/ hand[u].pc = "open"]]
            /\ job' = IF t = "worker" THEN [job EXCEPT !.pc = job.next] ELSE job
       ELSE /\ GiveUp(t)
            /\ UNCHANGED <<store, tmp>>
    /\ UNCHANGED <<platform, provider, swayed, turns>>

\* A row clicked, a mark toggled: on the GTK thread, whatever the worker does.
Click ==
    /\ Linux
    /\ ~Busy("window")
    /\ Turn
    /\ \E id \in Pool, what \in {"select", "mark"} : Take("window", Op(what, id, <<>>))
    /\ UNCHANGED <<platform, provider, job>>

-----------------------------------------------------------------------------
(* Jobs that only edit *)

Start(kind, pc) ==
    [Idle EXCEPT !.kind = kind, !.pc = pc,
                 !.was = kind \in {"connect", "test", "bench"} /\ owner # None,
                 !.original = IF Linux /\ kind = "batch" THEN store.selected ELSE None]

MayStart == job = Idle /\ Turn

\* node_import_text, node_refresh_public, node_test_all / node_batch_fast
EditJob ==
    /\ MayStart
    /\ \E feed \in Feeds :
          \/ Save(Op("import", None, Imported(feed)), Start("edit", "end"))
          \/ \E ok \in IF Windows THEN SUBSET Sources ELSE {Sources} :
                /\ {ServedBy[feed[k]] : k \in DOMAIN feed} \subseteq ok
                /\ Save([Op("refresh", None, Listed(feed)) EXCEPT !.ok = ok], Start("edit", "end"))
          \/ Pool # {} /\ Save(Op("testall", None, <<>>), Start("edit", "end"))
    /\ UNCHANGED <<platform, provider>>

\* NodeSelect (NODE_ACTIVE_STOP_FIRST), NodeFavorite, NodePin of the Windows
\* engine.  NodeMeta writes what the pool does not keep a node for.
SelectOrMark ==
    /\ Windows
    /\ MayStart
    /\ \E id \in Pool :
          \/ owner \in {None, id} /\ Save(Op("select", id, <<>>), Start("edit", "end"))
          \/ Save(Op("mark", id, <<>>), Start("edit", "end"))
    /\ UNCHANGED <<platform, provider>>

-----------------------------------------------------------------------------
(* Jobs that use the provider *)

\* The actions on the selected node refuse while the record names another.
MayUseSelected == store.selected # None /\ owner \in {None, store.selected}

\* ConnectSelectedNode; NodeTest and NodeSpeed
UseSelected ==
    /\ Windows
    /\ MayStart
    /\ MayUseSelected
    /\ \E kind \in {"connect", "test"} :
          job' = [Start(kind, "connect") EXCEPT !.node = store.selected]
    /\ UNCHANGED <<platform, Files, provider>>

\* _node_system_preflight: of the selected node, or of one that ensure_node finds
Preflight ==
    /\ Windows
    /\ MayStart
    /\ \/ /\ MayUseSelected
          /\ job' = [Start("test", "connect") EXCEPT !.node = store.selected]
       \/ /\ Pool # {}
          /\ \E pc \in {"rank", "country"} : job' = [Start("bench", pc) EXCEPT !.was = FALSE]
    /\ UNCHANGED <<platform, Files, provider>>

\* node_connect and benchmark_node
LinuxSelected ==
    /\ Linux
    /\ MayStart
    /\ \/ job' = Start("connect", "connect")
       \/ job' = Start("bench", IF owner # None THEN "measure" ELSE "connect")
    /\ UNCHANGED <<platform, Files, provider>>

\* ensure_node (Connect, ProviderBenchmark), node_connect_auto, the batches
UsePool ==
    /\ MayStart
    /\ Pool # {}
    /\ \E kind \in {"auto", "batch"} \cup (IF Windows THEN {"bench"} ELSE {}),
          pc \in {"rank"} \cup (IF Windows THEN {"country"} ELSE {}) :
          /\ pc = "country" => kind # "batch"
          /\ job' = Start(kind, pc)
    /\ UNCHANGED <<platform, Files, provider>>

CountryShard ==
    /\ job.pc = "country"
    /\ \/ \E feed \in Feeds : Save(Op("country", None, Shard(feed)), [job EXCEPT !.pc = "rank"])
       \/ Goto("rank") /\ UNCHANGED Files
    /\ UNCHANGED <<platform, provider, turns>>

\* The order of the candidates, and how many there are, is free.
Candidates == SUBSET Pool

Rank ==
    /\ job.pc = "rank"
    /\ \E todo \in Candidates : job' = [job EXCEPT !.pc = "next", !.todo = todo]
    /\ UNCHANGED <<platform, Files, provider, turns>>

\* A stop.  On Linux it knows the recorded process only; on Windows it also finds
\* one that no record names.
Stops ==
    /\ owner' = None
    /\ running' = IF Windows \/ owner = running THEN None ELSE running

\* A stop that may fail, or is not tried.
MayStop == Stops \/ UNCHANGED provider

\* Mutant: the node that runs is left running.
StopOtherNot(id) == UNCHANGED provider

\* On Windows another node, if one is recorded, is stopped before this one is
\* selected.
StopOther(id) == IF Windows /\ owner \notin {None, id} THEN Stops ELSE UNCHANGED provider

TryNext ==
    /\ job.pc = "next"
    /\ \E id \in job.todo :
          /\ StopOther(id)
          /\ Save(Op("select", id, <<>>),
                  [job EXCEPT !.pc = "connect", !.node = id, !.todo = @ \ {id}])
    /\ UNCHANGED <<platform, turns>>

\* stop() refuses: the job raises.
StopRefused ==
    /\ Windows
    /\ job.pc = "next"
    /\ owner # None
    /\ job.todo \ {owner} # {}
    /\ job' = Raised(job)
    /\ UNCHANGED <<platform, Files, provider, turns>>

NoneLeft ==
    /\ job.pc = "next"
    /\ job.todo = {}
    /\ job' = Raised(job)
    /\ UNCHANGED <<platform, Files, provider, turns>>

\* The node behind the port once connected.  engine.ensure keeps what runs if it
\* is healthy, and adopts what no record names; node_connect keeps what the record
\* says runs the selected node, and starts nothing beside what no record names.
Reached ==
    IF running # None /\ (Windows \/ owner = store.selected) THEN running ELSE store.selected

Connected ==
    /\ job.pc = "connect"
    /\ store.selected # None
    /\ Linux => owner # None \/ running = None
    /\ running' = Reached
    /\ owner' = IF Windows THEN Reached ELSE store.selected
    /\ job' = [job EXCEPT !.through = IF Windows THEN Reached ELSE None,
                          !.pc = IF Windows THEN "test"
                                 ELSE IF job.kind \in {"bench", "batch"} THEN "measure"
                                 ELSE "end"]
    /\ UNCHANGED <<platform, Files, turns>>

\* node_connect ignores that node_stop() timed out: a second process is started,
\* finds the port open, and its identity replaces the record of the first.
Beside ==
    /\ Linux
    /\ job.pc = "connect"
    /\ owner \notin {None, store.selected} /\ store.selected # None
    /\ owner' = store.selected
    /\ swayed' = TRUE
    /\ UNCHANGED <<platform, store, tmp, hand, running, job, turns>>

\* Not verified.  A refusal before anything was started leaves what ran.
ConnectFails ==
    /\ job.pc = "connect"
    /\ MayStop
    /\ CASE job.kind \in {"connect", "test"} \/ (Linux /\ job.kind = "bench") ->
                 /\ IF Windows THEN Goto("finish") ELSE Goto("end")
                 /\ UNCHANGED Files
         [] job.kind \in {"auto", "bench"} /\ Windows ->
                 Save(Op("test", job.node, None), [job EXCEPT !.pc = "next"])
         [] job.kind = "auto" /\ Linux -> Goto("next") /\ UNCHANGED Files
         [] job.kind = "batch" -> Save(Op("perf", job.node, None), [job EXCEPT !.pc = "next"])
    /\ UNCHANGED <<platform, turns>>

\* node_record_test of a healthy path
Tested ==
    /\ job.pc = "test"
    /\ Save(Op("test", job.node, job.through),
            [job EXCEPT !.pc = IF job.kind \in {"connect", "auto"} THEN "end" ELSE "measure",
                        !.through = None])
    /\ UNCHANGED <<platform, provider, turns>>

\* The path leaves through another country than the one asked for.
WrongCountry ==
    /\ job.pc = "test"
    /\ job.kind \in {"connect", "auto", "bench"}
    /\ IF job.kind = "connect"
       THEN Goto("finish") /\ UNCHANGED <<Files, provider>>
       ELSE /\ MayStop
            /\ Save(Op("test", job.node, None), [job EXCEPT !.pc = "next", !.through = None])
    /\ UNCHANGED <<platform, turns>>

\* A measurement goes through the node that runs, or fails.
Through == {None, running}

\* path_speed, _bench
Measure ==
    /\ job.pc = "measure"
    /\ \E through \in Through : job' = [job EXCEPT !.pc = "perf", !.through = through]
    /\ UNCHANGED <<platform, Files, provider, turns>>

\* CONNECT_FIRST; the UDP or country preflight fails.
MeasureRaises ==
    /\ Windows
    /\ job.pc = "measure"
    /\ job.kind \in {"test", "bench"}
    /\ job' = Raised(job)
    /\ UNCHANGED <<platform, Files, provider, turns>>

\* A benchmark of the method credits the node that is selected now.
Credited == IF job.kind = "bench" THEN store.selected ELSE job.node

Measured ==
    /\ job.pc = "perf"
    /\ IF Credited = None
       THEN Goto("finish") /\ UNCHANGED Files
       ELSE Save(Op("perf", Credited, job.through),
                 [job EXCEPT !.pc = IF job.kind = "batch" THEN "stop" ELSE "finish",
                             !.through = None])
    /\ UNCHANGED <<platform, provider, turns>>

\* The batch stops each node it measured.  A stop that fails is passed over.
StopMeasured ==
    /\ job.pc = "stop"
    /\ MayStop
    /\ Goto("next")
    /\ UNCHANGED <<platform, Files, turns>>

\* Mutant: the batch stops but does not go back to the user's node.
GoesBackNever == FALSE

\* The Linux batch selects again what was selected, if it is still there.
GoesBack == Linux /\ job.kind = "batch" /\ job.original # None /\ job.original \in Pool

\* The finally blocks: what was not running before is stopped.
Finish ==
    /\ job.pc = "finish"
    /\ IF job.was /\ job.kind # "batch" THEN UNCHANGED provider ELSE MayStop
    /\ Goto("restore")
    /\ UNCHANGED <<platform, Files, turns>>

\* On Linux the stop in the finally block of a batch may raise, when the session
\* cannot be written: the way back after it is then not taken.
FinishRaises ==
    /\ Linux
    /\ job.kind = "batch"
    /\ job.pc = "finish"
    /\ MayStop
    /\ Goto("end")
    /\ UNCHANGED <<platform, Files, turns>>

Restore ==
    /\ job.pc = "restore"
    /\ IF GoesBack THEN Save(Op("select", job.original, <<>>), [job EXCEPT !.pc = "end"])
       ELSE Goto("end") /\ UNCHANGED Files
    /\ UNCHANGED <<platform, provider, turns>>

JobEnds ==
    /\ job.pc = "end"
    /\ job' = Idle
    /\ UNCHANGED <<platform, Files, provider, turns>>

\* StopOne, node_stop
StopNode ==
    /\ job = Idle
    /\ running # None
    /\ Stops
    /\ UNCHANGED <<platform, Files, job, turns>>

\* A job that connects dies between Popen and the write of owner.json: the
\* process runs and no record names it.
LeftUnrecorded ==
    /\ job.pc = "connect"
    /\ store.selected # None
    /\ owner # None \/ running = None
    /\ running' = store.selected
    /\ owner' = None
    /\ swayed' = TRUE

\* The Windows job or the Linux hub is killed.  The temporary file it leaves
\* is written anew before it is renamed.
Killed ==
    /\ job # Idle \/ Busy("window")
    /\ LeftUnrecorded \/ UNCHANGED <<provider, swayed>>
    /\ job' = Idle
    /\ hand' = [t \in Threads |-> FreeHand]
    /\ tmp' = NoText
    /\ UNCHANGED <<platform, store, turns>>

\* What has the port exits; or what the record names, without having it.
ProviderExits ==
    /\ running # None
    /\ \/ running' = None /\ owner' = None
       \/ owner \notin {None, running} /\ owner' = None /\ running' = running
    /\ UNCHANGED <<platform, Files, job, turns>>

Next ==
    \/ Click \/ (\E t \in Threads : Open(t) \/ Fill(t) \/ Publish(t))
    \/ EditJob \/ SelectOrMark \/ UseSelected \/ Preflight \/ LinuxSelected \/ UsePool
    \/ CountryShard \/ Rank \/ TryNext \/ StopRefused \/ NoneLeft
    \/ Connected \/ Beside \/ ConnectFails \/ Tested \/ WrongCountry
    \/ Measure \/ MeasureRaises \/ Measured
    \/ StopMeasured \/ Finish \/ FinishRaises \/ Restore \/ JobEnds
    \/ StopNode \/ Killed \/ ProviderExits

Spec == Init /\ [][Next]_vars

-----------------------------------------------------------------------------
(* Properties *)

\* nodes.json never holds a node twice or more nodes than the limit, and what
\* it selects is one of them, whoever wrote last.
PoolSound ==
    /\ Len(store.nodes) <= MaxNodes
    /\ \A i, j \in DOMAIN store.nodes :
          store.nodes[i].id = store.nodes[j].id => i = j
    /\ store.selected \in Pool \cup {None}
    /\ store.selected = None => Pool = {}

\* What a node shows as measured was measured through that node ("evidence
\* belongs to the old config", engine.py).  Excepted, for good, is what follows a
\* process that no record names, which a job that dies between Popen and owner.json
\* leaves: the jobs ask the record only, adopt that process, and credit its
\* health to the node they are about; and, on Linux, a second process recorded
\* over a first that would not stop, a click between a batch's choice and its
\* record, and a benchmark of the method, which credits the node that is
\* selected, whichever runs.
ProofIsOwn ==
    swayed \/ \A k \in DOMAIN store.nodes :
                 LET n == store.nodes[k] IN {n.test, n.perf} \subseteq {None, n.id}

\* A link the user made a favorite or pinned stays in the pool, and stays so,
\* until the user takes it back: through imports, refreshes, changed ids and the
\* limit.  Two edits at once may lose it, and a country shard that fills the
\* pool.  A rating, tags or a note alone keep no node.
MarksKept ==
    [][\A k \in DOMAIN store.nodes :
          LET n == store.nodes[k]
          IN n.marked =>
                \/ \E m \in DOMAIN store'.nodes :
                      store'.nodes[m].marked /\ Raw[store'.nodes[m].id] = Raw[n.id]
                \/ store' = Mark(store, n.id)
                \/ job.pc = "country" /\ Len(store'.nodes) = MaxNodes
                \/ \E t \in Threads : hand[t].stale]_vars

\* A batch on Linux ends with the user's node selected again, clicks in the
\* meantime and failures on the way notwithstanding, unless the stop just before
\* the way back raises.
SelectionRestored ==
    [][Linux /\ job.kind = "batch" /\ job.pc \notin {"end", "finish"} /\ job'.pc = "end" =>
          \/ store'.selected = job.original
          \/ job.original \notin IdsOf(store'.nodes)
          \/ hand["worker"].stale]_vars
===============================================================================
