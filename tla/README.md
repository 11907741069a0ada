# FreeNet Hub in TLA+

FreeNet Hub is a desktop controller for local proxies and tunnels (WARP, Tor, CFON, saved
nodes, direct DNS and DPI tools). It starts them as child processes, points Windows or a
browser at them, and puts everything back. What is hard in it is ownership: which process,
registry value, system connection or firewall rule is the hub's own, after crashes, failed
steps and changes by other programs. These modules model that part of the code, TLC checks
them on small instances, and TLAPS proves the central results for every instance.

All paths below are relative to the repository (`src/`).

## Inventory

| Component | State | Operations | What is hard | What makes it correct |
|---|---|---|---|---|
| Selective route, `app/selective_route_windows.py` | `PAC_FILE`, `POLICY`, the serve process, two registry values (`AutoConfigURL`, `ProxyEnable`) | `enable` (nine effects and an undo), re-enable, `disable`, `status` | a kill between any two effects, a write refused, somebody else's edits | the user's settings come back; no foreign edit is overwritten; the URL is registered only under a record that knows the way back |
| Selective bridge, `app/selective_http_bridge.py` | the 48 CONNECT slots; reads `POLICY` per request | `do_CONNECT`, `relay` | reads the policy while `enable` rewrites it; slots on every path | a request is served only under one consistent policy |
| Provider lifecycle, `app/engine.py` | `owner.json`, `config.json`, `node-id.txt` per mode; `STARTED` per job; the process table | `start`, `ensure`, `verify`, `recover_owned`, `stop`, `kill_identity` | reused process ids, foreign listeners, orphans of killed jobs, hand-over while stopping | never ends a stranger, never loses a process, failure leaves nothing behind |
| Job dispatcher, `app/engine.py` | `manager.lock`, job files | 30-odd actions, one job at a time, cleanup in `main` | two cleanup paths; actions over several providers | a stop undoes the route before its provider; benchmarks give back what they took |
| Node pool, `app/engine.py`, `app/nodehub.py` (copied to Linux), `freenet_hub_linux_r37.py` | `nodes.json` | import, two refreshes, country shard, select, marks, tests, batches, preflights | limit `MAX_NODES`, changed ids, a store without a lock on Linux, results that arrive after another choice | no node twice, the selected node exists, a measurement belongs to its node, the user's favorites and pins stay |
| System WARP (Linux), `freenet_hub_linux.py`, `warp_guard.py` | `session.json`, keep files, guard processes, the system connection | connect, keep, disconnect, stop; the guard's deadline | hub and guard race; a user's own connection | a trial ends by itself, a confirmed connection stays, a foreign one is left alone |
| Linux orchestrator, `freenet_hub_linux_r37.py`, `freenet_hub_linux.py` | owned processes, owner records, `session.json` | connect, selective connect, tests, `stop_all`, full exit | an action of many starts and stops, each of which may fail; the exit beside an action; death of the hub | the newest process of a provider is on record; a test and an exit leave nothing; a connection and a stop take the route off a provider first |
| Console hotspot, `freenet_hub_linux.py` | a NetworkManager profile, `console.json` | prepare, migrate, start, stop | profiles are found by name; `nmcli` may fail late; the user edits profiles | only the hub's own profile is touched, and it can be stopped |
| Linux selective tunnel, `selective_tunnel.py` | GNOME's two proxy settings, PAC file and server, unit file, policy | apply, disable, status, serve | the settings are written before the policy; the undo can fail; foreign edits | the user's settings come back; no foreign edit is overwritten |
| Tailnet gateway, `tailnet_cfon_gateway.py` | owner record, systemd unit, session slots | start, serve, stop, status | deadline, a caller killed, an undo that fails, CFON lost | ends on time; serves only who is on record; a failed start claims nothing |
| Elevated PC tunnel, `gateway/*.ps1` | adapter address, forwarding, firewall rule, sing-box process, `owner.json`, `prestate.json`, session file | apply, stop, start, cleanup | a transaction over the operating system | rolled back or recorded |
| WSL console gateway, `gateway/wsl_console.ps1` | USB share, WSL routes and processes | start, stop, status | external state in another system | rolled back or recorded |
| Direct network and DPI, `app/directnet.py`, `app/directdpi` | elevated helper process, result files | start, stop | time-outs around an elevation prompt | never two helpers |
| Measurement, update download, windows, shell, installers, mobile stubs, bundled runtimes | - | - | - | - (see "Not modelled") |

Interactions: the desktop window starts one engine process per job, and `manager.lock` makes
jobs exclusive. A job calls `enable`/`disable` of the selective route and `start`/`stop` of the
providers. The serve process reads `POLICY` on every request, without a lock, and relays to the
provider's SOCKS port. On Linux the GTK window runs one action at a time in a thread; the
guard is a detached process that meets the hub in `session.json` and the keep files; the PAC server
and the tailnet share are systemd user services that outlive it. The
gateway scripts call the engine for their provider and sing-box for the tunnel.

## Modules

| Module | Models |
|---|---|
| `ProxyLease` | the promise of the selective route as an abstract machine: settings are borrowed under a lease that remembers what to put back |
| `SelectiveRoute` | `enable`, its `except` clause, `disable`, the policy file, the PAC/CONNECT server, the registry and everybody else who writes it |
| `SelectiveRouteProofs` | theorems about `SelectiveRoute` |
| `ProviderLifecycle` | start, adoption, verification, stop and cleanup of one provider process |
| `ProviderLifecycleProofs` | theorems about `ProviderLifecycle` |
| `WarpTrial` | the system WARP connection on Linux and its guards |
| `LinuxHub` | the Linux hub's actions over its providers (nodes, warp-plus, Tor), what rests on them (session, route, share), and the full exit beside an action |
| `NodePool` | `nodes.json` on both desktops: the operations of `nodehub.py`, the jobs that choose, test and measure nodes, and the two threads that rewrite the file on Linux |
| `LinuxSelective` | `apply`, its `except` clause and `disable` of the Linux route, with GNOME's settings, the PAC file, its server and unit |
| `TailnetGateway` | `start` and its undo, `stop`, the systemd unit, the serving loop, its sessions and slots, and the clock |
| `LinuxConsole` | the console hotspot: prepare, migration, start and stop against NetworkManager and its user |
| `LinuxSelectiveProofs`, `TailnetGatewayProofs`, `LinuxHubProofs`, `NodePoolProofs`, `LinuxConsoleProofs`, `WarpTrialProofs` | theorems about these components |
| `MC...` | constants and symmetry for TLC |

Composition: `LinuxHub` holds the route, the share and the nodes as far as an action can tell them apart, each as
one variable; `LinuxSelective`, `TailnetGateway` and `NodePool` are the same things in detail. `LinuxHub!ActiveProxy`
is what both the route and the share ask before they trust a provider.

How state and actions correspond to the code:

- **SelectiveRoute.** `job` is the program counter and the locals of the running `enable` or
  `disable`; each action is the code between two points at which the job can be killed or a
  call can raise. `registry`, `pac`, `policy` and `server` are what survives the job. A PAC text
  is identified with its content-hashed URL (`Sources`); `Vias` stands for the fields of a
  request that are not in the PAC text. `EnableRaises` lets every step of `enable` raise;
  `UndoRefused` is the swallowed exception of the undo; `Crash` is the end of the job's process.
  `baseline`, `touched` and `lost` are history read by properties only: the settings the user
  chose last, whether somebody else wrote under the lease, and whether an undo was refused.
- **ProviderLifecycle.** `procs` is the process table, each process with creation time, kind
  (ours, another program running the same executable, any other), phase and the node it loaded.
  `owner` is `owner.json`; `config` stands for `config.json` and `node-id.txt`, which are written
  and removed together. The pool may be imported or refreshed, and choose another node, whatever runs
  (`PoolRewritten`). `stop` looks for the process, checks its identity (`CheckIdentity`) and opens and ends whoever
  then has the process id (`Terminate`) in three steps; where netstat or the command line does not answer it
  finds nobody (`FindBlind`). `orphans` and `outdated` are history: processes whose `owner.json` was never written,
  and those of them whose configuration was rewritten or removed after they had read it. Program counters follow `ensure`, `start`, `stop`, the action's own
  `except`/`finally` and the loop over `STARTED` in `main`. The mode is NODE, the only one whose
  process carries a choice; the other modes run the same code without it.
- **WarpTrial.** `hub` is the action in the hub's one worker, `guard[t]` the guard with token
  `t`, `link` the system connection and who switched it on. Time is left out: the guard's 60
  seconds and the hub's 15 traces of up to 9 seconds each may end in either order, as they may in
  reality. A `connect` that timed out may have taken effect all the same, `warp_status` may fail while the link is on,
  and the guard's last look at the session (`GuardLooks`) and its rewrite (`GuardClears`) are two steps.

- **LinuxHub.** `job[t]` is one worker: the one action of the window (`run_async`) and the thread of the full exit.
  `plan` is what an action still has to try in order (the automatic choice is a plan of four), `stops`
  what it must stop before it goes on at `then`. `proc` and `rec` are the process of each provider and
  whether its `owner.json` proves it; `aliens` are ports somebody else took. Start of a provider is Spawn,
  Await, Record, SetSession, Verify. `stop_pid` says whether a process died; the starts that end their own process
  do not look (`Outlives`), and the stops before a start do not look either, so that a second process can be
  started beside the first and recorded over it (`SpawnBeside`, one step: the one that had the port keeps
  it, and the first is then counted only through the port it holds, in `aliens`). A write that fails is an exception
  (`StartRaises`, `StopRaises`, `SessionRaises`), which ends the action or, of a test of all methods, the method
  (`Raise`). `stray`, `gone` and `before` are history: what outlived a kill of the hub, a stop or a failed write; what
  died by itself or was stopped without the session being cleared; and what ran when the running test began.
- **NodePool.** `platform` picks the desktop and never changes. `Save` is one step on Windows, where the
  engine is alone with the file, and the four steps `Take`, `Open`, `Fill`, `Publish` on Linux, where the
  window's clicks run beside the worker through one temporary name: a text that one thread empties or fills while the
  other publishes it is torn, and a torn store reads as an empty one. `job` follows `ensure_node`, the node
  actions of `dispatch` with their `finally` blocks, `node_benchmark_batch` and `benchmark_node`. `running` is the node
  of the process that is there, `owner` the node `owner.json` names; the jobs ask the record, as `owned('NODE')`
  does, and a process that died unrecorded by its job is adopted with the node it really runs. A node
  is its id, source, mark and the node each of its measurements was made through; a mark is what a refresh
  looks at, favorite or pinned. Rating, tags and note keep no node: a refresh drops a node that has nothing else.
- **LinuxSelective.** As `SelectiveRoute`, but the policy is written last, so the restore point of a new
  apply is taken from the old policy only if the settings still match it (`Restore`). `lost` marks a
  death or swallowed failure before the settings were back, `touched` a foreign edit.
- **TailnetGateway.** `call` is the `start` or `stop` in progress, `service` the process that systemd runs,
  `session` what each of its handler threads does, `free` the semaphore, `now` the clock in minutes.
  Every external command and write of `start` and `stop` may fail or time out, and so may the undo's own. The undo's
  `systemctl stop` runs with `check=False`: refused, it leaves the server running and the undo goes on
  (`UndoStopRefused`); `service.spared` remembers that for the properties. What tailscale says of the peer
  (`verify_peers`) may change between any two questions, so it is an outcome, not a variable.
- **LinuxConsole.** `profile` is what NetworkManager has under each uuid, `cfg` is `console.json`. `run()`
  turns a timeout into a return code, so every command may take effect and be called a failure, and a
  failed listing is an empty one. A uuid is never given twice. The user adds, deletes, renames and brings up
  profiles; he does not edit their fields. `Migrate` is one step for its listing, its comparison and its write.

Abstractions worth knowing: in ProviderLifecycle the pair "port_open, then recover_owned" is
one step, and so is the pair OpenProcess and TerminateProcess, which hold the process by its handle; the check of the
identity before them is a step of its own, because the process id can change hands in between. A port
that listens is taken to accept within `port_open`'s quarter of a second, and a process that
`TerminateProcess` ended is gone at once. In SelectiveRoute the server's start is a process of its own that comes
up late or never.

## Runs

| Run | Instance | Shows |
|---|---|---|
| `selective_route` | 2 PAC texts, 2 vias, 2 foreign URLs, 2 tokens | type correctness, six properties of state and steps, and the refinement of `ProxyLease` |
| `selective_healthy` | the same | a finding: `status()` says healthy while the registered URL answers 404 |
| `selective_recovery` | the same | a finding: an interrupted `enable` that nothing recovers |
| `provider_lifecycle` | 2 process ids, 2 nodes, 4 births | the ownership properties of provider processes |
| `warp_trial` | 2 tokens | a confirmed connection is cut by no guard that had not passed its last check, and the end of a trial (liveness) |
| `warp_promise` | 2 tokens | a finding: "guard will auto-disconnect" is not kept |
| `warp_external` | 2 tokens | a finding: a user's own connection can be stopped |
| `tailnet_gateway` | 2 peers, 2 handlers, 1 slot, a share of 2 minutes in 5 | who is served and how long, what a failed start leaves, that the loss of CFON withdraws the share, the slots, the end of every server (liveness) |
| `linux_selective` | 2 PAC texts, 2 foreign URLs, 2 methods | the way back, exact restore, the PAC that is served, no foreign edit overwritten |
| `linux_hub` | WARP and CFON of warp-plus, NODE, TOR; one fault | the newest process on record, what tests and the exit leave, the session, the order of a connection's and a stop's steps |
| `node_pool` | 3 ids of 2 links, a limit of 2, 3 turns (Windows) or 2 turns (Linux), a turn being a job or a click | the pool's shape, whose measurements they are, the user's favorites and pins, the selection after a batch |
| `linux_console` | 3 profiles, 2 devices, 3 passwords, 2 edits | only the hub's profile is touched, a hotspot that is up can be named and stopped |

Bounds. Two PAC texts let a re-enable change the URL or keep it; two vias let it change only the
provider; two foreign URLs tell the user's setting from another program's; a first enable needs
a token other than the last one, so two are enough. Two process ids with four births hold an
orphan, a rival, a stranger and a reused id in any order. Two tokens let an old guard overlap
with a newer trial. `MaxBirths` ends `Spawn` and `Stranger`.
A share of 2 minutes in a clock of 5 (`MaxTime`) can be renewed, cut short and outlived; one slot for two handlers
makes the semaphore run out. One fault (`MaxFaults`: a provider that exits, a stranger on a port, a process that will not
die, a failed write of a record or of the session, a death of the hub), wherever an action meets it, is enough for
each property to fail if the code that answers that fault is taken out; two would need more than the five minutes a run
may take. A second process that was recorded over a first and would not die either is not modelled.
`MayOverlap = FALSE` keeps actions from beginning while the full exit is at work. That is a real restriction:
`run_async` only looks at `busy`, which `request_full_exit` does not set, and with `MayOverlap = TRUE` TLC
finds `ExitLeavesNothing` violated in a few steps (an action's provider starts after `stop_all` passed it and
`quit()` ends the thread that would have recorded it). Three ids of two links, one of them the id an older parser gave, with room for
two, let a refresh change ids, meet the limit and lose the selection; `MaxTurns` caps how many
jobs and clicks there are, not what they do. Three profiles let the hub's, a forgotten one and a user's meet under one
name; two edits (`MaxEdits`) let the user take one away and put his own there. Torn files are not modelled where the code renames a
complete file into place; `nodes.json` on Linux is modelled, because two threads write one temporary name. Symmetry is used in the runs without liveness.

Fairness. `WarpTrial` assumes weak fairness of the hub's steps inside an action and of
each guard's steps. Both are threads of running processes that wait for nobody but the operating
system (`subprocess.run` with a timeout, `time.sleep`). `TailnetGateway` assumes weak fairness of the serving
loop, and strong fairness of the clock: the loop waits up to a second in `handle_request` again and again, so a minute
cannot be continuously enabled, but it passes. Nothing is assumed of the user, of systemd, of CFON or of
`warp-cli`, nor that a hub lives. The other modules state safety only: whether their jobs end depends on
network calls whose timeouts they do not model.

Findings. Four runs end in a counterexample, each against a sentence of the repository
itself; `PROJECT.json` quotes them. They are disagreements between a comment, message or test name and
the code, found while stating the neighbouring properties.

## Proofs

Every safety property that a passing run checks is proved for all values of the constants, those of `LinuxHub` but
`TypeOK` under the restriction of its run; what is only model-checked is listed at the end of this section. Each module
of proofs has an inductive invariant `IInv` (extended as `KInv`, `RInv`, `MInv` where some properties need more), one
step per action and theorems that follow from the invariant. TLC finds each of these invariants true on
the instance of the component's run.

`SelectiveRouteProofs` proves, for any `Sources`, `ForeignUrls`, `Vias` and `Tokens` that satisfy
`SelectiveAssumption`:

- `TypeCorrect`: the type invariant.
- `RestorePointAlwaysForeign`: what will be put back is never the hub's own URL.
- `UrlAlwaysLeased`: the hub's URL is registered only under a record on disk.
- `LeaseImplemented`: `SelectiveRoute` implements `ProxyLease`.
- `RestoresExactly`, `BridgeAlwaysConsistent`, `FirstEnableAlwaysRecovers` (only where the user's `ProxyEnable` was a
  plain zero), `DriftNeverOverwritten`.

None of the first three invariants is inductive. `IInv` adds what the running job knows: its restore
point is foreign (`EnableLocals`), the record on disk is the pending one from `WritePending` on and the
old one before (`PolicyOnDisk`), the registry holds nothing of the hub's while no write has
happened (`Unregistered`), and a leased policy names a PAC (`LeasedUrl`). The proof has one step per
action; the refinement uses the same invariant, because a step of `WriteUrl` is a `Write` of the
lease only if the record is on disk.

The last four need more, `KInv`. The way back is the settings the user chose, whoever writes meanwhile
(`WayBack`); while nobody else writes and no write-back is refused, the registry is at each step where the
job's own writes put it (`Undisturbed`), so an undo ends where the `enable` began; a policy in force holds the domains
of its own URL (`OwnRequest`), which is what keeps the bridge on one request; and once somebody else
wrote over a route, no job is past the checks that would refuse it (`DriftStands`).

`ProviderLifecycleProofs` proves every property of `ProviderLifecycle`, for any `Pids` and `Nodes`
and any `MaxBirths` (`LifecycleAssumption` only says that the model values for "no process",
"no node" and "no identity" are none of the real ones): `ProviderTypeCorrect`,
`ProcessesStayOwned`, `OwnerNodeAlwaysTrue`, `VerifiedAlwaysSelected`, `FailureLeavesNothing`,
`StrangersAlwaysSurvive` and `StopAlwaysFrees`. The argument:

- An identity (process id, creation time) is used once: no process, record or child is younger than
  the last birth (`Births`), so a record that does not run now never will again.
- While nothing recorded runs, everything of FreeNet Hub's is an orphan (`UnownedAreOrphans`);
  hence what `recover_owned` adopts is an orphan (`Adoption`), and adopting it, or removing
  a stale record, loses nothing. `start` spawns only in that state (`FreshStart`).
- What `stop` is to kill is what `owner.json` names (`KillsRecorded`), and that is ours when it runs
  (`RecordOurs`). Between the check of its identity and the end of it, the process is there or its
  id has gone to a younger one (`Identified`): the exception of `StrangersSurvive`, which the code does not close
  although a comment beside it (`engine.py:1154`) says that a reused id is never taken for the hub's own. While `stop` waits, the only thing that can be recorded
  is an orphan that took the port (`AwaitsOrphan`), of which there is one (`OneListener`).
- From `service_config` to the record the child can only load the selected node (`ChildNode`). The file is
  about the recorded process (`Labelled`) and about every survivor that is not `outdated`
  (`SurvivorsLabelled`); nothing of ours is younger than a child in `STARTED` (`Youngest`), so no
  successor of it is adopted, and the record a job works on names the selected node (`Chosen`).
- A child that `STARTED` does not list is already an orphan or gone, and the first cleanup leaves orphans only
  (`CleanedUp`); a `StopOne` is inside `stop` or was refused (`StopJob`).

`IInv` is the conjunction of these with the properties; none of the properties is inductive
alone. The lemmas named after effects on shared state (`JobMoves`, `Adoption`, `Readoption`, `Removal`,
`Abandoned`, `ProcessesEnd`, `Environs`) do the work, and `InductiveStep` cites one of them per action.
The run `provider_lifecycle` checks the same formulas on its small instance and shows that every
action can really fire there.

`LinuxSelectiveProofs` proves every property of `LinuxSelective`: the type invariant, `RestorePointSafe`,
`ExactSettings`, `ServedAsRegistered` and `NoDriftOverwrite`. The policy changes only in a job's last steps, so what
a job read of it stays true (`JobLocals`); the settings, and the PAC file with its server, are followed step
by step through `apply`, its undo and `disable` (`SettingsOfJob`, `ServerOfJob`). The two differ in what spoils them:
a foreign edit only the settings, a death or a swallowed failure both.

`TailnetGatewayProofs` proves `TypeOK`, `ServesRecorded`, `FailedStartLeavesNothing`, `LossEndsShare` and `SlotsMatch`,
for any peers, handlers, slots and a share of up to 60 minutes. A loop that runs was loaded from the record on disk and ends no later than
it (`FromRecord`), or its time was over before its first round and it has no session (`Spent`): `start`
replaces a record only where it is disabled or expired, and then a loop is `Spent` or there is none
(`Replaces`). The undo of `start` reaches its end behind a stop that worked, or with a server that
`systemctl` did not end (`Stopped`): that one is the exception of `ServesRecorded` and `FailedStartLeavesNothing`, and all that is
proved of it is that it ends its service at its own deadline. The slots are counted
over a finite set of holders (`SlotsCounted`).

`LinuxHubProofs` proves `TypeOK` (`HubTypeCorrect`) however the actions and the full exit overlap, and
`SessionProven`, `TestLeavesNothing`, `NothingUnowned`, `ExitLeavesNothing` and `RouteFirst` under the hypothesis `~MayOverlap`:
no action begins while the full exit is at work. The hypothesis is the restriction of the run, it is a
real one (see Bounds), and without it `ExitLeavesNothing` is false. The properties name what they do not cover: processes
that would not die (`stray`), a session whose clearing write failed (`gone`), and, for `RouteFirst`, Node Stop, Tor
Stop and the tests, which end a provider with the route still on it. The order of warp-plus's modes and
the number of faults are arbitrary: the run has one fault, the theorems any number. The shape of a job and what
it still has to stop come first (`Shaped`, `Flows`, `Unrecorded`); then one job at a time (`OneJob`), the route and the
share withdrawn past a job's first steps (`Withdrawn`), what the exit still has to stop (`ExitTracked`),
what a test has started and will stop again (`TestTracked`), and the session in the middle of
actions (`SessionTrue`, `SessionNext`): a method about to be named is on record or has ended by itself. Of the order of warp-plus's modes they
only ask that each occurs once and that WARP and CFON are among them, as in `WARPPLUS_PORTS`.

`NodePoolProofs` proves `PoolSound`, `ProofIsOwn`, `SelectionRestored` and `MarksKept`, for any ids, links and sources, any limit and any
number of jobs and clicks. Most of it are lemmas about lists: `Those`, `Joined`, `Merged`, `CutFacts` say that each operation
of `nodehub.py` leaves a list without a node twice and within the limit. `Sound` then holds of
every copy of the file there is, the store, the temporary file and what either thread has read;
`Kind(~swayed)` makes the same argument serve the honest measurements as long as nothing swayed them: no process
that no record names, no second process recorded over a first, no click between, no benchmark of a method. Until
then the record names what runs (`owner = running` in `Shape`), and
`LinuxCourse` and `WindowsCourse` say which node a job works on. `SelectionRestored` needs `Noted` (edits that
overlap are noted in the worker's hand) and `GoingBack` (the last edit of a batch selects what was selected before);
a stop that raises before the way back is its exception. For a publication to be the text that was written, the temporary file must be
the thread's own (`Provided`).
`MarksKept` needs `Followed` (a thread whose edit is not noted as overlapped has read what is on disk, and what it
filled in keeps the marks of that) and, for each operation, that it keeps marks (`EditKeeps`). The
hard case is the Windows refresh, where the limit could cut a marked node: the matches and the nodes that are
kept beside them come from different places of the old list (`MatchesHaveRoom`), so together they have room. That
rests on a fact of `nodehub._id`: the current parser gives a link one id (the last conjunct but one of `PoolAssumption`).

`LinuxConsoleProofs` proves `HotspotKnown` and `OthersKept`, for any finite set of uuids. Unless the user took away a
profile just added (`robbed`, after which neither property says anything), `console.json` names no profile of the user's
and every hotspot of the hub's that is up, by its uuid or, as an older hub wrote it, by its fields (`Known`),
and a `prepare` that has added a profile finds it as the only one of that name that is not the
user's (`Added`). With an older hub's record and a second profile of the name, `console_stop` refuses: the exception
`Rival`.

`WarpTrialProofs` proves `ConfirmedSurvives` for any number of trials; the fairness of the specification plays no part.

Assumptions. Besides telling the model values apart, they say that bounds are natural numbers, that `Profiles` is
finite (NetworkManager's list is), that the current parser gives a link one id, and `TextAssumption`, that no text at
all is not the text of a pool.

What the proofs changed in the models. A failing last `node_select` in the `finally` block of
`node_benchmark_batch` (`freenet_hub_linux_r37.py`) ends the batch; the model had let it be tried again,
and the proof of `SelectionRestored` did not go through until `Raised` said so. `Those` writes a list
comprehension as a closed form, because the prover does not expand the library's selection from a sequence, which is
recursive.

Only model-checked:

- The two liveness properties, `MarkedTrialEnds` of `WarpTrial` and `ShareEnds` of `TailnetGateway`: TLAPS proves neither
  liveness under fairness nor `ENABLED`.
- The four findings, which are counterexamples.

No module here uses a recursive operator.

## Not modelled, and why

Link parsers, sing-box and Mihomo configuration, PAC text, measurement values, update download and installers are
conversions or pure input and output. Of the windows, what matters is in the models: one action at a time and the
full exit (`LinuxHub`), clicks beside a running action (`NodePool`), the Keep button (`WarpTrial`); the rest is
presentation. The peer's Firefox profile (`tailnet_client_browser.py`) and the browsers the hub opens hold
no state the rest reads. The relay loop and slots of the Windows bridge are those of the tailnet share over
again. The mobile projects are placeholders, the bundled runtimes third-party.

Left out for size, though they have hazards: the elevated gateway and its WSL counterpart (PowerShell
transactions over adapters, firewall rules and routes), the DPI helper, and on Windows the order in which Stop
undoes the selective route and stops providers (`LinuxHub!RouteFirst` is that order in a connection and a stop on Linux).

A limit of `LinuxSelective`: it does not implement `ProxyLease`, because `apply` registers the URL before it
records the way back; `RestorePointSafe` and `ExactSettings` say what holds instead.

## Plan

Next, the properties of `LinuxHub` with `MayOverlap`: which of them an overlapping action leaves true, and a weaker
`ExitLeavesNothing` that holds of the hub as it is.

Then the elevated gateway: apply and stop of the PC tunnel as a transaction with crash points; abstract
specification: every change is recorded or undone.
