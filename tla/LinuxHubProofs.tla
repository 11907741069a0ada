--------------------------- MODULE LinuxHubProofs ---------------------------
(***************************************************************************)
(* For any order of warp-plus's modes and any number of faults: what runs  *)
(* is on record or about to be, what a test and the full exit leave, what  *)
(* the session names, and that the route goes before its provider.         *)
(*                                                                         *)
(* TypeOK holds however actions and the exit overlap.  The rest is proved  *)
(* for ~MayOverlap, the hub in which no action begins while the full exit  *)
(* is at work; without that ExitLeavesNothing does not hold.               *)
(***************************************************************************)
EXTENDS LinuxHub, SequenceTheorems, TLAPS

Jobs == [kind : Kinds, plan : Seq(Modes), pc : Steps, stops : Seq(Providers),
         then : Steps, temp : BOOLEAN, ok : BOOLEAN]

Tests == {"bench", "benchall"}

\* Where a job is or, while it stops something, where it goes on.
Where(j) == IF j.pc = "stop" THEN j.then ELSE j.pc

OnProvider == {"reuse", "launch", "spawn", "await", "record", "session", "verify",
               "sites", "apply", "bench"}
Attempting == {"try", "failed"} \cup OnProvider

\* Where a job may go from a stop.
After == {"try", "launch", "spawn", "failed", "clear", "end"}

-----------------------------------------------------------------------------
(* What holds however jobs overlap *)

Shaped(j) ==
    /\ j \in Jobs
    /\ j.pc = "stop" => j.stops # <<>>
    /\ j.kind \in Tests \cup {"selective"} => j.plan \in Seq(Providers)
    /\ Where(j) \in Attempting => j.plan # <<>>
    /\ Where(j) \in OnProvider => Head(j.plan) \in Providers
    /\ Where(j) = "launch" => Head(j.plan) = "TOR"
    /\ j.pc = "stop" /\ j.then = "spawn" => Head(j.plan) # "TOR"

\* Which kinds of job get where.
Flows(j) ==
    /\ j.kind = "stop" =>
         /\ j.pc \in {"idle", "share", "route", "stop", "clear", "end"}
         /\ j.pc = "stop" => j.then = "clear"
    /\ j.kind \in {"connect", "selective"} /\ j.pc = "route" => j.plan # <<>>
    /\ j.pc = "route" => j.kind \in {"connect", "selective", "stop"}
    /\ j.pc \in {"share", "clear"} \/ (j.pc = "stop" /\ j.then = "clear") => j.kind = "stop"
    /\ j.pc = "stop" => j.then \in After
    /\ j.pc = "bench" => j.kind \in Tests
    /\ j.pc = "sites" => j.kind \notin Tests

JobShape == DOMAIN job = Threads /\ \A t \in Threads : Shaped(job[t])
Flow == job["exit"].kind = "stop" /\ \A t \in Threads : Flows(job[t])

\* What is waited for or about to be recorded has no record.
Unrecorded == \A t \in Threads : job[t].pc \in {"await", "record"} => ~rec[M(t)]

\* TypeOK but for the jobs, of which JobShape says more.
World ==
    /\ proc \in [Providers -> {"none", "starting", "up"}]
    /\ rec \in [Providers -> BOOLEAN]
    /\ \A p \in Providers : rec[p] => proc[p] # "none"
    /\ aliens \subseteq {p \in Providers : proc[p] # "up"}
    /\ session \in Modes \cup {"none"}
    /\ route \in Providers \cup {"off"}
    /\ drift \in BOOLEAN /\ share \in BOOLEAN
    /\ app \in {"up", "quit", "killed"}
    /\ faults \in 0 .. MaxFaults
    /\ stray \subseteq Providers /\ gone \subseteq Providers /\ before \subseteq Providers

Base == World /\ JobShape /\ Flow /\ Unrecorded

-----------------------------------------------------------------------------
(* What holds where they do not *)

OneJob ==
    /\ job["action"].pc = "idle" \/ job["exit"].pc = "idle"
    /\ (\E t \in Threads : job[t].pc # "idle") => app = "up"

\* Past their first steps a connection has taken the route off, a stop the share
\* as well.
Withdrawn ==
    \A t \in Threads :
        /\ job[t].kind \in {"connect", "selective"}
             /\ job[t].pc \notin {"idle", "route", "apply", "end"} => route = "off"
        /\ job[t].kind = "stop" =>
             /\ job[t].pc \in {"route", "stop", "clear"} => ~share
             /\ job[t].pc \in {"stop", "clear"} => route = "off"
             /\ job[t].pc = "end" /\ job[t].ok => route = "off" /\ ~share

\* As long as nothing failed, the exit still has to stop whatever runs.
ExitTracked ==
    job["exit"].ok =>
        /\ job["exit"].pc = "stop" => Running \ stray \subseteq Range(job["exit"].stops)
        /\ job["exit"].pc \in {"clear", "end"} => Running \subseteq stray

\* What a test has started and will stop again.
Held(j) ==
    IF j.pc \in {"await", "record", "session", "verify"} \/ (j.pc = "bench" /\ j.temp)
    THEN {Head(j.plan)}
    ELSE IF j.pc = "stop" /\ Len(j.stops) = 1 THEN {Head(j.stops)} ELSE {}

TestTracked ==
    LET j == job["action"] IN
    j.kind \in Tests /\ j.pc # "idle" =>
        /\ Running \subseteq before \cup stray \cup Held(j)
        /\ j.pc \in {"stop", "reuse", "launch", "spawn", "await", "record",
                     "session", "verify"} => j.temp

\* SessionProven in the middle of actions, and what keeps it.
SessionTrue == session \in Providers => rec[session] \/ session \in gone

SessionNext ==
    \A t \in Threads :
        /\ job[t].pc \in {"reuse", "session", "verify"} => rec[M(t)] \/ M(t) \in gone
        /\ job[t].pc \in {"await", "record"} /\ proc[M(t)] = "none" => M(t) \in gone
        /\ job[t].pc = "verify" /\ M(t) = "TOR" => session # "TOR" \/ "TOR" \in gone

\* Tor is recorded once it has bootstrapped.
TorUp ==
    /\ rec["TOR"] => proc["TOR"] = "up"
    /\ \A t \in Threads : job[t].pc = "record" /\ M(t) = "TOR" => proc["TOR"] # "starting"

Alone ==
    /\ OneJob
    /\ Withdrawn
    /\ ExitTracked
    /\ TestTracked
    /\ SessionTrue
    /\ SessionNext
    /\ TorUp
    /\ NothingUnowned
    /\ ExitLeavesNothing

IInv == ~MayOverlap /\ Base /\ Alone

-----------------------------------------------------------------------------
(* The orders in which providers are stopped *)

LEMMA WarpsAreProviders == WarpOrder \in Seq(Providers) /\ Warps \subseteq Providers
<1>1. Warps \subseteq Providers
  BY DEF Providers
<1>2. WarpOrder \in Seq(Warps)
  BY LinuxHubAssumption DEF Warps
<1>3. QED
  BY <1>1, <1>2 DEF Warps

LEMMA WithoutType == ASSUME NEW m \in Warps PROVE Without(m) \in Seq(Providers)
<1> DEFINE i == CHOOSE i \in DOMAIN WarpOrder : WarpOrder[i] = m
<1>1. i \in 1 .. Len(WarpOrder)
  BY LinuxHubAssumption DEF Warps
<1>w. Without(m) = SubSeq(WarpOrder, 1, i - 1) \o SubSeq(WarpOrder, i + 1, Len(WarpOrder))
  BY DEF Without
<1> HIDE DEF i
<1>2. SubSeq(WarpOrder, 1, i - 1) \in Seq(Providers)
  BY <1>1, WarpsAreProviders
<1>3. SubSeq(WarpOrder, i + 1, Len(WarpOrder)) \in Seq(Providers)
  BY <1>1, WarpsAreProviders
<1>4. QED
  BY <1>w, <1>2, <1>3, ConcatProperties

LEMMA StopsForType == ASSUME NEW m \in Modes PROVE StopsFor(m) \in Seq(Providers)
<1>1. CASE m = "NODE"
  <2>0. m \notin Warps
    BY <1>1, LinuxHubAssumption DEF Warps
  <2>1. StopsFor(m) = <<"TOR">> \o WarpOrder
    BY <1>1, <2>0 DEF StopsFor
  <2>2. <<"TOR">> \in Seq(Providers)
    BY DEF Providers
  <2>3. QED
    BY <2>1, <2>2, WarpsAreProviders, ConcatProperties
<1>2. CASE m \in Warps
  <2>1. m # "NODE"
    BY <1>2, LinuxHubAssumption DEF Warps
  <2>2. QED
    BY <1>2, <2>1, WithoutType DEF StopsFor, Providers
<1>3. CASE m # "NODE" /\ m \notin Warps
  BY <1>3 DEF StopsFor
<1>4. QED
  BY <1>1, <1>2, <1>3

LEMMA PreStopsType == ASSUME NEW j \in Jobs PROVE PreStops(j) \in Seq(Providers)
<1>1. <<"NODE">> \in Seq(Providers) /\ <<"TOR">> \in Seq(Providers)
  BY DEF Providers
<1>2. <<"NODE">> \o WarpOrder \in Seq(Providers)
  BY <1>1, WarpsAreProviders, ConcatProperties
<1>3. <<"NODE">> \o WarpOrder \o <<"TOR">> \in Seq(Providers)
  BY <1>1, <1>2, ConcatProperties
<1>4. <<>> \in Seq(Providers)
  OBVIOUS
<1>5. CASE j.plan = <<"TOR">>
  BY <1>2, <1>5 DEF PreStops
<1>6. CASE j.plan # <<"TOR">> /\ j.plan = <<"DIRECT">>
  BY <1>3, <1>6 DEF PreStops
<1>7. CASE j.plan # <<"TOR">> /\ j.plan # <<"DIRECT">>
  BY <1>4, <1>7 DEF PreStops
<1>8. QED
  BY <1>5, <1>6, <1>7

LEMMA StopAllType == StopAll \in Seq(Providers) \ {<<>>} /\ Range(StopAll) = Providers
<1>1. <<"NODE">> \o WarpOrder \in Seq(Providers) /\ <<"TOR">> \in Seq(Providers)
  BY WarpsAreProviders DEF Providers
<1>2. Range(StopAll) = Range(<<"NODE">>) \cup Range(WarpOrder) \cup Range(<<"TOR">>)
  <2>1. Range(<<"NODE">> \o WarpOrder) = Range(<<"NODE">>) \cup Range(WarpOrder)
    <3>1. <<"NODE">> \in Seq(Providers)
      BY DEF Providers
    <3>2. QED
      BY <3>1, WarpsAreProviders, RangeConcatenation
  <2>2. Range(StopAll) = Range(<<"NODE">> \o WarpOrder) \cup Range(<<"TOR">>)
    BY <1>1, RangeConcatenation DEF StopAll
  <2>3. QED
    BY <2>1, <2>2
<1>3. Range(<<"NODE">>) = {"NODE"} /\ Range(<<"TOR">>) = {"TOR"} /\ Range(WarpOrder) = Warps
  BY DEF Range, Warps
<1>4. QED
  BY <1>1, <1>2, <1>3 DEF StopAll, Providers

LEMMA PlanTypes ==
  /\ AutoPlan \in Seq(Modes) /\ AutoTest \in Seq(Modes) /\ StopAll \in Seq(Modes)
  /\ Head(AutoPlan) \in Providers /\ Head(AutoTest) \in Providers
  /\ Head(StopAll) = "NODE"
<1>1. {"NODE", "CFON", "WARP", "TOR"} \subseteq Providers
  BY LinuxHubAssumption DEF Providers
<1>2. StopAll \in Seq(Modes) /\ Head(StopAll) = "NODE"
  BY StopAllType, WarpsAreProviders DEF StopAll, Modes
<1>3. QED
  BY <1>1, <1>2 DEF AutoPlan, AutoTest, Modes

LEMMA Single == ASSUME NEW p \in Providers PROVE <<p>> \in Seq(Providers) /\ <<p>> # <<>>
  OBVIOUS

-----------------------------------------------------------------------------
(* What the moves of a worker do to its job *)

Moved(t, j) ==
    /\ job' = [job EXCEPT ![t] = j]
    /\ j.kind = job[t].kind

LEMMA MovedShape ==
  ASSUME JobShape, Flow, NEW t \in Threads, NEW j, Shaped(j), Flows(j), Moved(t, j)
  PROVE  /\ JobShape' /\ Flow'
         /\ job'[t] = j
         /\ \A u \in Threads : u # t => job'[u] = job[u]
  BY DEF JobShape, Flow, Moved, Shaped, Flows, Jobs, Where, Threads

\* The record fields of a job after a change of some of them.
LEMMA JobFields ==
  ASSUME NEW j \in Jobs, NEW x \in Steps
  PROVE  /\ [j EXCEPT !.pc = x] \in Jobs
         /\ [j EXCEPT !.pc = x].pc = x
         /\ [j EXCEPT !.pc = x].kind = j.kind
         /\ [j EXCEPT !.pc = x].plan = j.plan
         /\ [j EXCEPT !.pc = x].stops = j.stops
         /\ [j EXCEPT !.pc = x].then = j.then
         /\ [j EXCEPT !.pc = x].temp = j.temp
         /\ [j EXCEPT !.pc = x].ok = j.ok
  BY DEF Jobs

LEMMA ProviderPlan ==
  ASSUME JobShape, NEW t \in Threads, job[t].kind \in Tests \cup {"selective"}
  PROVE  job[t].plan \in Seq(Providers)
  BY DEF JobShape, Shaped

LEMMA GotoMoves ==
  ASSUME JobShape, Flow, NEW t \in Threads, NEW x \in Steps \ {"stop"}, Goto(t, x),
         x \in Attempting => job[t].plan # <<>>,
         x \in OnProvider => M(t) \in Providers,
         x = "launch" => M(t) = "TOR",
         job[t].kind = "stop" => x \in {"idle", "route", "clear", "end"},
         x \notin {"route", "share", "clear"} \/ job[t].kind = "stop",
         x = "bench" => job[t].kind \in Tests,
         x = "sites" => job[t].kind \notin Tests
  PROVE  /\ JobShape' /\ Flow'
         /\ job'[t].pc = x /\ job'[t].kind = job[t].kind /\ job'[t].plan = job[t].plan
         /\ job'[t].temp = job[t].temp /\ job'[t].ok = job[t].ok
         /\ \A u \in Threads : u # t => job'[u] = job[u]
<1> DEFINE j == [job[t] EXCEPT !.pc = x]
<1>1. job' = [job EXCEPT ![t] = j]
  BY DEF Goto, JobShape
<1>2. /\ j \in Jobs /\ j.pc = x /\ j.kind = job[t].kind /\ j.plan = job[t].plan
      /\ j.temp = job[t].temp /\ j.ok = job[t].ok
  BY JobFields DEF JobShape, Shaped
<1> HIDE DEF j
<1>3. Shaped(j)
  BY <1>2, ProviderPlan DEF Shaped, Where, M
<1>4. Flows(j)
  BY <1>2 DEF Flows, Tests
<1>5. QED
  BY <1>1, <1>2, <1>3, <1>4, MovedShape DEF Moved

LEMMA RefuseMoves ==
  ASSUME JobShape, Flow, NEW t \in Threads, Refuse(t)
  PROVE  /\ JobShape' /\ Flow'
         /\ job'[t].pc = "end" /\ job'[t].kind = job[t].kind /\ ~job'[t].ok
         /\ \A u \in Threads : u # t => job'[u] = job[u]
<1> DEFINE j == [job[t] EXCEPT !.pc = "end", !.ok = FALSE]
<1>1. job' = [job EXCEPT ![t] = j]
  BY DEF Refuse, JobShape
<1>2. /\ j \in Jobs /\ j.pc = "end" /\ j.kind = job[t].kind /\ j.plan = job[t].plan
      /\ j.ok = FALSE
  BY DEF JobShape, Shaped, Jobs, Steps
<1> HIDE DEF j
<1>3. Shaped(j) /\ Flows(j)
  BY <1>2, ProviderPlan DEF Shaped, Flows, Where, Attempting, OnProvider
<1>4. QED
  BY <1>1, <1>2, <1>3, MovedShape DEF Moved

LEMMA StoppingMoves ==
  ASSUME JobShape, Flow, NEW t \in Threads, NEW s \in Seq(Providers), NEW next \in After,
         Stopping(t, s, next),
         next \in {"try", "failed"} => job[t].plan # <<>>,
         next \in {"launch", "spawn"} => job[t].plan # <<>> /\ M(t) \in Providers,
         next = "launch" => M(t) = "TOR",
         next = "spawn" => M(t) # "TOR",
         job[t].kind = "stop" <=> next = "clear"
  PROVE  /\ JobShape' /\ Flow'
         /\ job'[t].pc = IF s = <<>> THEN next ELSE "stop"
         /\ job'[t].stops = s /\ job'[t].then = next
         /\ job'[t].kind = job[t].kind /\ job'[t].plan = job[t].plan
         /\ job'[t].temp = job[t].temp /\ job'[t].ok = job[t].ok
         /\ \A u \in Threads : u # t => job'[u] = job[u]
<1> DEFINE x == IF s = <<>> THEN next ELSE "stop"
           j == [job[t] EXCEPT !.pc = x, !.stops = s, !.then = next]
<1>1. job' = [job EXCEPT ![t] = j]
  BY DEF Stopping, JobShape
<1>2. x \in Steps /\ next \in Steps
  BY DEF After, Steps
<1>3. /\ j \in Jobs /\ j.pc = x /\ j.stops = s /\ j.then = next
      /\ j.kind = job[t].kind /\ j.plan = job[t].plan
      /\ j.temp = job[t].temp /\ j.ok = job[t].ok
  BY <1>2 DEF JobShape, Shaped, Jobs
<1> HIDE DEF j
<1>4. Shaped(j)
  BY <1>3, ProviderPlan DEF Shaped, Where, M, Attempting, OnProvider, After
<1>5. Flows(j)
  BY <1>3 DEF Flows, After
<1>6. QED
  BY <1>1, <1>3, <1>4, <1>5, MovedShape DEF Moved

LEMMA LongTail ==
  ASSUME NEW S, NEW s \in Seq(S), Len(s) > 1
  PROVE  Tail(s) \in Seq(S) /\ Tail(s) # <<>>
<1>1. s # <<>>
  OBVIOUS
<1>2. Tail(s) \in Seq(S) /\ Len(Tail(s)) = Len(s) - 1 /\ Len(s) \in Nat
  BY <1>1, HeadTailProperties, LenProperties
<1>3. Len(<<>>) = 0 /\ Len(Tail(s)) # 0
  BY <1>2
<1>4. QED
  BY <1>2, <1>3

LEMMA StoppedMoves ==
  ASSUME JobShape, Flow, NEW t \in Threads, NEW ok \in BOOLEAN, At(t, "stop"), Stopped(t, ok)
  PROVE  /\ JobShape' /\ Flow'
         /\ job'[t].pc = IF Len(job[t].stops) > 1 THEN "stop" ELSE job[t].then
         /\ job'[t].stops = Tail(job[t].stops) /\ job'[t].then = job[t].then
         /\ job'[t].kind = job[t].kind /\ job'[t].plan = job[t].plan
         /\ job'[t].temp = job[t].temp /\ job'[t].ok = (job[t].ok /\ ok)
         /\ \A u \in Threads : u # t => job'[u] = job[u]
<1> DEFINE x == IF Len(job[t].stops) > 1 THEN "stop" ELSE job[t].then
           j == [job[t] EXCEPT !.stops = Tail(@), !.ok = (@ /\ ok), !.pc = x]
<1>1. job' = [job EXCEPT ![t] = j]
  BY DEF Stopped, JobShape
<1>2. /\ job[t] \in Jobs /\ job[t].pc = "stop" /\ job[t].stops # <<>>
      /\ job[t].stops \in Seq(Providers) /\ job[t].ok \in BOOLEAN
  BY DEF At, JobShape, Shaped, Jobs
<1>3. /\ Tail(job[t].stops) \in Seq(Providers)
      /\ Len(job[t].stops) > 1 => Tail(job[t].stops) # <<>>
  BY <1>2, HeadTailProperties, LongTail
<1>4. x \in Steps
  BY <1>2 DEF Jobs, Steps
<1>5. /\ j \in Jobs /\ j.pc = x /\ j.stops = Tail(job[t].stops) /\ j.then = job[t].then
      /\ j.kind = job[t].kind /\ j.plan = job[t].plan
      /\ j.temp = job[t].temp /\ j.ok = (job[t].ok /\ ok)
  BY <1>2, <1>3, <1>4 DEF Jobs
<1> HIDE DEF j
<1>6. Shaped(j)
  BY <1>2, <1>3, <1>5 DEF JobShape, Flow, Flows, Shaped, Where, After
<1>7. Flows(j)
  BY <1>2, <1>5 DEF Flow, Flows, After
<1>8. QED
  BY <1>1, <1>5, <1>6, <1>7, MovedShape DEF Moved

\* The next attempt, or the end.
LEMMA NextAttemptFits ==
  ASSUME NEW j \in Jobs, j.kind \in Tests \cup {"selective"} => j.plan \in Seq(Providers),
         j.kind # "stop"
  PROVE  LET k == NextAttempt(j) IN
         Shaped(k) /\ Flows(k) /\ k.pc \in {"try", "end"} /\ k.kind = j.kind
<1> DEFINE k == NextAttempt(j)
<1>1. j.plan \in Seq(Modes)
  BY DEF Jobs
<1>2. /\ k \in Jobs /\ k.pc \in {"try", "end"} /\ k.kind = j.kind
      /\ k.pc = "try" => k.plan # <<>>
      /\ k.kind \in Tests \cup {"selective"} => k.plan \in Seq(Providers)
  <2>1. CASE Len(j.plan) > 1
    <3>1. Tail(j.plan) \in Seq(Modes) /\ Tail(j.plan) # <<>>
      BY <1>1, <2>1, LongTail
    <3>2. k = [j EXCEPT !.plan = Tail(@), !.pc = "try", !.temp = FALSE]
      BY <2>1 DEF NextAttempt
    <3> HIDE DEF k
    <3>3. QED
      BY <2>1, <3>1, <3>2, LongTail DEF Jobs, Steps
  <2>2. CASE ~(Len(j.plan) > 1)
    <3>1. k = [j EXCEPT !.pc = "end", !.ok = FALSE]
      BY <2>2 DEF NextAttempt
    <3> HIDE DEF k
    <3>2. QED
      BY <3>1 DEF Jobs, Steps
  <2>3. QED
    BY <2>1, <2>2
<1> HIDE DEF k
<1>3. Shaped(k) /\ Flows(k)
  BY <1>2 DEF Shaped, Flows, Where, Attempting, OnProvider
<1>4. QED
  BY <1>2, <1>3 DEF k

LEMMA FailMoves ==
  ASSUME JobShape, Flow, NEW t \in Threads, Fail(t),
         job[t].plan # <<>>, job[t].kind # "stop"
  PROVE  /\ JobShape' /\ Flow'
         /\ job'[t].pc \in {"try", "end"} /\ job'[t].kind = job[t].kind
         /\ \A u \in Threads : u # t => job'[u] = job[u]
<1>1. CASE job' = [job EXCEPT ![t] = NextAttempt(@)]
  <2> DEFINE k == NextAttempt(job[t])
  <2>1. job' = [job EXCEPT ![t] = k]
    BY <1>1 DEF JobShape
  <2>2. Shaped(k) /\ Flows(k) /\ k.pc \in {"try", "end"} /\ k.kind = job[t].kind
    BY NextAttemptFits DEF JobShape, Shaped
  <2> HIDE DEF k
  <2>3. QED
    BY <2>1, <2>2, MovedShape DEF Moved
<1>2. CASE Goto(t, "try")
  BY <1>2, GotoMoves DEF Steps, OnProvider
<1>3. QED
  BY <1>1, <1>2 DEF Fail

LEMMA RaiseMoves ==
  ASSUME JobShape, Flow, NEW t \in Threads, Raise(t)
  PROVE  /\ JobShape' /\ Flow'
         /\ job'[t].pc \in {"try", "end"} /\ job'[t].kind = job[t].kind
         /\ job[t].kind # "benchall" => job'[t].pc = "end" /\ ~job'[t].ok
         /\ \A u \in Threads : u # t => job'[u] = job[u]
<1> DEFINE c == [job[t] EXCEPT !.stops = <<>>]
           k == Raised(job[t])
<1>1. job' = [job EXCEPT ![t] = k]
  BY DEF Raise, JobShape
<1>2. /\ c \in Jobs /\ c.kind = job[t].kind
      /\ c.kind \in Tests \cup {"selective"} => c.plan \in Seq(Providers)
  BY ProviderPlan, EmptySeq DEF JobShape, Shaped, Jobs
<1>3. /\ Shaped(k) /\ Flows(k) /\ k.pc \in {"try", "end"} /\ k.kind = job[t].kind
      /\ job[t].kind # "benchall" => k.pc = "end" /\ ~k.ok
  <2>1. CASE job[t].kind = "benchall"
    <3>1. k = NextAttempt(c)
      BY <2>1 DEF Raised
    <3> HIDE DEF k, c
    <3>2. QED
      BY <1>2, <2>1, <3>1, NextAttemptFits
  <2>2. CASE job[t].kind # "benchall"
    <3>1. k = [c EXCEPT !.pc = "end", !.ok = FALSE]
      BY <2>2 DEF Raised
    <3> HIDE DEF k, c
    <3>2. /\ k \in Jobs /\ k.pc = "end" /\ k.kind = c.kind /\ k.plan = c.plan /\ ~k.ok
      BY <1>2, <3>1 DEF Jobs, Steps
    <3>3. QED
      BY <1>2, <3>2 DEF Shaped, Flows, Where, Attempting, OnProvider
  <2>3. QED
    BY <2>1, <2>2
<1> HIDE DEF k
<1>4. QED
  BY <1>1, <1>3, MovedShape DEF Moved

-----------------------------------------------------------------------------
(* Base is inductive *)

LEMMA StillUnrecorded ==
  ASSUME Base, NEW t \in Threads, job'[t].pc \notin {"await", "record"},
         \A u \in Threads : u # t => job'[u] = job[u],
         \A p \in Providers : rec'[p] => rec[p]
  PROVE  Unrecorded'
<1> SUFFICES ASSUME NEW u \in Threads, job'[u].pc \in {"await", "record"}
             PROVE  ~rec'[M(u)']
  BY DEF Unrecorded
<1>1. u # t /\ job'[u] = job[u]
  OBVIOUS
<1>2. M(u)' = M(u) /\ M(u) \in Providers /\ ~rec[M(u)]
  BY <1>1 DEF Base, JobShape, Shaped, Where, OnProvider, Unrecorded, M
<1>3. QED
  BY <1>2

LEMMA GoodIs ==
  ASSUME NEW t \in Threads
  PROVE  /\ Good(t) \in {"apply", "bench", "sites", "end"}
         /\ Good(t) = "bench" => job[t].kind \in Tests
         /\ Good(t) = "sites" => job[t].kind \notin Tests
         /\ Good(t) = "apply" <=> job[t].kind = "selective"
  BY DEF Good, Tests

LEMMA AtProvider ==
  ASSUME Base, NEW t \in Threads, Where(job[t]) \in Attempting
  PROVE  /\ job[t].plan # <<>> /\ job[t].plan \in Seq(Modes) /\ M(t) \in Modes
         /\ Where(job[t]) \in OnProvider \/ job[t].kind \in Tests => M(t) \in Providers
         /\ job[t].kind # "stop"
         /\ t = "action"
<1>1. job[t].plan # <<>> /\ job[t].plan \in Seq(Modes)
  BY DEF Base, JobShape, Shaped, Jobs
<1>2. M(t) \in Modes
  BY <1>1, HeadTailProperties DEF M
<1>3. job[t].kind \in Tests => M(t) \in Providers
  BY <1>1, HeadTailProperties DEF Base, JobShape, Shaped, M
<1>4. Where(job[t]) \in OnProvider => M(t) \in Providers
  BY DEF Base, JobShape, Shaped, M
<1>5. job[t].kind # "stop"
  BY DEF Base, Flow, Flows, Where, Attempting, OnProvider
<1>6. QED
  BY <1>1, <1>2, <1>3, <1>4, <1>5 DEF Base, Flow, Threads

\* A step of worker t, as far as the jobs go.
Advances(t) ==
    /\ JobShape' /\ Flow'
    /\ job'[t].kind = job[t].kind
    /\ \A u \in Threads : u # t => job'[u] = job[u]

Quiet(t) == Advances(t) /\ job'[t].pc \notin {"await", "record"}

LEMMA GoodMoves ==
  ASSUME Base, NEW t \in Threads, Where(job[t]) \in OnProvider, Goto(t, Good(t))
  PROVE  Quiet(t) /\ job'[t].pc = Good(t) /\ job'[t].temp = job[t].temp
<1>1. /\ Good(t) \in Steps \ {"stop", "route", "share", "clear", "launch", "await", "record"}
  BY GoodIs DEF Steps
<1>2. job[t].plan # <<>> /\ M(t) \in Providers /\ job[t].kind # "stop"
  BY AtProvider DEF Attempting
<1>3. QED
  BY <1>1, <1>2, GoodIs, GotoMoves DEF Base, Quiet, Advances

LEMMA FailQuiet ==
  ASSUME Base, NEW t \in Threads, Where(job[t]) \in Attempting, Fail(t)
  PROVE  Quiet(t) /\ job'[t].pc \in {"try", "end"}
  BY AtProvider, FailMoves DEF Base, Quiet, Advances

LEMMA RefuseQuiet ==
  ASSUME Base, NEW t \in Threads, Refuse(t)
  PROVE  Quiet(t) /\ job'[t].pc = "end" /\ ~job'[t].ok
  BY RefuseMoves DEF Base, Quiet, Advances

LEMMA RaiseQuiet ==
  ASSUME Base, NEW t \in Threads, Raise(t)
  PROVE  /\ Quiet(t) /\ job'[t].pc \in {"try", "end"}
         /\ job[t].kind # "benchall" => job'[t].pc = "end" /\ ~job'[t].ok
  BY RaiseMoves DEF Base, Quiet, Advances

LEMMA StoppedQuiet ==
  ASSUME Base, NEW t \in Threads, NEW ok \in BOOLEAN, At(t, "stop"), Stopped(t, ok)
  PROVE  Quiet(t) /\ Head(job[t].stops) \in Providers
<1>1. /\ job[t].stops \in Seq(Providers) /\ job[t].stops # <<>>
      /\ job[t].then \notin {"await", "record"}
  BY DEF Base, JobShape, Flow, Flows, Shaped, Jobs, At, After
<1>2. QED
  BY <1>1, StoppedMoves, HeadTailProperties DEF Base, Quiet, Advances

LEMMA GotoQuiet ==
  ASSUME Base, NEW t \in Threads,
         NEW x \in {"route", "end", "try", "reuse", "launch", "spawn", "session", "verify"},
         Goto(t, x),
         x = "route" => job[t].kind = "stop",
         x \in OnProvider \cup {"try"} => Where(job[t]) \in Attempting,
         x \in OnProvider => M(t) \in Providers,
         x = "launch" => M(t) = "TOR"
  PROVE  Quiet(t) /\ job'[t].pc = x /\ job'[t].temp = job[t].temp
<1>1. x \in Attempting => job[t].plan # <<>> /\ job[t].kind # "stop"
  BY AtProvider DEF Attempting, OnProvider
<1>2. QED
  BY <1>1, GotoMoves DEF Base, Quiet, Advances, Steps, Attempting, OnProvider

LEMMA StoppingQuiet ==
  ASSUME Base, NEW t \in Threads, NEW s \in Seq(Providers), NEW next \in After,
         Stopping(t, s, next),
         next \in {"try", "failed"} => job[t].plan # <<>>,
         next \in {"launch", "spawn"} => Where(job[t]) \in Attempting /\ M(t) \in Providers,
         next = "launch" => M(t) = "TOR",
         next = "spawn" => M(t) # "TOR",
         job[t].kind = "stop" <=> next = "clear"
  PROVE  /\ Quiet(t)
         /\ job'[t].pc = IF s = <<>> THEN next ELSE "stop"
         /\ job'[t].stops = s /\ job'[t].then = next
         /\ job'[t].plan = job[t].plan
         /\ job'[t].temp = job[t].temp /\ job'[t].ok = job[t].ok
<1>1. next \in {"launch", "spawn"} => job[t].plan # <<>>
  BY AtProvider
<1>2. QED
  BY <1>1, StoppingMoves DEF Base, Quiet, Advances, After

LEMMA PastRouteQuiet ==
  ASSUME Base, NEW t \in Threads, At(t, "route"), PastRoute(t)
  PROVE  Quiet(t)
<1>1. job[t] \in Jobs /\ Flows(job[t])
  BY DEF Base, JobShape, Flow, Shaped
<1>2. CASE job[t].kind = "stop"
  <2>1. Stopping(t, StopAll, "clear")
    BY <1>2 DEF PastRoute
  <2>2. QED
    BY <1>2, <2>1, StopAllType, StoppingQuiet DEF After
<1>3. CASE job[t].kind # "stop"
  <2>1. Stopping(t, PreStops(job[t]), "try") /\ job[t].plan # <<>>
    BY <1>1, <1>3 DEF PastRoute, Flows, At
  <2>2. QED
    BY <1>1, <1>3, <2>1, PreStopsType, StoppingQuiet DEF After
<1>4. QED
  BY <1>2, <1>3

LEMMA StopsProvider ==
  ASSUME Base, NEW t \in Threads, At(t, "stop")
  PROVE  Head(job[t].stops) \in Providers
  BY HeadTailProperties DEF Base, JobShape, Shaped, Jobs, At

\* Every step of a worker moves its own job only, and well.
LEMMA WorkerAdvances ==
  ASSUME Base, NEW t \in Threads, Worker(t)
  PROVE  Advances(t) /\ (job'[t].pc \in {"await", "record"} => Spawn(t) \/ Await(t))
<1> USE DEF At
<1>q. ASSUME Quiet(t)
      PROVE  Advances(t) /\ job'[t].pc \notin {"await", "record"}
  BY <1>q DEF Quiet
<1>1. CASE StopShare(t)
  <2>1. job[t].kind = "stop"
    BY <1>1 DEF Base, Flow, Flows, StopShare
  <2>2. Goto(t, "route") \/ Refuse(t)
    BY <1>1 DEF StopShare
  <2>3. QED
    BY <1>q, <2>1, <2>2, GotoQuiet, RefuseQuiet DEF OnProvider
<1>2. CASE DisableRoute(t)
  BY <1>2, <1>q, PastRouteQuiet, RefuseQuiet DEF DisableRoute
<1>3. CASE ClearSession(t)
  BY <1>3, <1>q, GotoQuiet DEF ClearSession, OnProvider
<1>4. CASE StopOwned(t) \/ StopTimesOut(t)
  BY <1>4, <1>q, StoppedQuiet DEF StopOwned, StopTimesOut
<1>5. CASE StopNotOwned(t)
  <2>1. PICK ok \in BOOLEAN : Stopped(t, ok)
    BY <1>5 DEF StopNotOwned
  <2>2. QED
    BY <1>5, <1>q, <2>1, StoppedQuiet DEF StopNotOwned
<1>6. CASE NotReady(t) \/ Failed(t)
  BY <1>6, <1>q, FailQuiet DEF NotReady, Failed, Where, Attempting, OnProvider
<1>7. CASE TryTest(t)
  <2>0. /\ job[t] \in Jobs /\ Shaped(job[t]) /\ Flows(job[t])
        /\ M(t) \in Providers /\ job[t].plan # <<>>
    BY <1>7, AtProvider DEF Base, JobShape, Flow, Shaped, TryTest, Tests, Where, Attempting
  <2>1. CASE Goto(t, "bench")
    <3>1. job[t].kind \in Tests
      BY <1>7 DEF TryTest, Tests
    <3>2. QED
      BY <2>0, <2>1, <3>1, GotoMoves DEF Base, Advances, Steps, Tests
  <2>2. CASE job' = [job EXCEPT ![t].temp = TRUE]
    <3> DEFINE j == [job[t] EXCEPT !.temp = TRUE]
    <3>1. job' = [job EXCEPT ![t] = j]
      BY <2>2 DEF Base, JobShape
    <3>2. /\ j \in Jobs /\ j.kind = job[t].kind /\ j.plan = job[t].plan /\ j.pc = job[t].pc
          /\ j.stops = job[t].stops /\ j.then = job[t].then
      BY <2>0 DEF Jobs
    <3> HIDE DEF j
    <3>3. Shaped(j) /\ Flows(j)
      BY <2>0, <3>2 DEF Shaped, Flows, Where
    <3>4. QED
      BY <1>7, <3>1, <3>2, <3>3, MovedShape DEF Moved, Base, Advances, TryTest
  <2>3. QED
    BY <1>7, <2>1, <2>2 DEF TryTest
<1>8. CASE TryProvider(t)
  <2>0. Where(job[t]) \in Attempting /\ M(t) \in Providers /\ job[t].kind # "stop"
        /\ StopsFor(M(t)) \in Seq(Providers)
    BY <1>8, AtProvider, StopsForType DEF TryProvider, Where, Attempting
  <2>1. CASE Goto(t, "reuse") \/ (M(t) = "TOR" /\ Goto(t, "launch"))
    BY <1>q, <2>0, <2>1, GotoQuiet
  <2>2. CASE Fail(t)
    BY <1>q, <2>0, <2>2, FailQuiet
  <2>3. CASE M(t) # "TOR" /\ Stopping(t, StopsFor(M(t)), "spawn")
    BY <1>q, <2>0, <2>3, StoppingQuiet DEF After
  <2>4. CASE M(t) = "NODE" /\ Stopping(t, <<M(t)>> \o StopsFor(M(t)), "spawn")
    <3>1. <<M(t)>> \o StopsFor(M(t)) \in Seq(Providers)
      BY <2>0
    <3>2. QED
      BY <1>q, <2>0, <2>4, <3>1, StoppingQuiet DEF After
  <2>5. QED
    BY <1>8, <2>1, <2>2, <2>3, <2>4 DEF TryProvider
<1>9. CASE TryPlain(t)
  BY <1>9, <1>q, GotoQuiet DEF TryPlain, OnProvider
<1>10. CASE Reuse(t)
  <2>0. /\ Where(job[t]) \in Attempting /\ Where(job[t]) \in OnProvider
        /\ M(t) \in Providers /\ job[t].kind # "stop"
    BY <1>10, AtProvider DEF Reuse, Where, Attempting, OnProvider
  <2>1. CASE Goto(t, Good(t))
    BY <2>0, <2>1, <1>q, GoodMoves
  <2>2. CASE M(t) = "TOR" /\ Stopping(t, <<M(t)>>, "launch")
    <3>1. <<M(t)>> \in Seq(Providers)
      BY <2>0, Single
    <3>2. QED
      BY <1>q, <2>0, <2>2, <3>1, StoppingQuiet DEF After
  <2>3. CASE Fail(t)
    BY <1>q, <2>0, <2>3, FailQuiet
  <2>4. QED
    BY <1>10, <2>1, <2>2, <2>3 DEF Reuse
<1>11. CASE LaunchTor(t)
  <2>0. Where(job[t]) \in Attempting /\ M(t) = "TOR" /\ M(t) \in Providers
    BY <1>11, AtProvider
       DEF LaunchTor, Where, Attempting, OnProvider, Base, JobShape, Shaped, M
  <2>1. Goto(t, "spawn") \/ Fail(t)
    BY <1>11 DEF LaunchTor
  <2>2. QED
    BY <1>q, <2>0, <2>1, GotoQuiet, FailQuiet
<1>12. CASE Spawn(t) \/ Await(t)
  <2>0. /\ Where(job[t]) \in Attempting /\ M(t) \in Providers /\ job[t].kind # "stop"
        /\ job[t].plan # <<>>
    BY <1>12, AtProvider DEF Spawn, Await, Where, Attempting, OnProvider
  <2>1. PICK x \in {"await", "record"} : Goto(t, x)
    BY <1>12 DEF Spawn, Await
  <2>2. QED
    BY <1>12, <2>0, <2>1, GotoMoves DEF Base, Advances, Steps
<1>13. CASE AwaitGivesUp(t) \/ VerifyFails(t) \/ Outlives(t)
  <2>0. Where(job[t]) \in Attempting /\ M(t) \in Providers /\ job[t].kind # "stop"
        /\ job[t].plan # <<>>
    BY <1>13, AtProvider
       DEF AwaitGivesUp, VerifyFails, Outlives, Where, Attempting, OnProvider
  <2>1. CASE Fail(t)
    BY <1>q, <2>0, <2>1, FailQuiet
  <2>2. CASE M(t) = "TOR" /\ Goto(t, "launch")
    BY <1>q, <2>0, <2>2, GotoQuiet
  <2>3. CASE Stopping(t, <<M(t)>>, "failed")
    <3>1. <<M(t)>> \in Seq(Providers)
      BY <2>0, Single
    <3>2. QED
      BY <1>q, <2>0, <2>3, <3>1, StoppingQuiet DEF After
  <2>4. QED
    BY <1>13, <2>1, <2>2, <2>3 DEF AwaitGivesUp, VerifyFails, Outlives
<1>14. CASE Record(t) \/ SpawnBeside(t)
  <2>0. Where(job[t]) \in Attempting /\ M(t) \in Providers
    BY <1>14, AtProvider DEF Record, SpawnBeside, Where, Attempting, OnProvider
  <2>1. \/ Fail(t) \/ (\E x \in {"verify", "session"} : Goto(t, x))
        \/ M(t) = "TOR" /\ Goto(t, "launch")
    BY <1>14 DEF Record, SpawnBeside
  <2>2. QED
    BY <1>q, <2>0, <2>1, GotoQuiet, FailQuiet
<1>15. CASE SetSession(t) \/ VerifyPasses(t)
  <2>0. Where(job[t]) \in OnProvider /\ Where(job[t]) \in Attempting /\ M(t) \in Providers
    BY <1>15, AtProvider DEF SetSession, VerifyPasses, Where, Attempting, OnProvider
  <2>1. Goto(t, Good(t)) \/ (\E x \in {"verify", "session"} : Goto(t, x))
    BY <1>15 DEF SetSession, VerifyPasses
  <2>2. QED
    BY <1>q, <2>0, <2>1, GotoQuiet, GoodMoves
<1>16. CASE StopRaises(t) \/ StartRaises(t) \/ SessionRaises(t)
  BY <1>16, <1>q, RaiseQuiet DEF StopRaises, StartRaises, SessionRaises
<1>17. CASE Sites(t)
  <2>0. /\ Where(job[t]) \in Attempting /\ M(t) \in Providers /\ job[t].kind # "stop"
        /\ job[t].plan # <<>>
    BY <1>17, AtProvider DEF Sites, Where, Attempting, OnProvider
  <2>1. CASE Goto(t, "end")
    BY <1>q, <2>1, GotoQuiet DEF OnProvider
  <2>2. CASE Stopping(t, <<M(t)>>, "failed")
    <3>1. <<M(t)>> \in Seq(Providers)
      BY <2>0, Single
    <3>2. QED
      BY <1>q, <2>0, <2>2, <3>1, StoppingQuiet DEF After
  <2>3. QED
    BY <1>17, <2>1, <2>2 DEF Sites
<1>18. CASE Apply(t)
  <2>1. Goto(t, "end") \/ Refuse(t)
    BY <1>18 DEF Apply
  <2>2. QED
    BY <1>q, <2>1, GotoQuiet, RefuseQuiet DEF OnProvider
<1>19. CASE Measure(t)
  <2>0. /\ Where(job[t]) \in Attempting /\ M(t) \in Providers /\ job[t].kind # "stop"
        /\ job[t].plan # <<>>
    BY <1>19, AtProvider DEF Measure, Where, Attempting, OnProvider
  <2>1. PICK next \in {"end", "failed"}, s \in {<<M(t)>>, <<>>} : Stopping(t, s, next)
    BY <1>19 DEF Measure
  <2>2. s \in Seq(Providers)
    <3>1. <<M(t)>> \in Seq(Providers) /\ <<>> \in Seq(Providers)
      BY <2>0, Single
    <3>2. QED
      BY <2>1, <3>1
  <2>3. QED
    BY <1>q, <2>0, <2>1, <2>2, StoppingQuiet DEF After
<1>20. QED
  BY <1>1, <1>2, <1>3, <1>4, <1>5, <1>6, <1>7, <1>8, <1>9, <1>10, <1>11, <1>12, <1>13, <1>14, <1>15, <1>16, <1>17, <1>18, <1>19 DEF Worker

LEMMA WorkerWorld == ASSUME Base, NEW t \in Threads, Worker(t) PROVE World'
<1> USE DEF World, At, procVars, routeVars, history
<1>0. World
  BY DEF Base
<1>a. ASSUME Where(job[t]) \in Attempting
      PROVE  M(t) \in Modes /\ (Where(job[t]) \in OnProvider => M(t) \in Providers)
  BY <1>a, AtProvider
<1>1. CASE StopShare(t) \/ ClearSession(t)
  BY <1>0, <1>1 DEF StopShare, ClearSession
<1>2. CASE DisableRoute(t)
  BY <1>0, <1>2 DEF DisableRoute
<1>3. CASE StopOwned(t) \/ StopTimesOut(t) \/ StopNotOwned(t)
  <2>1. Head(job[t].stops) \in Providers
    <3>1. PICK ok \in BOOLEAN : Stopped(t, ok)
      BY <1>3 DEF StopOwned, StopTimesOut, StopNotOwned
    <3>2. QED
      BY <1>3, <3>1, StoppedQuiet DEF StopOwned, StopTimesOut, StopNotOwned
  <2>2. CASE StopOwned(t)
    BY <1>0, <2>1, <2>2 DEF StopOwned
  <2>3. CASE StopTimesOut(t)
    BY <1>0, <2>1, <2>3, LinuxHubAssumption DEF StopTimesOut, Fault
  <2>4. CASE StopNotOwned(t)
    BY <1>0, <2>1, <2>4 DEF StopNotOwned
  <2>5. QED
    BY <1>3, <2>2, <2>3, <2>4
<1>4. CASE TryPlain(t)
  <2>1. M(t) \in Modes
    BY <1>4, <1>a DEF TryPlain, Where, Attempting
  <2>2. QED
    BY <1>0, <1>4, <2>1 DEF TryPlain
<1>5. CASE Reuse(t)
  <2>1. M(t) \in Modes
    BY <1>5, <1>a DEF Reuse, Where, Attempting, OnProvider
  <2>2. QED
    BY <1>0, <1>5, <2>1 DEF Reuse
<1>6. CASE LaunchTor(t)
  BY <1>0, <1>6 DEF LaunchTor, Providers
<1>7. CASE \/ Spawn(t) \/ SpawnBeside(t) \/ AwaitGivesUp(t) \/ Record(t) \/ SetSession(t)
           \/ StartRaises(t) \/ Outlives(t)
  <2>1. M(t) \in Providers /\ M(t) \in Modes
    BY <1>7, <1>a DEF Spawn, SpawnBeside, AwaitGivesUp, Record, SetSession, StartRaises,
                      Outlives, Where, Attempting, OnProvider
  <2>2. CASE Spawn(t)
    BY <1>0, <2>1, <2>2 DEF Spawn
  <2>3. CASE AwaitGivesUp(t)
    <3>1. ~rec[M(t)]
      BY <2>3 DEF AwaitGivesUp, Base, Unrecorded
    <3>2. QED
      BY <1>0, <2>1, <2>3, <3>1 DEF AwaitGivesUp
  <2>4. CASE Record(t)
    BY <1>0, <2>1, <2>4 DEF Record
  <2>5. CASE SetSession(t)
    BY <1>0, <2>1, <2>5 DEF SetSession
  <2>6. CASE StartRaises(t)
    BY <1>0, <2>1, <2>6, LinuxHubAssumption DEF StartRaises, Fault
  <2>7. CASE Outlives(t)
    BY <1>0, <2>1, <2>7, LinuxHubAssumption DEF Outlives, Fault
  <2>8. CASE SpawnBeside(t)
    <3>1. CASE UNCHANGED <<proc, rec, aliens, stray>>
      BY <1>0, <2>8, <3>1 DEF SpawnBeside
    <3>2. CASE /\ proc' = [proc EXCEPT ![M(t)] = IF PortOpen(M(t)) THEN "starting" ELSE "up"]
               /\ rec' = [rec EXCEPT ![M(t)] = TRUE]
               /\ aliens' = IF proc[M(t)] = "up" THEN aliens \cup {M(t)} ELSE aliens
               /\ stray' = stray \ {M(t)}
      BY <1>0, <2>1, <2>8, <3>2 DEF SpawnBeside, PortOpen
    <3>3. QED
      BY <2>8, <3>1, <3>2 DEF SpawnBeside
  <2>9. QED
    BY <1>7, <2>2, <2>3, <2>4, <2>5, <2>6, <2>7, <2>8
<1>8. CASE VerifyFails(t) \/ SessionRaises(t)
  <2>1. CASE VerifyFails(t)
    BY <1>0, <2>1 DEF VerifyFails, Providers
  <2>2. CASE SessionRaises(t)
    <3>1. faults' \in 0 .. MaxFaults
      BY <1>0, <2>2, LinuxHubAssumption DEF SessionRaises, Fault
    <3>2. QED
      BY <1>0, <2>2, <3>1 DEF SessionRaises
  <2>3. QED
    BY <1>8, <2>1, <2>2
<1>9. CASE Apply(t)
  <2>1. ActiveProxy(M(t)) => M(t) \in Providers
    BY <1>9, <1>a DEF Apply, Where, Attempting, OnProvider
  <2>2. QED
    BY <1>0, <1>9, <2>1 DEF Apply
<1>10. CASE \/ NotReady(t) \/ TryTest(t) \/ TryProvider(t) \/ Await(t)
            \/ VerifyPasses(t) \/ Sites(t) \/ Failed(t) \/ Measure(t)
  BY <1>0, <1>10
     DEF NotReady, TryTest, TryProvider, Await, VerifyPasses, Sites, Failed, Measure
<1>11. CASE StopRaises(t)
  <2>1. Head(job[t].stops) \in Providers
    BY <1>11, StopsProvider DEF StopRaises
  <2>2. QED
    BY <1>0, <1>11, <2>1, LinuxHubAssumption DEF StopRaises, Fault
<1>12. QED
  BY <1>1, <1>2, <1>3, <1>4, <1>5, <1>6, <1>7, <1>8, <1>9, <1>10, <1>11 DEF Worker

LEMMA WorkerBase == ASSUME Base, NEW t \in Threads, Worker(t) PROVE Base'
<1>1. Advances(t) /\ (job'[t].pc \in {"await", "record"} => Spawn(t) \/ Await(t))
  BY WorkerAdvances
<1>2. Unrecorded'
  <2>1. CASE Spawn(t) \/ Await(t)
    <3>1. /\ Where(job[t]) \in Attempting /\ M(t) \in Providers /\ rec' = rec /\ ~rec[M(t)]
      BY <2>1, AtProvider
         DEF Spawn, Await, At, Where, Attempting, OnProvider, procVars, Base, World, Unrecorded
    <3>2. job'[t].plan = job[t].plan
      BY <2>1 DEF Spawn, Await, Goto, Base, JobShape, Shaped, Jobs
    <3>3. QED
      BY <1>1, <3>1, <3>2 DEF Unrecorded, Advances, Base, M
  <2>2. CASE Record(t) \/ SpawnBeside(t)
    <3>1. t = "action" /\ ~Spawn(t) /\ ~Await(t)
      BY <2>2, AtProvider
         DEF Record, SpawnBeside, Spawn, Await, At, Where, Attempting, OnProvider
    <3>2. job["exit"].pc \notin {"await", "record"}
      BY AtProvider DEF Where, Attempting, OnProvider, Threads
    <3>3. QED
      BY <1>1, <3>1, <3>2 DEF Unrecorded, Advances, Threads
  <2>3. CASE ~Spawn(t) /\ ~Await(t) /\ ~Record(t) /\ ~SpawnBeside(t)
    <3>1. \A p \in Providers : rec'[p] => rec[p]
      BY <2>3 DEF Worker, StopShare, DisableRoute, ClearSession, StopOwned, StopRaises,
         StopTimesOut, StopNotOwned, NotReady, TryTest, TryProvider, TryPlain, Reuse,
         LaunchTor, AwaitGivesUp, SetSession, StartRaises, SessionRaises, Outlives,
         VerifyPasses, VerifyFails, Sites, Failed, Apply, Measure, Base, World, procVars
    <3>2. QED
      BY <1>1, <2>3, <3>1, StillUnrecorded DEF Advances
  <2>4. QED
    BY <2>1, <2>2, <2>3
<1>3. QED
  BY <1>1, <1>2, WorkerWorld DEF Base, Advances

\* Workers that begin, or all that end.
LEMMA JobType ==
  ASSUME NEW kind \in Kinds, NEW plan \in Seq(Modes), NEW pc \in Steps
  PROVE  Job(kind, plan, pc) \in Jobs
  BY DEF Job, Jobs, Steps

LEMMA IdleFits == Shaped(Idle) /\ Flows(Idle) /\ Idle.pc = "idle" /\ Idle.kind = "stop"
<1>1. Idle \in Jobs
  BY JobType, EmptySeq DEF Idle, Kinds, Steps
<1>2. QED
  BY <1>1 DEF Idle, Job, Shaped, Flows, Where, Attempting, OnProvider, Tests

\* A new job of a worker that is, or becomes, idle.
LEMMA JobReplaced ==
  ASSUME Base, NEW t \in Threads, NEW j, Shaped(j), Flows(j),
         t = "exit" => j.kind = "stop", j.pc \notin {"await", "record"},
         job' = [job EXCEPT ![t] = j], UNCHANGED rec
  PROVE  /\ JobShape' /\ Flow' /\ Unrecorded'
         /\ job'[t] = j /\ \A u \in Threads : u # t => job'[u] = job[u]
<1>1. /\ DOMAIN job' = Threads /\ job'[t] = j
      /\ \A u \in Threads : u # t => job'[u] = job[u]
  BY DEF Base, JobShape
<1>2. JobShape' /\ Flow'
  BY <1>1 DEF Base, JobShape, Flow, Threads
<1>3. Unrecorded'
  BY <1>1, StillUnrecorded
<1>4. QED
  BY <1>1, <1>2, <1>3

\* The jobs that the window begins.
Begun(j) ==
    /\ Shaped(j) /\ Flows(j)
    /\ j.pc \notin {"await", "record", "idle"}

LEMMA PlansBegun ==
  /\ \A m \in Modes : <<m>> \in Seq(Modes)
  /\ \A m \in Providers : <<m>> \in Seq(Providers) /\ <<m>> \in Seq(Modes)
  /\ AutoPlan \in Seq(Modes) /\ AutoTest \in Seq(Providers) /\ StopAll \in Seq(Providers)
  /\ AutoTest \in Seq(Modes) /\ StopAll \in Seq(Modes)
  /\ AutoPlan # <<>> /\ AutoTest # <<>> /\ StopAll # <<>>
<1>1. {"NODE", "CFON", "WARP", "TOR"} \subseteq Providers
  BY LinuxHubAssumption DEF Providers
<1>2. AutoTest \in Seq(Providers) /\ AutoTest # <<>> /\ AutoPlan # <<>>
  BY <1>1 DEF AutoTest, AutoPlan
<1>3. \A m \in Modes : <<m>> \in Seq(Modes)
  OBVIOUS
<1>4. \A m \in Providers : <<m>> \in Seq(Providers) /\ <<m>> \in Seq(Modes)
  BY DEF Modes
<1>5. QED
  BY <1>2, <1>3, <1>4, PlanTypes, StopAllType

LEMMA ConnectBegun ==
  ASSUME NEW plan \in {<<m>> : m \in Modes} \cup {AutoPlan}
  PROVE  Begun(Job("connect", plan, "route"))
<1> DEFINE j == Job("connect", plan, "route")
<1>1. plan \in Seq(Modes) /\ plan # <<>>
  <2>1. CASE plan = AutoPlan
    BY <2>1, PlansBegun
  <2>2. CASE \E m \in Modes : plan = <<m>>
    BY <2>2, PlansBegun
  <2>3. QED
    BY <2>1, <2>2
<1>2. /\ j \in Jobs /\ j.kind = "connect" /\ j.pc = "route" /\ j.plan = plan
  BY <1>1, JobType DEF Job, Kinds, Steps
<1> HIDE DEF j
<1>3. Begun(j)
  BY <1>1, <1>2 DEF Begun, Shaped, Flows, Where, Attempting, OnProvider, Tests
<1>4. QED
  BY <1>3 DEF j

LEMMA SelectiveBegun ==
  ASSUME NEW m \in Providers, NEW pc \in {"apply", "route"}
  PROVE  Begun(Job("selective", <<m>>, pc))
<1> DEFINE j == Job("selective", <<m>>, pc)
<1>1. <<m>> \in Seq(Modes) /\ <<m>> \in Seq(Providers) /\ <<m>> # <<>> /\ Head(<<m>>) = m
  BY PlansBegun
<1>2. /\ j \in Jobs /\ j.kind = "selective" /\ j.pc = pc /\ j.plan = <<m>>
  BY <1>1, JobType DEF Job, Kinds, Steps
<1> HIDE DEF j
<1>3. Begun(j)
  BY <1>1, <1>2 DEF Begun, Shaped, Flows, Where, Attempting, OnProvider, Tests
<1>4. QED
  BY <1>3 DEF j

LEMMA TestBegun ==
  ASSUME NEW kind \in Tests \cup {"single"},
         NEW plan \in {<<m>> : m \in Providers} \cup {AutoTest, StopAll}
  PROVE  Begun(Job(kind, plan, "try"))
<1> DEFINE j == Job(kind, plan, "try")
<1>1. plan \in Seq(Modes) /\ plan \in Seq(Providers) /\ plan # <<>>
  <2>1. CASE plan \in {AutoTest, StopAll}
    BY <2>1, PlansBegun
  <2>2. CASE \E m \in Providers : plan = <<m>>
    BY <2>2, PlansBegun
  <2>3. QED
    BY <2>1, <2>2
<1>2. /\ j \in Jobs /\ j.kind = kind /\ j.pc = "try" /\ j.plan = plan
  BY <1>1, JobType DEF Job, Kinds, Steps, Tests
<1> HIDE DEF j
<1>3. Begun(j)
  BY <1>1, <1>2 DEF Begun, Shaped, Flows, Where, Attempting, OnProvider, Tests
<1>4. QED
  BY <1>3 DEF j

LEMMA StopBegun == Begun(Job("stop", <<>>, "share"))
<1> DEFINE j == Job("stop", <<>>, "share")
<1>1. /\ j \in Jobs /\ j.kind = "stop" /\ j.pc = "share"
  BY JobType, EmptySeq DEF Job, Kinds, Steps
<1> HIDE DEF j
<1>2. Begun(j)
  BY <1>1 DEF Begun, Shaped, Flows, Where, Attempting, OnProvider, Tests
<1>3. QED
  BY <1>2 DEF j

LEMMA SingleBegun ==
  ASSUME NEW p \in Providers
  PROVE  LET j == [Job("single", <<>>, "stop") EXCEPT !.stops = <<p>>] IN
         Begun(j) /\ j.kind = "single" /\ j.pc = "stop" /\ j.stops = <<p>> /\ j.ok
<1> DEFINE j == [Job("single", <<>>, "stop") EXCEPT !.stops = <<p>>]
<1>1. /\ j \in Jobs /\ j.kind = "single" /\ j.pc = "stop" /\ j.stops = <<p>>
      /\ j.then = "end" /\ j.ok /\ <<p>> # <<>>
  <2>1. <<p>> \in Seq(Providers) /\ <<p>> # <<>>
    BY Single
  <2>2. Job("single", <<>>, "stop") \in Jobs
    BY JobType, EmptySeq DEF Kinds, Steps
  <2>3. QED
    BY <2>1, <2>2 DEF Job, Jobs
<1> HIDE DEF j
<1>2. Begun(j)
  BY <1>1 DEF Begun, Shaped, Flows, Where, Attempting, OnProvider, Tests, After
<1>3. QED
  BY <1>1, <1>2 DEF j

LEMMA BeginBase ==
  ASSUME Base, NEW j, Begun(j), Begin(j), before' = before \/ before' = Running
  PROVE  Base'
<1>1. /\ job' = [job EXCEPT !["action"] = j] /\ "action" \in Threads
      /\ UNCHANGED rec
  BY DEF Begin, Threads, procVars
<1>2. World'
  BY DEF Begin, Base, World, Running, procVars, routeVars
<1>3. QED
  BY <1>1, <1>2, JobReplaced DEF Base, Begun

\* When all workers end.
LEMMA AllIdle ==
  ASSUME Base, job' = [t \in Threads |-> Idle]
  PROVE  JobShape' /\ Flow' /\ Unrecorded'
<1>1. /\ DOMAIN job' = Threads /\ \A t \in Threads : job'[t] = Idle
  OBVIOUS
<1>2. QED
  BY <1>1, IdleFits DEF JobShape, Flow, Unrecorded, Threads

LEMMA CutWorld ==
  ASSUME World, Cut, UNCHANGED <<rec, aliens>>
  PROVE  /\ proc' \in [Providers -> {"none", "starting", "up"}]
         /\ \A p \in Providers : rec'[p] => proc'[p] # "none"
         /\ aliens' \subseteq {p \in Providers : proc'[p] # "up"}
  BY DEF World, Cut

LEMMA WindowBase == ASSUME Base, Window PROVE Base'
<1>1. CASE Connect
  BY <1>1, ConnectBegun, BeginBase DEF Connect
<1>2. CASE SelectiveConnect
  BY <1>2, SelectiveBegun, BeginBase DEF SelectiveConnect
<1>3. CASE Test
  <2>1. PICK kind \in Tests, plan \in {<<m>> : m \in Providers} \cup {AutoTest, StopAll} :
             Begin(Job(kind, plan, "try"))
    BY <1>3 DEF Test, Tests
  <2>2. QED
    BY <1>3, <2>1, TestBegun, BeginBase DEF Test
<1>4. CASE StopPressed
  BY <1>4, StopBegun, BeginBase DEF StopPressed
<1>5. CASE StopOne
  <2>1. PICK p \in Providers : Begin([Job("single", <<>>, "stop") EXCEPT !.stops = <<p>>])
    BY <1>5 DEF StopOne, Providers
  <2>2. QED
    BY <1>5, <2>1, SingleBegun, BeginBase DEF StopOne
<1>6. CASE StartTor
  <2>1. "TOR" \in Providers
    BY DEF Providers
  <2>2. QED
    BY <1>6, <2>1, TestBegun, BeginBase DEF StartTor
<1>7. CASE ActionEnds
  <2>1. World'
    BY <1>7 DEF ActionEnds, Base, World, procVars, routeVars
  <2>2. /\ job' = [job EXCEPT !["action"] = Idle] /\ UNCHANGED rec /\ "action" \in Threads
    BY <1>7 DEF ActionEnds, procVars, Threads
  <2>3. QED
    BY <2>1, <2>2, IdleFits, JobReplaced DEF Base
<1>8. CASE RequestExit
  <2>1. World'
    BY <1>8 DEF RequestExit, Base, World, procVars, routeVars, history
  <2>2. /\ job' = [job EXCEPT !["exit"] = Job("stop", <<>>, "share")] /\ UNCHANGED rec
        /\ "exit" \in Threads /\ Job("stop", <<>>, "share").kind = "stop"
    BY <1>8 DEF RequestExit, procVars, Threads, Job
  <2>3. QED
    BY <2>1, <2>2, StopBegun, JobReplaced DEF Base, Begun
<1>9. CASE FinishExit
  <2>1. CASE job' = [t \in Threads |-> Idle] /\ Cut /\ app' = "quit" /\ before' = {}
    <3>1. World'
      BY <1>9, <2>1, CutWorld DEF FinishExit, Base, World, routeVars
    <3>2. QED
      BY <2>1, <3>1, AllIdle DEF Base
  <2>2. CASE job' = [job EXCEPT !["exit"] = Idle] /\ UNCHANGED <<proc, app, before>>
    <3>1. World'
      BY <1>9, <2>2 DEF FinishExit, Base, World, routeVars
    <3>2. "exit" \in Threads /\ UNCHANGED rec
      BY <1>9 DEF FinishExit, Threads
    <3>3. QED
      BY <2>2, <3>1, <3>2, IdleFits, JobReplaced DEF Base
  <2>3. QED
    BY <1>9, <2>1, <2>2 DEF FinishExit
<1>10. CASE ShareStart \/ Undo
  <2>1. UNCHANGED <<job, rec>>
    BY <1>10 DEF ShareStart, Undo, Short, procVars
  <2>2. World'
    BY <1>10 DEF ShareStart, Undo, Short, Base, World, procVars, routeVars
  <2>3. QED
    BY <2>1, <2>2 DEF Base, JobShape, Flow, Unrecorded, M
<1>11. QED
  BY <1>1, <1>2, <1>3, <1>4, <1>5, <1>6, <1>7, <1>8, <1>9, <1>10 DEF Window

LEMMA AroundBase == ASSUME Base, Around PROVE Base'
<1> USE DEF World, procVars, routeVars, history
<1>0. World
  BY DEF Base
<1>j. ASSUME UNCHANGED job
      PROVE  JobShape' /\ Flow' /\ ((\A p \in Providers : rec'[p] => rec[p]) => Unrecorded')
  <2>1. JobShape' /\ Flow'
    BY <1>j DEF Base, JobShape, Flow
  <2>2. \A t \in Threads : job[t].pc \in {"await", "record"} => M(t) \in Providers
    BY DEF Base, JobShape, Shaped, Where, OnProvider, M
  <2>3. QED
    BY <1>j, <2>1, <2>2 DEF Base, Unrecorded, M
<1>1. ASSUME NEW p \in Providers, Binds(p) \/ StrangerComes(p) \/ StrangerGoes(p)
      PROVE  Base'
  <2>1. World' /\ UNCHANGED <<job, rec>>
    BY <1>0, <1>1, LinuxHubAssumption DEF Binds, StrangerComes, StrangerGoes, Fault, PortOpen
  <2>2. QED
    BY <2>1, <1>j DEF Base
<1>2. ASSUME NEW p \in Providers, Exits(p) PROVE Base'
  <2>1. World' /\ UNCHANGED job /\ \A q \in Providers : rec'[q] => rec[q]
    BY <1>0, <1>2, LinuxHubAssumption DEF Exits, Fault
  <2>2. QED
    BY <2>1, <1>j DEF Base
<1>3. CASE ShareEnds \/ SomebodyWrites \/ HubStarts
  <2>1. World' /\ UNCHANGED <<job, rec>>
    BY <1>0, <1>3 DEF ShareEnds, SomebodyWrites, HubStarts
  <2>2. QED
    BY <2>1, <1>j DEF Base
<1>4. CASE HubKilled
  <2>1. World'
    BY <1>0, <1>4, CutWorld, LinuxHubAssumption DEF HubKilled, Fault
  <2>2. QED
    BY <1>4, <2>1, AllIdle DEF HubKilled, Base
<1>5. QED
  BY <1>1, <1>2, <1>3, <1>4 DEF Around

LEMMA BaseInit == Init => Base
<1> SUFFICES ASSUME Init PROVE Base
  OBVIOUS
<1>1. World
  <2>1. /\ proc \in [Providers -> {"none", "starting", "up"}] /\ rec \in [Providers -> BOOLEAN]
        /\ \A p \in Providers : rec[p] => proc[p] # "none"
    BY DEF Init
  <2>2. faults \in 0 .. MaxFaults
    BY LinuxHubAssumption DEF Init
  <2>3. QED
    BY <2>1, <2>2 DEF Init, World
<1>2. DOMAIN job = Threads /\ \A t \in Threads : job[t] = Idle
  BY DEF Init
<1>3. JobShape /\ Flow /\ Unrecorded
  BY <1>2, IdleFits DEF JobShape, Flow, Unrecorded, Threads
<1>4. QED
  BY <1>1, <1>3 DEF Base

LEMMA BaseStep == Base /\ [Next]_vars => Base'
<1> SUFFICES ASSUME Base, [Next]_vars PROVE Base'
  OBVIOUS
<1>1. CASE UNCHANGED vars
  BY <1>1 DEF vars, Base, World, JobShape, Flow, Unrecorded, M
<1>2. CASE Next
  BY <1>2, WindowBase, WorkerBase, AroundBase DEF Next
<1>3. QED
  BY <1>1, <1>2

\* However the actions and the full exit overlap, every variable keeps its
\* type: a worker always has a method to try where the code takes the first of
\* its list, and a record always names a process.
THEOREM HubTypeCorrect == Spec => []TypeOK
<1>1. Base => TypeOK
  BY DEF Base, World, JobShape, Shaped, Jobs, TypeOK
<1>2. QED
  BY BaseInit, BaseStep, <1>1, PTL DEF Spec

-----------------------------------------------------------------------------
(* Alone is inductive where no action begins during the exit *)

\* What a move leaves of a job.
SameTask(t) == /\ job'[t].kind = job[t].kind /\ job'[t].plan = job[t].plan
               /\ job'[t].temp = job[t].temp /\ M(t)' = M(t)

LEMMA GotoJob ==
  ASSUME Base, NEW t \in Threads, NEW x, Goto(t, x)
  PROVE  SameTask(t) /\ job'[t].pc = x /\ job'[t].ok = job[t].ok
         /\ job'[t].stops = job[t].stops
  BY DEF Goto, SameTask, Base, JobShape, Shaped, Jobs, M

LEMMA RefuseJob ==
  ASSUME Base, NEW t \in Threads, Refuse(t)
  PROVE  SameTask(t) /\ job'[t].pc = "end" /\ ~job'[t].ok
  BY DEF Refuse, SameTask, Base, JobShape, Shaped, Jobs, M

LEMMA StoppingJob ==
  ASSUME Base, NEW t \in Threads, NEW s, NEW next, Stopping(t, s, next)
  PROVE  /\ SameTask(t) /\ job'[t].ok = job[t].ok
         /\ job'[t].pc = IF s = <<>> THEN next ELSE "stop"
         /\ job'[t].stops = s /\ job'[t].then = next
  BY DEF Stopping, SameTask, Base, JobShape, Shaped, Jobs, M

LEMMA StoppedJob ==
  ASSUME Base, NEW t \in Threads, NEW ok, Stopped(t, ok)
  PROVE  /\ SameTask(t) /\ job'[t].ok = (job[t].ok /\ ok)
         /\ job'[t].pc = IF Len(job[t].stops) > 1 THEN "stop" ELSE job[t].then
         /\ job'[t].stops = Tail(job[t].stops) /\ job'[t].then = job[t].then
  BY DEF Stopped, SameTask, Base, JobShape, Shaped, Jobs, M

LEMMA FailJob ==
  ASSUME Base, NEW t \in Threads, Fail(t)
  PROVE  job'[t].pc \in {"try", "end"} /\ job'[t].kind = job[t].kind
  BY DEF Fail, NextAttempt, Goto, Base, JobShape, Shaped, Jobs

LEMMA RaiseJob ==
  ASSUME Base, NEW t \in Threads, Raise(t)
  PROVE  /\ job'[t].pc \in {"try", "end"} /\ job'[t].kind = job[t].kind
         /\ job[t].kind # "benchall" => job'[t].pc = "end" /\ ~job'[t].ok
  BY RaiseQuiet DEF Quiet, Advances

\* Its own job is the only one at work, and a stop takes only the steps of
\* stop_all().
LEMMA WorkerAlone ==
  ASSUME Base, OneJob, NEW t \in Threads, Worker(t)
  PROVE  /\ job[t].pc # "idle" /\ app = "up" /\ UNCHANGED <<app, before>>
         /\ job'[t].kind = job[t].kind
         /\ \A u \in Threads : u # t => job[u].pc = "idle" /\ job'[u] = job[u]
         /\ job[t].kind = "stop" => \/ StopShare(t) \/ DisableRoute(t) \/ ClearSession(t)
                                    \/ StopOwned(t) \/ StopTimesOut(t) \/ StopNotOwned(t)
                                    \/ StopRaises(t) \/ SessionRaises(t)
<1>1. job[t].pc # "idle"
  BY DEF Worker, StopShare, DisableRoute, ClearSession, StopOwned, StopRaises, StopTimesOut,
     StopNotOwned, NotReady, TryTest, TryProvider, TryPlain, Reuse, LaunchTor, Spawn,
     SpawnBeside, Await, AwaitGivesUp, Record, SetSession, StartRaises, SessionRaises,
     Outlives, VerifyPasses, VerifyFails, Sites, Failed, Apply, Measure, At
<1>2. UNCHANGED <<app, before>>
  BY DEF Worker, StopShare, DisableRoute, ClearSession, StopOwned, StopRaises, StopTimesOut,
     StopNotOwned, NotReady, TryTest, TryProvider, TryPlain, Reuse, LaunchTor, Spawn,
     SpawnBeside, Await, AwaitGivesUp, Record, SetSession, StartRaises, SessionRaises,
     Outlives, VerifyPasses, VerifyFails, Sites, Failed, Apply, Measure, history
<1>3. job[t].kind = "stop" => job[t].pc \in {"share", "route", "stop", "clear", "end"}
  BY <1>1 DEF Base, Flow, Flows
<1>4. job[t].kind = "stop" => \/ StopShare(t) \/ DisableRoute(t) \/ ClearSession(t)
                              \/ StopOwned(t) \/ StopTimesOut(t) \/ StopNotOwned(t)
                              \/ StopRaises(t) \/ SessionRaises(t)
  BY <1>3
     DEF Worker, NotReady, TryTest, TryProvider, TryPlain, Reuse, LaunchTor, Spawn,
     SpawnBeside, Await, AwaitGivesUp, Record, SetSession, StartRaises,
     Outlives, VerifyPasses, VerifyFails, Sites, Failed, Apply, Measure, At
<1>5. QED
  BY <1>1, <1>2, <1>4, WorkerAdvances DEF Advances, OneJob, Threads

LEMMA WorkerWithdrawn ==
  ASSUME Base, OneJob, Withdrawn, NEW t \in Threads, Worker(t)
  PROVE  Withdrawn'
<1> USE DEF At, routeVars
<1>1. SUFFICES
        /\ job'[t].kind \in {"connect", "selective"}
             /\ job'[t].pc \notin {"idle", "route", "apply", "end"} => route' = "off"
        /\ job'[t].kind = "stop" =>
             /\ job'[t].pc \in {"route", "stop", "clear"} => ~share'
             /\ job'[t].pc \in {"stop", "clear"} => route' = "off"
             /\ job'[t].pc = "end" /\ job'[t].ok => route' = "off" /\ ~share'
  BY WorkerAlone DEF Withdrawn
<1>2. CASE StopShare(t)
  <2>1. job[t].kind = "stop" /\ job'[t].kind = "stop"
    BY <1>2, WorkerAlone DEF StopShare, Base, Flow, Flows
  <2>2. CASE share' = FALSE /\ Goto(t, "route")
    BY <2>1, <2>2, GotoJob
  <2>3. CASE Refuse(t)
    BY <2>1, <2>3, RefuseJob
  <2>4. QED
    BY <1>2, <2>2, <2>3 DEF StopShare
<1>3. CASE DisableRoute(t)
  <2>1. UNCHANGED share /\ (job[t].kind = "stop" => ~share)
    BY <1>3 DEF DisableRoute, Withdrawn
  <2>2. CASE route' = "off"
    <3>1. QED
      BY <2>1, <2>2, WorkerAlone
  <2>3. CASE Refuse(t)
    BY <2>3, RefuseJob
  <2>4. QED
    BY <1>3, <2>2, <2>3 DEF DisableRoute
<1>4. CASE ClearSession(t)
  <2>1. UNCHANGED <<route, share>> /\ job[t].kind = "stop" /\ route = "off" /\ ~share
    BY <1>4 DEF ClearSession, Base, Flow, Flows, Withdrawn
  <2>2. QED
    BY <2>1, WorkerAlone
<1>5. CASE StopOwned(t) \/ StopTimesOut(t) \/ StopNotOwned(t)
  <2>1. /\ UNCHANGED <<route, share>>
        /\ job[t].kind \in {"connect", "selective", "stop"} => route = "off"
        /\ job[t].kind = "stop" => ~share
    BY <1>5 DEF StopOwned, StopTimesOut, StopNotOwned, Withdrawn
  <2>2. QED
    BY <2>1, WorkerAlone
<1>6. CASE Apply(t)
  <2>1. job'[t].pc = "end" /\ job[t].kind # "stop" /\ job'[t].kind # "stop"
    BY <1>6, GotoJob, RefuseJob, WorkerAlone DEF Apply, Base, Flow, Flows
  <2>2. QED
    BY <2>1
<1>7. CASE \/ NotReady(t) \/ TryTest(t) \/ TryProvider(t) \/ TryPlain(t) \/ Reuse(t)
           \/ LaunchTor(t) \/ Spawn(t) \/ SpawnBeside(t) \/ Await(t) \/ AwaitGivesUp(t)
           \/ Record(t) \/ SetSession(t) \/ Outlives(t) \/ VerifyPasses(t)
           \/ VerifyFails(t) \/ Sites(t) \/ Failed(t) \/ Measure(t)
  <2>1. job[t].pc \in Attempting /\ UNCHANGED <<route, share>>
    BY <1>7 DEF NotReady, TryTest, TryProvider, TryPlain, Reuse, LaunchTor, Spawn,
       SpawnBeside, Await, AwaitGivesUp, Record, SetSession, Outlives, VerifyPasses,
       VerifyFails, Sites, Failed, Measure, Attempting, OnProvider
  <2>2. job[t].pc # "apply"
    BY <1>7 DEF NotReady, TryTest, TryProvider, TryPlain, Reuse, LaunchTor, Spawn,
       SpawnBeside, Await, AwaitGivesUp, Record, SetSession, Outlives, VerifyPasses,
       VerifyFails, Sites, Failed, Measure
  <2>3. job[t].kind # "stop" /\ job'[t].kind = job[t].kind
    BY <2>1, AtProvider, WorkerAlone DEF Where, Attempting, OnProvider
  <2>4. job[t].kind \in {"connect", "selective"} => route = "off"
    BY <2>1, <2>2 DEF Withdrawn, Attempting, OnProvider
  <2>5. QED
    BY <2>1, <2>3, <2>4
<1>8. CASE StopRaises(t) \/ StartRaises(t) \/ SessionRaises(t)
  <2>1. job'[t].kind = job[t].kind /\ (job[t].kind # "benchall" => job'[t].pc = "end" /\ ~job'[t].ok)
    BY <1>8, RaiseJob DEF StopRaises, StartRaises, SessionRaises
  <2>2. QED
    BY <2>1
<1>9. QED
  BY <1>2, <1>3, <1>4, <1>5, <1>6, <1>7, <1>8 DEF Worker

\* A process of ours without a record that is not a stray: a worker waits for it.
LEMMA StoppingOwned ==
  ASSUME Base, OneJob, NothingUnowned, NEW t \in Threads, At(t, "stop"),
         NEW p \in Running \ stray
  PROVE  rec[p]
  BY DEF OneJob, NothingUnowned, At, Threads

LEMMA TailRange ==
  ASSUME NEW S, NEW s \in Seq(S), s # <<>>
  PROVE  /\ Range(s) \ {Head(s)} \subseteq Range(Tail(s))
         /\ Len(s) > 1 \/ Range(s) = {Head(s)}
<1>1. /\ Len(s) \in Nat \ {0} /\ DOMAIN s = 1 .. Len(s) /\ Head(s) = s[1]
      /\ Tail(s) \in Seq(S) /\ Len(Tail(s)) = Len(s) - 1
      /\ \A i \in 1 .. Len(Tail(s)) : Tail(s)[i] = s[i + 1]
  BY HeadTailProperties, LenProperties, EmptySeq
<1>2. DOMAIN Tail(s) = 1 .. Len(s) - 1
  BY <1>1, LenProperties
<1>3. ASSUME NEW i \in DOMAIN s, s[i] # Head(s) PROVE s[i] \in Range(Tail(s))
  <2>1. i - 1 \in DOMAIN Tail(s) /\ Tail(s)[i - 1] = s[i]
    BY <1>1, <1>2, <1>3
  <2>2. QED
    BY <2>1 DEF Range
<1>4. ASSUME ~(Len(s) > 1) PROVE Range(s) = {Head(s)}
  BY <1>1, <1>4 DEF Range
<1>5. QED
  BY <1>3, <1>4 DEF Range

LEMMA WorkerExitTracked ==
  ASSUME Base, OneJob, NothingUnowned, ExitTracked, NEW t \in Threads, Worker(t)
  PROVE  ExitTracked'
<1> USE DEF At, procVars, history
<1>1. CASE t = "action"
  BY <1>1, WorkerAlone DEF ExitTracked, Threads
<1>2. CASE t = "exit"
  <2> USE <1>2
  <2>0. job[t].kind = "stop" /\ job[t] \in Jobs
    BY DEF Base, Flow, JobShape, Shaped
  <2>1. CASE StopShare(t)
    BY <2>1, GotoJob, RefuseJob DEF StopShare, ExitTracked
  <2>2. CASE DisableRoute(t)
    <3>1. CASE PastRoute(t)
      <4>1. Stopping(t, StopAll, "clear")
        BY <2>0, <3>1 DEF PastRoute
      <4>2. job'[t].pc = "stop" /\ Range(job'[t].stops) = Providers
        BY <4>1, StoppingJob, StopAllType
      <4>3. QED
        BY <4>2 DEF ExitTracked, Running
    <3>2. CASE Refuse(t)
      BY <3>2, RefuseJob DEF ExitTracked
    <3>3. QED
      BY <2>2, <3>1, <3>2 DEF DisableRoute
  <2>3. CASE ClearSession(t)
    BY <2>3, GotoJob DEF ClearSession, ExitTracked, Running
  <2>4. CASE StopTimesOut(t)
    BY <2>4, StoppedJob DEF StopTimesOut, ExitTracked
  <2>5. CASE StopOwned(t) \/ StopNotOwned(t)
    <3> DEFINE s == job[t].stops
               p == Head(s)
    <3>1. /\ s \in Seq(Providers) /\ s # <<>> /\ job[t].then = "clear" /\ job[t].pc = "stop"
          /\ p \in Providers
      BY <2>0, <2>5, HeadTailProperties
         DEF StopOwned, StopNotOwned, Base, JobShape, Shaped, Flow, Flows, Jobs
    <3>2. PICK ok : Stopped(t, ok)
      BY <2>5 DEF StopOwned, StopNotOwned
    <3>3. /\ Running' \ stray' \subseteq (Running \ stray) \ {p}
      <4>1. CASE StopOwned(t)
        BY <4>1, <3>1 DEF StopOwned, Running, Base, World
      <4>2. CASE StopNotOwned(t)
        BY <4>2, StoppingOwned DEF StopNotOwned, Running
      <4>3. QED
        BY <2>5, <4>1, <4>2
    <3>4. Range(s) \ {p} \subseteq Range(Tail(s))
      BY <3>1, TailRange
    <3>5. Len(s) > 1 \/ Range(s) = {p}
      BY <3>1, TailRange
    <3>6. QED
      BY <3>1, <3>2, <3>3, <3>4, <3>5, StoppedJob DEF ExitTracked
  <2>6. CASE StopRaises(t) \/ SessionRaises(t)
    <3>1. ~job'[t].ok
      BY <2>0, <2>6, RaiseJob DEF StopRaises, SessionRaises
    <3>2. QED
      BY <3>1 DEF ExitTracked
  <2>7. QED
    BY <2>0, <2>1, <2>2, <2>3, <2>4, <2>5, <2>6, WorkerAlone
<1>3. QED
  BY <1>1, <1>2 DEF Threads

\* The steps at which neither a process nor a record nor a stray changes.
LEMMA ProcessesKept ==
  ASSUME NEW t \in Threads,
         \/ StopShare(t) \/ DisableRoute(t) \/ ClearSession(t) \/ StopNotOwned(t)
         \/ NotReady(t) \/ TryTest(t) \/ TryProvider(t) \/ TryPlain(t) \/ Reuse(t)
         \/ SessionRaises(t) \/ Await(t) \/ SetSession(t) \/ VerifyPasses(t)
         \/ Sites(t) \/ Failed(t) \/ Apply(t) \/ Measure(t)
  PROVE  UNCHANGED <<proc, rec, stray>> /\ Running' = Running
  BY DEF StopShare, DisableRoute, ClearSession, StopNotOwned, NotReady, TryTest,
     TryProvider, TryPlain, Reuse, SessionRaises, Await, SetSession, VerifyPasses, Sites,
     Failed, Apply, Measure, procVars, history, Running

LEMMA WorkerUnowned ==
  ASSUME Base, OneJob, NothingUnowned, NEW t \in Threads, Worker(t)
  PROVE  NothingUnowned'
<1> USE DEF At, procVars, history
<1>0. World /\ World'
  BY WorkerBase DEF Base
<1>a. ASSUME job[t].pc \notin {"await", "record"}, NEW p \in Running \ stray
      PROVE  rec[p]
  BY <1>a, WorkerAlone DEF NothingUnowned
<1>b. ASSUME job[t].pc \in {"await", "record"}, NEW p \in Running \ stray
      PROVE  rec[p] \/ p = M(t)
  BY <1>b, WorkerAlone DEF NothingUnowned
<1>c. job[t].pc \in {"spawn", "await", "record", "session"} => M(t) \in Providers
  BY AtProvider DEF Where, Attempting, OnProvider
<1>1. CASE StopOwned(t) \/ StopTimesOut(t)
  <2>1. Head(job[t].stops) \in Providers
    <3>1. PICK ok \in BOOLEAN : Stopped(t, ok)
      BY <1>1 DEF StopOwned, StopTimesOut
    <3>2. QED
      BY <1>1, <3>1, StoppedQuiet DEF StopOwned, StopTimesOut
  <2>2. CASE StopOwned(t)
    <3>1. \A p \in Running' \ stray' : rec[p] /\ rec'[p]
      BY <1>0, <1>a, <2>1, <2>2 DEF StopOwned, Running, World
    <3>2. QED
      BY <3>1 DEF NothingUnowned
  <2>3. CASE StopTimesOut(t)
    <3>1. \A p \in Running' \ stray' : rec'[p]
      BY <1>0, <1>a, <2>1, <2>3 DEF StopTimesOut, Running, World
    <3>2. QED
      BY <3>1 DEF NothingUnowned
  <2>4. QED
    BY <1>1, <2>2, <2>3
<1>2. CASE LaunchTor(t)
  <2>1. \A p \in Running' \ stray' : rec'[p]
    BY <1>0, <1>a, <1>2 DEF LaunchTor, Running, World
  <2>2. QED
    BY <2>1 DEF NothingUnowned
<1>3. CASE Spawn(t)
  <2>1. \A p \in Running' \ stray' : rec'[p] \/ p = M(t)
    BY <1>0, <1>a, <1>c, <1>3 DEF Spawn, Running, World
  <2>2. job'[t].pc = "await" /\ M(t)' = M(t)
    BY <1>3, GotoJob DEF Spawn, SameTask
  <2>3. QED
    BY <2>1, <2>2 DEF NothingUnowned
<1>4. CASE Await(t)
  <2>1. job'[t].pc = "record" /\ M(t)' = M(t)
    BY <1>4, GotoJob DEF Await, SameTask
  <2>2. QED
    BY <1>b, <1>4, <2>1, ProcessesKept DEF NothingUnowned, Await
<1>5. CASE AwaitGivesUp(t)
  <2>1. \A p \in Running' \ stray' : rec'[p]
    BY <1>0, <1>b, <1>c, <1>5 DEF AwaitGivesUp, Running, World
  <2>2. QED
    BY <2>1 DEF NothingUnowned
<1>6. CASE Record(t)
  <2>1. \A p \in Running' \ stray' : rec'[p]
    BY <1>0, <1>b, <1>c, <1>6 DEF Record, Running, World
  <2>2. QED
    BY <2>1 DEF NothingUnowned
<1>7. CASE StartRaises(t)
  <2>1. \A p \in Running' \ stray' : rec'[p]
    BY <1>0, <1>a, <1>b, <1>7 DEF StartRaises, Running, World
  <2>2. QED
    BY <2>1 DEF NothingUnowned
<1>8. CASE VerifyFails(t)
  <2>1. \A p \in Running' \ stray' : rec'[p]
    BY <1>0, <1>a, <1>8 DEF VerifyFails, Running, World
  <2>2. QED
    BY <2>1 DEF NothingUnowned
<1>9. CASE \/ StopShare(t) \/ DisableRoute(t) \/ ClearSession(t) \/ StopNotOwned(t)
           \/ NotReady(t) \/ TryTest(t) \/ TryProvider(t) \/ TryPlain(t) \/ Reuse(t)
           \/ SessionRaises(t) \/ SetSession(t) \/ VerifyPasses(t)
           \/ Sites(t) \/ Failed(t) \/ Apply(t) \/ Measure(t)
  <2>1. UNCHANGED <<proc, rec, stray>> /\ Running' = Running
    BY <1>9, ProcessesKept
  <2>2. job[t].pc \notin {"await", "record"}
    BY <1>9 DEF StopShare, DisableRoute, ClearSession, StopNotOwned, NotReady, TryTest,
       TryProvider, TryPlain, Reuse, SessionRaises, SetSession, VerifyPasses, Sites,
       Failed, Apply, Measure
  <2>3. QED
    BY <1>a, <2>1, <2>2 DEF NothingUnowned
<1>10. CASE StopRaises(t)
  <2>1. Head(job[t].stops) \in Providers
    BY <1>10, StopsProvider DEF StopRaises
  <2>2. \A p \in Running' \ stray' : rec[p] /\ rec'[p]
    BY <1>0, <1>a, <1>10, <2>1 DEF StopRaises, Running, World
  <2>3. QED
    BY <2>2 DEF NothingUnowned
<1>11. CASE Outlives(t)
  <2>1. \A p \in Running' \ stray' : rec'[p]
    BY <1>0, <1>a, <1>b, <1>11 DEF Outlives, Running, World
  <2>2. QED
    BY <2>1 DEF NothingUnowned
<1>12. CASE SpawnBeside(t)
  <2>1. \A p \in Running' \ stray' : rec'[p]
    <3>1. CASE UNCHANGED <<proc, rec, aliens, stray>>
      BY <1>a, <1>12, <3>1 DEF SpawnBeside, Running
    <3>2. CASE /\ proc' = [proc EXCEPT ![M(t)] = IF PortOpen(M(t)) THEN "starting" ELSE "up"]
               /\ rec' = [rec EXCEPT ![M(t)] = TRUE]
               /\ stray' = stray \ {M(t)}
      BY <1>0, <1>a, <1>c, <1>12, <3>2 DEF SpawnBeside, Running, World
    <3>3. QED
      BY <1>12, <3>1, <3>2 DEF SpawnBeside
  <2>2. QED
    BY <2>1 DEF NothingUnowned
<1>13. QED
  BY <1>1, <1>2, <1>3, <1>4, <1>5, <1>6, <1>7, <1>8, <1>9, <1>10, <1>11, <1>12 DEF Worker

LEMMA WorkerTorUp ==
  ASSUME Base, OneJob, TorUp, NEW t \in Threads, Worker(t)
  PROVE  TorUp'
<1> USE DEF At, procVars, history
<1>0. World
  BY DEF Base
<1>c. job[t].pc \in {"spawn", "await", "record"} => M(t) \in Providers
  BY AtProvider DEF Where, Attempting, OnProvider
<1>d. "TOR" \in Providers
  BY DEF Providers
<1>1. \A u \in Threads : job'[u].pc = "record" => u = t /\ Await(t)
  <2>1. job'[t].pc = "record" => Await(t)
    BY WorkerAdvances, GotoJob DEF Spawn
  <2>2. QED
    BY <2>1, WorkerAlone
<1>2. SUFFICES rec'["TOR"] => proc'["TOR"] = "up"
  <2>1. ASSUME Await(t), M(t)' = "TOR" PROVE proc'["TOR"] # "starting"
    <3>1. M(t)' = M(t)
      BY <2>1, GotoJob DEF Await, SameTask
    <3>2. QED
      BY <2>1, <3>1 DEF Await
  <2>2. QED
    BY <1>1, <2>1 DEF TorUp
<1>3. CASE StopOwned(t) \/ StopTimesOut(t)
  <2>1. Head(job[t].stops) \in Providers
    <3>1. PICK ok \in BOOLEAN : Stopped(t, ok)
      BY <1>3 DEF StopOwned, StopTimesOut
    <3>2. QED
      BY <1>3, <3>1, StoppedQuiet DEF StopOwned, StopTimesOut
  <2>2. QED
    BY <1>0, <1>d, <1>3, <2>1 DEF StopOwned, StopTimesOut, TorUp, World
<1>4. CASE LaunchTor(t) \/ VerifyFails(t)
  BY <1>0, <1>d, <1>4 DEF LaunchTor, VerifyFails, TorUp, World
<1>5. CASE Spawn(t)
  BY <1>0, <1>c, <1>d, <1>5 DEF Spawn, TorUp, World
<1>6. CASE AwaitGivesUp(t)
  BY <1>0, <1>c, <1>d, <1>6 DEF AwaitGivesUp, TorUp, World, Base, Unrecorded
<1>7. CASE Record(t)
  <2>1. M(t) = "TOR" /\ proc["TOR"] # "none" => proc["TOR"] = "up"
    BY <1>0, <1>d, <1>7 DEF Record, TorUp, World
  <2>2. QED
    BY <1>0, <1>c, <1>d, <1>7, <2>1 DEF Record, TorUp, World
<1>8. CASE StartRaises(t) \/ Outlives(t)
  <2>1. rec'["TOR"] => rec["TOR"]
    BY <1>0, <1>d, <1>8 DEF StartRaises, Outlives, World
  <2>2. QED
    BY <1>8, <2>1 DEF StartRaises, Outlives, TorUp
<1>9. CASE \/ StopShare(t) \/ DisableRoute(t) \/ ClearSession(t) \/ StopNotOwned(t)
           \/ NotReady(t) \/ TryTest(t) \/ TryProvider(t) \/ TryPlain(t) \/ Reuse(t)
           \/ SessionRaises(t) \/ Await(t) \/ SetSession(t) \/ VerifyPasses(t)
           \/ Sites(t) \/ Failed(t) \/ Apply(t) \/ Measure(t)
  BY <1>9, ProcessesKept DEF TorUp
<1>10. CASE StopRaises(t)
  <2>1. Head(job[t].stops) \in Providers
    BY <1>10, StopsProvider DEF StopRaises
  <2>2. QED
    BY <1>0, <1>d, <1>10, <2>1 DEF StopRaises, TorUp, World
<1>11. CASE SpawnBeside(t)
  <2>1. CASE UNCHANGED <<proc, rec>>
    BY <2>1 DEF TorUp
  <2>2. CASE /\ M(t) = "TOR" => ~PortOpen(M(t))
             /\ proc' = [proc EXCEPT ![M(t)] = IF PortOpen(M(t)) THEN "starting" ELSE "up"]
             /\ rec' = [rec EXCEPT ![M(t)] = TRUE]
    BY <1>0, <1>c, <1>d, <1>11, <2>2 DEF SpawnBeside, TorUp, World
  <2>3. QED
    BY <1>11, <2>1, <2>2 DEF SpawnBeside
<1>12. QED
  BY <1>3, <1>4, <1>5, <1>6, <1>7, <1>8, <1>9, <1>10, <1>11 DEF Worker

LEMMA WorkerSession ==
  ASSUME Base, OneJob, SessionTrue, SessionNext, NEW t \in Threads, Worker(t)
  PROVE  SessionTrue'
<1> USE DEF At, procVars, history
<1>0. World
  BY DEF Base
<1>p. job[t].pc \in {"reuse", "await", "record", "session", "verify"} => M(t) \in Providers
  BY AtProvider DEF Where, Attempting, OnProvider
<1>n. {"none", "CUSTOM", "DIRECT"} \cap Providers = {}
  BY LinuxHubAssumption DEF Providers, Warps
<1>1. CASE StopOwned(t)
  <2>1. Head(job[t].stops) \in Providers
    <3>1. PICK ok \in BOOLEAN : Stopped(t, ok)
      BY <1>1 DEF StopOwned
    <3>2. QED
      BY <1>1, <3>1, StoppedQuiet DEF StopOwned
  <2>2. QED
    BY <1>0, <1>1, <1>n, <2>1 DEF StopOwned, SessionTrue, World
<1>2. CASE StopNotOwned(t)
  BY <1>2, <1>n DEF StopNotOwned, SessionTrue
<1>3. CASE ClearSession(t) \/ TryPlain(t)
  BY <1>3, <1>n DEF ClearSession, TryPlain, SessionTrue
<1>4. CASE Reuse(t)
  <2>1. rec[M(t)] \/ M(t) \in gone
    BY <1>4 DEF Reuse, SessionNext
  <2>2. QED
    BY <1>4, <2>1 DEF Reuse, SessionTrue
<1>5. CASE SetSession(t)
  <2>1. rec[M(t)] \/ M(t) \in gone
    BY <1>5 DEF SetSession, SessionNext
  <2>2. QED
    BY <1>5, <2>1 DEF SetSession, SessionTrue
<1>6. CASE VerifyFails(t)
  <2>1. M(t) = "TOR" => session # "TOR" \/ "TOR" \in gone
    BY <1>6 DEF VerifyFails, SessionNext
  <2>2. QED
    BY <1>0, <1>6, <2>1 DEF VerifyFails, SessionTrue, World
<1>7. CASE Record(t) \/ SpawnBeside(t)
  <2>1. M(t) \in Providers
    BY <1>7, AtProvider DEF Record, SpawnBeside, Where, Attempting, OnProvider
  <2>2. UNCHANGED <<session, gone>> /\ \A p \in Providers : rec[p] => rec'[p]
    BY <1>0, <1>7, <2>1 DEF Record, SpawnBeside, World
  <2>3. QED
    BY <2>2 DEF SessionTrue
<1>8. CASE \/ StopShare(t) \/ DisableRoute(t) \/ StopTimesOut(t) \/ NotReady(t)
           \/ TryTest(t) \/ TryProvider(t) \/ LaunchTor(t) \/ Spawn(t) \/ SessionRaises(t)
           \/ Await(t) \/ AwaitGivesUp(t) \/ StartRaises(t) \/ VerifyPasses(t)
           \/ Sites(t) \/ Failed(t) \/ Apply(t) \/ Measure(t)
  <2>1. UNCHANGED <<rec, session, gone>>
    BY <1>8 DEF StopShare, DisableRoute, StopTimesOut, NotReady, TryTest, TryProvider,
       LaunchTor, Spawn, SessionRaises, Await, AwaitGivesUp, StartRaises, VerifyPasses,
       Sites, Failed, Apply, Measure
  <2>2. QED
    BY <2>1 DEF SessionTrue
<1>9. CASE StopRaises(t)
  <2>1. Head(job[t].stops) \in Providers
    BY <1>9, StopsProvider DEF StopRaises
  <2>2. QED
    BY <1>0, <1>9, <2>1 DEF StopRaises, SessionTrue, World
<1>10. CASE Outlives(t)
  <2>1. M(t) \in Providers
    BY <1>10, AtProvider DEF Outlives, Where, Attempting, OnProvider
  <2>2. session = M(t) => M(t) \in gone
    <3>1. CASE job[t].pc = "verify"
      BY <1>10, <3>1 DEF Outlives, SessionNext
    <3>2. CASE job[t].pc # "verify"
      <4>1. ~rec[M(t)]
        BY <1>10, <3>2
           DEF Outlives, Base, Unrecorded, JobShape, Shaped, Where, OnProvider, M
      <4>2. QED
        BY <2>1, <4>1 DEF SessionTrue
    <3>3. QED
      BY <3>1, <3>2
  <2>3. QED
    BY <1>0, <1>10, <2>1, <2>2 DEF Outlives, SessionTrue, World
<1>11. QED
  BY <1>1, <1>2, <1>3, <1>4, <1>5, <1>6, <1>7, <1>8, <1>9, <1>10 DEF Worker

LEMMA AfterStopped ==
  ASSUME Base, NEW t \in Threads, NEW ok \in BOOLEAN, At(t, "stop"), Stopped(t, ok)
  PROVE  job'[t].pc \in {"stop"} \cup After /\ (job'[t].pc = "spawn" => M(t)' # "TOR")
<1>1. job[t].then \in After /\ (job[t].then = "spawn" => M(t) # "TOR")
  BY DEF Base, JobShape, Shaped, Flow, Flows, At, M
<1>2. QED
  BY <1>1, StoppedJob DEF SameTask, After

LEMMA WorkerSessionNext ==
  ASSUME Base, OneJob, SessionTrue, SessionNext, TorUp, NEW t \in Threads, Worker(t)
  PROVE  SessionNext'
<1> USE DEF At, procVars, history
<1>0. World
  BY DEF Base
<1>d. "TOR" \in Providers
  BY DEF Providers
<1>p. job[t].pc \in {"reuse", "spawn", "await", "record", "session", "verify"} => M(t) \in Providers
  BY AtProvider DEF Where, Attempting, OnProvider
<1> DEFINE Named == job'[t].pc \in {"reuse", "session", "verify"} =>
                        rec'[M(t)'] \/ M(t)' \in gone'
           Ended == job'[t].pc \in {"await", "record"} /\ proc'[M(t)'] = "none" =>
                        M(t)' \in gone'
           Tor == job'[t].pc = "verify" /\ M(t)' = "TOR" =>
                        session' # "TOR" \/ "TOR" \in gone'
<1>a. SUFFICES Named /\ Ended /\ Tor
  BY WorkerAlone DEF SessionNext
<1>t. ~rec["TOR"] => session # "TOR" \/ "TOR" \in gone
  BY <1>d DEF SessionTrue
<1>1. CASE StopOwned(t) \/ StopTimesOut(t) \/ StopNotOwned(t)
  <2>1. PICK ok \in BOOLEAN : Stopped(t, ok)
    BY <1>1 DEF StopOwned, StopTimesOut, StopNotOwned
  <2>2. job'[t].pc \in {"stop"} \cup After /\ (job'[t].pc = "spawn" => M(t)' # "TOR")
    BY <1>1, <2>1, AfterStopped DEF StopOwned, StopTimesOut, StopNotOwned
  <2>3. QED
    BY <2>2 DEF After
<1>2. CASE TryProvider(t)
  <2>1. CASE Proven(M(t)) /\ Goto(t, "reuse")
    <3>1. rec[M(t)] /\ M(t)' = M(t) /\ job'[t].pc = "reuse" /\ UNCHANGED rec
      BY <1>2, <2>1, GotoJob DEF Proven, SameTask, TryProvider
    <3>2. QED
      BY <3>1
  <2>2. CASE Fail(t) \/ Goto(t, "launch")
    BY <2>2, FailJob, GotoJob
  <2>3. CASE M(t) # "TOR" /\ \E s : Stopping(t, s, "spawn")
    <3>1. job'[t].pc \in {"stop", "spawn"} /\ M(t)' # "TOR"
      BY <2>3, StoppingJob DEF SameTask
    <3>2. QED
      BY <3>1
  <2>4. QED
    BY <1>2, <2>1, <2>2, <2>3 DEF TryProvider
<1>3. CASE Reuse(t)
  <2>1. CASE \/ Goto(t, Good(t)) \/ Fail(t)
    BY <2>1, GotoJob, FailJob, GoodIs
  <2>2. CASE \E s : Stopping(t, s, "launch")
    BY <2>2, StoppingJob
  <2>3. QED
    BY <1>3, <2>1, <2>2 DEF Reuse
<1>4. CASE LaunchTor(t)
  BY <1>4, FailJob, GotoJob DEF LaunchTor
<1>5. CASE Spawn(t) \/ Await(t)
  <2>1. M(t)' = M(t) /\ job'[t].pc \in {"await", "record"}
    BY <1>5, GotoJob DEF Spawn, Await, SameTask
  <2>2. proc'[M(t)] # "none"
    BY <1>0, <1>5, <1>d, <1>p DEF Spawn, Await, World
  <2>3. QED
    BY <2>1, <2>2
<1>6. CASE Record(t)
  <2>1. CASE Fail(t)
    BY <2>1, FailJob
  <2>2. CASE rec' = [rec EXCEPT ![M(t)] = TRUE]
             /\ Goto(t, IF M(t) = "TOR" THEN "verify" ELSE "session")
    <3>1. /\ M(t)' = M(t) /\ UNCHANGED <<session, gone>> /\ rec'[M(t)]
          /\ job'[t].pc \in {"verify", "session"} /\ ~rec[M(t)]
      BY <1>0, <1>6, <1>p, <2>2, GotoJob DEF Record, SameTask, World, Base, Unrecorded
    <3>2. QED
      BY <1>t, <3>1
  <2>3. CASE proc[M(t)] = "none" /\ UNCHANGED rec /\ M(t) = "TOR" /\ Goto(t, "verify")
    <3>1. /\ M(t)' = M(t) /\ UNCHANGED <<session, gone>> /\ M(t) \in gone
          /\ job'[t].pc = "verify"
      BY <1>6, <2>3, GotoJob DEF Record, SameTask, SessionNext
    <3>2. QED
      BY <2>3, <3>1
  <2>4. QED
    BY <1>6, <2>1, <2>2, <2>3 DEF Record
<1>7. CASE SetSession(t)
  <2>1. CASE M(t) = "TOR" /\ Goto(t, Good(t))
    BY <2>1, GotoJob, GoodIs
  <2>2. CASE M(t) # "TOR" /\ Goto(t, "verify")
    <3>1. /\ M(t)' = M(t) /\ job'[t].pc = "verify" /\ UNCHANGED rec
          /\ rec[M(t)] \/ M(t) \in gone'
      BY <1>7, <2>2, GotoJob DEF SetSession, SameTask, SessionNext
    <3>2. QED
      BY <2>2, <3>1
  <2>3. QED
    BY <1>7, <2>1, <2>2 DEF SetSession
<1>8. CASE VerifyPasses(t)
  <2>1. CASE Goto(t, "session")
    <3>1. /\ M(t)' = M(t) /\ job'[t].pc = "session" /\ UNCHANGED <<rec, gone>>
          /\ rec[M(t)] \/ M(t) \in gone
      BY <1>8, <2>1, GotoJob DEF VerifyPasses, SameTask, SessionNext
    <3>2. QED
      BY <3>1
  <2>2. CASE Goto(t, Good(t))
    BY <2>2, GotoJob, GoodIs
  <2>3. QED
    BY <1>8, <2>1, <2>2 DEF VerifyPasses
<1>9. CASE VerifyFails(t)
  <2>1. CASE Fail(t) \/ Goto(t, "launch")
    BY <2>1, FailJob, GotoJob
  <2>2. CASE \E s : Stopping(t, s, "failed")
    BY <2>2, StoppingJob
  <2>3. QED
    BY <1>9, <2>1, <2>2 DEF VerifyFails
<1>10. CASE StopShare(t) \/ ClearSession(t) \/ TryPlain(t) \/ Apply(t)
  <2>1. Refuse(t) \/ Goto(t, "route") \/ Goto(t, "end")
    BY <1>10 DEF StopShare, ClearSession, TryPlain, Apply
  <2>2. QED
    BY <2>1, RefuseJob, GotoJob
<1>11. CASE DisableRoute(t)
  <2>1. Refuse(t) \/ \E s : Stopping(t, s, "clear") \/ Stopping(t, s, "try")
    BY <1>11 DEF DisableRoute, PastRoute
  <2>2. QED
    BY <2>1, RefuseJob, StoppingJob
<1>12. CASE NotReady(t) \/ Failed(t)
  BY <1>12, FailJob DEF NotReady, Failed
<1>13. CASE TryTest(t)
  <2>1. job'[t].pc \in {"bench", "try"}
    BY <1>13, GotoJob DEF TryTest, Base, JobShape, Shaped, Jobs
  <2>2. QED
    BY <2>1
<1>14. CASE AwaitGivesUp(t) \/ Outlives(t)
  BY <1>14, FailJob, GotoJob DEF AwaitGivesUp, Outlives
<1>15. CASE Sites(t) \/ Measure(t)
  <2>1. Goto(t, "end") \/ \E s : Stopping(t, s, "failed") \/ Stopping(t, s, "end")
    BY <1>15 DEF Sites, Measure
  <2>2. QED
    BY <2>1, GotoJob, StoppingJob
<1>16. CASE StopRaises(t) \/ StartRaises(t) \/ SessionRaises(t)
  BY <1>16, RaiseJob DEF StopRaises, StartRaises, SessionRaises
<1>17. CASE SpawnBeside(t)
  <2>1. CASE Fail(t) \/ Goto(t, "launch")
    BY <2>1, FailJob, GotoJob
  <2>2. CASE /\ M(t) = "TOR" => ~PortOpen(M(t))
             /\ rec' = [rec EXCEPT ![M(t)] = TRUE]
             /\ Goto(t, IF M(t) = "TOR" THEN "verify" ELSE "session")
    <3>1. /\ M(t)' = M(t) /\ UNCHANGED <<session, gone>> /\ rec'[M(t)]
          /\ job'[t].pc \in {"verify", "session"}
      BY <1>0, <1>17, <1>p, <2>2, GotoJob DEF SpawnBeside, SameTask, World
    <3>2. M(t) = "TOR" => ~rec["TOR"]
      BY <2>2 DEF PortOpen, TorUp
    <3>3. QED
      BY <1>t, <3>1, <3>2
  <2>3. QED
    BY <1>17, <2>1, <2>2 DEF SpawnBeside
<1>18. QED
  BY <1>1, <1>2, <1>3, <1>4, <1>5, <1>6, <1>7, <1>8, <1>9, <1>10, <1>11, <1>12, <1>13,
     <1>14, <1>15, <1>16, <1>17 DEF Worker

\* TestTracked' for a test that goes from what it held to what it holds.
LEMMA TestGoesOn ==
  ASSUME OneJob, Base, Worker("action"), job["action"].kind \in Tests, TestTracked,
         Running' \subseteq before \cup stray' \cup Held(job["action"])',
         job'["action"].pc \in {"stop", "reuse", "launch", "spawn", "await", "record",
                                "session", "verify"} => job'["action"].temp
  PROVE  TestTracked'
  BY WorkerAlone DEF TestTracked, Threads

LEMMA WorkerTestTracked ==
  ASSUME Base, OneJob, NothingUnowned, TestTracked, NEW t \in Threads, Worker(t)
  PROVE  TestTracked'
<1> USE DEF At, procVars, history
<1>0. World
  BY DEF Base
<1>1. CASE t = "exit" \/ job[t].kind \notin Tests
  BY <1>1, WorkerAlone DEF TestTracked, Threads, Base, Flow, Tests
<1>2. CASE t = "action" /\ job[t].kind \in Tests
  <2> USE <1>2
  <2> DEFINE j == job[t]
             k == job'[t]
             Good1 == Running' \subseteq before \cup stray' \cup Held(j)'
             Good2 == k.pc \in {"stop", "reuse", "launch", "spawn", "await", "record",
                                "session", "verify"} => k.temp
  <2>0. SUFFICES Good1 /\ Good2
    BY TestGoesOn
  <2>a. /\ Running \subseteq before \cup stray \cup Held(j)
        /\ j.pc \in {"stop", "reuse", "launch", "spawn", "await", "record",
                     "session", "verify"} => j.temp
    BY WorkerAlone DEF TestTracked
  <2>b. job[t].pc \in Attempting => M(t) \in Providers
    BY AtProvider DEF Where, Attempting, OnProvider
  <2>c. Held(j)' = IF k.pc \in {"await", "record", "session", "verify"} \/ (k.pc = "bench" /\ k.temp)
                   THEN {M(t)'}
                   ELSE IF k.pc = "stop" /\ Len(k.stops) = 1 THEN {Head(k.stops)} ELSE {}
    BY DEF Held, M
  <2>d. Held(j) = IF j.pc \in {"await", "record", "session", "verify"} \/ (j.pc = "bench" /\ j.temp)
                  THEN {M(t)}
                  ELSE IF j.pc = "stop" /\ Len(j.stops) = 1 THEN {Head(j.stops)} ELSE {}
    BY DEF Held, M
  <2> HIDE DEF j, k
  <2>1. CASE StopOwned(t) \/ StopTimesOut(t) \/ StopNotOwned(t)
    <3> DEFINE p == Head(job[t].stops)
    <3>1. PICK ok \in BOOLEAN : Stopped(t, ok)
      BY <2>1 DEF StopOwned, StopTimesOut, StopNotOwned
    <3>2. p \in Providers /\ job[t].pc = "stop"
      BY <2>1, <3>1, StoppedQuiet DEF StopOwned, StopTimesOut, StopNotOwned
    <3>3. Running \subseteq before \cup stray \cup {p}
      BY <2>a, <2>d, <3>2 DEF j
    <3>4. Running' \subseteq before \cup stray'
      <4>1. CASE StopOwned(t)
        BY <1>0, <3>2, <3>3, <4>1 DEF StopOwned, Running, World
      <4>2. CASE StopTimesOut(t)
        BY <3>3, <4>2 DEF StopTimesOut, Running
      <4>3. CASE StopNotOwned(t)
        <5>1. p \notin Running \ stray
          BY <4>3, StoppingOwned DEF StopNotOwned
        <5>2. QED
          BY <3>3, <4>3, <5>1, ProcessesKept
      <4>4. QED
        BY <2>1, <4>1, <4>2, <4>3
    <3>5. k.temp
      BY <2>a, <3>1, <3>2, StoppedJob DEF j, k, SameTask
    <3>6. QED
      BY <3>4, <3>5
  <2>2. CASE NotReady(t) \/ Failed(t)
    <3>1. k.pc \in {"try", "end"}
      BY <2>2, FailJob DEF k, NotReady, Failed
    <3>2. Held(j) = {}
      BY <2>2, <2>d DEF j, NotReady, Failed
    <3>3. QED
      BY <2>2, <2>a, <3>1, <3>2, ProcessesKept
  <2>3. CASE TryTest(t)
    <3>1. k.pc = "bench" \/ k.pc = "try"
      BY <2>3, GotoJob DEF k, TryTest, Base, JobShape, Shaped, Jobs
    <3>2. Held(j) = {}
      BY <2>3, <2>d DEF j, TryTest
    <3>3. QED
      BY <2>3, <2>a, <3>1, <3>2, ProcessesKept
  <2>4. CASE TryProvider(t)
    <3>1. Held(j) = {} /\ job[t].temp
      BY <2>4, <2>d DEF j, TryProvider, Tests
    <3>2. k.pc \in {"try", "end"} \/ k.temp
      BY <2>4, <3>1, GotoJob, StoppingJob, FailJob DEF TryProvider, SameTask, k
    <3>3. QED
      BY <2>4, <2>a, <3>1, <3>2, ProcessesKept
  <2>5. CASE TryPlain(t) \/ Sites(t) \/ Apply(t)
    <3>1. M(t) \in Providers /\ {"CUSTOM", "DIRECT"} \cap Providers = {}
      BY <2>5, <2>b, LinuxHubAssumption
         DEF TryPlain, Sites, Apply, Attempting, OnProvider, Providers, Warps
    <3>2. Apply(t)
      BY <2>5, <3>1 DEF TryPlain, Sites, Base, Flow, Flows
    <3>3. k.pc = "end" /\ Held(j) = {}
      BY <3>2, <2>d, GotoJob, RefuseJob DEF k, j, Apply
    <3>4. QED
      BY <2>a, <3>2, <3>3, ProcessesKept
  <2>6. CASE Reuse(t)
    <3>1. Held(j) = {} /\ job[t].temp
      BY <2>6, <2>a, <2>d DEF j, Reuse
    <3>2. k.pc \in {"try", "end"} \/ k.temp
      BY <2>6, <3>1, GotoJob, StoppingJob, FailJob DEF Reuse, SameTask, k
    <3>3. QED
      BY <2>6, <2>a, <3>1, <3>2, ProcessesKept
  <2>7. CASE LaunchTor(t)
    <3>1. Held(j) = {} /\ job[t].temp
      BY <2>7, <2>a, <2>d DEF j, LaunchTor
    <3>2. k.pc \in {"try", "end"} \/ k.temp
      BY <2>7, <3>1, GotoJob, FailJob DEF LaunchTor, SameTask, k
    <3>3. Running' \subseteq before \cup stray'
      BY <1>0, <2>7, <2>a, <3>1 DEF LaunchTor, Running, World
    <3>4. QED
      BY <3>2, <3>3
  <2>8. CASE Spawn(t)
    <3>1. Held(j) = {} /\ job[t].temp
      BY <2>8, <2>a, <2>d DEF j, Spawn
    <3>2. k.temp /\ Held(j)' = {M(t)}
      BY <2>8, <2>c, <3>1, GotoJob DEF Spawn, SameTask, k
    <3>3. Running' \subseteq Running \cup {M(t)}
      BY <1>0, <2>8 DEF Spawn, Running, World
    <3>4. QED
      BY <2>8, <2>a, <3>1, <3>2, <3>3 DEF Spawn
  <2>9. CASE Await(t)
    <3>1. k.temp /\ Held(j)' = Held(j)
      BY <2>9, <2>a, <2>c, <2>d, GotoJob DEF Await, SameTask, j, k
    <3>2. QED
      BY <2>9, <2>a, <3>1, ProcessesKept
  <2>10. CASE AwaitGivesUp(t)
    <3>1. Held(j) = {M(t)} /\ job[t].temp /\ M(t) \in Providers
      BY <2>10, <2>a, <2>b, <2>d DEF j, AwaitGivesUp, Attempting, OnProvider
    <3>2. k.pc \in {"try", "end"} \/ k.temp
      BY <2>10, <3>1, GotoJob, FailJob DEF AwaitGivesUp, SameTask, k
    <3>3. Running' \subseteq before \cup stray'
      BY <1>0, <2>10, <2>a, <3>1 DEF AwaitGivesUp, Running, World
    <3>4. QED
      BY <3>2, <3>3
  <2>11. CASE Record(t)
    <3>1. Held(j) = {M(t)} /\ job[t].temp /\ UNCHANGED <<proc, stray>> /\ Running' = Running
      BY <2>11, <2>a, <2>d DEF j, Record, Running
    <3>2. CASE proc[M(t)] = "none" /\ Fail(t)
      <4>1. M(t) \notin Running /\ k.pc \in {"try", "end"}
        BY <3>2, FailJob DEF Running, k
      <4>2. QED
        BY <2>a, <3>1, <4>1
    <3>3. CASE Goto(t, IF M(t) = "TOR" THEN "verify" ELSE "session")
      <4>1. k.temp /\ Held(j)' = {M(t)}
        BY <2>c, <3>1, <3>3, GotoJob DEF SameTask, k
      <4>2. QED
        BY <2>a, <3>1, <4>1
    <3>4. QED
      BY <2>11, <3>2, <3>3 DEF Record
  <2>12. CASE SetSession(t) \/ VerifyPasses(t)
    <3>1. Held(j) = {M(t)} /\ job[t].temp
      BY <2>12, <2>a, <2>d DEF j, SetSession, VerifyPasses
    <3>2. PICK x \in {"bench", "session", "verify"} : Goto(t, x)
      BY <2>12 DEF SetSession, VerifyPasses, Good, Tests
    <3>3. k.temp /\ Held(j)' = {M(t)}
      BY <2>c, <3>1, <3>2, GotoJob DEF SameTask, k
    <3>4. QED
      BY <2>12, <2>a, <3>1, <3>3, ProcessesKept
  <2>13. CASE StartRaises(t)
    <3>1. Held(j) = {M(t)}
      BY <2>13, <2>d DEF j, StartRaises
    <3>2. k.pc \in {"try", "end"}
      BY <2>13, RaiseJob DEF StartRaises, k
    <3>3. QED
      BY <2>13, <2>a, <3>1, <3>2 DEF StartRaises, Running
  <2>14. CASE VerifyFails(t)
    <3>1. Held(j) = {M(t)} /\ job[t].temp /\ M(t) \in Providers
      BY <2>14, <2>a, <2>b, <2>d DEF j, VerifyFails, Attempting, OnProvider
    <3>2. CASE M(t) = "TOR"
      <4>1. k.pc \in {"try", "end"} \/ k.temp
        BY <2>14, <3>1, <3>2, GotoJob, FailJob DEF VerifyFails, SameTask, k
      <4>2. Running' \subseteq before \cup stray'
        BY <1>0, <2>14, <2>a, <3>1, <3>2 DEF VerifyFails, Running, World
      <4>3. QED
        BY <4>1, <4>2
    <3>3. CASE M(t) # "TOR"
      <4>1. Stopping(t, <<M(t)>>, "failed") /\ UNCHANGED <<proc, stray>>
        BY <2>14, <3>3 DEF VerifyFails
      <4>2. k.temp /\ Held(j)' = {M(t)}
        <5>1. k.pc = "stop" /\ k.stops = <<M(t)>> /\ k.temp
          BY <3>1, <4>1, StoppingJob, Single DEF SameTask, k
        <5>2. QED
          BY <2>c, <5>1
      <4>3. QED
        BY <2>a, <3>1, <4>1, <4>2 DEF Running
    <3>4. QED
      BY <3>2, <3>3
  <2>15. CASE Measure(t)
    <3>1. PICK next \in {"end", "failed"} : Stopping(t, IF job[t].temp THEN <<M(t)>> ELSE <<>>, next)
      BY <2>15 DEF Measure
    <3>2. CASE job[t].temp
      <4>1. k.pc = "stop" /\ k.stops = <<M(t)>> /\ k.temp
        <5>1. M(t) \in Providers
          BY <2>15, <2>b DEF Measure, Attempting, OnProvider
        <5>2. QED
          BY <3>1, <3>2, <5>1, StoppingJob, Single DEF SameTask, k
      <4>2. Held(j)' = {M(t)} /\ Held(j) = {M(t)}
        BY <2>15, <2>c, <2>d, <3>2, <4>1 DEF Measure, j
      <4>3. QED
        BY <2>15, <2>a, <4>1, <4>2, ProcessesKept
    <3>3. CASE ~job[t].temp
      <4>1. k.pc \in {"end", "failed"} /\ Held(j) = {}
        BY <2>15, <2>d, <3>1, <3>3, StoppingJob DEF Measure, j, k
      <4>2. QED
        BY <2>15, <2>a, <4>1, ProcessesKept
    <3>4. QED
      BY <3>2, <3>3
  <2>16. CASE StopShare(t) \/ DisableRoute(t) \/ ClearSession(t)
    BY <2>16 DEF StopShare, DisableRoute, ClearSession, Base, Flow, Flows, Tests
  <2>17. CASE StopRaises(t)
    <3> DEFINE p == Head(job[t].stops)
    <3>1. p \in Providers /\ k.pc \in {"try", "end"}
      BY <2>17, StopsProvider, RaiseJob DEF StopRaises, k
    <3>2. Running \subseteq before \cup stray \cup {p}
      BY <2>17, <2>a, <2>d DEF j, StopRaises
    <3>3. Running' \subseteq before \cup stray'
      BY <1>0, <2>17, <3>1, <3>2 DEF StopRaises, Running, World
    <3>4. QED
      BY <3>1, <3>3
  <2>18. CASE SessionRaises(t)
    <3>1. k.pc \in {"try", "end"}
      BY <2>18, RaiseJob DEF SessionRaises, k
    <3>2. Running \subseteq before \cup stray
      <4>1. CASE job[t].pc = "stop"
        <5>1. Held(j) \subseteq {Head(job[t].stops)} /\ Head(job[t].stops) \notin Running \ stray
          BY <2>18, <2>d, <4>1, StoppingOwned DEF SessionRaises, j
        <5>2. QED
          BY <2>a, <5>1
      <4>2. CASE job[t].pc # "stop"
        BY <2>18, <2>a, <2>d, <4>2 DEF SessionRaises, j
      <4>3. QED
        BY <4>1, <4>2
    <3>3. QED
      BY <2>18, <3>1, <3>2, ProcessesKept
  <2>19. CASE Outlives(t)
    <3>1. Held(j) \subseteq {M(t)} /\ (k.pc \in {"try", "end"} \/ k.temp)
      BY <2>19, <2>a, <2>d, FailJob, GotoJob DEF j, k, Outlives, SameTask
    <3>2. Running' \subseteq before \cup stray'
      BY <2>19, <2>a, <3>1 DEF Outlives, Running
    <3>3. QED
      BY <3>1, <3>2
  <2>20. CASE SpawnBeside(t)
    <3>1. Held(j) = {} /\ job[t].temp /\ M(t) \in Providers
      BY <2>20, <2>a, <2>b, <2>d DEF j, SpawnBeside, Attempting, OnProvider
    <3>2. CASE /\ Fail(t) \/ Goto(t, "launch")
               /\ UNCHANGED <<procVars, aliens, stray>>
      <4>1. k.pc \in {"try", "end"} \/ k.temp
        BY <3>1, <3>2, FailJob, GotoJob DEF k, SameTask
      <4>2. QED
        BY <2>a, <3>1, <3>2, <4>1 DEF Running
    <3>3. CASE /\ proc' = [proc EXCEPT ![M(t)] = IF PortOpen(M(t)) THEN "starting" ELSE "up"]
               /\ stray' = stray \ {M(t)}
               /\ Goto(t, IF M(t) = "TOR" THEN "verify" ELSE "session")
      <4>1. k.temp /\ Held(j)' = {M(t)}
        BY <2>c, <3>1, <3>3, GotoJob DEF SameTask, k
      <4>2. Running' \subseteq Running \cup {M(t)}
        BY <1>0, <3>3 DEF Running, World
      <4>3. QED
        BY <2>a, <3>1, <3>3, <4>1, <4>2
    <3>4. QED
      BY <2>20, <3>2, <3>3 DEF SpawnBeside
  <2>21. QED
    BY <2>1, <2>2, <2>3, <2>4, <2>5, <2>6, <2>7, <2>8, <2>9, <2>10, <2>11, <2>12, <2>13,
       <2>14, <2>15, <2>16, <2>17, <2>18, <2>19, <2>20 DEF Worker
<1>3. QED
  BY <1>1, <1>2 DEF Threads

LEMMA WorkerInductive ==
  ASSUME Base, Alone, NEW t \in Threads, Worker(t)
  PROVE  Alone'
<1> USE DEF Alone
<1>1. OneJob'
  BY WorkerAlone DEF OneJob, Threads
<1>2. ExitLeavesNothing'
  BY WorkerAlone DEF ExitLeavesNothing
<1>3. QED
  BY <1>1, <1>2, WorkerWithdrawn, WorkerExitTracked, WorkerUnowned, WorkerTorUp,
     WorkerSession, WorkerSessionNext, WorkerTestTracked

\* The action begins alone, as one of the jobs of the window.
LEMMA BeginAlone ==
  ASSUME ~MayOverlap, Base, Alone, NEW j, Begun(j), Begin(j), j.pc \in {"share", "route",
         "apply", "try", "stop"},
         j.pc = "stop" => j.kind = "single", j.pc = "apply" => j.kind = "selective",
         j.kind = "stop" => j.pc = "share", j.kind \in Tests => j.pc = "try",
         j.pc = "try" => j.kind \in Tests \cup {"single"},
         j.kind \in Tests => before' = Running
  PROVE  Alone'
<1> USE DEF At, procVars, routeVars
<1>1. /\ job'["action"] = j /\ job'["exit"] = job["exit"] /\ job["exit"].pc = "idle"
      /\ job["action"].pc = "idle" /\ app = "up"
      /\ UNCHANGED <<proc, rec, aliens, session, route, drift, share, app, faults, stray, gone>>
  BY DEF Begin, Base, JobShape, Threads
<1>2. OneJob' /\ Withdrawn' /\ ExitTracked'
  <2>1. j.pc = "share" => j.kind = "stop"
    BY DEF Begun, Flows
  <2>2. QED
    BY <1>1, <2>1 DEF OneJob, Withdrawn, ExitTracked, Tests, Threads
<1>3. TestTracked'
  <2>1. CASE j.kind \in Tests
    <3>1. Running' = Running /\ before' = Running /\ j.pc = "try"
      BY <1>1, <2>1 DEF Running
    <3>2. QED
      BY <1>1, <3>1 DEF TestTracked
  <2>2. CASE j.kind \notin Tests
    BY <1>1, <2>2 DEF TestTracked
  <2>3. QED
    BY <2>1, <2>2
<1>4. SessionTrue' /\ SessionNext' /\ TorUp'
  BY <1>1 DEF Alone, SessionTrue, SessionNext, TorUp, Threads
<1>5. NothingUnowned' /\ ExitLeavesNothing'
  BY <1>1 DEF Alone, NothingUnowned, ExitLeavesNothing, Running, Threads
<1>6. QED
  BY <1>2, <1>3, <1>4, <1>5 DEF Alone

\* When every worker is idle, only the session and the records are left to show.
LEMMA AllIdleAlone ==
  ASSUME Base, Alone, job' = [t \in Threads |-> Idle], UNCHANGED rec,
         Running' \subseteq Running, Cut, SessionTrue', NothingUnowned', ExitLeavesNothing'
  PROVE  Alone'
<1>1. \A t \in Threads : job'[t] = Idle
  OBVIOUS
<1>2. \A t \in Threads : job'[t].pc = "idle" /\ job'[t].kind = "stop"
  BY <1>1, IdleFits
<1>3. OneJob' /\ Withdrawn' /\ ExitTracked' /\ TestTracked' /\ SessionNext'
  BY <1>2 DEF OneJob, Withdrawn, ExitTracked, TestTracked, SessionNext, Threads
<1>4. TorUp'
  BY <1>2 DEF Base, World, Alone, TorUp, Cut, Providers
<1>5. QED
  BY <1>3, <1>4 DEF Alone

LEMMA CutRuns == ASSUME Cut PROVE Running' \subseteq Running
  BY DEF Cut, Running

LEMMA WindowInductive ==
  ASSUME ~MayOverlap, Base, Alone, Window
  PROVE  Alone'
<1> USE DEF At, procVars, routeVars, history
<1>1. CASE Connect
  <2>1. PICK plan \in {<<m>> : m \in Modes} \cup {AutoPlan} :
             Begin(Job("connect", plan, "route"))
    BY <1>1 DEF Connect
  <2>2. /\ Job("connect", plan, "route").kind = "connect"
        /\ Job("connect", plan, "route").pc = "route"
    BY DEF Job
  <2>3. QED
    BY <2>1, <2>2, ConnectBegun, BeginAlone DEF Tests
<1>2. CASE SelectiveConnect
  <2>1. PICK m \in Providers, pc \in {"apply", "route"} : Begin(Job("selective", <<m>>, pc))
    BY <1>2 DEF SelectiveConnect
  <2>2. Job("selective", <<m>>, pc).kind = "selective" /\ Job("selective", <<m>>, pc).pc = pc
    BY DEF Job
  <2>3. QED
    BY <2>1, <2>2, SelectiveBegun, BeginAlone DEF Tests
<1>3. CASE Test
  <2>1. PICK kind \in Tests, plan \in {<<m>> : m \in Providers} \cup {AutoTest, StopAll} :
             Begin(Job(kind, plan, "try"))
    BY <1>3 DEF Test, Tests
  <2>2. Job(kind, plan, "try").kind = kind /\ Job(kind, plan, "try").pc = "try"
    BY DEF Job
  <2>3. before' = Running /\ kind # "stop"
    BY <1>3 DEF Test, Tests
  <2>4. QED
    BY <2>1, <2>2, <2>3, TestBegun, BeginAlone
<1>4. CASE StopPressed
  <2>1. Job("stop", <<>>, "share").kind = "stop" /\ Job("stop", <<>>, "share").pc = "share"
    BY DEF Job
  <2>2. QED
    BY <1>4, <2>1, StopBegun, BeginAlone DEF StopPressed, Tests
<1>5. CASE StopOne
  <2>1. PICK p \in Providers : Begin([Job("single", <<>>, "stop") EXCEPT !.stops = <<p>>])
    BY <1>5 DEF StopOne, Providers
  <2>2. QED
    BY <2>1, SingleBegun, BeginAlone DEF Tests
<1>6. CASE StartTor
  <2>1. Job("single", <<"TOR">>, "try").kind = "single" /\ Job("single", <<"TOR">>, "try").pc = "try"
        /\ "TOR" \in Providers
    BY DEF Job, Providers
  <2>2. QED
    BY <1>6, <2>1, TestBegun, BeginAlone DEF StartTor, Tests
<1>7. CASE ActionEnds
  <2>1. /\ job'["action"] = Idle /\ job'["exit"] = job["exit"]
        /\ job["action"].pc = "end" /\ job["exit"].pc = "idle"
        /\ UNCHANGED <<proc, rec, session, route, share, app, stray, gone>>
    BY <1>7 DEF ActionEnds, Base, JobShape, Threads, Alone, OneJob
  <2>2. job'["action"].pc = "idle" /\ job'["action"].kind = "stop"
    BY <2>1, IdleFits
  <2>3. OneJob' /\ Withdrawn' /\ ExitTracked' /\ TestTracked' /\ SessionNext'
    BY <2>1, <2>2 DEF OneJob, Withdrawn, ExitTracked, TestTracked, SessionNext, Threads
  <2>4. SessionTrue' /\ TorUp' /\ ExitLeavesNothing'
    BY <2>1, <2>2 DEF Alone, SessionTrue, TorUp, ExitLeavesNothing, Running, Threads
  <2>5. NothingUnowned'
    BY <2>1, <2>2 DEF Alone, NothingUnowned, Running, Threads
  <2>6. QED
    BY <2>3, <2>4, <2>5 DEF Alone
<1>8. CASE RequestExit
  <2> DEFINE k == Job("stop", <<>>, "share")
  <2>1. /\ job'["exit"] = k /\ job'["action"] = job["action"] /\ k.kind = "stop" /\ k.pc = "share"
        /\ job["action"].pc = "idle" /\ job["exit"].pc = "idle" /\ app = "up"
        /\ UNCHANGED <<proc, rec, session, route, share, app, stray, gone, before>>
    BY <1>8 DEF RequestExit, Base, JobShape, Threads, Job
  <2> HIDE DEF k
  <2>2. OneJob' /\ Withdrawn' /\ ExitTracked' /\ TestTracked' /\ SessionNext'
    BY <2>1 DEF Alone, OneJob, Withdrawn, ExitTracked, TestTracked, SessionNext, Threads
  <2>3. SessionTrue' /\ TorUp' /\ ExitLeavesNothing'
    BY <2>1 DEF Alone, SessionTrue, TorUp, ExitLeavesNothing, Running, Threads
  <2>4. NothingUnowned'
    BY <2>1 DEF Alone, NothingUnowned, Running, Threads
  <2>5. QED
    BY <2>2, <2>3, <2>4 DEF Alone
<1>9. CASE FinishExit
  <2>0. /\ job["exit"].pc = "end" /\ job["action"].pc = "idle" /\ job["exit"].kind = "stop"
        /\ UNCHANGED <<rec, session, route, share, stray, gone>>
    BY <1>9 DEF FinishExit, Alone, OneJob, Base, Flow
  <2>1. CASE /\ job["exit"].ok /\ job' = [t \in Threads |-> Idle]
             /\ Cut /\ app' = "quit" /\ before' = {}
    <3>1. Running' \subseteq stray /\ route = "off" /\ ~share
      BY <2>0, <2>1, CutRuns DEF Alone, ExitTracked, Withdrawn, Threads
    <3>2. SessionTrue' /\ NothingUnowned' /\ ExitLeavesNothing'
      BY <2>0, <3>1 DEF Alone, SessionTrue, NothingUnowned, ExitLeavesNothing
    <3>3. QED
      BY <2>0, <2>1, <3>2, CutRuns, AllIdleAlone
  <2>2. CASE job' = [job EXCEPT !["exit"] = Idle] /\ UNCHANGED <<proc, app, before>>
    <3>1. job'["exit"] = Idle /\ job'["action"] = job["action"]
      BY <2>2 DEF Base, JobShape, Threads
    <3>2. job'["exit"].pc = "idle" /\ job'["exit"].kind = "stop"
      BY <3>1, IdleFits
    <3>3. OneJob' /\ Withdrawn' /\ ExitTracked' /\ TestTracked' /\ SessionNext'
      BY <2>0, <3>1, <3>2 DEF OneJob, Withdrawn, ExitTracked, TestTracked, SessionNext, Threads
    <3>4. SessionTrue' /\ TorUp' /\ ExitLeavesNothing'
      BY <2>0, <2>2, <3>1, <3>2
         DEF Alone, SessionTrue, TorUp, ExitLeavesNothing, Running, Threads
    <3>5. NothingUnowned'
      BY <2>0, <2>2, <3>1, <3>2 DEF Alone, NothingUnowned, Running, Threads
    <3>6. QED
      BY <3>3, <3>4, <3>5 DEF Alone
  <2>3. QED
    BY <1>9, <2>1, <2>2 DEF FinishExit
<1>10. CASE ShareStart \/ Undo
  <2>1. /\ UNCHANGED <<proc, rec, session, app, job, stray, gone, before>>
        /\ \A t \in Threads : job[t].pc = "idle"
        /\ app = "up"
    BY <1>10 DEF ShareStart, Undo, Short, Threads
  <2>2. OneJob' /\ Withdrawn' /\ ExitTracked' /\ TestTracked' /\ SessionNext'
    BY <2>1 DEF OneJob, Withdrawn, ExitTracked, TestTracked, SessionNext, Threads
  <2>3. SessionTrue' /\ TorUp' /\ ExitLeavesNothing'
    BY <2>1 DEF Alone, SessionTrue, TorUp, ExitLeavesNothing, Threads
  <2>4. NothingUnowned'
    BY <2>1 DEF Alone, NothingUnowned, Running, Threads
  <2>5. QED
    BY <2>2, <2>3, <2>4 DEF Alone
<1>11. QED
  BY <1>1, <1>2, <1>3, <1>4, <1>5, <1>6, <1>7, <1>8, <1>9, <1>10 DEF Window

LEMMA AroundInductive ==
  ASSUME ~MayOverlap, Base, Alone, Around
  PROVE  Alone'
<1> USE DEF procVars, routeVars, history
<1>0. World
  BY DEF Base
<1>w. \A t \in Threads : job[t].pc \in {"await", "record"} => M(t) \in Providers
  BY AtProvider DEF Where, Attempting, OnProvider
<1>m. ASSUME UNCHANGED job PROVE \A t \in Threads : M(t)' = M(t)
  BY <1>m DEF M
<1>1. ASSUME NEW p \in Providers, Binds(p) PROVE Alone'
  <2>1. /\ UNCHANGED <<job, rec, session, route, share, app, stray, gone, before>>
        /\ Running' = Running
        /\ \A q \in Providers : proc[q] = "up" => proc'[q] = "up"
        /\ \A q \in Providers : proc'[q] = "starting" => proc[q] = "starting"
        /\ \A q \in Providers : proc'[q] = "none" => proc[q] = "none"
    BY <1>0, <1>1 DEF Binds, Running, World
  <2>2. OneJob' /\ Withdrawn' /\ ExitTracked' /\ TestTracked' /\ SessionNext'
    BY <2>1, <1>m, <1>w
       DEF Alone, OneJob, Withdrawn, ExitTracked, TestTracked, SessionNext, Held
  <2>3. SessionTrue' /\ ExitLeavesNothing' /\ NothingUnowned'
    BY <2>1, <1>m DEF Alone, SessionTrue, ExitLeavesNothing, NothingUnowned
  <2>4. TorUp'
    BY <2>1, <1>m DEF Alone, TorUp, Providers
  <2>5. QED
    BY <2>2, <2>3, <2>4 DEF Alone
<1>2. ASSUME NEW p \in Providers, Exits(p) PROVE Alone'
  <2>1. /\ UNCHANGED <<job, session, route, share, app, before>>
        /\ Running' = Running \ {p} /\ stray' = stray \ {p} /\ gone' = gone \cup {p}
        /\ \A q \in Providers \ {p} : rec'[q] = rec[q] /\ proc'[q] = proc[q]
        /\ rec'[p] = FALSE /\ proc'[p] = "none"
    BY <1>0, <1>2 DEF Exits, Running, World
  <2>2. OneJob' /\ Withdrawn' /\ ExitTracked'
    BY <2>1, <1>m DEF Alone, OneJob, Withdrawn, ExitTracked
  <2>3. TestTracked'
    BY <2>1, <1>m DEF Alone, TestTracked, Held
  <2>4. SessionNext'
    <3>1. \A t \in Threads : job[t].pc \in {"reuse", "await", "record", "session", "verify"}
                                => M(t) \in Providers
      BY AtProvider DEF Where, Attempting, OnProvider
    <3>2. QED
      BY <2>1, <1>m, <3>1 DEF Alone, SessionNext
  <2>5. SessionTrue' /\ ExitLeavesNothing'
    BY <2>1 DEF Alone, SessionTrue, ExitLeavesNothing
  <2>6. NothingUnowned'
    <3>1. \A q \in Running' \ stray' : q \in Running \ stray /\ q \in Providers \ {p}
      BY <2>1 DEF Running
    <3>2. QED
      BY <2>1, <1>m, <3>1 DEF Alone, NothingUnowned
  <2>7. TorUp'
    BY <2>1, <1>m DEF Alone, TorUp, Providers
  <2>8. QED
    BY <2>2, <2>3, <2>4, <2>5, <2>6, <2>7 DEF Alone
<1>3. ASSUME UNCHANGED <<proc, rec, session, job, stray, gone, before>>,
             route' # "off" => route # "off", share' => share,
             app' = app \/ app' = "up"
      PROVE  Alone'
  <2>1. Running' = Running
    BY <1>3 DEF Running
  <2>2. OneJob' /\ Withdrawn' /\ ExitTracked' /\ TestTracked' /\ SessionNext'
    BY <2>1, <1>3, <1>m DEF Alone, OneJob, Withdrawn, ExitTracked, TestTracked, SessionNext, Held
  <2>3. SessionTrue' /\ ExitLeavesNothing' /\ NothingUnowned' /\ TorUp'
    BY <2>1, <1>3, <1>m DEF Alone, SessionTrue, ExitLeavesNothing, NothingUnowned, TorUp
  <2>4. QED
    BY <2>2, <2>3 DEF Alone
<1>4. ASSUME NEW p \in Providers, StrangerComes(p) \/ StrangerGoes(p) PROVE Alone'
  BY <1>3, <1>4 DEF StrangerComes, StrangerGoes
<1>5. CASE ShareEnds \/ SomebodyWrites \/ HubStarts
  BY <1>3, <1>5 DEF ShareEnds, SomebodyWrites, HubStarts
<1>6. CASE HubKilled
  <2>1. /\ job' = [t \in Threads |-> Idle] /\ Cut /\ UNCHANGED <<rec, session>>
        /\ gone' = Providers /\ app' = "killed"
        /\ stray' = stray \cup {p \in Providers : proc[p] # "none" /\ ~rec[p]}
    BY <1>6 DEF HubKilled
  <2>2. SessionTrue' /\ NothingUnowned' /\ ExitLeavesNothing'
    BY <2>1, CutRuns DEF SessionTrue, NothingUnowned, ExitLeavesNothing, Running
  <2>3. QED
    BY <2>1, <2>2, CutRuns, AllIdleAlone
<1>7. QED
  BY <1>1, <1>2, <1>4, <1>5, <1>6 DEF Around

LEMMA HubInit == ~MayOverlap /\ Init => IInv
<1> SUFFICES ASSUME ~MayOverlap, Init PROVE IInv
  OBVIOUS
<1>1. \A t \in Threads : job[t].pc = "idle" /\ job[t].kind = "stop"
  BY IdleFits DEF Init
<1>2. Running = {} /\ session = "none" /\ app = "up" /\ rec["TOR"] = FALSE
  BY DEF Init, Running, Providers
<1>3. "none" \notin Providers
  BY LinuxHubAssumption DEF Providers, Warps
<1>4. Alone
  BY <1>1, <1>2, <1>3
     DEF Alone, OneJob, Withdrawn, ExitTracked, TestTracked, SessionTrue, SessionNext,
         TorUp, NothingUnowned, ExitLeavesNothing, Threads
<1>5. QED
  BY <1>4, BaseInit DEF IInv

LEMMA HubStep == IInv /\ [Next]_vars => IInv'
<1> SUFFICES ASSUME IInv, [Next]_vars PROVE IInv'
  OBVIOUS
<1>1. ~MayOverlap /\ Base /\ Alone /\ Base'
  BY BaseStep DEF IInv
<1>2. CASE UNCHANGED vars
  BY <1>1, <1>2
     DEF vars, IInv, Alone, OneJob, Withdrawn, ExitTracked, TestTracked, Held, SessionTrue,
         SessionNext, TorUp, NothingUnowned, ExitLeavesNothing, Running, M
<1>3. CASE Next
  <2>1. Alone'
    BY <1>1, <1>3, WindowInductive, WorkerInductive, AroundInductive DEF Next
  <2>2. QED
    BY <1>1, <2>1 DEF IInv
<1>4. QED
  BY <1>2, <1>3

-----------------------------------------------------------------------------
(* What the hub promises *)

\* If no action begins during the full exit: between actions the session names
\* a method that a proven process carries, unless that process ended by itself,
\* the write that clears the session failed when it was stopped, or the hub was
\* killed.
THEOREM SessionAlwaysProven == ~MayOverlap /\ Spec => []SessionProven
<1>1. IInv => SessionProven
  BY DEF IInv, Alone, SessionTrue, SessionProven
<1>2. QED
  BY HubInit, HubStep, <1>1, PTL DEF Spec, IInv

\* If no action begins during the full exit: when a test is over, nothing runs
\* that did not run before it, but for processes that would not die and those of
\* a start whose write failed.
THEOREM TestsLeaveNothing == ~MayOverlap /\ Spec => []TestLeavesNothing
<1>1. IInv => TestLeavesNothing
  BY DEF IInv, Alone, TestTracked, Held, Tests, TestLeavesNothing, At
<1>2. QED
  BY HubInit, HubStep, <1>1, PTL DEF Spec, IInv

\* If no action begins during the full exit: the newest process of each provider
\* is on record or about to be put on record by the worker that started it, unless
\* it would not die when told to, the hub was killed, or the write of the record
\* failed.
THEOREM AllOwned == ~MayOverlap /\ Spec => []NothingUnowned
<1>1. IInv => NothingUnowned
  BY DEF IInv, Alone
<1>2. QED
  BY HubInit, HubStep, <1>1, PTL DEF Spec, IInv

\* If no action begins during the full exit: the hub that left has stopped its
\* processes, but for those that would not die, withdrawn the route and ended the
\* share.
THEOREM ExitAlwaysClean == ~MayOverlap /\ Spec => []ExitLeavesNothing
<1>1. IInv => ExitLeavesNothing
  BY DEF IInv, Alone
<1>2. QED
  BY HubInit, HubStep, <1>1, PTL DEF Spec, IInv

\* If no action begins during the full exit: a connection and a stop take the
\* route off a provider before they stop it, a stop the share before CFON.  The
\* tests, Node Stop and Tor Stop do not.
THEOREM RouteGoesFirst == ~MayOverlap /\ Spec => RouteFirst
<1> DEFINE A == \A t \in Threads, p \in Providers :
                  /\ At(t, "stop") /\ Head(job[t].stops) = p /\ job'[t] # job[t]
                  /\ rec[p] /\ ~rec'[p]
                  /\ job[t].kind \in {"connect", "selective", "stop"}
                  => /\ route # p
                     /\ job[t].kind = "stop" => ~share \/ p # "CFON"
<1>1. IInv => A
  <2>1. "off" \notin Providers
    BY LinuxHubAssumption DEF Providers, Warps
  <2>2. QED
    BY <2>1 DEF IInv, Alone, Withdrawn, At
<1>2. IInv /\ [Next]_vars => [A]_vars
  BY <1>1
<1> HIDE DEF A
<1>3. ~MayOverlap /\ Spec => [][A]_vars
  BY HubInit, HubStep, <1>2, PTL DEF Spec, IInv
<1>4. QED
  BY <1>3 DEF RouteFirst, A
=============================================================================
