--------------------------- MODULE SimulatorSteps ---------------------------
(***************************************************************************)
(* The discrete-time simulator (autellix/core/simulator.py) with the load  *)
(* balancers (core/load_balancer.py) and the execution model               *)
(* (core/execution.py), as functions of the simulation.  One step releases *)
(* the calls whose parents are done, makes a scheduling decision on every  *)
(* engine whose window is over, and executes one tick; run() jumps over    *)
(* the time with nothing to do.                                            *)
(***************************************************************************)
EXTENDS SimScheduler

CONSTANT MaxTime    \* Simulator.max_time

ASSUME MaxTimeAssumption == MaxTime \in Nat

NewCall(spec) ==
    [status |-> "pending", ready |-> None, start |-> None, finish |-> None, engine |-> None,
     queue |-> 1, order |-> 0, quantum |-> Unlimited, priority |-> 0, critical |-> 0,
     wait |-> 0, waitWindow |-> 0, executed |-> 0, runWindow |-> 0,
     model |-> spec.model, swap |-> 0, swapLeft |-> 0, overhead |-> 0, overheadLeft |-> 0]

\* A ProcessEntry is made at the first release; until then nothing reads it.
NewEntry(work) ==
    [service |-> 0, waiting |-> 0, pinned |-> None, enginesDone |-> {}, remaining |-> work]

Work(specs, p) ==
    MapThenSumSet(LAMBDA k : specs[k].model, {k \in DOMAIN specs : specs[k].program = p})

NewSimulation(conf, arrival, specs) ==
    LET idle == [queues |-> [i \in 1..Len(Quanta([conf |-> conf])) |-> << >>],
                 running |-> << >>, prefetched |-> << >>, window |-> 0]
    IN  [conf |-> conf, arrival |-> arrival, specs |-> specs,
         time |-> Min({arrival[p] : p \in DOMAIN arrival}),
         calls |-> [k \in DOMAIN specs |-> NewCall(specs[k])],
         engines |-> [e \in 1..conf.engines |-> idle],
         table |-> [p \in DOMAIN arrival |-> NewEntry(Work(specs, p))],
         counter |-> 0, next |-> 0]

Pending(s) == {k \in DOMAIN s.calls : s.calls[k].status = "pending"}
AllFinished(s) == \A k \in DOMAIN s.calls : s.calls[k].status = "finished"
Engines(s) == [i \in 1..s.conf.engines |-> i]
Finishes(s, k) == {s.calls[q].finish : q \in s.specs[k].parents}

-----------------------------------------------------------------------------
(* _release_ready_calls *)

EarliestReady(s, k) ==
    LET spec == s.specs[k]
        base == Greater(s.arrival[spec.program], spec.submit)
    IN  IF spec.parents = {} THEN base + spec.delay
        ELSE IF None \in Finishes(s, k) THEN MaxTime + 1
        ELSE Greater(base, Max(Finishes(s, k)) + spec.delay)

LeastUsed(s) ==
    CHOOSE e \in 1..s.conf.engines : \A f \in 1..s.conf.engines :
        \/ Workload(s, e) < Workload(s, f)
        \/ Workload(s, e) = Workload(s, f) /\ e <= f

\* LoadBalancer.assign: long prompts stay where their program began.
Assign(s, k) ==
    LET pinned == Entry(s, k).pinned
    IN  CASE s.conf.balancer = "round-robin" -> 1 + (s.next % s.conf.engines)
          [] s.conf.balancer = "autellix" /\ s.specs[k].prefill > s.conf.threshold
                /\ pinned # None -> pinned
          [] OTHER -> LeastUsed(s)

Pin(s, k, e) ==
    IF s.conf.balancer = "autellix" /\ s.specs[k].prefill > s.conf.threshold
    THEN [s EXCEPT !.table[s.specs[k].program].pinned = e]
    ELSE [s EXCEPT !.next = IF s.conf.balancer = "round-robin" THEN @ + 1 ELSE @]

\* ExecutionModel.prepare_call; a cache hit is counted in hundredths.
CeilDiv(a, b) == (a + b - 1) \div b
Rounded(a) ==       \* round(a / 100), ties to the even number
    LET q == a \div 100  r == a % 100
    IN  IF r > 50 \/ (r = 50 /\ q % 2 = 1) THEN q + 1 ELSE q

PrefillTime(s, k, e) ==
    LET x == s.conf.execution  prefill == s.specs[k].prefill
        common == IF prefill < x.prompt THEN prefill ELSE x.prompt
        near == e \in Entry(s, k).enginesDone
        bonus == IF near THEN x.locality ELSE x.remote
        hit == IF ~x.caching THEN 0
               ELSE Min({(IF near THEN 98 ELSE 75) * prefill,
                         Greater(100 * common, bonus * prefill)})
    IN  CeilDiv(Rounded(100 * prefill - hit), x.prefillRate)

Prepare(s, k, e) ==
    LET x == s.conf.execution
        decode == Greater(1, CeilDiv(s.specs[k].generated, x.decodeRate))
    IN  IF x.fixed THEN s
        ELSE [s EXCEPT !.calls[k].model = PrefillTime(s, k, e) + decode,
                       !.calls[k].overhead = x.overhead, !.calls[k].overheadLeft = x.overhead]

CriticalService(s, k) ==
    Max({0} \cup {s.calls[q].critical + s.calls[q].model : q \in s.specs[k].parents})

ReleaseCall(s, k) ==
    IF EarliestReady(s, k) > s.time THEN s
    ELSE LET e == Assign(s, k)
             t == Prepare(Pin(s, k, e), k, e)
         IN  Enqueue([t EXCEPT !.calls[k].critical = CriticalService(t, k)], k, e)

ByArrival(s, S) ==
    LET at(k) == s.arrival[s.specs[k].program]
    IN  SetToSortSeq(S, LAMBDA a, b : at(a) < at(b) \/ (at(a) = at(b) /\ a < b))
ReleaseReady(s) == FoldLeft(ReleaseCall, s, ByArrival(s, Pending(s)))

-----------------------------------------------------------------------------
(* _schedule *)

PreemptionPenalty(s, victims) ==
    LET x == s.conf.execution
    IN  IF x.penalty = 0 \/ victims = {} THEN 0
        ELSE IF x.batched THEN Greater(1, CeilDiv(x.penalty, Cardinality(victims)))
        ELSE x.penalty

\* Running and waiting calls are considered together, in their old order.
Gather(s, e) ==
    LET g == s.engines[e]
        all == Range(g.running) \cup Range(Waiting(s, e))
    IN  [s EXCEPT !.calls = SetStatus(s, all, "queued", s.time),
                  !.engines[e].running = << >>, !.engines[e].prefetched = << >>,
                  !.engines[e].queues = [i \in DOMAIN g.queues |->
                      SelectSeq(InOrder(s, all), LAMBDA k : s.calls[k].queue = i)]]

Boundary(s, e) ==
    LET g == s.engines[e]
        t == ScheduleSlots(Refresh(Gather(s, e), e), e)
        selected == Range(t.engines[e].running) \cup Range(t.engines[e].prefetched)
        victims == (Range(g.running) \cup Range(g.prefetched)) \ selected
        penalty == PreemptionPenalty(s, victims)
    IN  [t EXCEPT !.calls = [k \in DOMAIN @ |->
                        IF k \notin victims THEN @[k]
                        ELSE [@[k] EXCEPT !.swap = @ + penalty, !.swapLeft = @ + penalty]],
                  !.engines[e].window = s.conf.interval]

\* A window that is not over is left alone while something runs.
Frozen(s, e) == s.engines[e].window > 0 /\ s.engines[e].running # << >>

ScheduleEngineAlways(s, e) == Boundary(FillFromPrefetch(s, e, s.time), e)
ScheduleEngine(s, e) ==
    LET t == FillFromPrefetch(s, e, s.time) IN IF Frozen(t, e) THEN t ELSE Boundary(t, e)
ScheduleAll(s) == FoldLeft(ScheduleEngine, s, Engines(s))

-----------------------------------------------------------------------------
(* _execute_one_tick *)

SwapsIn(s, k) == s.calls[k].swapLeft > 0
Executes(s, k) == s.calls[k].swapLeft = 0 /\ s.calls[k].overheadLeft = 0

Tick(s, k) ==
    LET p == s.specs[k].program
    IN  IF SwapsIn(s, k) THEN [s EXCEPT !.calls[k].swapLeft = @ - 1]
        ELSE IF ~Executes(s, k) THEN [s EXCEPT !.calls[k].overheadLeft = @ - 1]
        ELSE [s EXCEPT !.calls[k].executed = @ + 1, !.calls[k].runWindow = @ + 1,
                       !.calls[k].quantum = @ - 1,
                       !.table[p].remaining = IF s.conf.policy = "srpt"
                                              THEN Greater(0, @ - 1) ELSE @]

Ends(s, k) == s.calls[k].executed >= s.calls[k].model

ExecuteEngine(s, e) ==
    LET run == s.engines[e].running
        executed == \E k \in Range(run) : Executes(s, k)
        t == FoldLeft(Tick, s, run)
        done == SelectSeq(run, LAMBDA k : Ends(t, k))
        u == FoldLeft(Complete,
                      [t EXCEPT !.engines[e].running = SelectSeq(@, LAMBDA k : ~Ends(t, k))], done)
        w == TickQueuedWait(u, e)
    IN  FillFromPrefetch([w EXCEPT !.engines[e].window =
                              IF executed THEN Greater(0, @ - 1) ELSE @], e, s.time + 1)

NoWork(s) == \A e \in 1..s.conf.engines : Workload(s, e) = 0

NextTimeLatest(s, time, advance) ==
    LET ready == {EarliestReady(s, k) : k \in Pending(s)}
    IN  IF advance /\ NoWork(s) /\ \E t \in ready : t > time
        THEN Greater(time, Max(ready)) ELSE time
\* _idle_with_future_work and _next_possible_release_time
NextTime(s, time, advance) ==
    LET ready == {EarliestReady(s, k) : k \in Pending(s)}
    IN  IF advance /\ NoWork(s) /\ \E t \in ready : t > time
        THEN Greater(time, Min(ready)) ELSE time

ExecuteTick(s, advance) ==
    LET t == FoldLeft(ExecuteEngine, s, Engines(s))
    IN  [t EXCEPT !.time = NextTime(t, s.time + 1, advance)]

\* _step_once
StepOnce(s, advance) == ExecuteTick(ScheduleAll(ReleaseReady(s)), advance)

-----------------------------------------------------------------------------
(* The metrics of _result. *)

ProgramCalls(s, p) == {k \in DOMAIN s.specs : s.specs[k].program = p}

IsSequential(s, p) ==
    /\ Cardinality({k \in ProgramCalls(s, p) : s.specs[k].parents = {}}) = 1
    /\ \A k \in ProgramCalls(s, p) :
        /\ Cardinality(s.specs[k].parents) <= 1
        /\ Cardinality({c \in ProgramCalls(s, p) : k \in s.specs[c].parents}) <= 1

ResponseTime(s, p) == Max({0} \cup {s.calls[k].finish : k \in ProgramCalls(s, p)}) - s.arrival[p]

LocalResponseOfArrival(s, k) ==
    IF s.calls[k].finish = None THEN 0
    ELSE s.calls[k].finish - s.arrival[s.specs[k].program]
LocalResponse(s, k) ==
    IF s.calls[k].finish = None THEN 0 ELSE s.calls[k].finish - s.calls[k].ready

\* _critical_path_response_time; parents come before their children.
CriticalResponse(s, p) ==
    LET path[k \in ProgramCalls(s, p)] ==
            LocalResponse(s, k) + Max({0} \cup {path[q] : q \in s.specs[k].parents})
    IN  IF IsSequential(s, p) THEN ResponseTime(s, p)
        ELSE Max({path[k] : k \in ProgramCalls(s, p)})

=============================================================================
