---------------------------- MODULE SimScheduler ----------------------------
(***************************************************************************)
(* The policies of the discrete-time simulator (autellix/core/schedulers)  *)
(* on its engines and calls (autellix/core/models): fcfs, mlfq, plas,      *)
(* atlas, atlas-dag, round-robin and srpt.                                 *)
(*                                                                         *)
(* Everything is a function of the simulation `s', a record:               *)
(*   conf     the arguments of Simulator                                   *)
(*   time     the clock                                                    *)
(*   arrival  program -> ProgramSpec.arrival_time                          *)
(*   specs    call -> CallSpec                                             *)
(*   calls    call -> CallState                                            *)
(*   engines  engine -> EngineState and its _window_remaining              *)
(*   table    program -> ProcessEntry, with the remaining time srpt keeps  *)
(*   counter  Scheduler._counter                                           *)
(*   next     RoundRobinLoadBalancer._next                                 *)
(* Calls are numbered in the order of their (program, call) names; queues  *)
(* are numbered from 1.  What is only reported is left out.                *)
(***************************************************************************)
EXTENDS Integers, Sequences, SequencesExt, FiniteSetsExt

CONSTANTS
    SliceQuanta,    \* queue_quanta of the policies with several queues
    Boundaries,     \* priority_boundaries without the leading 0 and the final inf
    Patience        \* anti_starvation_beta

ASSUME SchedulerAssumption ==       \* Scheduler.__post_init__
    /\ SliceQuanta \in Seq(Nat \ {0}) /\ Boundaries \in Seq(Nat)
    /\ Len(SliceQuanta) = Len(Boundaries) + 1
    /\ Patience \in Nat \ {0}

None == -1
Unlimited == 1000000        \* the quantum of fcfs
Greater(a, b) == IF a >= b THEN a ELSE b
First(q, n) == SubSeq(q, 1, IF n < Len(q) THEN n ELSE Len(q))
After(q, n) == SubSeq(q, n + 1, Len(q))

Entry(s, k) == s.table[s.specs[k].program]
Waiting(s, e) == FlattenSeq(s.engines[e].queues) \o s.engines[e].prefetched
Workload(s, e) == Len(s.engines[e].running) + Len(Waiting(s, e))

-----------------------------------------------------------------------------
(* The policies. *)

\* make_scheduler gives srpt the queues of mlfq, not the one its class declares.
OneQueue(s) == s.conf.policy \in {"fcfs", "round-robin"}
Preemptive(s) == s.conf.policy # "fcfs"

Quanta(s) ==
    IF s.conf.policy = "fcfs" THEN << Unlimited >>
    ELSE IF OneQueue(s) THEN << 1 >> ELSE SliceQuanta

AssignQueue(s, priority) ==
    IF OneQueue(s) THEN 1
    ELSE 1 + Cardinality({i \in DOMAIN Boundaries : Boundaries[i] <= priority})

PriorityOf(s, k) ==
    CASE s.conf.policy = "mlfq"      -> 0
      [] s.conf.policy = "atlas-dag" -> s.calls[k].critical
      [] s.conf.policy = "srpt"      -> Entry(s, k).remaining
      [] OTHER                       -> Entry(s, k).service

\* update_service_time
ChargedLast(s, k) ==
    IF s.conf.policy \in {"atlas", "atlas-dag"} THEN s.calls[k].priority + s.calls[k].model
    ELSE Entry(s, k).service + s.calls[k].model
Charged(s, k) ==
    CASE s.conf.policy = "mlfq" -> Entry(s, k).service
      [] s.conf.policy \in {"atlas", "atlas-dag"} ->
            Greater(Entry(s, k).service, s.calls[k].priority + s.calls[k].model)
      [] OTHER -> Entry(s, k).service + s.calls[k].model

ShouldPreempt(s, k) == Preemptive(s) /\ s.calls[k].quantum <= 0

ShouldPromote(s, k) ==
    LET c == s.calls[k]
        alone == s.conf.policy = "mlfq"
        waited == c.waitWindow + (IF alone THEN 0 ELSE Entry(s, k).waiting)
        ran    == c.runWindow + (IF alone THEN 0 ELSE Entry(s, k).service)
    IN  /\ c.queue > 1 /\ Preemptive(s)
        /\ waited >= Patience * Greater(1, ran)

-----------------------------------------------------------------------------
(* Queues. *)

\* SRPTScheduler._sort_queue sorts the first queue.
ShorterFirst(s, a, b) ==
    LET ra == Entry(s, a).remaining  rb == Entry(s, b).remaining
    IN  \/ ra < rb
        \/ ra = rb /\ \/ s.calls[a].ready < s.calls[b].ready
                      \/ s.calls[a].ready = s.calls[b].ready /\ a < b
SortQueue(s, e) ==
    IF s.conf.policy # "srpt" THEN s
    ELSE [s EXCEPT !.engines[e].queues[1] =
            SetToSortSeq(Range(@), LAMBDA a, b : ShorterFirst(s, a, b))]

\* A call goes to the tail of queue q with what that queue gives it; srpt does
\* not renumber a call it demotes.
ToTail(s, e, k, q, renumber) ==
    LET n == s.counter + (IF renumber THEN 1 ELSE 0)
    IN  [s EXCEPT !.calls[k].status = "queued", !.calls[k].queue = q,
                  !.calls[k].quantum = Quanta(s)[q],
                  !.calls[k].order = IF renumber THEN n ELSE @,
                  !.counter = n,
                  !.engines[e].queues =
                      [[i \in DOMAIN @ |-> SelectSeq(@[i], LAMBDA x : x # k)]
                          EXCEPT ![q] = Append(@, k)]]

Enqueue(s, k, e) ==
    LET priority == PriorityOf(s, k)
        t == [s EXCEPT !.calls[k].ready = s.time, !.calls[k].engine = e,
                       !.calls[k].priority = priority]
    IN  SortQueue(ToTail(t, e, k, AssignQueue(s, priority), TRUE), e)

Demote(s, e, k) ==
    LET q == IF s.conf.policy = "srpt" THEN 1
             ELSE IF s.calls[k].queue < Len(Quanta(s)) THEN s.calls[k].queue + 1
             ELSE Len(Quanta(s))
    IN  SortQueue(ToTail(s, e, k, q, s.conf.policy # "srpt"), e)

Promote(s, e, k) ==
    LET t == ToTail(s, e, k, 1, TRUE)
    IN  [t EXCEPT !.calls[k].waitWindow = 0, !.calls[k].runWindow = 0]

\* refresh: Algorithm 1, each waiting call once in priority order.
Before(s, a, b) ==
    \/ s.calls[a].queue < s.calls[b].queue
    \/ s.calls[a].queue = s.calls[b].queue /\ s.calls[a].order < s.calls[b].order
InOrder(s, S) == SetToSortSeq(S, LAMBDA a, b : Before(s, a, b))

RefreshCall(s, e, k) ==
    LET d == IF ShouldPreempt(s, k) THEN Demote(s, e, k) ELSE s
    IN  IF ShouldPromote(d, k) THEN Promote(d, e, k) ELSE d
Refresh(s, e) ==
    FoldLeft(LAMBDA t, k : RefreshCall(t, e, k), s, InOrder(s, Range(Waiting(s, e))))

-----------------------------------------------------------------------------
(* Running. *)

SetStatus(s, S, status, time) ==
    [k \in DOMAIN s.calls |->
        IF k \notin S THEN s.calls[k]
        ELSE [s.calls[k] EXCEPT !.status = status,
                                !.start = IF status = "running" /\ @ = None THEN time ELSE @]]

\* start_call, for the prefetched calls that find a free slot.
FillFromPrefetch(s, e, time) ==
    LET g == s.engines[e]
        n == s.conf.batch - Len(g.running)
        up == First(g.prefetched, n)
    IN  [s EXCEPT !.calls = SetStatus(s, Range(up), "running", time),
                  !.engines[e].running = @ \o up,
                  !.engines[e].prefetched = After(@, Len(up))]

\* schedule, when nothing runs: the first calls start, the next are prefetched.
ScheduleSlots(s, e) ==
    LET sorted == SortQueue(s, e)
        order == FlattenSeq(sorted.engines[e].queues)
        start == First(order, s.conf.batch)
        next  == First(After(order, s.conf.batch), s.conf.over)
        taken == Range(start) \cup Range(next)
        t == [sorted EXCEPT !.calls = SetStatus(sorted, Range(start), "running", s.time)]
    IN  [t EXCEPT !.calls = SetStatus(t, Range(next), "prefetched", s.time),
                  !.engines[e].running = start, !.engines[e].prefetched = next,
                  !.engines[e].queues =
                      [i \in DOMAIN @ |-> SelectSeq(@[i], LAMBDA k : k \notin taken)]]

\* complete_call
Complete(s, k) ==
    LET p == s.specs[k].program
    IN  [s EXCEPT !.calls[k].status = "finished", !.calls[k].finish = s.time + 1,
                  !.table[p].enginesDone = @ \cup {s.calls[k].engine},
                  !.table[p].waiting = @ + s.calls[k].wait,
                  !.table[p].service = Charged(s, k)]

\* tick_queued_wait
TickOnlyQueued(s, e) ==
    [s EXCEPT !.calls = [k \in DOMAIN @ |->
        IF k \notin Range(FlattenSeq(s.engines[e].queues)) THEN @[k]
        ELSE [@[k] EXCEPT !.wait = @ + 1, !.waitWindow = @ + 1]]]
TickQueuedWait(s, e) ==
    [s EXCEPT !.calls = [k \in DOMAIN @ |->
        IF k \notin Range(Waiting(s, e)) THEN @[k]
        ELSE [@[k] EXCEPT !.wait = @ + 1, !.waitWindow = @ + 1]]]

=============================================================================
