-------------------------- MODULE RuntimeScheduler --------------------------
(***************************************************************************)
(* The online discretised priority policy of one engine process            *)
(* (autellix/runtime/policy.py, class RuntimeScheduler).  A call moves     *)
(* down one queue when its quantum is used up, and back to the first queue *)
(* when its program and it have waited Beta times what they have run.      *)
(*                                                                         *)
(* The methods are functions of `calls', the process's rid -> RuntimeCall  *)
(* dictionary; queues are numbered from 0 as in the code.                  *)
(***************************************************************************)
EXTENDS ProgramTable, Sequences, SequencesExt

CONSTANTS
    Quanta,     \* PolicyConfig.quanta, one per queue
    Inner,      \* PolicyConfig.boundaries without the leading 0 and the final inf
    Beta        \* PolicyConfig.beta

ASSUME ConfigAssumption ==      \* PolicyConfig.__post_init__
    /\ Quanta \in Seq(Nat \ {0}) /\ Inner \in Seq(Nat \ {0})
    /\ Len(Quanta) = Len(Inner) + 1
    /\ \A i, j \in 1..Len(Inner) : i < j => Inner[i] < Inner[j]
    /\ Beta \in Nat \ {0}

LastQueue == Len(Quanta) - 1
Quantum(q) == Quanta[q + 1]

\* PolicyConfig.queue: the first queue whose upper boundary exceeds the service.
QueueOf(service) == Cardinality({i \in 1..Len(Inner) : Inner[i] <= service})

NewCall(p, inherited, order, now) ==
    [pid |-> p, inherited |-> inherited, queue |-> QueueOf(inherited), order |-> order,
     quantum |-> Quantum(QueueOf(inherited)), last_update |-> now,
     executed |-> 0, waited |-> 0, run_window |-> 0, wait_window |-> 0,
     scheduled |-> FALSE]

\* _wait_until charges the time since the last update as waiting, unless the
\* call is in the batch that is executing.
WaitUntil(c, now) ==
    LET delta == IF c.scheduled THEN 0 ELSE now - c.last_update
    IN  [c EXCEPT !.waited = @ + delta, !.wait_window = @ + delta, !.last_update = now]

-----------------------------------------------------------------------------
(* refresh: demotion, then promotion, of every call. *)

KeyLess(c, d) == c.queue < d.queue \/ (c.queue = d.queue /\ c.order < d.order)

Expired(c) == Policy # "fcfs" /\ c.quantum <= 0
Lower(q) == IF q < LastQueue THEN q + 1 ELSE LastQueue

Demoted(c) ==
    IF Expired(c)
    THEN [c EXCEPT !.queue = Lower(@), !.quantum = Quantum(Lower(c.queue))]
    ELSE c

\* totals: what table.snapshot() returned; MLFQ looks at the call alone.
Starved(c, totals) ==
    LET program == Policy # "mlfq" /\ c.pid \in DOMAIN totals
        ran     == c.run_window + (IF program THEN totals[c.pid].service ELSE 0)
        waited  == c.wait_window + (IF program THEN totals[c.pid].wait ELSE 0)
    IN  /\ Policy # "fcfs"
        /\ c.queue # 0
        /\ IF ran = 0 THEN waited > 0       \* the division is by at least 1e-9
           ELSE waited >= Beta * ran

PromotedAfresh(c) ==
    [c EXCEPT !.queue = 0, !.quantum = Quantum(0), !.wait_window = 0,
              !.run_window = 0, !.executed = 0]
Promoted(c) ==
    [c EXCEPT !.queue = 0, !.quantum = Quantum(0), !.wait_window = 0, !.run_window = 0]

\* One pass of the loop body, and the times it draws a new order number.
Refreshed(c, totals, now) ==
    LET d == Demoted(WaitUntil(c, now))
    IN  IF Starved(d, totals) THEN Promoted(d) ELSE d
Draws(c, totals, now) ==
    LET d == Demoted(WaitUntil(c, now))
    IN  (IF Expired(c) THEN 1 ELSE 0) + (IF Starved(d, totals) THEN 1 ELSE 0)

\* Simultaneous moves are numbered in current priority order, not by rid.
DrawsBy(calls, S, totals, now) == MapThenSumSet(LAMBDA r : Draws(calls[r], totals, now), S)

UpTo(calls, r) == {d \in DOMAIN calls : ~KeyLess(calls[r], calls[d])}

RefreshKeepsOrder(calls, counter, totals, now) ==
    [r \in DOMAIN calls |-> Refreshed(calls[r], totals, now)]
Refresh(calls, counter, totals, now) ==
    [r \in DOMAIN calls |->
        LET c == Refreshed(calls[r], totals, now)
        IN  IF Draws(calls[r], totals, now) = 0 THEN c
            ELSE [c EXCEPT !.order = counter + DrawsBy(calls, UpTo(calls, r), totals, now)]]

CounterAfter(calls, counter, totals, now) ==
    counter + DrawsBy(calls, DOMAIN calls, totals, now)

-----------------------------------------------------------------------------
(* The other methods. *)

\* begin: the batch about to execute stops waiting, every other call waits.
Begin(calls, batch, now) ==
    [r \in DOMAIN calls |-> [WaitUntil(calls[r], now) EXCEPT !.scheduled = r \in batch]]

\* executed: the measured time is charged in full to each call of the batch.
ExecutedStillWaits(calls, batch, seconds, now) ==
    [r \in DOMAIN calls |->
        IF r \notin batch THEN calls[r]
        ELSE [calls[r] EXCEPT !.executed = @ + seconds, !.run_window = @ + seconds,
                              !.quantum = @ - seconds, !.scheduled = FALSE]]
Executed(calls, batch, seconds, now) ==
    [r \in DOMAIN calls |->
        IF r \notin batch THEN calls[r]
        ELSE [calls[r] EXCEPT !.executed = @ + seconds, !.run_window = @ + seconds,
                              !.quantum = @ - seconds, !.scheduled = FALSE,
                              !.last_update = now]]

\* finish: the table transaction of the call that leaves `calls'.
FinishCall(t, r, c, now) ==
    FinishIn(t, c.pid, r, c.inherited, c.executed, WaitUntil(c, now).waited)

ByPriority(calls, S) == Ranked([r \in S |-> UpTo(calls, r) \cap S])

=============================================================================
