-------------------------- MODULE SchedulingWindow --------------------------
(***************************************************************************)
(* The scheduling window (autellix/runtime/window.py): the priority order  *)
(* is taken once, and then kept for Interval decode steps.  Its first      *)
(* Capacity calls decode; the Over calls after them are kept resident, to  *)
(* replace a call that leaves without a new scheduling decision.           *)
(***************************************************************************)
EXTENDS RuntimeScheduler

CONSTANTS
    Capacity,   \* calls that decode together
    Over,       \* PolicyConfig.overprovision
    Interval    \* PolicyConfig.schedule_interval

ASSUME WindowAssumption ==
    /\ Capacity \in Nat \ {0}
    /\ Over \in Nat
    /\ Interval \in Nat \ {0}

First(s, n) == SubSeq(s, 1, IF n < Len(s) THEN n ELSE Len(s))
After(s, n) == SubSeq(s, n + 1, Len(s))

EmptyWindow == [remaining |-> 0, cohort |-> << >>, active |-> {}, reserve |-> {}]

\* The calls of the cohort that are still there, in their order.
Survivors(w, available) == Among(w.cohort, available)

AtBoundary(w, available) == w.remaining = 0 \/ Survivors(w, available) = << >>

Plan(cohort, remaining) ==
    [remaining |-> remaining, cohort |-> cohort,
     active |-> Range(First(cohort, Capacity)), reserve |-> Range(After(cohort, Capacity))]

\* `calls' is what the refresh at a boundary left.
SelectRefills(w, calls, available) ==
    IF available = {} THEN EmptyWindow
    ELSE IF AtBoundary(w, available)
         THEN Plan(First(ByPriority(calls, available), Capacity + Over), Interval)
         ELSE Plan(First(ByPriority(calls, available), Capacity + Over), w.remaining)
SelectKeepsCohort(w, calls, available) ==
    IF available = {} THEN EmptyWindow
    ELSE IF Survivors(w, available) = << >>
         THEN Plan(First(ByPriority(calls, available), Capacity + Over), Interval)
         ELSE Plan(Survivors(w, available),
                   IF w.remaining = 0 THEN Interval ELSE w.remaining)
Select(w, calls, available) ==
    IF available = {} THEN EmptyWindow
    ELSE IF AtBoundary(w, available)
         THEN Plan(First(ByPriority(calls, available), Capacity + Over), Interval)
         ELSE Plan(Survivors(w, available), w.remaining)

\* What select returns: the calls to run or prepare, and the prepared reserve.
Chosen(w, resident) == w.active \cup (w.reserve \ resident)
Held(w, resident) == w.reserve \cap resident

WindowExecuted(w, isPrefill) ==
    IF isPrefill \/ w.remaining = 0 THEN w ELSE [w EXCEPT !.remaining = @ - 1]

DropReserve(w) == [w EXCEPT !.cohort = First(@, Capacity), !.reserve = {}]

=============================================================================
