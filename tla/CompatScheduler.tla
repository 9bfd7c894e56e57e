--------------------------- MODULE CompatScheduler --------------------------
(***************************************************************************)
(* One replica under the program-aware scheduler for vLLM's own phases     *)
(* (integrations/vllm/scheduler.py) with the measured execution of         *)
(* integrations/vllm/backend.py: the worker loop admits and cancels calls  *)
(* between steps; a step selects from the window, moves KV blocks out or   *)
(* in as a barrier of its own, or lets the native scheduler form a batch   *)
(* from the chosen calls; the batch then runs and some of it finishes.     *)
(*                                                                         *)
(* vLLM is external: which of the chosen calls fit, and which native       *)
(* preemption swaps out, is a free choice.  Programs stay open here, and   *)
(* `Elsewhere' is a call of another engine process on the same table.      *)
(***************************************************************************)
EXTENDS SchedulingWindow

CONSTANTS
    MaxTime,    \* bound: the clock
    Foreign     \* bound: the request identifiers of the other engine process

VARIABLES
    table,      \* the shared program table
    calls,      \* RuntimeScheduler.calls
    counter,    \* RuntimeScheduler.counter
    now,        \* the process's monotonic clock
    window,     \* SchedulingWindow
    place,      \* rid -> vLLM queue that holds it: waiting, running or swapped
    batch,      \* _autellix_execution while the model executes, {} otherwise
    isPrefill,  \* _autellix_is_prefill
    arrived,    \* auxiliary: rid -> time of its admission
    used        \* auxiliary: identifiers that have been used

vars == << table, calls, counter, now, window, place, batch, isPrefill, arrived, used >>

OpenTable == [programs |-> [p \in Pid |-> NewProgram], requests |-> << >>]

Init ==
    /\ table = OpenTable
    /\ calls = << >> /\ counter = 0 /\ now = 0
    /\ window = EmptyWindow
    /\ place = << >> /\ batch = {} /\ isPrefill = FALSE
    /\ arrived = << >> /\ used = {}

Available == DOMAIN place
In(queue) == {r \in Available : place[r] = queue}

-----------------------------------------------------------------------------
(* Commands, between two steps. *)

\* VLLMBackend.add
Add(p, r) ==
    /\ batch = {}
    /\ r \notin used
    /\ CanAdmit(table, p, r)
    /\ table' = AdmitTo(table, p, r)
    /\ counter' = counter + 1
    /\ calls' = Put(calls, r, NewCall(p, Inherited(table, p), counter', now))
    /\ place' = Put(place, r, "waiting")
    /\ arrived' = Put(arrived, r, now)
    /\ used' = used \cup {r}
    /\ UNCHANGED << now, window, batch, isPrefill >>

\* RuntimeScheduler.finish of one call; the window is not told.
Leave(r) ==
    /\ table' = FinishCall(table, r, calls[r], now)
    /\ calls' = Drop(calls, r)
    /\ place' = Drop(place, r)
    /\ arrived' = Drop(arrived, r)

\* VLLMBackend.cancel
Cancel(r) ==
    /\ batch = {}
    /\ r \in DOMAIN calls
    /\ Leave(r)
    /\ UNCHANGED << counter, now, window, batch, isPrefill, used >>

-----------------------------------------------------------------------------
(* A step: _schedule, then the model, then its outputs. *)

Evicted(w, running) == running \ (Chosen(w, running) \cup Held(w, running))

\* A transfer barrier: blocks move and nothing executes in this step.
Barrier(fresh, w, moved, to) ==
    /\ calls' = Begin(fresh, {}, now)
    /\ window' = w
    /\ place' = [r \in Available |-> IF r \in moved THEN to ELSE place[r]]
    /\ UNCHANGED << batch, isPrefill >>

\* A swapped reserve is brought in by a barrier, or not chosen in this step.
EligibleSwapped(w, running) == Chosen(w, running)
Eligible(w, running) == Chosen(w, running) \ (w.reserve \cap In("swapped"))

Execute(fresh, w, run, prefill, preempted) ==
    /\ calls' = Begin(fresh, run, now)
    /\ batch' = run
    /\ isPrefill' = prefill
    /\ window' = IF run = {} /\ Held(w, In("running")) # {} THEN DropReserve(w) ELSE w
    /\ place' = [r \in Available |-> IF r \in run THEN "running"
                                     ELSE IF r \in preempted THEN "swapped"
                                     ELSE place[r]]

\* The calls the native scheduler sees are the eligible ones: it prefills some
\* that wait, or decodes those that run and fit.
Native(fresh, w, eligible, running) ==
    \/ \E run \in SUBSET (eligible \cap In("waiting")) \ {{}} :
           Execute(fresh, w, run, TRUE, {})
    \/ \E run \in SUBSET (eligible \ In("waiting")) :
           Execute(fresh, w, run, FALSE, (eligible \cap running) \ run)

\* ProgramAwareScheduler._schedule
Schedule ==
    /\ batch = {}
    /\ Available # {}
    /\ LET boundary == AtBoundary(window, Available)
           fresh   == IF boundary THEN Refresh(calls, counter, table.programs, now) ELSE calls
           w       == Select(window, fresh, Available)
           running == In("running")
           out     == Evicted(w, running)
       IN  /\ counter' = IF boundary THEN CounterAfter(calls, counter, table.programs, now)
                         ELSE counter
           /\ \/ /\ out # {}
                 /\ Barrier(fresh, w, out, "swapped")
              \/ /\ out = {}
                 /\ \E fit \in SUBSET (w.reserve \cap In("swapped")) \ {{}} :
                        Barrier(fresh, w, fit, "running")
              \/ /\ out = {}
                 /\ Native(fresh, w, Eligible(w, running), running)
    /\ UNCHANGED << table, now, arrived, used >>

\* measured_execute, and the controller.finish of the outputs that ended.
Run(seconds, overhead, done) ==
    /\ batch # {}
    /\ done \subseteq batch
    /\ now' = now + seconds + overhead
    /\ window' = WindowExecuted(window, isPrefill)
    /\ LET ran == Executed(calls, batch, seconds, now')
           rest == DOMAIN calls \ done
       IN  /\ table' = FoldSet(LAMBDA r, t : FinishCall(t, r, ran[r], now'), table, done)
           /\ calls' = Restrict(ran, rest)
           /\ place' = Restrict(place, rest)
           /\ arrived' = Restrict(arrived, rest)
    /\ batch' = {} /\ isPrefill' = FALSE     \* read again only after it is set again
    /\ UNCHANGED << counter, used >>

-----------------------------------------------------------------------------
(* Around the process. *)

\* Time passes between two steps.
Tick ==
    /\ batch = {} /\ Available # {}
    /\ now' = now + 1
    /\ UNCHANGED << table, calls, counter, window, place, batch, isPrefill, arrived, used >>

\* Another engine process admits and finishes a call of p.
Elsewhere(p, r, executed, waited) ==
    /\ r \notin used
    /\ used' = used \cup {r}
    /\ table' = FinishIn(AdmitTo(table, p, r), p, r, Inherited(table, p), executed, waited)
    /\ UNCHANGED << calls, counter, now, window, place, batch, isPrefill, arrived >>

Next ==
    \/ \E p \in Pid, r \in Rid \ Foreign : Add(p, r)
    \/ \E r \in Rid : Cancel(r)
    \/ Schedule
    \/ \E seconds \in 1..2, overhead \in 0..1, done \in SUBSET batch :
           /\ now + seconds + overhead <= MaxTime
           /\ seconds + overhead <= 2
           /\ Run(seconds, overhead, done)
    \/ now < MaxTime /\ Tick
    \/ \E p \in Pid, r \in Foreign : Elsewhere(p, r, 2, 2)

Spec == Init /\ [][Next]_vars

-----------------------------------------------------------------------------
(* Properties. *)

\* RuntimeScheduler: no time is charged twice.  What a call has waited and run
\* fits in the time since its admission, and its windows in its lifetime totals.
NoTimeChargedTwice ==
    \A r \in DOMAIN calls :
        LET c == calls[r]
        IN  /\ c.waited + c.executed <= c.last_update - arrived[r]
            /\ c.wait_window <= c.waited /\ c.run_window <= c.executed

\* RuntimeScheduler.refresh keeps first-in first-out.  Of two calls that end up
\* in one queue, those that both stayed or both moved keep their order, and one
\* that moved in comes after one that was there.  (Only a move refills the
\* quantum, so the last queue rotates too.)
FifoWithinQueue ==
    [][\A r, d \in DOMAIN calls \cap DOMAIN calls' :
          LET moved(x) == \/ calls'[x].queue # calls[x].queue
                          \/ calls'[x].quantum > calls[x].quantum
          IN  /\ r # d
              /\ calls'[r].queue = calls'[d].queue
              /\ IF moved(r) = moved(d) THEN KeyLess(calls[r], calls[d]) ELSE moved(d)
              => KeyLess(calls'[r], calls'[d])]_vars

\* Queue moves never reset what a call has run or waited, nor what it inherited.
LifetimeStatisticsKept ==
    [][\A r \in DOMAIN calls \cap DOMAIN calls' :
          /\ calls'[r].executed >= calls[r].executed
          /\ calls'[r].waited >= calls[r].waited
          /\ calls'[r].inherited = calls[r].inherited]_vars

\* Only the calls of the window's first Capacity places decode, however calls
\* arrive, leave or are swapped while it lasts.
DecodeWithinCapacity ==
    batch # {} /\ ~isPrefill => batch \subseteq window.active /\ Cardinality(batch) <= Capacity

NewWindow ==
    /\ AtBoundary(window, Available)
    /\ window' # window
    /\ window'.remaining = Interval

\* SchedulingWindow.select: a window starts from the priorities the refresh of
\* the same step left, so no call outside it goes before one inside.
WindowStartsByPriority ==
    [][NewWindow =>
          \A r \in Range(window'.cohort), d \in DOMAIN calls' \ Range(window'.cohort) :
              KeyLess(calls'[r], calls'[d])]_vars

\* Inside a window nothing is admitted to the cohort and nothing changes queue:
\* the plan only loses calls that leave.
PlanFrozen ==
    [][(window.remaining > 0 /\ Survivors(window, DOMAIN place') # << >>) =>
          /\ Range(window'.cohort) \subseteq Range(window.cohort)
          /\ \A r \in DOMAIN calls \cap DOMAIN calls' :
                 calls'[r].queue = calls[r].queue /\ calls'[r].order = calls[r].order]_vars

=============================================================================
