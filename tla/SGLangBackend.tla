---------------------------- MODULE SGLangBackend ---------------------------
(***************************************************************************)
(* An SGLang replica as three processes that share the program table       *)
(* (integrations/sglang/backend.py and the accounting of scheduler.py):    *)
(* the coordinator, the worker process with its asyncio tasks, and the     *)
(* scheduler process of SGLang.  Messages to the scheduler are a FIFO; its *)
(* outputs and its accounting reach the worker on two unrelated paths.     *)
(*                                                                         *)
(* What the scheduler does with its calls is left to SGLangScheduler: here *)
(* one pass runs any of them and finishes any that ran, and a call runs    *)
(* for one unit of time.                                                   *)
(***************************************************************************)
EXTENDS ProgramTable, Sequences

CONSTANT None       \* no request

ASSUME NoneAssumption == None \notin Rid

VARIABLES
    table,      \* programs and requests of the database
    metrics,    \* results of the database: the calls whose metrics are saved
    sessions,   \* coordinator: pid -> closing
    pending,    \* coordinator: the calls it has to resolve
    owner,      \* request -> its program
    outcome,    \* request -> how the coordinator resolved it
    cancelled,  \* the calls whose future was cancelled
    resolving,  \* the call whose _resolve is between its transactions
    failed,     \* the coordinator has heard that the replica stopped
    commands,   \* queue from the coordinator to the worker
    events,     \* queue from the worker to the coordinator
    phase,      \* worker: loop, closing or closed
    task,       \* SGLangBackend.pending: request -> state of its generate task
    cancelling, \* the request whose cancel waits for the scheduler
    messages,   \* channel from the worker to the scheduler
    outputs,    \* the calls whose last output has been streamed
    sched,      \* RuntimeScheduler.calls: request -> [at, inherited]
    toAbort,    \* running calls that were aborted
    alive,      \* no admission raised in the scheduler process
    charged,    \* auxiliary: the calls whose run time the table took
    late        \* auxiliary: cancellations that no longer waited

database == << table, metrics >>
coordinator == << sessions, pending, owner, outcome, cancelled, resolving, failed >>
worker == << phase, task, cancelling >>
scheduler == << sched, toAbort, alive, outputs, charged >>
vars == << database, coordinator, worker, scheduler, commands, events, messages, late >>

Init ==
    /\ table = EmptyTable /\ metrics = {}
    /\ sessions = << >> /\ pending = {} /\ owner = << >> /\ outcome = << >> /\ cancelled = {}
    /\ resolving = None /\ failed = FALSE
    /\ commands = << >> /\ events = << >> /\ messages = << >>
    /\ phase = "loop" /\ task = << >> /\ cancelling = None
    /\ sched = << >> /\ toAbort = {} /\ alive = TRUE /\ outputs = {} /\ charged = {}
    /\ late = {}

Msg(kind, r) == [kind |-> kind, rid |-> r]

-----------------------------------------------------------------------------
(* The coordinator. *)

\* _cleanup_session of p, when `left' are the calls still pending.
Cleanup(t, s, p, left) ==
    IF p \in DOMAIN s /\ s[p] /\ ~\E r \in left : owner[r] = p
    THEN sessions' = Drop(s, p) /\ table' = EndIn(t, p)
    ELSE sessions' = s /\ table' = t

\* The lock of the coordinator is also held while a replica's calls fail one by one.
LockFree == resolving = None /\ (failed => pending = {})
KeepsCalls == UNCHANGED << pending, owner, outcome, cancelled, resolving, failed >>
Alone == UNCHANGED << metrics, worker, scheduler, messages, late >>

StartSession(p) ==
    /\ LockFree
    /\ CanOpen(table, p)
    /\ table' = OpenIn(table, p)
    /\ sessions' = Put(sessions, p, FALSE)
    /\ KeepsCalls /\ Alone /\ UNCHANGED << commands, events >>

EndSession(p) ==
    /\ LockFree
    /\ p \in DOMAIN sessions
    /\ Cleanup(table, Put(sessions, p, TRUE), p, pending)
    /\ KeepsCalls /\ Alone /\ UNCHANGED << commands, events >>

Submit(p, r) ==
    /\ LockFree /\ ~failed
    /\ p \in DOMAIN sessions /\ ~sessions[p]
    /\ r \notin DOMAIN owner
    /\ owner' = Put(owner, r, p)
    /\ pending' = pending \cup {r}
    /\ commands' = Append(commands, Msg("add", r))
    /\ Alone /\ UNCHANGED << table, sessions, outcome, cancelled, resolving, failed, events >>

\* The caller cancels its future, whose callback tells the worker.
CancelFuture(r) ==
    /\ r \in pending \ cancelled
    /\ cancelled' = cancelled \cup {r}
    /\ commands' = Append(commands, Msg("cancel", r))
    /\ Alone /\ UNCHANGED << table, sessions, pending, owner, outcome, resolving, failed, events >>

Shutdown ==
    /\ LockFree /\ phase = "loop"
    /\ Msg("shutdown", None) \notin Range(commands)
    /\ commands' = Append(commands, Msg("shutdown", None))
    /\ Alone /\ UNCHANGED << table, coordinator, events >>

\* _resolve: a call that failed or was cancelled is finished in the table once more, ...
Resolve(r, event) ==
    /\ pending' = pending \ {r}
    /\ outcome' = Put(outcome, r, event)
    /\ table' = IF event = "result" THEN table ELSE FinishIn(table, owner[r], r, 0, 0, 0)
    /\ resolving' = r
    /\ Alone /\ UNCHANGED << sessions, owner, cancelled, commands >>

\* ... and a transaction later its session may be over.
Settle ==
    /\ resolving # None
    /\ Cleanup(table, sessions, owner[resolving], pending)
    /\ resolving' = None
    /\ Alone /\ UNCHANGED << pending, owner, outcome, cancelled, failed, commands, events >>

Hear ==
    /\ LockFree
    /\ events # << >>
    /\ events' = Tail(events)
    /\ failed' = (failed \/ Head(events).kind = "stopped")
    /\ IF Head(events).rid \in pending THEN Resolve(Head(events).rid, Head(events).kind)
       ELSE Alone /\ UNCHANGED << table, sessions, pending, owner, outcome, cancelled, resolving, commands >>

\* _fail_replica
FailCall(r) ==
    /\ failed /\ resolving = None /\ r \in pending
    /\ Resolve(r, "error")
    /\ UNCHANGED << failed, events >>

-----------------------------------------------------------------------------
(* The worker process: commands, and tasks that run while it steps or waits. *)

\* tokenizer_manager.abort_request knows a request from its sending to its last output.
AbortAfterTask(r) == messages
AbortMessage(r) == IF task[r] = "sent" THEN Append(messages, Msg("abort", r)) ELSE messages

BeginCancel(r) ==
    /\ r \in DOMAIN task
    /\ messages' = AbortMessage(r)
    /\ task' = Drop(task, r)
    /\ cancelling' = r

Serve ==
    /\ phase = "loop" /\ cancelling = None
    /\ commands # << >>
    /\ commands' = Tail(commands)
    /\ LET c == Head(commands)
       IN  CASE c.kind = "add" ->
                    \* backend.add may raise before it makes the task.
                    /\ \/ task' = Put(task, c.rid, "new") /\ UNCHANGED events
                       \/ events' = Append(events, Msg("error", c.rid)) /\ UNCHANGED task
                    /\ UNCHANGED << phase, cancelling, messages >>
             [] c.kind = "cancel" /\ c.rid \in DOMAIN task ->
                    /\ BeginCancel(c.rid)
                    /\ UNCHANGED << phase, events >>
             [] c.kind = "cancel" /\ c.rid \notin DOMAIN task ->
                    /\ events' = Append(events, Msg("cancelled", c.rid))
                    /\ UNCHANGED << phase, task, cancelling, messages >>
             [] c.kind = "shutdown" ->
                    /\ phase' = "closing"
                    /\ events' = Append(events, Msg("stopped", None))
                    /\ UNCHANGED << task, cancelling, messages >>
    /\ UNCHANGED << database, coordinator, scheduler, late >>

\* The end of cancel: a finish of its own, which finds no row if the scheduler's came first.
FinishCancel ==
    /\ table' = FinishIn(table, owner[cancelling], cancelling, 0, 0, 0)
    /\ events' = IF phase = "loop" THEN Append(events, Msg("cancelled", cancelling)) ELSE events
    /\ cancelling' = None
    /\ UNCHANGED << coordinator, phase, task, scheduler, commands, messages >>

\* The scheduler has saved the metrics of the call.
Answered == cancelling \in metrics
CancelAnswered ==
    /\ Answered
    /\ metrics' = metrics \ {cancelling}
    /\ FinishCancel
    /\ UNCHANGED late

\* Five seconds are over.
CancelTimeout ==
    /\ cancelling # None /\ ~Answered
    /\ late' = late \cup {cancelling}
    /\ FinishCancel
    /\ UNCHANGED metrics

\* close cancels what is left and ends the scheduler process.
Close ==
    /\ phase = "closing" /\ cancelling = None
    /\ \/ (\E r \in Rid : BeginCancel(r)) /\ UNCHANGED phase
       \/ DOMAIN task = {} /\ phase' = "closed" /\ UNCHANGED << task, cancelling, messages >>
    /\ UNCHANGED << database, coordinator, scheduler, commands, events, late >>

\* The asyncio loop runs in step and while a cancel waits.
LoopRuns == phase = "loop" \/ cancelling # None
TaskStep(r, from, to) ==
    /\ LoopRuns
    /\ r \in DOMAIN task /\ task[r] = from
    /\ task' = [task EXCEPT ![r] = to]
    /\ UNCHANGED << table, coordinator, phase, cancelling, scheduler, commands, events, late >>

\* generate_request raises before it sends the request, or sends it.
Generate(r) ==
    /\ \/ TaskStep(r, "new", "sent") /\ messages' = Append(messages, Msg("add", r))
       \/ TaskStep(r, "new", "error") /\ UNCHANGED messages
    /\ UNCHANGED metrics
Receive(r) == r \in outputs /\ TaskStep(r, "sent", "polling") /\ UNCHANGED << metrics, messages >>

\* The result waits for the accounting of the scheduler, a thousand polls at most.
AcknowledgedAtOnce(r) == TRUE
Acknowledged(r) == r \in metrics
TakeMetrics(r) ==
    /\ Acknowledged(r)
    /\ TaskStep(r, "polling", "result")
    /\ metrics' = metrics \ {r}
    /\ UNCHANGED messages
GiveUp(r) == ~Acknowledged(r) /\ TaskStep(r, "polling", "error") /\ UNCHANGED << metrics, messages >>

\* The end of step: tasks that are done.
Reap(r) ==
    /\ phase = "loop" /\ cancelling = None
    /\ r \in DOMAIN task /\ task[r] \in {"result", "error"}
    /\ events' = Append(events, Msg(task[r], r))
    /\ task' = Drop(task, r)
    /\ UNCHANGED << database, coordinator, phase, cancelling, scheduler, commands, messages, late >>

-----------------------------------------------------------------------------
(* The scheduler process: it receives between two passes. *)

Ended == {r \in DOMAIN sched : sched[r].at \in {"ended", "finished"}}
Between == alive /\ phase # "closed" /\ Ended = {}
At(r, where) == sched' = [sched EXCEPT ![r].at = where]

\* admit raises for a program that is not open.
ReceiveAdd(r) ==
    /\ IF CanAdmit(table, owner[r], r)
       THEN /\ table' = AdmitTo(table, owner[r], r)
            /\ sched' = Put(sched, r, [at |-> "queued", inherited |-> Inherited(table, owner[r])])
            /\ alive' = TRUE
       ELSE alive' = FALSE /\ UNCHANGED << table, sched >>
    /\ UNCHANGED toAbort

\* A queued call is accounted for at once, a running one when its pass is over.
ReceiveAbort(r) ==
    /\ IF r \in DOMAIN sched /\ sched[r].at = "queued" THEN At(r, "ended") ELSE UNCHANGED sched
    /\ toAbort' = IF r \in DOMAIN sched /\ sched[r].at = "running" THEN toAbort \cup {r} ELSE toAbort
    /\ UNCHANGED << table, alive >>

ReceiveMessage ==
    /\ Between
    /\ messages # << >>
    /\ messages' = Tail(messages)
    /\ IF Head(messages).kind = "add" THEN ReceiveAdd(Head(messages).rid)
       ELSE ReceiveAbort(Head(messages).rid)
    /\ UNCHANGED << metrics, coordinator, worker, outputs, charged, commands, events, late >>

\* One pass runs `S' of the calls; the last outputs of `done' are streamed first.
Pass(S, done) ==
    /\ Between
    /\ done \subseteq S /\ S \cap toAbort \subseteq done
    /\ sched' = [r \in DOMAIN sched |->
                    [sched[r] EXCEPT !.at = IF r \in done THEN "ended"
                                            ELSE IF r \in S THEN "running" ELSE "queued"]]
    /\ outputs' = outputs \cup done
    /\ toAbort' = toAbort \ done
    /\ UNCHANGED << database, coordinator, worker, alive, charged, commands, events, messages, late >>

\* process, and abort for queued calls: RuntimeScheduler.finish, then save_metrics.
Account(r) ==
    /\ alive /\ phase # "closed"
    /\ r \in Ended /\ \A q \in Ended : sched[q].at = "ended"
    /\ table' = FinishIn(table, owner[r], r, sched[r].inherited, 1, 0)
    /\ charged' = IF RemovesRow(table, owner[r], r) THEN charged \cup {r} ELSE charged
    /\ At(r, "finished")
    /\ UNCHANGED << metrics, coordinator, worker, toAbort, alive, outputs, commands, events,
                    messages, late >>

SaveMetrics(r) ==
    /\ alive /\ phase # "closed"
    /\ r \in DOMAIN sched /\ sched[r].at = "finished"
    /\ metrics' = metrics \cup {r}
    /\ sched' = Drop(sched, r)
    /\ UNCHANGED << table, coordinator, worker, toAbort, alive, outputs, charged, commands,
                    events, messages, late >>

-----------------------------------------------------------------------------

Coordinator ==
    \/ \E p \in Pid : StartSession(p) \/ EndSession(p) \/ \E r \in Rid : Submit(p, r)
    \/ \E r \in Rid : CancelFuture(r) \/ FailCall(r)
    \/ Shutdown \/ Hear \/ Settle
Worker ==
    \/ Serve \/ CancelAnswered \/ CancelTimeout \/ Close
    \/ \E r \in Rid : Generate(r) \/ Receive(r) \/ TakeMetrics(r) \/ GiveUp(r) \/ Reap(r)
Scheduler ==
    \/ ReceiveMessage
    \/ \E S \in SUBSET DOMAIN sched : \E done \in SUBSET S : S # {} /\ Pass(S, done)
    \/ \E r \in Rid : Account(r) \/ SaveMetrics(r)

Next == Coordinator \/ Worker \/ Scheduler

Spec == Init /\ [][Next]_vars

-----------------------------------------------------------------------------
(* Properties. *)

\* A result comes with its accounting: though output and accounting take different paths,
\* a caller that has the result of a call finds its run time charged to the program.
ResultIsAccounted == \A r \in DOMAIN outcome : outcome[r] = "result" => r \in charged

\* A cancellation settles the call in the scheduler process too: after it was acknowledged
\* the call is gone, accounted for, or its abort is on the way behind it; and only a wait
\* that ran out, or a worker that closes, lets a session end ahead of the admission of its
\* call, which would raise.
\* When nothing is on the way any more, no request row is left.
CancellationSettles ==
    /\ \A r \in DOMAIN outcome :
            (outcome[r] = "cancelled" /\ (r \in DOMAIN sched \/ Msg("add", r) \in Range(messages)))
                => r \in toAbort \cup Ended \/ Msg("abort", r) \in Range(messages)
    /\ ~alive => late # {} \/ phase # "loop"
    /\ (alive /\ pending = {} /\ resolving = None /\ messages = << >> /\ sched = << >>) => table.requests = << >>

=============================================================================
