--------------------------- MODULE InferenceEngine --------------------------
(***************************************************************************)
(* The replica coordinator and its worker processes                        *)
(* (autellix/runtime/engine.py).  Client threads open and end sessions,    *)
(* submit calls and cancel futures; each replica is a process with a FIFO  *)
(* command queue; the listener thread takes the workers' events and        *)
(* settles futures; shutdown stops it all.  Workers may fail, exit or be   *)
(* killed at any point, and then lose the events still in their buffer.    *)
(*                                                                         *)
(* The coordinator's lock: `failing' and `resolving' are what its holder   *)
(* still has to do.  Worker processes and Future.cancel do not take the    *)
(* lock, so their steps fall between those of the holder.  The table is    *)
(* shared; its service times are the subject of SharedTable and left out   *)
(* here, so every finish charges nothing.                                  *)
(***************************************************************************)
EXTENDS ProgramTable, Sequences

CONSTANTS
    Replica,    \* indices of the replicas
    Query,      \* identifiers of tokenize calls
    NoReplica,  \* a session without an engine
    None,       \* no request
    MaxKills,   \* bound: workers that are killed from outside
    Closing     \* bound: whether the engine is ever shut down

ASSUME ReplicaAssumption == Replica \subseteq Nat /\ IsFiniteSet(Replica) /\ Replica # {}
ASSUME NullAssumption ==
    /\ NoReplica \notin Replica /\ None \notin Rid
    /\ None \notin [id : Rid, pid : Pid, engine : Replica,
                   kind : {"result", "cancelled", "error", "tokenized"}, done : BOOLEAN]
\* Both kinds of calls draw fresh uuids.
ASSUME QueryAssumption == Query \cap Rid = {}

VARIABLES
    sessions,   \* pid -> [closing, engine], and auxiliary: placed, see Submit
    pending,    \* rid -> [pid, engine]
    future,     \* rid -> state of the caller's future
    loads, failed, ready, closed,
    rpc,        \* query -> replica that was asked
    answer,     \* query -> state of the tokenize caller's future
    failing,    \* lock holder: requests of failed replicas still to resolve
    resolving,  \* lock holder: the request taken off `pending', not yet settled
    listener,   \* "get" | "check": events.get timed out
    stopping,   \* progress of shutdown()
    commands, events,   \* replica -> what its queues hold
    worker,     \* replica -> starting, serving, failing, closing or exited
    calls,      \* replica -> (rid -> pid) of the calls its backend holds
    table, contexts, activity,  \* the database
    kills       \* auxiliary: workers killed so far

coordinator == << sessions, pending, future, loads, failed, ready, closed, rpc, answer >>
holder == << failing, resolving, listener, stopping >>
processes == << commands, events, worker, calls, kills >>
database == << table, contexts, activity >>
vars == << coordinator, holder, processes, database >>

Init ==
    /\ sessions = << >> /\ pending = << >> /\ rpc = << >>
    /\ future = [r \in Rid |-> "none"] /\ answer = [q \in Query |-> "none"]
    /\ loads = [i \in Replica |-> 0]
    /\ failed = {} /\ closed = FALSE
    /\ ready = [i \in Replica |-> "waiting"]
    /\ failing = {} /\ resolving = None
    /\ listener = "get" /\ stopping = "no"
    /\ commands = [i \in Replica |-> << >>] /\ events = [i \in Replica |-> << >>]
    /\ worker = [i \in Replica |-> "starting"]
    /\ calls = [i \in Replica |-> << >>]
    /\ table = EmptyTable /\ contexts = {} /\ activity = {}
    /\ kills = 0

-----------------------------------------------------------------------------
(* Helpers. *)

LockFree == failing = {} /\ resolving = None /\ stopping # "final"

PendingOf(p) == {r \in DOMAIN pending : pending[r].pid = p}
PendingOn(S) == {r \in DOMAIN pending : pending[r].engine \in S}

Healthy == Replica \ failed

\* min(available, key=(load, index)).
LeastLoaded ==
    CHOOSE i \in Healthy : \A j \in Healthy :
        loads[i] < loads[j] \/ (loads[i] = loads[j] /\ i <= j)

\* A worker past its loop reads no command again; what is put for it is left out.
Reads(i) == worker[i] \in {"starting", "serving"}
Send(i, op, id, p) ==
    IF Reads(i) THEN [commands EXCEPT ![i] = Append(@, [op |-> op, id |-> id, pid |-> p])]
    ELSE commands
Deaf(i) == [commands EXCEPT ![i] = << >>]
Report(i, kind, id) == [events EXCEPT ![i] = Append(@, [kind |-> kind, id |-> id])]

\* The row of a request, finished with no time charged.
Release(t, p, r) == FinishIn(t, p, r, 0, 0, 0)

-----------------------------------------------------------------------------
(* Client threads. *)

StartSession(p) ==
    /\ LockFree /\ ~closed
    /\ CanOpen(table, p)
    /\ table' = OpenIn(table, p)
    /\ sessions' = Put(sessions, p, [closing |-> FALSE, engine |-> NoReplica, placed |-> {}])
    /\ UNCHANGED << pending, future, loads, failed, ready, closed, rpc, answer,
                    holder, processes, contexts, activity >>

\* _cleanup_session, when `left' are the requests that stay pending.
CleanupAlways(t, s, p, left) ==
    IF p \in DOMAIN s /\ s[p].closing
    THEN sessions' = Drop(s, p) /\ table' = EndIn(t, p)
    ELSE sessions' = s /\ table' = t
CleanupKeepsProgram(t, s, p, left) ==
    /\ sessions' = IF p \in DOMAIN s /\ s[p].closing /\ ~\E r \in left : pending[r].pid = p
                   THEN Drop(s, p) ELSE s
    /\ table' = t
Cleanup(t, s, p, left) ==
    IF p \in DOMAIN s /\ s[p].closing /\ ~\E r \in left : pending[r].pid = p
    THEN sessions' = Drop(s, p) /\ table' = EndIn(t, p)
    ELSE sessions' = s /\ table' = t

EndSession(p) ==
    /\ LockFree
    /\ p \in DOMAIN sessions
    /\ Cleanup(table, [sessions EXCEPT ![p].closing = TRUE], p, DOMAIN pending)
    /\ UNCHANGED << pending, future, loads, failed, ready, closed, rpc, answer,
                    holder, processes, contexts, activity >>

\* The replica of a new call: a long prompt goes where its session's last long
\* prompt went, as long as that replica has not failed.
IndexIgnoresFailure(p, long) ==
    IF long /\ sessions[p].engine # NoReplica THEN sessions[p].engine ELSE LeastLoaded
Index(p, long) ==
    IF long /\ sessions[p].engine \in Healthy THEN sessions[p].engine ELSE LeastLoaded

\* submit, from its lock on: the prompt was tokenized before, while sessions
\* and replicas could still change.  A duplicate call_id is refused without
\* effect, so what is submitted here is a new call.  `placed' records where each
\* long call of the session went, and which replicas had failed by then.
Submit(p, r, long) ==
    /\ LockFree /\ ~closed
    /\ p \in DOMAIN sessions /\ ~sessions[p].closing
    /\ future[r] = "none"
    /\ Healthy # {}
    /\ LET index == Index(p, long)
       IN  /\ sessions' = IF long
                         THEN [sessions EXCEPT ![p].engine = index,
                                   ![p].placed = @ \cup {[at |-> index, failed |-> failed]}]
                         ELSE sessions
           /\ pending' = Put(pending, r, [pid |-> p, engine |-> index])
           /\ loads' = [loads EXCEPT ![index] = @ + 1]
           /\ commands' = Send(index, "add", r, p)
    /\ future' = [future EXCEPT ![r] = "waiting"]
    /\ contexts' = contexts \cup {r}
    /\ activity' = activity \cup {r}
    /\ UNCHANGED << failed, ready, closed, rpc, answer, holder, events, worker, calls,
                    kills, table >>

\* Future.cancel and its callback, under the future's own lock only.
CancelFuture(r) ==
    /\ future[r] = "waiting"
    /\ future' = [future EXCEPT ![r] = "cancelled"]
    /\ LET item == IF r \in DOMAIN pending THEN pending[r] ELSE resolving
       IN  commands' = Send(item.engine, "cancel", r, item.pid)
    /\ UNCHANGED << sessions, pending, loads, failed, ready, closed, rpc, answer, holder,
                    events, worker, calls, kills, database >>

\* tokenize: wait_ready wants every replica ready.
Tokenize(q) ==
    /\ LockFree /\ ~closed
    /\ answer[q] = "none"
    /\ \A i \in Replica : ready[i] = "ok"
    /\ Healthy # {}
    /\ answer' = [answer EXCEPT ![q] = "waiting"]
    /\ rpc' = Put(rpc, q, LeastLoaded)
    /\ commands' = Send(LeastLoaded, "tokenize", q, None)
    /\ UNCHANGED << sessions, pending, future, loads, failed, ready, closed, holder,
                    events, worker, calls, kills, database >>

TokenizeTimeout(q) ==
    /\ LockFree
    /\ answer[q] = "waiting"
    /\ answer' = [answer EXCEPT ![q] = "timeout"]
    /\ rpc' = Drop(rpc, q)
    /\ UNCHANGED << sessions, pending, future, loads, failed, ready, closed, holder,
                    processes, database >>

-----------------------------------------------------------------------------
(* A worker process. *)

Load(i) ==
    /\ worker[i] = "starting"
    /\ \/ /\ worker' = [worker EXCEPT ![i] = "serving"]
          /\ events' = Report(i, "ready", None)
          /\ UNCHANGED commands
       \/ /\ worker' = [worker EXCEPT ![i] = "closing"]
          /\ events' = Report(i, "fatal", None)
          /\ commands' = Deaf(i)
    /\ UNCHANGED << coordinator, holder, calls, kills, database >>

\* backend.add: the request is refused by its own checks; else its context is
\* taken, and it runs if both the table and the engine accept it.
ServeAdd(i, r, p) ==
    \/ /\ events' = Report(i, "error", r)
       /\ UNCHANGED << calls, table, contexts >>
    \/ \E accepted \in BOOLEAN :
          LET admits == CanAdmit(table, p, r)
              runs   == admits /\ accepted
              row    == AdmitTo(table, p, r)
          IN  /\ contexts' = contexts \ {r}
              /\ table' = IF runs THEN row ELSE IF admits THEN Release(row, p, r) ELSE table
              /\ calls' = IF runs THEN [calls EXCEPT ![i] = Put(@, r, p)] ELSE calls
              /\ events' = IF runs THEN events ELSE Report(i, "error", r)

\* controller.finish: nothing when the call is not held.
FinishHeld(i, r) ==
    IF r \in DOMAIN calls[i]
    THEN /\ table' = Release(table, calls[i][r], r)
         /\ calls' = [calls EXCEPT ![i] = Drop(@, r)]
    ELSE UNCHANGED << table, calls >>

\* backend.cancel lets the call go, and what it raises after that is reported instead.
ServeCancelLost(i, r) ==
    /\ events' = Report(i, "cancelled", r)
    /\ UNCHANGED << table, calls >>
ServeCancel(i, r) ==
    /\ FinishHeld(i, r)
    /\ \E kind \in {"cancelled", "error"} : events' = Report(i, kind, r)

Obey(i, c) ==
    \/ /\ c.op = "shutdown"
       /\ worker' = [worker EXCEPT ![i] = "closing"]
       /\ events' = Report(i, "stopped", None)
       /\ UNCHANGED << calls, table, contexts >>
    \/ /\ c.op = "add"
       /\ ServeAdd(i, c.id, c.pid)
       /\ UNCHANGED worker
    \/ /\ c.op = "cancel"
       /\ ServeCancel(i, c.id)
       /\ UNCHANGED << worker, contexts >>
    \/ /\ c.op = "tokenize"
       /\ \E kind \in {"tokenized", "error"} : events' = Report(i, kind, c.id)
       /\ UNCHANGED << worker, calls, table, contexts >>

Serve(i) ==
    /\ worker[i] = "serving"
    /\ commands[i] # << >>
    /\ LET c == Head(commands[i])
       IN  /\ commands' = IF c.op = "shutdown" THEN Deaf(i)
                          ELSE [commands EXCEPT ![i] = Tail(@)]
           /\ Obey(i, c)
    /\ UNCHANGED << coordinator, holder, activity, kills >>

\* backend.step returns r finished.
Complete(i, r) ==
    /\ worker[i] = "serving"
    /\ r \in DOMAIN calls[i]
    /\ FinishHeld(i, r)
    /\ events' = Report(i, "result", r)
    /\ UNCHANGED << coordinator, holder, commands, worker, kills, contexts, activity >>

\* backend.step raises.
Fail(i) ==
    /\ worker[i] = "serving"
    /\ calls[i] # << >>
    /\ worker' = [worker EXCEPT ![i] = "failing"]
    /\ commands' = Deaf(i)
    /\ UNCHANGED << coordinator, holder, events, calls, kills, database >>

\* controller.fail_all, and backend.close after the last event.
Abandon(i, r) ==
    /\ worker[i] \in {"failing", "closing"}
    /\ r \in DOMAIN calls[i]
    /\ FinishHeld(i, r)
    /\ UNCHANGED << coordinator, holder, commands, events, worker, kills, contexts, activity >>

ReportFatal(i) ==
    /\ worker[i] = "failing"
    /\ calls[i] = << >>
    /\ worker' = [worker EXCEPT ![i] = "closing"]
    /\ events' = Report(i, "fatal", None)
    /\ UNCHANGED << coordinator, holder, commands, calls, kills, database >>

Exit(i) ==
    /\ worker[i] = "closing"
    /\ calls[i] = << >>
    /\ worker' = [worker EXCEPT ![i] = "exited"]
    /\ UNCHANGED << coordinator, holder, commands, events, calls, kills, database >>

\* The process dies where it stands, with the events it had not flushed.
Dies(i) ==
    /\ worker[i] # "exited"
    /\ worker' = [worker EXCEPT ![i] = "exited"]
    /\ calls' = [calls EXCEPT ![i] = << >>]
    /\ commands' = Deaf(i)
    /\ \E n \in 0..Len(events[i]) : events' = [events EXCEPT ![i] = SubSeq(@, 1, n)]
    /\ UNCHANGED << coordinator, holder, database >>

Kill(i) == kills < MaxKills /\ Dies(i) /\ kills' = kills + 1

-----------------------------------------------------------------------------
(* _resolve and _fail_replica, by whoever holds the lock. *)

\* Up to the test whether the future is done.
TakeKeepsRow(r, kind) ==
    /\ resolving' = [id |-> r, pid |-> pending[r].pid, engine |-> pending[r].engine,
                     kind |-> kind, done |-> future[r] # "waiting"]
    /\ pending' = Drop(pending, r)
    /\ loads' = [loads EXCEPT ![pending[r].engine] = @ - 1]
    /\ contexts' = contexts \ {r}
    /\ UNCHANGED table
Take(r, kind) ==
    /\ resolving' = [id |-> r, pid |-> pending[r].pid, engine |-> pending[r].engine,
                     kind |-> kind, done |-> future[r] # "waiting"]
    /\ pending' = Drop(pending, r)
    /\ loads' = [loads EXCEPT ![pending[r].engine] = @ - 1]
    /\ contexts' = contexts \ {r}
    /\ table' = IF kind = "result" THEN table ELSE Release(table, pending[r].pid, r)

Resolve(id, kind) ==
    IF id \in DOMAIN rpc
    THEN /\ answer' = [answer EXCEPT ![id] = IF kind = "tokenized" THEN "tokens" ELSE "error"]
         /\ rpc' = Drop(rpc, id)
         /\ UNCHANGED << pending, loads, contexts, table, resolving >>
    ELSE /\ IF id \in DOMAIN pending THEN Take(id, kind)
            ELSE UNCHANGED << pending, loads, contexts, table, resolving >>
         /\ UNCHANGED << answer, rpc >>

\* The rest: a future that was cancelled since the test raises
\* InvalidStateError, which is swallowed; the `finally' always runs.
Outcome(kind) == CASE kind = "result" -> "result"
                   [] kind = "cancelled" -> "cancelled"
                   [] OTHER -> "error"

SettleResults(r) ==
    IF ~resolving.done /\ future[r] = "waiting" /\ resolving.kind = "result"
    THEN "result" ELSE future[r]
SettleAsTested(r) == IF ~resolving.done THEN Outcome(resolving.kind) ELSE future[r]
SettleAs(r) ==
    IF ~resolving.done /\ future[r] = "waiting" THEN Outcome(resolving.kind) ELSE future[r]

Settle ==
    /\ resolving # None
    /\ LET r == resolving.id
           cancels == ~resolving.done /\ future[r] = "waiting" /\ resolving.kind = "cancelled"
       IN  /\ future' = [future EXCEPT ![r] = SettleAs(r)]
           /\ commands' = IF cancels THEN Send(resolving.engine, "cancel", r, resolving.pid)
                          ELSE commands
           /\ activity' = activity \ {r}
    /\ Cleanup(table, sessions, resolving.pid, DOMAIN pending)
    /\ resolving' = None
    /\ UNCHANGED << pending, loads, failed, ready, closed, rpc, answer, failing, listener,
                    stopping, events, worker, calls, kills, contexts >>

\* _fail_replica of those of S that have not failed yet.
FailKeepsCalls(S) ==
    LET new == S \ failed
        asked == {q \in DOMAIN rpc : rpc[q] \in new}
    IN  /\ failed' = failed \cup new
        /\ ready' = [i \in Replica |-> IF i \in new /\ ready[i] = "waiting" THEN "error"
                                       ELSE ready[i]]
        /\ failing' = {}
        /\ answer' = [q \in Query |-> IF q \in asked THEN "error" ELSE answer[q]]
        /\ rpc' = Restrict(rpc, DOMAIN rpc \ asked)
FailReplicas(S) ==
    LET new == S \ failed
        asked == {q \in DOMAIN rpc : rpc[q] \in new}
    IN  /\ failed' = failed \cup new
        /\ ready' = [i \in Replica |-> IF i \in new /\ ready[i] = "waiting" THEN "error"
                                       ELSE ready[i]]
        /\ failing' = PendingOn(new)
        /\ answer' = [q \in Query |-> IF q \in asked THEN "error" ELSE answer[q]]
        /\ rpc' = Restrict(rpc, DOMAIN rpc \ asked)

\* The loop of _fail_replica.
ResolveFailed(r) ==
    /\ r \in failing
    /\ resolving = None
    /\ failing' = failing \ {r}
    /\ Take(r, "error")
    /\ UNCHANGED << sessions, future, failed, ready, closed, rpc, answer, listener, stopping,
                    processes, activity >>

-----------------------------------------------------------------------------
(* The listener thread. *)

Listen(i) ==
    /\ LockFree /\ ~closed
    /\ listener = "get"
    /\ events[i] # << >>
    /\ events' = [events EXCEPT ![i] = Tail(@)]
    /\ LET e == Head(events[i])
       IN  \/ /\ e.kind = "ready"
              /\ ready' = [ready EXCEPT ![i] = IF @ = "waiting" THEN "ok" ELSE @]
              /\ UNCHANGED << pending, loads, failed, rpc, answer, failing, resolving,
                              table, contexts >>
           \/ /\ e.kind \in {"fatal", "stopped"}
              /\ FailReplicas({i})
              /\ UNCHANGED << pending, loads, resolving, table, contexts >>
           \/ /\ e.kind \notin {"ready", "fatal", "stopped"}
              /\ Resolve(e.id, e.kind)
              /\ UNCHANGED << failed, ready, failing >>
    /\ UNCHANGED << sessions, future, closed, listener, stopping, commands, worker, calls,
                    kills, activity >>

\* events.get times out; the exit codes are read later, under the lock.
ListenTimeout ==
    /\ listener = "get" /\ ~closed
    /\ \A i \in Replica : events[i] = << >>
    /\ listener' = "check"
    /\ UNCHANGED << coordinator, failing, resolving, stopping, processes, database >>

ListenExited ==
    /\ LockFree
    /\ listener = "check"
    /\ FailReplicas({i \in Replica : worker[i] = "exited"})
    /\ listener' = "get"
    /\ UNCHANGED << sessions, pending, future, loads, closed, resolving, stopping,
                    processes, database >>

-----------------------------------------------------------------------------
(* shutdown. *)

Shutdown ==
    /\ Closing
    /\ LockFree /\ ~closed
    /\ stopping = "no"
    /\ stopping' = "join"
    /\ commands' = [i \in Replica |-> Send(i, "shutdown", None, None)[i]]
    /\ UNCHANGED << coordinator, failing, resolving, listener, events, worker, calls, kills,
                    database >>

\* join timed out.
Terminate(i) ==
    /\ stopping = "join"
    /\ Dies(i)
    /\ UNCHANGED kills

ShutdownFail ==
    /\ LockFree
    /\ stopping = "join"
    /\ \A i \in Replica : worker[i] = "exited"
    /\ stopping' = "final"
    /\ FailReplicas(Replica)
    /\ UNCHANGED << sessions, pending, future, loads, closed, resolving, listener,
                    processes, database >>

Released == failing = {} /\ resolving = None

ShutdownSession(p) ==
    /\ stopping = "final" /\ Released
    /\ p \in DOMAIN sessions
    /\ Cleanup(table, [sessions EXCEPT ![p].closing = TRUE], p, DOMAIN pending)
    /\ UNCHANGED << pending, future, loads, failed, ready, closed, rpc, answer,
                    holder, processes, contexts, activity >>

ShutdownClose ==
    /\ stopping = "final" /\ Released
    /\ \A p \in DOMAIN sessions : sessions[p].closing
    /\ closed' = TRUE
    /\ stopping' = "done"
    /\ UNCHANGED << sessions, pending, future, loads, failed, ready, rpc, answer,
                    failing, resolving, listener, processes, database >>

-----------------------------------------------------------------------------

Client ==
    \/ \E p \in Pid : StartSession(p) \/ EndSession(p)
    \/ \E p \in Pid, r \in Rid, long \in BOOLEAN : Submit(p, r, long)
    \/ \E r \in Rid : CancelFuture(r)
    \/ \E q \in Query : Tokenize(q) \/ TokenizeTimeout(q)
    \/ Shutdown

Worker(i) ==
    \/ Load(i) \/ Serve(i) \/ Fail(i) \/ ReportFatal(i) \/ Exit(i)
    \/ \E r \in Rid : Complete(i, r) \/ Abandon(i, r)

Locked == Settle \/ \E r \in Rid : ResolveFailed(r)
Listener == (\E i \in Replica : Listen(i)) \/ ListenTimeout \/ ListenExited
Closer ==
    \/ ShutdownFail \/ ShutdownClose
    \/ \E p \in Pid : ShutdownSession(p)

Next ==
    \/ Client
    \/ \E i \in Replica : Worker(i) \/ Kill(i) \/ Terminate(i)
    \/ Locked \/ Listener \/ Closer

\* A process's thread that can go on does; nobody has to submit, cancel, end or
\* shut down, no worker has to fail, and a join need not time out unless its
\* worker hangs.
Fairness ==
    /\ WF_vars(Locked) /\ WF_vars(Closer)
    /\ WF_vars(ListenTimeout) /\ WF_vars(ListenExited)
    /\ \A i \in Replica :
           /\ WF_vars(Listen(i)) /\ WF_vars(Load(i)) /\ WF_vars(Serve(i))
           /\ WF_vars(ReportFatal(i)) /\ WF_vars(Exit(i)) /\ WF_vars(Terminate(i))
           /\ \A r \in Rid : WF_vars(Complete(i, r)) /\ WF_vars(Abandon(i, r))

Spec == Init /\ [][Next]_vars
FairSpec == Spec /\ Fairness

-----------------------------------------------------------------------------
(* Properties. *)

InHand == IF resolving = None THEN {} ELSE {resolving.id}

\* No row of the database outlives the call it is for, whatever died, failed or
\* was cancelled: request rows and contexts belong to unresolved calls, and
\* activity rows are exactly theirs.
RowsBelongToCalls ==
    /\ DOMAIN table.requests \subseteq DOMAIN pending
    /\ contexts \subseteq DOMAIN pending
    /\ activity = DOMAIN pending \cup InHand

\* end_session and _cleanup_session: a session has its program row, open for
\* admission, until its last call is resolved; then both go together.
SessionsArePrograms ==
    /\ DOMAIN sessions = DOMAIN table.programs
    /\ \A p \in DOMAIN table.programs : ~table.programs[p].closing
    /\ \A r \in DOMAIN pending : pending[r].pid \in DOMAIN sessions
    /\ \A p \in DOMAIN sessions : sessions[p].closing /\ LockFree => PendingOf(p) # {}

\* Coordinator and replicas agree on who runs what, through failures and crossing
\* cancellations: the load of a replica, by which calls are placed, counts its unresolved
\* calls, a failed one has only those that _fail_replica is resolving, and a call that a
\* replica in service still runs is unresolved and has its row: a cancellation completes
\* only when the worker acknowledged it.
ReplicasAgree ==
    /\ \A i \in Replica : loads[i] = Cardinality(PendingOn({i}))
    /\ PendingOn(failed) = failing
    /\ \A i \in Healthy : \A r \in DOMAIN calls[i] :
        r \in DOMAIN pending /\ pending[r].engine = i /\ r \in RowsOf(table, calls[i][r])

\* Every future a caller waits for is one the coordinator still has to settle.
NoFutureForgotten ==
    /\ \A r \in Rid : future[r] = "waiting" => r \in DOMAIN pending \cup InHand
    /\ \A q \in Query : answer[q] = "waiting" => q \in DOMAIN rpc /\ rpc[q] \in Healthy

\* shutdown leaves nothing behind: no unsettled future, no session, no row.
ClosedIsClean ==
    closed =>
        /\ pending = << >> /\ sessions = << >> /\ table = EmptyTable
        /\ contexts = {} /\ activity = {}
        /\ \A r \in Rid : future[r] # "waiting"
        /\ \A i \in Replica : ready[i] # "waiting" /\ worker[i] = "exited"

\* The engine implements CallService: replicas may fail and processes die at
\* any point, a cancellation may cross the result, late events may arrive, and
\* still each future is settled once and each session ends with its last call.
UnresolvedOwner(r) ==
    IF r \in DOMAIN pending THEN {pending[r].pid}
    ELSE IF r \in InHand THEN {resolving.pid} ELSE {}

Service == INSTANCE CallService WITH
    open <- {p \in DOMAIN sessions : ~sessions[p].closing},
    draining <- {p \in DOMAIN sessions : sessions[p].closing},
    owner <- [r \in Rid |-> UnresolvedOwner(r)]

ServiceSpec == Service!Spec

\* The long calls of a session meet the KV that earlier ones left: over the whole life of
\* the session, resolved calls included, none went to a replica known to have failed, and
\* each went where any earlier one had gone that was still in service.
LongCallsTogether ==
    \A p \in DOMAIN sessions : \A x, y \in sessions[p].placed :
        /\ x.at \notin x.failed
        /\ (x.failed \subseteq y.failed /\ x.at \notin y.failed) => y.at = x.at

\* Every submitted call, and every cancellation, is eventually acknowledged.
CallsResolve == \A r \in Rid : r \in DOMAIN pending ~> r \notin DOMAIN pending

\* An ended session eventually leaves the table.
EndedSessionsLeave ==
    \A p \in Pid : (p \in DOMAIN sessions /\ sessions[p].closing) ~> p \notin DOMAIN table.programs

=============================================================================
