# A TLA+ verification of Autellix

Autellix schedules the LLM calls of *programs* (agents, chains, searches) by the
service their program has received.  A coordinator process gives sessions and
futures to its callers and spreads calls over replicas; each replica is a worker
process around vLLM 0.6.1 or SGLang whose native scheduler is overridden; all
processes share one SQLite table of programs.  This directory holds TLA+ models
of that code, the TLC runs that check them, and proofs of what matters most.

## 1. Inventory

| Part | State | Operations | What makes it correct |
| --- | --- | --- | --- |
| Program table, `autellix/runtime/policy.py` `ProgramTable` | rows of programs (service, wait, active, closing) and of admitted requests; contexts, activity, results | `open`, `admit`, `finish`, `end`, each one `BEGIN IMMEDIATE` transaction; called by every engine process and the coordinator | counts equal rows, ended programs drain, service is the critical path (ATLAS) or the sum |
| Runtime scheduler, `policy.py` `RuntimeScheduler` | `calls`, `counter` of one engine process | `admit`, `refresh` (demotion, promotion), `begin`, `executed`, `finish` | time charged once, strict priority order, FIFO in a queue, lifetime totals |
| Scheduling window, `runtime/window.py` | cohort, active, reserve, remaining decode steps | `select`, `executed`, `drop_reserve`, `retain_prefix` | the plan is taken by priority and only shrinks until the boundary |
| vLLM compat scheduler, `integrations/vllm/scheduler.py` | vLLM's queues, the batch, flags | `_schedule`, called by `LLMEngine.step` | only active calls decode, swap-in and swap-out are separate steps |
| vLLM paper plan, `integrations/vllm/paper.py` | prepared, reserved slots | `next_step` | no lower priority past a call that does not fit; KV reserved once per window |
| vLLM backend, `integrations/vllm/backend.py` | controller and native engine | `add`, `step`, `cancel`, `close`, measured execution | every admitted call is finished once |
| SGLang scheduler hooks, `integrations/sglang/scheduler.py`, `reserve.py`, `pressure.py`, `swap.py` | reserves, host copies, locks on the radix cache, window | `prefill_plan`, `HostKV`, `release_reserves`, `make_decode_room`, `abort`, `check_memory` | a lock is given back once, KV saved before it is unlocked, nothing computed twice, priority |
| SGLang backend, `integrations/sglang/backend.py` | generation tasks, requests to the scheduler process | `add`, `step`, `cancel`, `close` | a result comes after its accounting, a cancelled call is gone |
| Coordinator, `runtime/engine.py` `InferenceEngine` | sessions, pending, rpc, loads, failed, ready, closed, futures | `start_session`, `end_session`, `submit`, `tokenize`, `Future.cancel`, `_resolve`, `_fail_replica`, `_listen`, `shutdown` | futures settled once, nothing left behind, loads exact |
| Worker, `engine.py` `_worker` | its backend | command loop, events | answers every command or fails visibly |
| HTTP server, `runtime/server.py` | `requests` | chat, cancel, sessions, streaming | an id is reserved exactly while its call is alive |
| Client, `runtime/client.py` | automatic session | lazy open, close, `session()` | one session opened, closed by its owner |
| KV swap, `runtime/swap.py` | none | gather, scatter | synchronous, no protocol |
| Simulator, `autellix/core/*` | engines, queues, process table | tick: release, schedule, execute | every call finishes; queue discipline |
| Simulated frontend, `autellix/frontend/*` | sessions over a simulator | submit, tick, drain | dynamic and static traces agree |
| Experiments, benchmark, CLI | none | drivers | not modelled |

How they interact.  The coordinator sends `add`, `cancel`, `tokenize` and
`shutdown` down one FIFO queue per worker and hears `ready`, `result`, `error`,
`cancelled`, `tokenized`, `stopped` and `fatal` on one queue they share (order
is kept per worker).  Both sides run transactions on the table, so one request
can be finished by either.  Client threads, the listener thread and `shutdown`
share the coordinator's state under one reentrant lock; `Future.cancel` and its
callback, and of course the workers, do not take it.  Inside a replica one
thread alternates between commands and steps.

The hard parts are therefore: finishes of one request racing in two processes;
cancellation crossing a result; a worker that dies with events in its buffer;
sessions ended with calls in flight; shutdown with clients still active; and,
within a replica, decisions frozen for several steps while calls come and go.
`PROJECT.json` lists the hazards by line with the properties that watch them.

## 2. Modules

| Module | Models | Uses |
| --- | --- | --- |
| `ProgramTable` | the table's transactions, as functions of its value; sorting and filtering of lists | |
| `SharedTable`, `MCSharedTable` | engine processes, coordinator and crashes on the table | `ProgramTable` |
| `RuntimeScheduler` | the methods of `RuntimeScheduler`, as functions of `calls` | `ProgramTable` |
| `SchedulingWindow` | the window, as functions of its state | `RuntimeScheduler` |
| `CompatScheduler`, `MCCompatScheduler` | one vLLM replica under the windowed compat scheduler, and another process on the table | `SchedulingWindow` |
| `PaperPlan`, `MCPaperPlan` | one vLLM replica under the paper's plan, with its KV blocks | `SchedulingWindow` |
| `SGLangScheduler`, `MCSGLangScheduler` | the hooks in one SGLang scheduler process, with its radix cache and host copies | `SchedulingWindow` |
| `SGLangBackend`, `MCSGLangBackend` | coordinator, worker and scheduler process of an SGLang replica, on the table | `ProgramTable` |
| `CallService` | abstract: what clients are promised | |
| `InferenceEngine`, `MCInferenceEngine` | coordinator, workers, queues, crashes, shutdown | `ProgramTable`, refines `CallService` |
| `HttpServer` | the chat handler, its submission thread, its stream, cancellation, and the engine as it sees it | |
| `InferenceClient`, `MCInferenceClient` | the client's automatic session, on the service | `HttpServer` |
| `SimScheduler` | the schedulers of the simulator, as functions of an engine | |
| `SimulatorSteps` | the parts of a tick, as functions of the simulation | `SimScheduler` |
| `Simulator`, `MCSimulator` | the simulation as a state machine | `SimulatorSteps` |
| `FrontendService` | the methods of `AutellixService`, as functions of its value | `SimulatorSteps` |
| `Frontend`, `MCFrontend` | the client's process and the worker process that repeats its commands | `FrontendService` |
| `Common_proofs` | lemmas about the table, sorted and filtered lists, windows, and sums over sets | `SchedulingWindow` |
| `SharedTable_proofs`, `CompatScheduler_proofs`, `SGLangBackend_proofs`, `InferenceClient_proofs` | the inductive invariants, and what follows | their subject, and `Common_proofs` |
| `PaperPlan_proofs` | the inductive invariant of the paper plan, through the fold of its loop | `PaperPlan`, `Common_proofs` |
| `SGLangScheduler_proofs` | the inductive invariant of the hooks, through every fold of a pass | `SGLangScheduler`, `Common_proofs` |
| `InferenceEngine_proofs` | the inductive invariant of the coordinator, what follows, and the refinement of `CallService`, step by step | `InferenceEngine`, `Common_proofs` |

**Table.**  SQLite serialises the transactions, so each is an operator from a
table to a table (`OpenIn`, `AdmitTo`, `FinishIn`, `EndIn`) with its failure as
a predicate (`CanOpen`, `CanAdmit`).  A handler that runs several transactions
is several applications, in one action where nothing can come between them that
matters and in several where it can.  Times are whole units.  `SharedTable` adds
`held`, the calls the engine processes hold, and the auxiliary `past`, from which
`LongestPath` computes the reference value that ATLAS should have recorded.

**Scheduler.**  `RuntimeScheduler` follows `policy.py` method by method: queues
from 0, `order` drawn from `counter`, and one `refresh` that draws numbers in
the current order for all calls at once (`Draws`, `UpTo`), so that the sequential
loop becomes a function.  The clock is `now`; `begin` and `executed` are separate
steps with the model's execution in between.

**Compat replica.**  `Schedule` is one call of `_schedule`: select from the
window, then a swap-out barrier, or a swap-in barrier for reserves, or the native
batch.  vLLM itself is external: which eligible calls it takes and which running
ones it preempts are free choices.  `Add` and `Cancel` happen between steps, as
the worker loop guarantees.  `Elsewhere` is a call of another engine process.
`isPrefill` is reset when the batch ends because the code sets it again before
it reads it.

**Coordinator.**  Variables carry the code's names.  A handler under the lock is
one action except where something outside the lock can interleave: resolving a
call is `Take` (up to `future.done()`) and `Settle` (the rest), so `CancelFuture`
can fall between; `_fail_replica` is `FailReplicas` and one `ResolveFailed` per
call; `failing`, `resolving` and `stopping = "final"` say who holds the lock.
`ListenTimeout` and `ListenExited` are apart because workers move in between.
A worker reads commands one by one (`Serve`), may finish a call at any time
(`Complete`), may raise (`Fail`, `Abandon`, `ReportFatal`), exits, or is killed;
`Dies` drops an unflushed suffix of its events and its held calls, but not the
rows it wrote.  Commands to a worker that will not read again are dropped.

`ServeAdd` and `ServeCancel` answer with an error where the backend raises, the latter
after the call was let go.  The only history kept is `placed`, in each session: where its
long calls went and which replicas had failed by then; it is read by `LongCallsTogether`
only.

Left out of `InferenceEngine`: failures of the database and of the trace file in the
middle of a handler, and an abort that raises before the backend let its call go; progress events (they fill a bounded queue of the
future); service values (the subject of `SharedTable`); the second, encoded row
of SGLang (the subject of `SGLangBackend`); duplicate call ids, which are refused without effect; corruption of a
queue by a process killed while writing to it.  `terminate()` is taken to be
effective.

**Paper plan.**  `NextStep` is one call of `next_step`: at a boundary or on a
prepared window it either evicts what is outside the window (a step of its own),
continues the prepared plan (`Continue`), or goes through the cohort (`Loop`).
The loop is a fold over a value that also holds the steps it has decided, so an
early return of the code is a `verdict` of the value, after which nothing more is done.  vLLM's block manager is
external: one block per token, and `can_allocate`, `can_swap_in` and
`can_append_slots` are what it answers for such blocks.  `Run` executes the step
and finishes any calls it decoded; `failed` is the `RuntimeError` that ends the
replica.

**SGLang hooks.**  A pass of SGLang's event loop is `NextBatch` (the window, the
hook `prefill` with `prefill_plan`, and `update_running` with `make_decode_room`)
and `Run` or `CheckMemory`; `Add` and `Abort` come between passes.  A pass works
on a value that carries a `verdict`: a raise sets it and the rest of the pass is
skipped, except the `finally` that gives back the locks of restored branches.
Each call sees its own branch of the radix cache (`cached` tokens, `pins`
locks); sharing of prefixes between calls is left out, and evicted branches go
in any order (`lru`).  Native admission, eviction and the memory check of decode
are external.  Modelled are paper mode, a window and host copies, which is what
`SGLangBackend` configures by default; the branches of compat mode are not.

**SGLang backend.**  Three processes and two paths back: the last output of a
call, and its metrics, which the scheduler process saves after it finished the
call in the table.  A generate task is `new`, `sent`, `polling`, then `result` or
`error`; the asyncio loop runs only in `step` and while `cancel` waits, so task
steps are enabled exactly then.  `CancelTimeout` is the end of the five seconds,
`GiveUp` that of the thousand polls.  `Pass` abstracts what `SGLangScheduler`
does: any of the calls run, any that ran finish.  The coordinator is that of
`InferenceEngine` for one replica that is not killed.

The module shows what the fallback of `cancel` costs.  If the scheduler process
has not read the request after five seconds and the session ends, the program is
gone when the request is admitted: `admit` raises in the scheduler's loop
(`alive` is false).  `CancellationSettles` says that as long as the worker serves this
is the only way to get there; it says nothing of a worker that closes, whose
`cancel` of the remaining calls and whose end of the scheduler process race the last
admissions.  A task may also raise before it sends its request (`Generate`), and
`add` before it makes the task (`Serve`): both are answered by an error for a call that
the scheduler process never sees.  The fallback also leaves the saved metrics of the call in `results`, where nobody
takes them any more.

**HTTP server and client.**  `HttpServer` follows one chat request per caller
through `stage`: its id is reserved, the submission runs in a thread, the handler
waits or streams, and is left by an answer, a disconnect, or a cancellation of
the handler itself while the thread still runs (`CancelHandler`, whose
`RetireLater` hands the thread to a task).  The stream's `Poll` and `Check` are
two steps, because the engine's thread works in between.  Engine and framework
are external: a response whose body is never iterated (`DropResponse`) keeps its
id and its session, and `NothingOrphaned` speaks of requests that are over.
`InferenceClient` adds the client's lock around the creation of the automatic
session and around `close`; an answer of the service may be lost, so that the
client does not learn of a session it created.

**Simulator.**  The code is sequential and deterministic, and the state is one
record `sim`; `Release`, `Schedule` and `Execute` are the three parts of
`_step_once` and the run loop.  What varies is the scenario, an initial value:
policy, balancer, engines, batch, reserve, interval, costs and programs.
`SimScheduler` has the seven policies (FCFS, MLFQ, PLAS, ATLAS, ATLAS-DAG,
round-robin, SRPT) with their queues, demotion, promotion, refill and windows;
`SimulatorSteps` has release with delays and arrivals, both balancers, the
execution model with cache hits, swaps and overheads, and the critical path.
Tokens are counted in units, durations in ticks.  Reports of timelines and
utilization are left out.  `MaxTime` is the simulator's `max_time`, past which `run`
gives up; a call whose parents are not done is due one tick after it.

**Simulated frontend.**  `FrontendService` has the methods of `AutellixService`
over a live simulation, `Frontend` the client's process and, in process mode, the
worker process that repeats its commands from a queue.  Both sides carry a command out
by the same operator, `Handled`, as both processes run the same methods; what
`MirrorAgrees` checks is therefore the replay of one log by a process that runs behind,
across drains and refusals.  It accepts that a command refused in the client's process
kills the worker.  Chat completions (token estimates and answers) are left out.

## 3. Runs

| Run | Question | Bounds |
| --- | --- | --- |
| `shared_table` | do counts, draining and ATLAS service survive races and crashes? | 2 programs, 4 requests, times 0..2: two overlapping calls, one after both, and one of another program or of the next life |
| `compat_scheduler` | accounting, FIFO, window freezing and capacity in one replica | 3 local calls and 1 foreign, capacity 1 and 1 reserve, interval 2, three queues, clock up to 3: enough to demote twice, promote, refill and cross a boundary |
| `engine_sessions` | are sessions, rows and futures reclaimed, and is `CallService` implemented? | 2 programs, 2 calls, 1 replica, 1 kill |
| `engine_replicas` | do coordinator and replicas agree, do long calls meet on a replica in service; has every waiting caller somebody to answer? | 1 program, 2 calls, 1 tokenize call, 2 replicas, 1 kill, no shutdown |
| `engine_liveness` | does everything end? | 1 program, 1 call, 2 replicas, 1 kill, fairness |
| `paper_plan` | does reserved KV last, does priority hold, are transfers alone? | 4 calls with prompts of 1 or 3 tokens and at most 7, a device of 7 slots, capacity 2 and 2 reserves, interval 2, at most 5 tokens per step: a window that does not fit, room made by a lower call, a cut window and a call that gives up the replica all occur |
| `sglang` | locks, host copies, computed tokens, priority, progress | 4 calls with prompts of 1 to 3 tokens and at most 6, a pool of 7, a host budget of 9, capacity 2 and 1 reserve, interval 3: reserves, retraction, restoration, a failed plan, shedding and an exhausted budget all occur |
| `sglang_backend` | is a result accounted for, and does a cancellation settle the call? | 1 program (ended and opened again), 2 calls, a shutdown at any time |
| `server` | does anything survive its request or its client? | 2 callers with one id of their own choice, 2 sessions of the client, texts of one part |
| `simulator` | accounting, service, critical path, window, termination | 7 policies on 1 engine with batches 1 and 2, with and without a reserve, intervals 1 and 2, two execution models; 2 engines with both balancers and the paper's costs; 6 workloads of 5 calls with a fork or join and a chain |
| `frontend` | dynamic against static traces, sessions against the simulation, client against worker | 3 calls of 2 programs, arrivals 0 and 2, 2 sessions opened, clock up to 2 ticks of the callers, 2 commands in the queue |
| `frontend_arrivals` | expected violation, see below | the same, with fixed execution times and without the service's own `run` |

Every named bound (`Rid`, `Seconds`, `MaxTime`, `Foreign`, `MaxKills`, `Closing`,
`MaxLen`, `Prompts`, `MaxText`, `Opened`, `Horizon`, `Backlog`) only cuts off how
often something happens, or whether the engine is ever shut down; each property
has a mutant in `PROJECT.json`, a plausible slip in the code, that the same bounds
are enough to catch.
`CHECK_DEADLOCK FALSE` is set where the system may stop: a closed engine, a
replica whose clock bound is reached, a scheduler process that raised, a simulation
that is over.

**Fairness** (`FairSpec`).  Threads and processes that can go on do: the lock
holder, the listener, the shutting-down thread, and each worker's loop.  A call
that runs completes, since vLLM bounds its output by `max_model_len`.  A join
times out if its worker hangs.  Nothing forces clients to submit, end, cancel or
shut down, nor workers to fail.  `CallsResolve` then needs the exit codes: when a
killed worker loses its last events, only `ListenExited` finds its calls.  The
simulator's `Spec` has weak fairness of its next step: `run()` is a loop that goes
on until every call finished, and `AllFinish` says that it does.

**Finding.**  `frontend_arrivals` shows a disagreement of code and documentation.
The docstring of `AutellixService.tick` (`frontend/service.py:315`) promises that
replaying a trace with the submit times that calls received gives the same result.
The clock of a live simulation starts at the arrival of the first program that
submits, and is only ever moved forward (`service.py:308`, `simulator.py:159`); a
call that another program, which arrived earlier, submits then starts later than
in the static trace.  `frontend` checks that the promise holds as long as the clock
of the service and that of the simulation agree at every submission (`inStep`).

## 4. Proofs

`SharedTable_proofs` proves, for any sets of programs and requests (the set of
rows is finite because each admission adds one) and every policy, type
correctness, `ActiveCountsRows`, `EndedProgramDrains` and `EndedStaysEnded`.  The
invariant is `TypeOK /\ TableInv(table)`: counts alone are not inductive, because
`finish` deletes a program by its count, so it must be known that the count
speaks of rows (`ActiveIsRows`), that rows name programs that exist, and that no
drained row was left (`NoDrainedRow`).  `Common_proofs` shows for each
transaction that it keeps `TableInv`; `DropDrainedRestoresInv` is the lemma where
the deletion is justified.  The only assumptions are `PolicyAssumption` and
`SecondsAssumption`.

Under ATLAS, `CriticalPathIsService` proves `ServiceIsCriticalPath`.  The reference
`LongestPath` is a recursive function over the calls of a program, which exists and
is unique only because a call follows calls that were there before it.  That is made
part of the invariant instead of an induction: `Determined(h)` says that one function
and no other satisfies the recursion over history `h`, and `HistoryGrows` carries it
to a history with one more call.  `PathInv` adds what a held call inherited (the
longest chain among the calls it was admitted after, though chains have grown since),
and that it speaks only of calls that still have their row: a holder that was
reclaimed, or outlived its program, charges nothing.

`CompatScheduler_proofs` proves `NoTimeChargedTwice` and `LifetimeStatisticsKept`
for any set of calls, queues, quanta, policy and number of identifiers.  What a
call has waited and run is compared with its last update, not with the clock, so
`AccountInv` adds that the last update is not in the future and that the time of
admission is known; that no identifier is used twice keeps `Add` from replacing a
call.  One lemma per method (`_wait_until`, demotion, promotion, renumbering,
`executed`) shows that it keeps the accounting of one call (`CallOK`) and takes
nothing from it (`Grows`); the actions compose them.

Its second half proves `DecodeWithinCapacity`, `FifoWithinQueue`,
`WindowStartsByPriority` and `PlanFrozen` from `SchedulerInv`: calls have distinct
keys below the counter (`Numbered`), the engine's queues hold exactly the
controller's calls, and the window is counted down from `Interval`.  A refresh
numbers the calls it moves by a sum over the calls before them; `DrawsCounted` gives
it in closed form, the number of those that are demoted plus the number of those that
are promoted, and shows by a least counterexample that nothing else solves the
library's recursion.  From it follow the order of calls that move at once
(`RefreshOrders`) and that their keys stay distinct.  Sorting is defined by rank
(`Ranked`), and filtering a list is sorting the positions that stay (`Among`), so
`RankedSorts` can show that a cohort holds the first calls and each of them once, and
`AmongView` that what is left of it keeps its order.

`PaperPlan_proofs` proves all three properties of the run `paper_plan`, `ReserveLasts`,
`NoneRunsPast` and `FlushBeforeReuse`, for any calls, prompts, device, batch size and
window.  A step is a fold over the cohort of a value that may stop, return or raise on
the way.  `Start` is what the loop may rely on, `Going` holds after it has passed some
calls, `Ended` once its verdict has fallen; `AdmitIs` shows that one call leads from the
first to the first or the second, on each of its branches (reserve, bring in, ignore,
make room, stop), and `LoopIs` carries it along the fold: `LoopSteps` lists the values
that the fold goes through, and there is no first one that breaks it.  `Outcome` is what any step leaves, the
eviction of calls outside the window and the unchecked continuation included.
Across steps `Inv` holds: what is reserved is on the device with slots for the rest of the
window (`ReservedInv`, where a call whose prompt is not computed needs one more);
only the batch that runs may have prompts to compute (`BatchInv`); and the window keeps
the calls of its plan in their order, none without those before it (`OrderInv`), which is
what turns the order of one batch into the order of all batches until the boundary.
The prepared continuation appends without asking, and is safe because `ReservedInv`
says its slots are there already.  Sums of KV slots are folds over sets;
`TotalIs` shows that such a fold is the number of pairs of an element and one of its
units, a count, from which its arithmetic follows (`TotalSplit`, `TotalOne`).

`SGLangScheduler_proofs` proves all four properties of the run `sglang`, `NothingLeaks`,
`NothingRecomputed`, `WorkGoesOn` and `NoneRunsPast`, for any calls, prompts, pool, host
budget, batch, reserves and window.  `WorkGoesOn` does not speak of the raises that the
code makes on purpose, for capacity and for the host's budget.  They cannot be proved apart: an allocation succeeds
because every lock is owed by an owner, an owner gives its lock back once because a call
has one place, and a copy is there because what was computed was saved before it was
evicted.  Between passes `IInv` holds: `Books` says where each call is (`Parted`), that a
branch is locked once for each owner (`Locked`), that cached and private tokens fit the
pool (`Pool`), that the host budget is the sum of the copies (`Copies`), and what of a call is
computed and where it is (`Computes`, `Remembered`, `Finds`, `Filled`); `Turn` says what
the window is good for in each phase of the loop, and in particular that a raise leaves
only the loop's start.  Within a pass `Sound(x, held)` holds of the value the hooks work
on, where `held` are the branches that the current hook has locked for itself and its
`finally` gives back.  It holds after each element of each loop, and also after a
raise, which is why `NothingLeaks` survives a plan that failed in the middle.  A loop is a
fold over a set or a list; `FoldVisits` lists the values it goes through, one element
at a time, and one lemma per loop shows that no element breaks `Sound` and what the
element gains.  `Starting`, `BatchedSound` and `Outcome` are what the window, the choice
of the batch and the making of room for decoding hand on to each other.
The order of `NoneRunsPast` comes from the list that is sorted once per boundary:
`SelectOpens` and `Windowed` say what is left of it.

That proof showed where the order ends.  `_autellix_reserve` has as many places as the
window has reserves (`integrations/sglang/scheduler.py:145`).  With more than one, the
places may still be held by reserves of the last window that are to run now, and
a reserve of the new window that ran is then swapped to the host, although a call after it
runs.  `NoneRunsPast` names this case (`Parked`); with at most one reserve, and the
default is one, it does not exist.

`InferenceEngine_proofs` proves `EngineInvariant`, and from it every state
invariant the engine runs check (`RowsBelongToCalls`, `SessionsArePrograms`,
`ReplicasAgree`, `NoFutureForgotten`, `ClosedIsClean`, `LongCallsTogether`), for any
number of replicas, programs, calls and deaths.  None of the properties is inductive, because each speaks of the coordinator while a
replica acts on what is still in a queue.  `EngineInv` therefore follows a call
through the queues.  `OneReplica`: a request is known at one replica only, which
takes the uniqueness of ids (`submit` uses an id whose future is "none").
`Dispatch`: the `add` of a call is the first command about it, and while it waits
the call is pending and nobody behind knows it, so a `cancel` never overtakes.
`Answered`: what a worker says of a call it says after it let the call and its row
go.  `Running` and `Rows`: a row outlives its call only in a worker that has
exited, and then the call is still pending, so that `_fail_replica` removes it.
`Phases` gives what the last steps of a worker and of `shutdown` rest on: no
command waits for a worker past its loop, a failed replica never comes back.
`LongCallsTogether` is about the placements of a whole session, of which the code keeps
the last only: `Remembers` says that the session's `engine` is the replica of every long
call of it whose replica is still in service, and that what had failed at a placement is
failed now (`FailedStays`).
The proof has a lemma per action, and lemmas for what putting, getting and a
death do to a queue.  That the loop of `_fail_replica` ends with nobody left, and
that a least load exists, use finiteness and the minimum of a set of numbers.

It also proves the refinement, `Spec => ServiceSpec`: under the mapping
`Service` a step of the engine is `Start`, `End`, `Submit`, `Cancel`, `Resolve` or
`Close` of the service, or leaves what clients see unchanged.  A call has an owner
until its future is set, so `Take` is invisible and `Settle` is `Resolve`.  Three
promises of the service are then theorems about the engine: an ended session is
kept exactly for its unresolved calls (`SessionsDrain`), a closed engine has nobody
waiting (`ClosedIsDone`), and futures settle once (`OutcomesAreFinal`).  The first
needs the refinement: the call in the lock holder's hand is in no queue and no row, and
only the service's steps, read off the engine's by `ServiceSteps`, say its session stays.

`SGLangBackend_proofs` proves `ResultIsAccounted` and `CancellationSettles` for any
programs and calls.  `BackendInv` follows a call through coordinator, worker and
scheduler process.  `Freshness` and `Progress` say how far it is; `Accounting` says
that while nobody gave the call up, its row waits for the accounting, so metrics
that a task finds are those of a call that was charged; `Cancelling` that a call
reported cancelled is gone for good, or that its abort is behind it in the queue;
`Hearing` and `Admission` that while the worker serves and no wait ran out, a
session outlives its calls and no admission raises.

`InferenceClient_proofs` proves all four properties of the run `server`, for any
callers, ids, sessions and length of text.  `Holders` and `Threading` say who owns
an id, a session and a submission thread in each stage of a request: what
`NothingOrphaned` says of a finished request depends on what it held before.
`Delivery` relates the text produced, queued and sent, since completeness of a
stream rests on the final progress preceding the result.  `Locking` and `Automatic`
say what the thread inside the client's lock may still rely on after its request.

Assumptions.  `PolicyAssumption`, `ConfigAssumption`, `WindowAssumption` and
`ReplicaAssumption` are the checks the constructors make (a finite, nonempty range
of replicas); `SecondsAssumption` and `TextAssumption` say that durations and
lengths are natural numbers; `QueryAssumption` says that tokenize calls and
inference calls, which both draw fresh uuids, share none; `DeviceAssumption` says that
a prompt is not empty and fits into a batch, which vLLM checks when it takes a call;
`PoolAssumption` that amounts of KV are natural numbers and an SGLang prompt is not empty; `NullAssumption`,
`NoneAssumption` and `SessionAssumption` keep Python's `None` and the automatic
sessions apart from the ids of callers.  The runs' instances satisfy all of them.
The bounds on kills, times and text are not assumed to have any particular value.
Each inductive invariant was checked by TLC on the instances of the runs before it
was proved.

Only model-checked:

- liveness (`CallsResolve`, `EndedSessionsLeave`, `AllFinish`): out of the prover's reach;
- simulator and frontend: recursive operators (`ToEnd`) and folds over scenarios.

## 5. Not modelled, and what is left

1. The compat branches of the SGLang hooks and the multi-step variant of the vLLM
   scheduler without a window: they share the operators of the modelled branches
   and differ in which native batch they leave to the engine.
2. Prefix sharing between calls in the radix cache, which would need token
   sequences; the models treat a call's branch as its own.

Not planned: experiments, benchmark and CLI (drivers and reports), `swap.py`
(tensor copies) and the vLLM executor that installs it, engine construction, the
observe-only baselines, the read-only routes of the server and the parsing and
formatting of chat answers on both sides, the client's guard against forks.
