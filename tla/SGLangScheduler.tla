--------------------------- MODULE SGLangScheduler --------------------------
(***************************************************************************)
(* The hooks installed in the scheduler of one SGLang replica              *)
(* (integrations/sglang: scheduler.py, reserve.py, pressure.py, swap.py),  *)
(* in paper mode and with the window and the host copies that the backend  *)
(* always configures.  One pass of SGLang's event loop receives messages,  *)
(* plans a batch, and executes it, or checks its memory when it is idle.   *)
(*                                                                         *)
(* KV is counted in tokens.  Of the radix cache a call sees its own        *)
(* branch: `cached' tokens of it, which the locks on it keep from being    *)
(* evicted.  What a finished call leaves in the cache counts as free.      *)
(***************************************************************************)
EXTENDS SchedulingWindow

CONSTANTS
    Slots,      \* bound: tokens the KV pool holds
    HostLimit,  \* HostKV.limit_bytes, in tokens
    Prompts,    \* bound: lengths of prompts
    MaxLen      \* bound: tokens after which a call is finished

\* Amounts of KV are whole tokens, and no prompt is empty.
ASSUME PoolAssumption ==
    /\ Slots \in Nat /\ HostLimit \in Nat /\ MaxLen \in Nat
    /\ Prompts \subseteq Nat \ {0}

VARIABLES
    order,      \* the calls of RuntimeScheduler, highest priority first
    window,     \* _autellix_window
    waiting,    \* waiting_queue, whose order the hooks overwrite
    batch,      \* running_batch.reqs, and what has been merged into it
    tok,        \* call -> its prompt and output tokens
    kv,         \* call -> KV tokens on the device
    cached,     \* call -> those that are in the radix cache
    pins,       \* call -> locks on its branch of the radix cache
    reserve,    \* _autellix_reserve
    host,       \* HostKV.saved: call -> tokens
    hostUsed,   \* HostKV.used_bytes
    admitted,   \* the prefill batch the plan returned
    extend,     \* call of it -> tokens that its prefill computes
    began,      \* auxiliary: the calls that were executed
    phase,      \* loop, run or idle
    verdict     \* how the scheduler process failed, or "go"

vars == << order, window, waiting, batch, tok, kv, cached, pins, reserve, host, hostUsed,
           admitted, extend, began, phase, verdict >>

MaxRunning == Capacity + Over       \* max_running_requests, as SGLangBackend raises it

Init ==
    /\ order = << >> /\ window = EmptyWindow
    /\ waiting = {} /\ batch = {} /\ admitted = {} /\ reserve = {}
    /\ tok = << >> /\ kv = << >> /\ cached = << >> /\ pins = << >>
    /\ host = << >> /\ hostUsed = 0 /\ extend = << >> /\ began = {}
    /\ phase = "loop" /\ verdict = "go"

Keyed(seq) == [r \in Range(seq) |-> [queue |-> 0, order |-> CHOOSE i \in DOMAIN seq : seq[i] = r]]
OrderIn(seq, r) == CHOOSE i \in DOMAIN seq : seq[i] = r

-----------------------------------------------------------------------------
(* A pass works on a value x that holds what it changes; it raises by its   *)
(* verdict, after which nothing more is done.                               *)

Raise(x, why) == [x EXCEPT !.verdict = why]
Then(x, Op(_)) == IF x.verdict = "go" THEN Op(x) ELSE x
Each(x, seq, Op(_, _)) == FoldLeft(LAMBDA y, r : IF y.verdict = "go" THEN Op(y, r) ELSE y, x, seq)

Free(x) == Slots - MapThenSumSet(LAMBDA r : x.kv[r], DOMAIN x.kv)
Unlocked(x) == {r \in DOMAIN x.kv : x.pins[r] = 0}
Evictable(x) == MapThenSumSet(LAMBDA r : x.cached[r], Unlocked(x))

\* tree_cache.evict: branches without a lock go, the least recently used first; those
\* that this pass used are the last.
MakeFree(x, n) ==
    Each(x, x.lru \o Among(order, DOMAIN x.kv \ Range(x.lru)), LAMBDA y, r :
        IF Free(y) < n /\ r \in Unlocked(y)
        THEN [y EXCEPT !.kv[r] = @ - y.cached[r], !.cached[r] = 0] ELSE y)

Lock(x, r) == [x EXCEPT !.pins[r] = @ + 1]
Unlock(x, r) == [x EXCEPT !.pins[r] = @ - 1]

\* HostKV.save replaces an older copy, HostKV.discard forgets it.
Saved(x, r) == IF r \in DOMAIN x.host THEN x.host[r] ELSE 0
Save(x, r, n) ==
    IF x.hostUsed - Saved(x, r) + n > HostLimit THEN Raise(x, "budget")
    ELSE [x EXCEPT !.host = Put(@, r, n), !.hostUsed = @ + n - Saved(x, r)]
Discard(x, r) == [x EXCEPT !.host = Drop(@, r), !.hostUsed = @ - Saved(x, r)]

\* release_reserves: the copy first, so that its failure leaves the lock.
Computed(r) == tok[r] - 1
ReleaseUnsaved(x, r) == [Unlock(x, r) EXCEPT !.reserve = @ \ {r}]
ReleaseReserve(x, r) ==
    IF r \notin x.waiting \/ x.cached[r] # Computed(r) THEN Raise(x, "broken")
    ELSE Then(Save(x, r, Computed(r)), LAMBDA y : ReleaseUnsaved(y, r))
ReleaseReserves(x, rids) == Each(x, Among(order, rids), ReleaseReserve)

Dropped(x) == [x EXCEPT !.window = DropReserve(@)]
CutAt(x, n) == [x EXCEPT !.window = Plan(First(@.cohort, n), @.remaining)]

-----------------------------------------------------------------------------
(* Retraction: a call gives up its place in the batch and keeps its tokens. *)

SwapOut(x, r) ==
    Then(Save(x, r, Computed(r)), LAMBDA y :
        [Unlock(y, r) EXCEPT !.kv[r] = y.cached[r],
                             !.batch = @ \ {r}, !.waiting = @ \cup {r}])

\* A reserve of the window stays on the device, with the lock it had.
Retract(x, r) ==
    IF Cardinality(x.reserve) < Over /\ r \in x.window.reserve
    THEN [x EXCEPT !.cached[r] = x.kv[r], !.reserve = @ \cup {r},
                   !.batch = @ \ {r}, !.waiting = @ \cup {r}]
    ELSE SwapOut(x, r)

\* The running calls after the first one that waits are admitted again in order.
Kept(x) ==
    LET place(r) == OrderIn(x.window.cohort, r)
        pending == x.waiting \cap x.selected
    IN  {r \in x.selected : \A q \in pending : place(r) < place(q)}
RetractVictims(x) == Each(x, Among(order, x.batch \ Kept(x)), Retract)

\* make_decode_room
RoomToDecode(x) == Free(x) + Evictable(x) >= Cardinality(x.batch)
ShedLongest(x) ==
    LET r == CHOOSE q \in x.batch : \A o \in x.batch : tok[q] >= tok[o]
    IN  [SwapOut(x, r) EXCEPT !.window =
            Plan(First(@.cohort, OrderIn(@.cohort, r) - 1), @.remaining)]
ShedCall(x, r) ==
    Then(SwapOut(x, r), LAMBDA y : CutAt(y, OrderIn(y.window.cohort, r) - 1))
Shed(x) ==
    IF x.batch \subseteq Range(x.window.cohort)
    THEN ShedCall(x, Last(Among(x.window.cohort, x.batch)))
    ELSE Raise(x, "broken")
MakeDecodeRoom(x) ==
    IF RoomToDecode(x) THEN x
    ELSE Each(Then(ReleaseReserves(x, x.reserve), Dropped), x.window.cohort, LAMBDA y, q :
            IF RoomToDecode(y) THEN y
            ELSE IF Cardinality(y.batch) <= 1 THEN Raise(y, "capacity") ELSE Shed(y))

\* prepare_for_decode: one slot for the next token of each running call.
Allocated(x) == IF Free(x) < 0 THEN Raise(x, "broken") ELSE x
Decode(x) ==
    Allocated(MakeFree(
        [x EXCEPT !.kv = [r \in DOMAIN @ |-> IF r \in x.batch THEN @[r] + 1 ELSE @[r]]], 0))

-----------------------------------------------------------------------------
(* Restoration and admission of the ready calls. *)

\* HostKV.restore, on a call that has a copy: the rest of it is loaded if there is room.
Loaded(x, r) ==
    LET missing == x.host[r] - x.cached[r]
    IN  IF Free(x) < missing THEN x
        ELSE [x EXCEPT !.kv[r] = @ + missing, !.cached[r] = x.host[r]]
Restored(x, r) == Loaded(Unlock(MakeFree(Lock(x, r), x.host[r] - x.cached[r]), r), r)
IsRestored(x, r) == x.cached[r] = x.host[r]

\* Without room for it the reserves are given up, and it is tried once more.
Retried(x, r) ==
    IF IsRestored(x, r) \/ x.reserve = {} THEN x
    ELSE Then(ReleaseReserves(x, x.window.reserve \cap x.reserve),
              LAMBDA y : Restored(Dropped(y), r))

\* A restored branch stays locked until native admission took its own lock.
HoldNothing(x, r) == x
Hold(x, r) == [Lock(x, r) EXCEPT !.restored = @ \cup {r}]

\* A call that still does not fit bars those after it.
HoldOrBar(x, r) ==
    IF IsRestored(x, r) THEN Hold(x, r)
    ELSE IF x.batch = {} /\ r = Head(x.ready) THEN Raise(x, "capacity")
    ELSE [x EXCEPT !.blocked = Range(After(x.ready, OrderIn(x.ready, r) - 1))]
Restore(x, r) == Then(Retried(Restored(x, r), r), LAMBDA y : HoldOrBar(y, r))

PrepareCall(x, r) ==
    IF r \in x.blocked THEN x
    ELSE IF r \notin Range(x.window.cohort) THEN [x EXCEPT !.blocked = @ \cup {r}]
    ELSE IF r \in DOMAIN x.host THEN Restore(x, r) ELSE x

\* SGLang's own prefill admission, in the order of the cohort: a call takes its
\* lock and its slots if a token of every call of the batch still fits after it.
Fits(x, r) ==
    LET y == Lock(x, r)
    IN  /\ Cardinality(x.batch \cup x.admitted) < MaxRunning
        /\ tok[r] - x.kv[r] + Cardinality(x.batch \cup x.admitted \cup {r}) <= Free(y) + Evictable(y)
Enter(x, r) ==
    [Lock(x, r) EXCEPT !.kv[r] = tok[r], !.admitted = @ \cup {r}, !.waiting = @ \ {r},
                       !.extend = Put(@, r, tok[r] - x.cached[r])]

NativePrefill(x, queue) ==
    MakeFree(FoldLeft(LAMBDA y, r :
                 IF ~y.full /\ Fits(y, r) THEN Enter(y, r) ELSE [y EXCEPT !.full = TRUE],
                 [x EXCEPT !.full = FALSE], Among(x.window.cohort, queue)), 0)

\* If nobody entered, the reserves are given up for a second attempt.
InCohort(x, S) == S \cap Range(x.window.cohort)
AdmitAgain(x, queue) ==
    IF \/ x.admitted # {} \/ queue = {} \/ x.reserve = {}
       \/ Cardinality(x.batch) >= MaxRunning
    THEN x
    ELSE Then(ReleaseReserves(x, x.reserve),
              LAMBDA y : NativePrefill(Dropped(y), InCohort(Dropped(y), queue)))
Admission(x) ==
    LET queue == InCohort(x, (x.waiting \cap x.selected) \ x.blocked)
    IN  AdmitAgain(NativePrefill(x, queue), queue)

\* The first ready call that could not enter ends the cohort.
LeftOut(x) == Among(x.window.cohort, Range(x.ready) \ x.admitted)
EndCohort(x) ==
    IF LeftOut(x) = << >> THEN x
    ELSE IF Head(LeftOut(x)) = x.window.cohort[1] THEN Raise(x, "capacity")
    ELSE CutAt(x, OrderIn(x.window.cohort, Head(LeftOut(x))) - 1)

\* Whoever entered no longer needs its reserve or its copy.
Settle(x) ==
    Each(x, Among(order, x.admitted), LAMBDA y, r :
        Discard(IF r \in y.reserve THEN ReleaseUnsaved(y, r) ELSE y, r))

-----------------------------------------------------------------------------
(* get_new_batch_prefill and update_running_batch. *)

ContinuesWindow(x) == x.remainingBefore > 0
Continues(x) == x.remainingBefore > 0 /\ x.selected = x.batch

ReadyCalls(x) == First(Among(x.sorted, x.waiting \cap x.selected),
                       Larger(0, MaxRunning - Cardinality(x.batch)))

AdmitReady(x) ==
    LET y == [x EXCEPT !.ready = ReadyCalls(x)]
    IN  IF y.ready = << >> THEN y
        ELSE Then(Then(Then(Each(y, y.ready, PrepareCall), Admission), EndCohort), Settle)

PrefillPlan(x) ==
    Then(ReleaseReserves(x, x.reserve \ Range(x.window.cohort)), LAMBDA y :
        IF Continues(y) THEN y ELSE Then(RetractVictims(y), AdmitReady))

\* prefill: the locks of the restored branches go, however the plan ended.
ForgetLocks(x) == x
GiveBack(x) == [x EXCEPT !.pins = [r \in DOMAIN @ |-> IF r \in x.restored THEN @[r] - 1 ELSE @[r]]]

RoomIfDecoding(x) == IF x.admitted = {} THEN MakeDecodeRoom(x) ELSE x
Batched(x) == Then(Then(GiveBack(PrefillPlan(x)), RoomIfDecoding), Decode)

-----------------------------------------------------------------------------
(* Actions of the event loop. *)

Alive == verdict = "go" /\ phase = "loop"

\* _add_request_to_queue
Add(r, prompt, at) ==
    /\ Alive
    /\ r \notin DOMAIN tok
    /\ order' = InsertAt(order, at, r)
    /\ waiting' = waiting \cup {r}
    /\ tok' = Put(tok, r, prompt)
    /\ kv' = Put(kv, r, 0) /\ cached' = Put(cached, r, 0) /\ pins' = Put(pins, r, 0)
    /\ UNCHANGED << window, batch, reserve, host, hostUsed, admitted, extend, began, phase, verdict >>

\* abort_request of a queued call; a running one is finished by the next Run.
DropQueued(r) ==
    /\ host' = Drop(host, r)
    /\ hostUsed' = hostUsed - (IF r \in DOMAIN host THEN host[r] ELSE 0)
    /\ reserve' = reserve \ {r}
    /\ pins' = IF r \in reserve THEN [pins EXCEPT ![r] = @ - 1] ELSE pins
Abort(r) ==
    /\ Alive
    /\ r \in waiting
    /\ DropQueued(r)
    /\ waiting' = waiting \ {r}
    /\ order' = Among(order, Range(order) \ {r})
    /\ kv' = [kv EXCEPT ![r] = 0] /\ cached' = [cached EXCEPT ![r] = 0]
    /\ UNCHANGED << window, batch, tok, admitted, extend, began, phase, verdict >>

\* `sorted' is the order after the refresh, `lru' how long ago branches were used.
Planned(sorted, lru) ==
    LET w == Select(window, Keyed(sorted), batch \cup waiting)
    IN  Batched([kv |-> kv, cached |-> cached, pins |-> pins, reserve |-> reserve,
                 host |-> host, hostUsed |-> hostUsed, window |-> w,
                 waiting |-> waiting, batch |-> batch, admitted |-> {}, extend |-> << >>,
                 selected |-> Chosen(w, batch \cup reserve), sorted |-> sorted,
                 remainingBefore |-> window.remaining, lru |-> lru,
                 ready |-> << >>, blocked |-> {}, restored |-> {}, full |-> FALSE,
                 verdict |-> "go"])
NextBatch(sorted, lru) ==
    /\ Alive
    /\ \/ sorted = order
       \/ batch \cup waiting # {} /\ AtBoundary(window, batch \cup waiting)
    /\ order' = sorted
    /\ \E x \in {Planned(sorted, lru)} :
        /\ window' = x.window /\ waiting' = x.waiting /\ batch' = x.batch
        /\ kv' = x.kv /\ cached' = x.cached /\ pins' = x.pins
        /\ reserve' = x.reserve /\ host' = x.host /\ hostUsed' = x.hostUsed
        /\ admitted' = x.admitted /\ extend' = x.extend /\ verdict' = x.verdict
        /\ phase' = IF x.verdict # "go" THEN "loop"
                    ELSE IF x.admitted \cup x.batch = {} THEN "idle" ELSE "run"
    /\ UNCHANGED << tok, began >>

\* run_batch and process_batch_result: every call gets a token, `done' are finished.
Run(done) ==
    /\ phase = "run"
    /\ LET all == batch \cup admitted
           end(f) == [r \in DOMAIN f |-> IF r \in done THEN 0 ELSE f[r]]
       IN  /\ {r \in all : tok[r] + 1 >= MaxLen} \subseteq done
           /\ tok' = [r \in DOMAIN tok |-> IF r \in all THEN tok[r] + 1 ELSE tok[r]]
           /\ cached' = end([r \in DOMAIN kv |-> IF r \in admitted THEN kv[r] ELSE cached[r]])
           /\ kv' = end(kv) /\ pins' = end(pins)
           /\ batch' = all \ done
           /\ order' = Among(order, Range(order) \ done)
           /\ window' = WindowExecuted(window, batch = {})
           /\ admitted' = {} /\ extend' = << >> /\ began' = began \cup all /\ phase' = "loop"
           /\ UNCHANGED << waiting, reserve, host, hostUsed, verdict >>

\* check_memory gives up the reserves without a copy.
CheckMemory ==
    /\ phase = "idle"
    /\ pins' = [r \in DOMAIN pins |-> IF r \in reserve THEN pins[r] - 1 ELSE pins[r]]
    /\ reserve' = {}
    /\ phase' = "loop"
    /\ UNCHANGED << order, window, waiting, batch, tok, kv, cached, host, hostUsed, admitted,
                    extend, began, verdict >>

Next ==
    \/ \E r \in Rid, prompt \in Prompts, at \in 1..(Len(order) + 1) : Add(r, prompt, at)
    \/ \E r \in Rid : Abort(r)
    \/ \E sorted \in SetToSeqs(Range(order)) :
            \E lru \in SetToSeqs({r \in waiting : kv[r] > 0 /\ pins[r] = 0}) : NextBatch(sorted, lru)
    \/ \E done \in SUBSET (batch \cup admitted) : Run(done)
    \/ CheckMemory

Spec == Init /\ [][Next]_vars

-----------------------------------------------------------------------------
(* Properties. *)

Owners(r) == (IF r \in reserve THEN 1 ELSE 0) + (IF r \in batch \cup admitted THEN 1 ELSE 0)

\* Nothing leaks, also from a plan that raised: every lock on the radix cache is owed by
\* exactly one owner, so that none is given back twice and none is left behind, and the
\* host budget counts each copy once.
NothingLeaks ==
    /\ \A r \in DOMAIN pins :
        IF verdict = "go" THEN pins[r] = Owners(r)
        ELSE r \in waiting => pins[r] = (IF r \in reserve THEN 1 ELSE 0)
    /\ hostUsed = MapThenSumSet(LAMBDA r : host[r], DOMAIN host)
    /\ hostUsed <= HostLimit

\* No token is computed twice: a call that waits after it ran has all its KV, locked on
\* the device or in a current copy on the host, and it finds all of it when it enters.
NothingRecomputed ==
    /\ \A r \in waiting \cap began :
            \/ r \in reserve /\ cached[r] = Computed(r)
            \/ r \in DOMAIN host /\ host[r] = Computed(r)
    /\ \A r \in admitted \cap began : extend[r] = 1

\* The loop goes on while there is work: apart from the refusals it makes on purpose, of a
\* call the pool cannot hold alone (`capacity') and of a copy beyond the host's budget
\* (`budget'), no check of the hooks and no allocation fails; and it is idle only when
\* nothing waits for it, whose reserves it would give up.
WorkGoesOn ==
    /\ verdict # "broken"
    /\ phase = "idle" => waiting = {} /\ reserve = {}

\* No call runs past one of higher priority: whoever executes is in what is left of the
\* window, after only calls that execute too or are kept on the device as reserves.  With
\* more than one reserve, the new window's reserve that ran may find the places of
\* _autellix_reserve still held by reserves that are to run now; it waits on the host.
Parked(r) == Over > 1 /\ r \in window.reserve \cap DOMAIN host
NoneRunsPast ==
    phase = "run" =>
        /\ batch \cup admitted \subseteq Range(window.cohort)
        /\ \A i, j \in DOMAIN window.cohort :
                (i < j /\ window.cohort[j] \in batch \cup admitted) =>
                    \/ window.cohort[i] \in batch \cup admitted \cup reserve
                    \/ Parked(window.cohort[i])

=============================================================================
