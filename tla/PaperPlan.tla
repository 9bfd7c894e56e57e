------------------------------ MODULE PaperPlan -----------------------------
(***************************************************************************)
(* One vLLM replica under the paper's plan (integrations/vllm/paper.py):   *)
(* the calls of the window are admitted strictly by priority, their KV is  *)
(* reserved once per window, and a prepared window continues without any   *)
(* check.  VLLMBackend adds and cancels calls between two steps.           *)
(*                                                                         *)
(* The controller is the one of RuntimeScheduler; what matters here is     *)
(* only its order, which a refresh may change in any way.  A KV block      *)
(* holds one token.  vLLM's block manager is external: it counts slots.    *)
(***************************************************************************)
EXTENDS SchedulingWindow

CONSTANTS
    Slots,      \* bound: KV slots on the device; the host has room for all
    Budget,     \* scheduler_config.max_num_batched_tokens
    Prompts,    \* bound: lengths of prompts
    MaxLen      \* bound: max_model_len, where vLLM ends a call

ASSUME DeviceAssumption ==      \* vLLM admits no prompt longer than a batch may be
    /\ Slots \in Nat /\ Budget \in Nat \ {0}
    /\ Prompts \subseteq 1..Budget

VARIABLES
    order,      \* the calls of the controller, highest priority first
    window,     \* SchedulingWindow
    place,      \* call -> vLLM queue: waiting, running or swapped
    len,        \* call -> its tokens, the sampled ones included
    unfilled,   \* calls whose prompt is not computed: is_prefill()
    slots,      \* call -> KV slots its block table holds, on device or host
    prepared,   \* PaperPlan.prepared
    reserved,   \* PaperPlan.reserved_slots
    output,     \* the SchedulerOutputs of the last step
    running,    \* the model executes output.groups
    failed,     \* next_step raised, which ends the replica
    plan,       \* auxiliary: the cohort the last boundary chose
    used        \* auxiliary: every id is submitted once

vars == << order, window, place, len, unfilled, slots, prepared, reserved, output, running,
           failed, plan, used >>

NoOutput == [groups |-> {}, incoming |-> {}, outgoing |-> {}, ignored |-> {}]

Init ==
    /\ order = << >> /\ window = EmptyWindow
    /\ place = << >> /\ len = << >> /\ slots = << >>
    /\ unfilled = {} /\ prepared = {} /\ reserved = {}
    /\ output = NoOutput /\ running = FALSE /\ failed = FALSE /\ plan = << >> /\ used = {}

Available == DOMAIN place
Keyed(seq) == [r \in Range(seq) |-> [queue |-> 0, order |-> CHOOSE i \in DOMAIN seq : seq[i] = r]]

-----------------------------------------------------------------------------
(* The block manager, on a value x that holds place and slots. *)

OnDevice(x) == {r \in DOMAIN x.place : x.place[r] = "running"}
Used(x) == MapThenSumSet(LAMBDA r : x.slots[r], OnDevice(x))
Free(x) == Slots - Used(x)

\* What a call holds once slots for its tokens and `ahead' more are appended.
Appended(x, r, ahead) == Larger(x.slots[r], len[r] + ahead)
CanAppend(x, r, ahead) == Appended(x, r, ahead) - x.slots[r] <= Free(x)

Status(needs, x) == IF needs > Slots THEN "never" ELSE IF needs > Free(x) THEN "later" ELSE "ok"

-----------------------------------------------------------------------------
(* next_step: the loop over the cohort, as steps of a value x that holds what *)
(* it changes and its verdict, "go" until it returns, breaks or raises.       *)

Evict(x, r) ==
    [x EXCEPT !.place[r] = "swapped", !.outgoing = @ \cup {r},
              !.prepared = @ \ {r}, !.reserved = @ \ {r}]

Position(x, r) == CHOOSE i \in DOMAIN x.window.cohort : x.window.cohort[i] = r

\* The lower calls of the cohort that hold KV.
Victims(x, r) == Among(After(x.window.cohort, Position(x, r)), OnDevice(x))

Admitted(x) == x.groups # {}
CutBefore(x, r) == Plan(First(x.window.cohort, Position(x, r) - 1), x.window.remaining)

\* Algorithm 1 stops at the first call that cannot fit.
StopSkips(x, r) == x
Stop(x, r) ==
    [x EXCEPT !.window = IF Admitted(x) THEN CutBefore(x, r) ELSE @, !.verdict = "stop"]

\* A lower call makes room, in a step of its own.
MakeRoomAtOnce(x, r) == Evict(x, Last(Victims(x, r)))
MakeRoom(x, r) == [Evict(x, Last(Victims(x, r))) EXCEPT !.verdict = "return", !.groups = {}]
CanMakeRoom(x, r) == Victims(x, r) # << >> /\ x.incoming = {}

Ignore(x, r) ==
    [x EXCEPT !.ignored = @ \cup {r}, !.place = Drop(@, r), !.slots = Drop(@, r)]

\* A waiting call gets the blocks of its prompt, a swapped one its own again.
BringIn(x, r) ==
    CASE x.place[r] = "waiting" ->
            [x EXCEPT !.place[r] = "running", !.slots[r] = len[r]]
      [] x.place[r] = "swapped" ->
            [x EXCEPT !.place[r] = "running", !.incoming = @ \cup {r},
                      !.prepared = IF r \in unfilled THEN @ ELSE @ \cup {r}]
      [] OTHER -> x

Kept(x, r) == r \in x.window.reserve /\ r \notin unfilled    \* prepared, but not decoding
Executes(x, r) == r \notin x.resident /\ ~Kept(x, r)

Reserve(x, r, ahead, count) ==
    [x EXCEPT !.slots[r] = Appended(x, r, ahead), !.reserved = @ \cup {r},
              !.groups = IF Executes(x, r) THEN @ \cup {r} ELSE @,
              !.tokens = @ + count]

ReserveOrStop(x, r, ahead, count) ==
    IF CanAppend(x, r, ahead) THEN Reserve(x, r, ahead, count)
    ELSE IF CanMakeRoom(x, r) THEN MakeRoom(x, r)
    ELSE IF x.incoming # {} THEN [x EXCEPT !.verdict = "return", !.groups = {}]
    ELSE IF ~Admitted(x) THEN [x EXCEPT !.verdict = "raise"]
    ELSE Stop(x, r)
Place(x, r, ahead, count) == ReserveOrStop(BringIn(x, r), r, ahead, count)

AheadAlways(x) == IF x.window.remaining > 1 THEN 1 ELSE 0
Ahead(x) == x.window.remaining

Admit(x, r) ==
    LET count == IF ~Executes(x, r) THEN 0 ELSE IF r \in unfilled THEN len[r] ELSE 1
        ahead == IF r \in x.reserved THEN 0 ELSE Ahead(x)
        status == CASE x.place[r] = "waiting" -> Status(len[r], x)
                    [] x.place[r] = "swapped" -> Status(Appended(x, r, ahead), x)
                    [] OTHER -> IF CanAppend(x, r, ahead) THEN "ok" ELSE "later"
    IN  IF x.verdict # "go" \/ (r \notin x.chosen /\ r \in x.reserved) THEN x
        ELSE IF x.tokens + count > Budget THEN Stop(x, r)
        ELSE IF status = "ok" THEN Place(x, r, ahead, count)
        ELSE IF CanMakeRoom(x, r) THEN MakeRoom(x, r)
        ELSE Stop(IF status = "never" THEN Ignore(x, r) ELSE x, r)

\* The cohort's running calls stay; every other call leaves the device first.
Outside(x) == OnDevice(x) \ Range(x.window.cohort)

\* Everything was prepared in this window: only the tokens of the last step are committed.
Prepared(x) ==
    /\ x.window.cohort # << >>
    /\ Range(x.window.cohort) \subseteq (x.prepared \cap x.reserved \cap OnDevice(x)) \ unfilled
Continue(x) ==
    LET decode == x.window.active
    IN  [x EXCEPT !.groups = decode, !.verdict = "return",
                  !.slots = [r \in DOMAIN @ |-> IF r \in decode THEN Appended(x, r, 0) ELSE @[r]]]

Concluded(x) ==
    IF x.verdict \notin {"go", "stop"} THEN x
    ELSE IF x.groups = {} /\ x.incoming = {} /\ x.ignored = {} THEN [x EXCEPT !.verdict = "raise"]
    ELSE [x EXCEPT !.prepared = @ \cup x.groups]
Loop(x) == Concluded(FoldLeft(Admit, x, x.window.cohort))

Planned(x, boundary) ==
    IF Outside(x) # {} THEN FoldSet(LAMBDA r, y : Evict(y, r), x, Outside(x))
    ELSE IF ~boundary /\ Prepared(x) THEN Continue(x) ELSE Loop(x)

-----------------------------------------------------------------------------
(* Actions. *)

\* A new call's service decides where it enters the order.
Add(r, prompt, at) ==
    /\ ~running /\ ~failed
    /\ r \notin used /\ used' = used \cup {r}
    /\ order' = InsertAt(order, at, r)
    /\ place' = Put(place, r, "waiting")
    /\ len' = Put(len, r, prompt)
    /\ slots' = Put(slots, r, 0)
    /\ unfilled' = unfilled \cup {r}
    /\ UNCHANGED << window, prepared, reserved, output, running, failed, plan >>

Forget(gone) ==
    /\ order' = Among(order, Available \ gone)
    /\ len' = Restrict(len, DOMAIN len \ gone)

Cancel(r) ==
    /\ ~running /\ ~failed
    /\ r \in Available
    /\ Forget({r})
    /\ place' = Drop(place, r) /\ slots' = Drop(slots, r)
    /\ unfilled' = unfilled \ {r}
    /\ UNCHANGED << window, prepared, reserved, output, running, failed, plan, used >>

\* PaperPlan.next_step; `sorted' is the controller's order after the refresh.
NextStep(sorted) ==
    /\ ~running /\ ~failed
    /\ Available # {}
    /\ LET boundary == AtBoundary(window, Available)
           w == Select(window, Keyed(sorted), Available)
           here == prepared \cap {r \in Available : place[r] = "running"}
       IN  /\ boundary \/ sorted = order
           /\ plan' = IF boundary THEN w.cohort ELSE plan
           /\ \E x \in {Planned([place |-> place, slots |-> slots, window |-> w,
                                 prepared |-> prepared \cap Available,
                                 reserved |-> IF boundary THEN {} ELSE reserved,
                                 chosen |-> Chosen(w, here), resident |-> Held(w, here),
                                 groups |-> {}, incoming |-> {}, outgoing |-> {}, ignored |-> {},
                                 tokens |-> 0, verdict |-> "go"], boundary)} :
                /\ order' = Among(sorted, Available \ x.ignored)
                /\ len' = Restrict(len, DOMAIN len \ x.ignored)
                /\ unfilled' = unfilled \ x.ignored
                /\ place' = x.place /\ slots' = x.slots /\ window' = x.window
                /\ prepared' = x.prepared /\ reserved' = x.reserved
                /\ output' = [groups |-> x.groups, incoming |-> x.incoming,
                              outgoing |-> x.outgoing, ignored |-> x.ignored]
                /\ failed' = (x.verdict = "raise")
                /\ running' = (x.groups # {} /\ x.verdict # "raise")
    /\ UNCHANGED used

\* The model executes: each call of the batch gets a token, and some calls end.
IsPrefill == output.groups \subseteq unfilled
Run(done) ==
    /\ running
    /\ {r \in output.groups : len[r] + 1 >= MaxLen} \subseteq done
    /\ order' = Among(order, Available \ done)
    /\ len' = [r \in DOMAIN len \ done |-> IF r \in output.groups THEN len[r] + 1 ELSE len[r]]
    /\ unfilled' = unfilled \ output.groups
    /\ place' = Restrict(place, Available \ done) /\ slots' = Restrict(slots, Available \ done)
    /\ window' = WindowExecuted(window, IsPrefill)
    /\ running' = FALSE
    /\ UNCHANGED << prepared, reserved, output, failed, plan, used >>

Next ==
    \/ \E r \in Rid, prompt \in Prompts, at \in 1..(Len(order) + 1) : Add(r, prompt, at)
    \/ \E r \in Rid : Cancel(r)
    \/ \E sorted \in SetToSeqs(Range(order)) : NextStep(sorted)
    \/ \E done \in SUBSET output.groups : Run(done)

Spec == Init /\ [][Next]_vars

-----------------------------------------------------------------------------
(* Properties. *)

Device == [place |-> place, slots |-> slots]

\* The device never holds more KV than it has, though a prepared window appends without
\* asking; what is reserved lasts until the window ends; and the replica gives up only
\* for a call that the device could not hold alone.
ReserveLasts ==
    /\ Used(Device) <= Slots
    /\ ~running /\ ~failed =>
        \A r \in (reserved \cap prepared \cap OnDevice(Device)) \ unfilled :
            r \in window.active => slots[r] >= len[r] + window.remaining - 1
    /\ failed =>
        LET r == Head(window.cohort)
        IN  OnDevice(Device) \subseteq {r} /\ len[r] + window.remaining > Slots

\* No call runs past one of higher priority: whatever the window chose before an
\* executing call executes with it, unless it is done or is a reserve with its prompt computed.
NoneRunsPast ==
    running =>
        \A i, j \in DOMAIN plan :
            (i < j /\ plan[j] \in output.groups /\ plan[i] \in Available) =>
                plan[i] \in output.groups \/ plan[i] \in window.reserve \ unfilled

\* KV blocks that a step flushes to the host are not used by the same step: what it
\* leaves on the device fits beside them.
FlushBeforeReuse ==
    [][output'.outgoing # {} /\ output' # output =>
          /\ output'.groups = {} /\ output'.incoming = {}
          /\ Used([place |-> place', slots |-> slots'])
                + MapThenSumSet(LAMBDA r : slots[r], output'.outgoing) <= Slots]_vars

=============================================================================
