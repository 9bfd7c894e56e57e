-------------------------- MODULE PaperPlan_proofs --------------------------
(***************************************************************************)
(* One vLLM replica under the paper's plan, for any calls, prompts, device *)
(* and window: what is reserved lasts, and nobody runs past a call of      *)
(* higher priority.                                                        *)
(***************************************************************************)
EXTENDS PaperPlan, Common_proofs

-----------------------------------------------------------------------------
(* The device. *)

\* What next_step works on.
Fields(x) ==
    x = [place |-> x.place, slots |-> x.slots, window |-> x.window,
         prepared |-> x.prepared, reserved |-> x.reserved,
         chosen |-> x.chosen, resident |-> x.resident,
         groups |-> x.groups, incoming |-> x.incoming, outgoing |-> x.outgoing,
         ignored |-> x.ignored, tokens |-> x.tokens, verdict |-> x.verdict]

Queue == {"waiting", "running", "swapped"}

\* The queues and block tables of the calls in S.
Holds(x, S) == IsFiniteSet(S) /\ x.place \in [S -> Queue] /\ x.slots \in [S -> Nat]

\* The KV on the device is the sum of the block tables there.
LEMMA UsedIs ==
    ASSUME NEW x, NEW S, Holds(x, S)
    PROVE  /\ OnDevice(x) \subseteq S /\ Counts(x.slots, OnDevice(x))
           /\ Used(x) = Total(x.slots, OnDevice(x)) /\ Used(x) \in Nat
<1>1. OnDevice(x) \subseteq S
  BY DEF OnDevice, Holds
<1>2. Counts(x.slots, OnDevice(x))
  BY <1>1, FS_Subset DEF Counts, Holds
<1>3. Used(x) = Total(x.slots, OnDevice(x))
  BY DEF Used, Total
<1> QED BY <1>1, <1>2, <1>3, TotalType

\* A call that changes its table, or comes to the device, or leaves it.
LEMMA UsedChanges ==
    ASSUME NEW x, NEW S, Holds(x, S), NEW y, NEW T, Holds(y, T), NEW r,
           OnDevice(y) \ {r} = OnDevice(x) \ {r},
           \A q \in OnDevice(x) \ {r} : y.slots[q] = x.slots[q]
    PROVE  Used(y) + (IF r \in OnDevice(x) THEN x.slots[r] ELSE 0) =
           Used(x) + (IF r \in OnDevice(y) THEN y.slots[r] ELSE 0)
<1> DEFINE D == OnDevice(x)
           E == OnDevice(y)
           C == D \ {r}
           n == Total(x.slots, C)
<1>1. /\ Counts(x.slots, D) /\ Used(x) = Total(x.slots, D)
      /\ Counts(y.slots, E) /\ Used(y) = Total(y.slots, E)
  BY UsedIs
<1>2. Counts(x.slots, C)
  BY <1>1, FS_Subset DEF Counts
<1>3. Total(y.slots, C) = n /\ n \in Nat
  BY <1>2, TotalSame, TotalType
<1>4. Total(x.slots, D) = n + (IF r \in D THEN x.slots[r] ELSE 0)
  <2>1. CASE r \in D
    <3>1. Total(x.slots, D) = x.slots[r] + Total(x.slots, D \ {r})
      BY <1>1, <2>1, TotalOne
    <3>2. x.slots[r] \in Nat
      BY <1>1, <2>1 DEF Counts
    <3>3. Total(x.slots, D \ {r}) = n
      BY <1>3
    <3> HIDE DEF C, D, n
    <3> QED BY <1>3, <2>1, <3>1, <3>2, <3>3
  <2>2. CASE r \notin D
    <3>1. C = D
      BY <2>2
    <3> HIDE DEF C, D
    <3> QED BY <1>3, <2>2, <3>1
  <2> QED BY <2>1, <2>2
<1>5. Total(y.slots, E) = n + (IF r \in E THEN y.slots[r] ELSE 0)
  <2>1. CASE r \in E
    <3>1. Total(y.slots, E) = y.slots[r] + Total(y.slots, E \ {r})
      BY <1>1, <2>1, TotalOne
    <3>2. y.slots[r] \in Nat
      BY <1>1, <2>1 DEF Counts
    <3>3. Total(y.slots, E \ {r}) = n
      BY <1>3
    <3> HIDE DEF C, E, n
    <3> QED BY <1>3, <2>1, <3>1, <3>2, <3>3
  <2>2. CASE r \notin E
    <3>1. C = E
      BY <2>2
    <3> HIDE DEF C, E
    <3> QED BY <1>3, <2>2, <3>1
  <2> QED BY <2>1, <2>2
<1>6. /\ (IF r \in D THEN x.slots[r] ELSE 0) \in Nat
      /\ (IF r \in E THEN y.slots[r] ELSE 0) \in Nat
  BY <1>1 DEF Counts
<1> HIDE DEF D, E, n
<1> QED BY <1>1, <1>3, <1>4, <1>5, <1>6 DEF D, E

Swapped(queues, r) == [queues EXCEPT ![r] = "swapped"]

\* evict, part by part.
LEMMA EvictParts ==
    ASSUME NEW x, Fields(x), NEW r, NEW y, y = Evict(x, r)
    PROVE  /\ Fields(y) /\ y.place = Swapped(x.place, r) /\ y.slots = x.slots
           /\ y.outgoing = x.outgoing \cup {r}
           /\ y.prepared = x.prepared \ {r} /\ y.reserved = x.reserved \ {r}
           /\ y.window = x.window /\ y.chosen = x.chosen /\ y.resident = x.resident
           /\ y.groups = x.groups /\ y.incoming = x.incoming /\ y.ignored = x.ignored
           /\ y.tokens = x.tokens /\ y.verdict = x.verdict
BY DEF Fields, Evict, Swapped

\* A call that leaves the device.
LEMMA EvictView ==
    ASSUME NEW x, Fields(x), NEW S, Holds(x, S), NEW r \in OnDevice(x),
           NEW y, y = Evict(x, r)
    PROVE  /\ Fields(y) /\ Holds(y, S)
           /\ OnDevice(y) = OnDevice(x) \ {r} /\ y.slots = x.slots
           /\ Used(y) + x.slots[r] = Used(x) /\ x.slots[r] \in Nat
           /\ y.outgoing = x.outgoing \cup {r}
           /\ y.prepared = x.prepared \ {r} /\ y.reserved = x.reserved \ {r}
           /\ y.window = x.window /\ y.chosen = x.chosen /\ y.resident = x.resident
           /\ y.groups = x.groups /\ y.incoming = x.incoming /\ y.ignored = x.ignored
           /\ y.tokens = x.tokens /\ y.verdict = x.verdict
<1>1. /\ Fields(y) /\ y.slots = x.slots
      /\ y.place = [x.place EXCEPT ![r] = "swapped"]
      /\ y.outgoing = x.outgoing \cup {r}
      /\ y.prepared = x.prepared \ {r} /\ y.reserved = x.reserved \ {r}
      /\ y.window = x.window /\ y.chosen = x.chosen /\ y.resident = x.resident
      /\ y.groups = x.groups /\ y.incoming = x.incoming /\ y.ignored = x.ignored
      /\ y.tokens = x.tokens /\ y.verdict = x.verdict
  BY DEF Fields, Evict
<1>2. r \in S
  BY UsedIs
<1>3. Holds(y, S)
  BY <1>1, <1>2 DEF Holds, Queue
<1>4. OnDevice(y) = OnDevice(x) \ {r}
  BY <1>1, <1>2 DEF OnDevice, Holds
<1>5. Used(y) + x.slots[r] = Used(x) /\ x.slots[r] \in Nat
  <2>1. Used(y) + (IF r \in OnDevice(x) THEN x.slots[r] ELSE 0) =
        Used(x) + (IF r \in OnDevice(y) THEN y.slots[r] ELSE 0)
    BY <1>1, <1>3, <1>4, UsedChanges
  <2>2. r \in OnDevice(x) /\ r \notin OnDevice(y) /\ Used(x) \in Nat
    BY <1>4, UsedIs
  <2>3. x.slots[r] \in Nat
    BY <1>2 DEF Holds
  <2> QED BY <2>1, <2>2, <2>3
<1> QED BY <1>1, <1>3, <1>4, <1>5

\* A device with at most one call.
LEMMA UsedAlone ==
    ASSUME NEW x, NEW S, Holds(x, S), NEW r, OnDevice(x) \subseteq {r}
    PROVE  Used(x) = IF r \in OnDevice(x) THEN x.slots[r] ELSE 0
<1>1. Counts(x.slots, OnDevice(x)) /\ Used(x) = Total(x.slots, OnDevice(x))
  BY UsedIs
<1>2. CASE r \in OnDevice(x)
  <2>1. OnDevice(x) = {r} /\ OnDevice(x) \ {r} = {}
    BY <1>2
  <2>2. Total(x.slots, OnDevice(x)) = x.slots[r] + Total(x.slots, OnDevice(x) \ {r})
    BY <1>1, <1>2, TotalOne
  <2>3. Total(x.slots, OnDevice(x) \ {r}) = 0
    BY <2>1, TotalEmpty
  <2>4. x.slots[r] \in Nat
    BY <1>1, <1>2 DEF Counts
  <2> QED BY <1>1, <1>2, <2>2, <2>3, <2>4
<1>3. CASE r \notin OnDevice(x)
  <2>1. OnDevice(x) = {}
    BY <1>3
  <2> QED BY <1>1, <2>1, TotalEmpty
<1> QED BY <1>2, <1>3

\* A call is brought to the device: allocate, or swap_in.
LEMMA BringInView ==
    ASSUME NEW x, Fields(x), NEW S, Holds(x, S), NEW r \in S, len[r] \in Nat,
           NEW y, y = BringIn(x, r)
    PROVE  /\ Fields(y) /\ Holds(y, S)
           /\ OnDevice(y) = OnDevice(x) \cup {r}
           /\ \A q \in S \ {r} : y.place[q] = x.place[q] /\ y.slots[q] = x.slots[q]
           /\ y.slots[r] = IF x.place[r] = "waiting" THEN len[r] ELSE x.slots[r]
           /\ Used(y) = IF r \in OnDevice(x) THEN Used(x) ELSE Used(x) + y.slots[r]
           /\ y.prepared \ {r} \subseteq x.prepared
           /\ r \in unfilled => y.prepared = x.prepared
           /\ y.reserved = x.reserved /\ y.outgoing = x.outgoing
           /\ y.window = x.window /\ y.chosen = x.chosen /\ y.resident = x.resident
           /\ y.groups = x.groups /\ y.ignored = x.ignored
           /\ y.tokens = x.tokens /\ y.verdict = x.verdict
<1>1. x.place \in [S -> Queue] /\ x.slots \in [S -> Nat] /\ x.place[r] \in Queue
  BY DEF Holds
<1>2. /\ Fields(y)
      /\ y.place = [x.place EXCEPT ![r] = "running"]
      /\ y.slots = [x.slots EXCEPT ![r] = IF x.place[r] = "waiting" THEN len[r] ELSE @]
      /\ y.reserved = x.reserved /\ y.outgoing = x.outgoing
      /\ y.window = x.window /\ y.chosen = x.chosen /\ y.resident = x.resident
      /\ y.groups = x.groups /\ y.ignored = x.ignored
      /\ y.tokens = x.tokens /\ y.verdict = x.verdict
  <2>1. CASE x.place[r] = "waiting"
    BY <1>1, <2>1 DEF Fields, BringIn
  <2>2. CASE x.place[r] = "swapped"
    BY <1>1, <2>2 DEF Fields, BringIn
  <2>3. CASE x.place[r] = "running"
    BY <1>1, <2>3 DEF Fields, BringIn
  <2> QED BY <1>1, <2>1, <2>2, <2>3 DEF Queue
<1>3. y.prepared \ {r} \subseteq x.prepared /\ (r \in unfilled => y.prepared = x.prepared)
  <2>1. CASE x.place[r] = "swapped"
    <3>1. y.prepared = IF r \in unfilled THEN x.prepared ELSE x.prepared \cup {r}
      BY <2>1 DEF Fields, BringIn
    <3> QED BY <3>1
  <2>2. CASE x.place[r] # "swapped"
    <3>1. y.prepared = x.prepared
      BY <2>2 DEF Fields, BringIn
    <3> QED BY <3>1
  <2> QED BY <2>1, <2>2
<1>4. Holds(y, S)
  BY <1>1, <1>2 DEF Holds, Queue
<1>5. OnDevice(y) = OnDevice(x) \cup {r}
  BY <1>1, <1>2 DEF OnDevice
<1>6. /\ \A q \in S \ {r} : y.place[q] = x.place[q] /\ y.slots[q] = x.slots[q]
      /\ y.slots[r] = IF x.place[r] = "waiting" THEN len[r] ELSE x.slots[r]
      /\ x.slots[r] \in Nat /\ y.slots[r] \in Nat
      /\ r \in OnDevice(x) => x.place[r] # "waiting"
  BY <1>1, <1>2 DEF OnDevice
<1>7. Used(y) = IF r \in OnDevice(x) THEN Used(x) ELSE Used(x) + y.slots[r]
  <2>1. OnDevice(y) \ {r} = OnDevice(x) \ {r} /\ OnDevice(x) \subseteq S
    BY <1>5, UsedIs
  <2>2. \A q \in OnDevice(x) \ {r} : y.slots[q] = x.slots[q]
    BY <1>6, <2>1
  <2>3. Used(y) + (IF r \in OnDevice(x) THEN x.slots[r] ELSE 0) =
        Used(x) + (IF r \in OnDevice(y) THEN y.slots[r] ELSE 0)
    BY <1>4, <2>1, <2>2, UsedChanges
  <2>4. Used(x) \in Nat /\ Used(y) \in Nat /\ r \in OnDevice(y)
    BY <1>4, <1>5, UsedIs
  <2> QED BY <1>6, <2>3, <2>4
<1> QED BY <1>2, <1>3, <1>4, <1>5, <1>6, <1>7

\* What a table holds once slots are appended.
LEMMA AppendedIs ==
    ASSUME NEW x, NEW r, x.slots[r] \in Nat, len[r] \in Nat, NEW ahead \in Nat
    PROVE  /\ Appended(x, r, ahead) \in Nat
           /\ Appended(x, r, ahead) >= x.slots[r] /\ Appended(x, r, ahead) >= len[r] + ahead
           /\ Appended(x, r, ahead) = x.slots[r] \/ Appended(x, r, ahead) = len[r] + ahead
BY DEF Appended, Larger

\* append_slots, for the whole window.
LEMMA ReserveView ==
    ASSUME NEW x, Fields(x), NEW S, Holds(x, S), NEW r \in OnDevice(x), len[r] \in Nat,
           NEW ahead, NEW count, NEW z, z = Reserve(x, r, ahead, count),
           ahead \in Nat, count \in Nat
    PROVE  /\ Fields(z) /\ Holds(z, S)
           /\ OnDevice(z) = OnDevice(x) /\ z.place = x.place
           /\ \A q \in S \ {r} : z.slots[q] = x.slots[q]
           /\ z.slots[r] = Appended(x, r, ahead)
           /\ Used(z) + x.slots[r] = Used(x) + z.slots[r]
           /\ z.reserved = x.reserved \cup {r}
           /\ z.groups \subseteq x.groups \cup {r} /\ x.groups \subseteq z.groups
           /\ Executes(x, r) => r \in z.groups
           /\ z.tokens = x.tokens + count
           /\ z.incoming = x.incoming /\ z.outgoing = x.outgoing /\ z.ignored = x.ignored
           /\ z.window = x.window /\ z.chosen = x.chosen /\ z.resident = x.resident
           /\ z.prepared = x.prepared /\ z.verdict = x.verdict
<1>1. OnDevice(x) \subseteq S /\ x.place \in [S -> Queue] /\ x.slots \in [S -> Nat]
  BY UsedIs DEF Holds
<1>2. Appended(x, r, ahead) \in Nat
  BY <1>1, AppendedIs
<1>3. /\ Fields(z)
      /\ z.place = x.place /\ z.slots = [x.slots EXCEPT ![r] = Appended(x, r, ahead)]
      /\ z.reserved = x.reserved \cup {r} /\ z.tokens = x.tokens + count
      /\ z.incoming = x.incoming /\ z.outgoing = x.outgoing /\ z.ignored = x.ignored
      /\ z.window = x.window /\ z.chosen = x.chosen /\ z.resident = x.resident
      /\ z.prepared = x.prepared /\ z.verdict = x.verdict
  BY DEF Fields, Reserve
<1>4. /\ z.groups \subseteq x.groups \cup {r} /\ x.groups \subseteq z.groups
      /\ Executes(x, r) => r \in z.groups
  <2> DEFINE e == Executes(x, r)
  <2>1. z.groups = IF e THEN x.groups \cup {r} ELSE x.groups
    BY DEF Fields, Reserve
  <2> HIDE DEF e
  <2>2. /\ z.groups \subseteq x.groups \cup {r} /\ x.groups \subseteq z.groups
        /\ e => r \in z.groups
    BY <2>1
  <2> QED BY <2>2 DEF e
<1>5. Holds(z, S)
  BY <1>1, <1>2, <1>3 DEF Holds
<1>6. OnDevice(z) = OnDevice(x)
  BY <1>3 DEF OnDevice
<1>7. z.slots[r] = Appended(x, r, ahead) /\ \A q \in S \ {r} : z.slots[q] = x.slots[q]
  BY <1>1, <1>3
<1>8. Used(z) + x.slots[r] = Used(x) + z.slots[r]
  <2>1. \A q \in OnDevice(x) \ {r} : z.slots[q] = x.slots[q]
    BY <1>1, <1>7
  <2>2. Used(z) + (IF r \in OnDevice(x) THEN x.slots[r] ELSE 0) =
        Used(x) + (IF r \in OnDevice(z) THEN z.slots[r] ELSE 0)
    BY <1>5, <1>6, <2>1, UsedChanges
  <2> QED BY <1>6, <2>2
<1> QED BY <1>3, <1>4, <1>5, <1>6, <1>7, <1>8

\* A prompt that can never fit is aborted.
LEMMA IgnoreView ==
    ASSUME NEW x, Fields(x), NEW S, Holds(x, S), NEW r \in S, r \notin OnDevice(x),
           NEW y, y = Ignore(x, r)
    PROVE  /\ Fields(y) /\ Holds(y, S \ {r})
           /\ OnDevice(y) = OnDevice(x) /\ Used(y) = Used(x)
           /\ \A q \in S \ {r} : y.place[q] = x.place[q] /\ y.slots[q] = x.slots[q]
           /\ y.ignored = x.ignored \cup {r}
           /\ y.prepared = x.prepared /\ y.reserved = x.reserved
           /\ y.incoming = x.incoming /\ y.outgoing = x.outgoing
           /\ y.window = x.window /\ y.chosen = x.chosen /\ y.resident = x.resident
           /\ y.groups = x.groups /\ y.tokens = x.tokens /\ y.verdict = x.verdict
<1>1. x.place \in [S -> Queue] /\ x.slots \in [S -> Nat] /\ IsFiniteSet(S \ {r})
  BY FS_RemoveElement DEF Holds
<1>2. /\ Fields(y)
      /\ y.place = [q \in S \ {r} |-> x.place[q]] /\ y.slots = [q \in S \ {r} |-> x.slots[q]]
      /\ y.ignored = x.ignored \cup {r}
      /\ y.prepared = x.prepared /\ y.reserved = x.reserved
      /\ y.incoming = x.incoming /\ y.outgoing = x.outgoing
      /\ y.window = x.window /\ y.chosen = x.chosen /\ y.resident = x.resident
      /\ y.groups = x.groups /\ y.tokens = x.tokens /\ y.verdict = x.verdict
  BY <1>1 DEF Fields, Ignore, Drop, Restrict
<1>3. Holds(y, S \ {r})
  BY <1>1, <1>2 DEF Holds
<1>4. OnDevice(y) = OnDevice(x)
  BY <1>1, <1>2 DEF OnDevice
<1>5. Used(y) = Used(x)
  <2>1. \A q \in OnDevice(x) \ {r} : y.slots[q] = x.slots[q]
    BY <1>1, <1>2 DEF OnDevice
  <2>2. Used(y) + (IF r \in OnDevice(x) THEN x.slots[r] ELSE 0) =
        Used(x) + (IF r \in OnDevice(y) THEN y.slots[r] ELSE 0)
    BY <1>3, <1>4, <2>1, UsedChanges
  <2>3. Used(x) \in Nat /\ Used(y) \in Nat
    BY <1>3, UsedIs
  <2> QED BY <1>4, <2>2, <2>3
<1> QED BY <1>1, <1>2, <1>3, <1>4, <1>5

-----------------------------------------------------------------------------
(* The window. *)

-----------------------------------------------------------------------------
(* The loop over the cohort: b is what it starts from, S the calls there are. *)

Start(b, S) ==
    /\ IsFiniteSet(S)
    /\ b.window.cohort \in Seq(S) /\ IsInjective(b.window.cohort) /\ Len(b.window.cohort) > 0
    /\ b.window.remaining \in Nat \ {0}
    /\ len \in [S -> Nat \ {0}] /\ unfilled \subseteq S
    /\ \A r \in unfilled : len[r] <= Budget
    /\ \A r \in Range(b.window.cohort) : r \in b.chosen \/ r \in b.window.reserve \ unfilled
    /\ b.resident \subseteq b.window.reserve \ unfilled
    /\ b.window.cohort[1] \in b.chosen /\ b.window.cohort[1] \notin b.window.reserve

\* What was reserved suffices for the rest of the window.
Lasts(x, remaining) ==
    \A r \in x.reserved \cap OnDevice(x) :
        x.slots[r] >= len[r] + remaining - (IF r \in unfilled THEN 0 ELSE 1)

Sound(x, b, S) ==
    /\ Fields(x) /\ x.ignored \subseteq S /\ Holds(x, S \ x.ignored)
    /\ Used(x) <= Slots
    /\ OnDevice(x) \subseteq Range(b.window.cohort)
    /\ (x.reserved \cap S) \ x.ignored \subseteq OnDevice(x)
    /\ Lasts(x, b.window.remaining)
    /\ x.prepared \cap unfilled = {}
    /\ x.prepared \subseteq b.prepared \cup S /\ x.reserved \subseteq b.reserved \cup S
    /\ x.groups \subseteq OnDevice(x)

\* The first k calls execute, unless they are prepared reserves, and nobody else does.
Past(x, b, k) ==
    /\ \A i \in 1..k : b.window.cohort[i] \in x.groups \cup (b.window.reserve \ unfilled)
    /\ \A r \in x.groups : \E i \in 1..k : r = b.window.cohort[i]

\* The loop has passed k calls, and may have brought the next one to the device.
Midway(x, b, S, k) ==
    /\ Sound(x, b, S) /\ Past(x, b, k)
    /\ x.verdict = "go" /\ x.window = b.window
    /\ x.chosen = b.chosen /\ x.resident = b.resident
    /\ x.outgoing = {} /\ x.ignored = {} /\ x.tokens \in Nat
    /\ \A i \in DOMAIN b.window.cohort :
           i > k + 1 => x.slots[b.window.cohort[i]] = b.slots[b.window.cohort[i]]

Going(x, b, S, k) ==
    /\ Midway(x, b, S, k)
    /\ k = 0 => x.incoming = {} /\ x.tokens = 0

\* r is the call after the first k.
Turn(r, b, k) == k < Len(b.window.cohort) /\ r = b.window.cohort[k + 1]

\* What r asks for: slots for the whole window, unless they are reserved already.
Wanted(x, r, b, ahead) ==
    /\ r \in x.reserved => ahead = 0
    /\ r \notin x.reserved => ahead = b.window.remaining

\* The device could not hold the first call of the window alone.
Hopeless(x, b) ==
    /\ OnDevice(x) \subseteq {b.window.cohort[1]}
    /\ len[b.window.cohort[1]] + b.window.remaining > Slots

Stopped(x, b) ==
    /\ x.verdict = "stop" /\ x.outgoing = {}
    /\ x.groups = {} =>
           /\ x.window = b.window /\ x.incoming = {}
           /\ x.ignored # {} \/ Hopeless(x, b)
    /\ x.groups # {} =>
           \E k \in 0..Len(b.window.cohort) :
               x.window = Plan(First(b.window.cohort, k), b.window.remaining) /\ Past(x, b, k)

\* A step that only moves KV.
Returned(x, b, S) ==
    /\ x.verdict = "return" /\ x.groups = {} /\ x.window = b.window /\ x.ignored = {}
    /\ x.outgoing # {} =>
           /\ x.incoming = {}
           /\ \E v \in S : x.outgoing = {v} /\ Used(x) + b.slots[v] <= Slots

Raised(x, b) ==
    /\ x.verdict = "raise" /\ x.window = b.window
    /\ x.groups = {} /\ x.outgoing = {} /\ x.ignored = {}
    /\ Hopeless(x, b)

Ended(x, b, S) == Sound(x, b, S) /\ (Stopped(x, b) \/ Returned(x, b, S) \/ Raised(x, b))

\* What a value with the same queues and tables has on the device.
LEMMA SameDevice ==
    ASSUME NEW x, NEW S, Holds(x, S), NEW y, y.place = x.place, y.slots = x.slots
    PROVE  Holds(y, S) /\ OnDevice(y) = OnDevice(x) /\ Used(y) = Used(x)
<1>1. Holds(y, S)
  BY DEF Holds
<1>2. OnDevice(y) = OnDevice(x)
  BY DEF OnDevice
<1>3. Used(x) = Total(x.slots, OnDevice(x)) /\ Used(y) = Total(y.slots, OnDevice(y))
  BY <1>1, UsedIs
<1> QED BY <1>1, <1>2, <1>3

\* The window, the verdict and a smaller batch do not matter to the device.
LEMMA SameSound ==
    ASSUME NEW x, NEW b, NEW S, Sound(x, b, S), NEW y, Fields(y),
           y.place = x.place, y.slots = x.slots, y.prepared = x.prepared,
           y.reserved = x.reserved, y.ignored = x.ignored, y.groups \subseteq x.groups
    PROVE  Sound(y, b, S) /\ OnDevice(y) = OnDevice(x) /\ Used(y) = Used(x)
<1>1. /\ x.ignored \subseteq S /\ Holds(x, S \ x.ignored)
      /\ Used(x) <= Slots
      /\ OnDevice(x) \subseteq Range(b.window.cohort)
      /\ (x.reserved \cap S) \ x.ignored \subseteq OnDevice(x)
      /\ Lasts(x, b.window.remaining)
      /\ x.prepared \cap unfilled = {}
      /\ x.prepared \subseteq b.prepared \cup S /\ x.reserved \subseteq b.reserved \cup S
      /\ x.groups \subseteq OnDevice(x)
  BY DEF Sound
<1>2. Holds(y, S \ x.ignored) /\ OnDevice(y) = OnDevice(x) /\ Used(y) = Used(x)
  BY <1>1, SameDevice
<1>3. Lasts(y, b.window.remaining)
  BY <1>1, <1>2 DEF Lasts
<1> QED BY <1>1, <1>2, <1>3 DEF Sound

\* The lower calls that hold KV, and the cohort up to a call.
LEMMA VictimsAre ==
    ASSUME NEW b, NEW S, Start(b, S), NEW k \in Nat, k < Len(b.window.cohort),
           NEW r, r = b.window.cohort[k + 1], NEW x, x.window = b.window
    PROVE  /\ Victims(x, r) # << >> =>
                  \E i \in DOMAIN b.window.cohort :
                      i > k + 1 /\ Last(Victims(x, r)) = b.window.cohort[i]
                                /\ b.window.cohort[i] \in OnDevice(x)
           /\ Victims(x, r) = << >> =>
                  \A i \in DOMAIN b.window.cohort : i > k + 1 => b.window.cohort[i] \notin OnDevice(x)
           /\ CutBefore(x, r) = Plan(First(b.window.cohort, k), b.window.remaining)
<1> DEFINE c == b.window.cohort
           D == OnDevice(x)
           p == After(c, k + 1)
           v == Among(p, D)
<1>1. c \in Seq(S) /\ IsInjective(c) /\ Len(c) \in Nat
  BY DEF Start
<1>2. Position(x, r) = k + 1
  <2>1. k + 1 \in DOMAIN c
    BY <1>1
  <2>2. \A i \in DOMAIN c : c[i] = r => i = k + 1
    BY <1>1, <2>1 DEF IsInjective
  <2>3. Position(x, r) = CHOOSE i \in DOMAIN c : c[i] = r
    BY DEF Position
  <2> HIDE DEF c
  <2> QED BY <2>1, <2>2, <2>3
<1>3. Victims(x, r) = v
  BY <1>2 DEF Victims
<1>4. CutBefore(x, r) = Plan(First(c, k), b.window.remaining)
  <2>1. (k + 1) - 1 = k
    OBVIOUS
  <2> QED BY <1>2, <2>1 DEF CutBefore
<1>5. /\ p \in Seq(S)
      /\ \A i \in DOMAIN p : i + (k + 1) \in DOMAIN c /\ p[i] = c[i + (k + 1)]
      /\ \A i \in DOMAIN c : i > k + 1 => i - (k + 1) \in DOMAIN p
  <2>1. k + 1 \in Nat
    OBVIOUS
  <2> HIDE DEF c
  <2> QED BY <1>1, <2>1, AfterIs
<1> HIDE DEF c, D, p
<1>6. Len(p) \in Nat /\ DOMAIN p = 1..Len(p)
  BY <1>5
<1>7. /\ \E m \in Nat : v \in [1..m -> Range(p) \cap D]
      /\ Range(v) = Range(p) \cap D
  BY <1>6, AmongView
<1> HIDE DEF v
<1>8. PICK m \in Nat : v \in [1..m -> Range(p) \cap D]
  BY <1>7
<1>9. v \in Seq(Range(p) \cap D) /\ Len(v) = m /\ DOMAIN v = 1..m
  BY <1>8
<1>10. ASSUME v # << >>
       PROVE  \E i \in DOMAIN c : i > k + 1 /\ Last(v) = c[i] /\ c[i] \in D
  <2>1. m \in DOMAIN v
    BY <1>8, <1>9, <1>10
  <2>2. Last(v) \in Range(p) \cap D
    BY <1>8, <1>9, <2>1 DEF Last
  <2>3. PICK j \in DOMAIN p : p[j] = Last(v)
    BY <2>2 DEF Range
  <2>4. j + (k + 1) \in DOMAIN c /\ p[j] = c[j + (k + 1)] /\ j + (k + 1) > k + 1
    BY <1>5, <1>6, <2>3
  <2> QED BY <2>2, <2>3, <2>4
<1>11. ASSUME v = << >>, NEW i \in DOMAIN c, i > k + 1 PROVE c[i] \notin D
  <2>1. Range(v) = {}
    BY <1>11 DEF Range
  <2>2. i - (k + 1) \in DOMAIN p /\ (i - (k + 1)) + (k + 1) = i
    BY <1>1, <1>5, <1>11
  <2>3. c[i] \in Range(p)
    BY <1>5, <2>2 DEF Range
  <2> QED BY <1>7, <2>1, <2>3
<1> QED BY <1>3, <1>4, <1>10, <1>11 DEF c, D

\* The step ends with a preemption: KV of a lower call leaves the device, nothing enters.
LEMMA MakeRoomEnds ==
    ASSUME NEW b, NEW S, Start(b, S), NEW k \in Nat, k < Len(b.window.cohort),
           NEW r, r = b.window.cohort[k + 1],
           NEW x, Midway(x, b, S, k), CanMakeRoom(x, r)
    PROVE  Ended(MakeRoom(x, r), b, S)
<1> DEFINE c == b.window.cohort
           v == Last(Victims(x, r))
           y == Evict(x, v)
           z == MakeRoom(x, r)
<1>1. /\ Sound(x, b, S) /\ Past(x, b, k) /\ x.window = b.window
      /\ x.outgoing = {} /\ x.ignored = {} /\ x.incoming = {}
      /\ \A i \in DOMAIN c : i > k + 1 => x.slots[c[i]] = b.slots[c[i]]
  BY DEF Midway, CanMakeRoom
<1>2. PICK j \in DOMAIN c : j > k + 1 /\ v = c[j] /\ c[j] \in OnDevice(x)
  BY <1>1, VictimsAre DEF CanMakeRoom
<1>3. /\ Fields(x) /\ Holds(x, S)
      /\ Used(x) <= Slots
      /\ OnDevice(x) \subseteq Range(c)
      /\ x.reserved \cap S \subseteq OnDevice(x)
      /\ Lasts(x, b.window.remaining)
      /\ x.prepared \cap unfilled = {}
      /\ x.prepared \subseteq b.prepared \cup S /\ x.reserved \subseteq b.reserved \cup S
  <2>1. S \ x.ignored = S
    BY <1>1
  <2> QED BY <1>1, <2>1 DEF Sound
<1>4. v \in OnDevice(x) /\ v \in S /\ x.slots[v] = b.slots[v]
  BY <1>1, <1>2, <1>3, UsedIs
<1> HIDE DEF v
<1>5. /\ Fields(y) /\ Holds(y, S)
      /\ OnDevice(y) = OnDevice(x) \ {v} /\ y.slots = x.slots
      /\ Used(y) + x.slots[v] = Used(x) /\ x.slots[v] \in Nat
      /\ y.outgoing = x.outgoing \cup {v}
      /\ y.prepared = x.prepared \ {v} /\ y.reserved = x.reserved \ {v}
      /\ y.window = x.window /\ y.incoming = x.incoming /\ y.ignored = x.ignored
  BY <1>3, <1>4, EvictView
<1>6. z = [y EXCEPT !.verdict = "return", !.groups = {}]
  BY DEF MakeRoom, v
<1> HIDE DEF y
<1>7. /\ Fields(z) /\ z.place = y.place /\ z.slots = y.slots
      /\ z.prepared = y.prepared /\ z.reserved = y.reserved
      /\ z.ignored = y.ignored /\ z.outgoing = y.outgoing /\ z.incoming = y.incoming
      /\ z.window = y.window /\ z.groups = {} /\ z.verdict = "return"
  BY <1>5, <1>6 DEF Fields
<1> HIDE DEF z
<1>8. Holds(z, S) /\ OnDevice(z) = OnDevice(y) /\ Used(z) = Used(y)
  BY <1>5, <1>7, SameDevice
<1>9. Used(z) + b.slots[v] <= Slots
  BY <1>3, <1>4, <1>5, <1>8
<1>10. Used(z) <= Slots
  <2>1. Used(z) \in Nat /\ b.slots[v] \in Nat /\ Slots \in Nat
    BY <1>4, <1>5, <1>8, UsedIs, DeviceAssumption
  <2> QED BY <1>9, <2>1
<1>11. Lasts(z, b.window.remaining)
  BY <1>3, <1>5, <1>7, <1>8 DEF Lasts
<1>12. Sound(z, b, S)
  <2>1. z.ignored = {} /\ S \ z.ignored = S
    BY <1>1, <1>5, <1>7
  <2>2. z.prepared = x.prepared \ {v} /\ z.reserved = x.reserved \ {v}
        /\ OnDevice(z) = OnDevice(x) \ {v}
    BY <1>5, <1>7, <1>8
  <2> QED BY <1>3, <1>7, <1>8, <1>10, <1>11, <2>1, <2>2 DEF Sound
<1>13. Returned(z, b, S)
  <2>1. z.outgoing = {v} /\ z.incoming = {} /\ z.ignored = {} /\ z.window = b.window
    BY <1>1, <1>5, <1>7
  <2> QED BY <1>4, <1>7, <1>9, <2>1 DEF Returned
<1> QED BY <1>12, <1>13 DEF Ended, z

\* The loop stops at a call that must not be passed.
LEMMA StopEnds ==
    ASSUME NEW b, NEW S, Start(b, S), NEW k \in Nat, k < Len(b.window.cohort),
           NEW r, r = b.window.cohort[k + 1],
           NEW x, Sound(x, b, S), Past(x, b, k), x.window = b.window, x.outgoing = {},
           x.groups = {} => x.incoming = {} /\ (x.ignored # {} \/ Hopeless(x, b))
    PROVE  Ended(Stop(x, r), b, S)
<1> DEFINE c == b.window.cohort
           z == Stop(x, r)
<1>1. CutBefore(x, r) = Plan(First(c, k), b.window.remaining)
  BY VictimsAre
<1>2. Fields(x)
  BY DEF Sound
<1>3. /\ Fields(z) /\ z.place = x.place /\ z.slots = x.slots
      /\ z.prepared = x.prepared /\ z.reserved = x.reserved /\ z.groups = x.groups
      /\ z.ignored = x.ignored /\ z.outgoing = x.outgoing /\ z.incoming = x.incoming
      /\ z.verdict = "stop"
      /\ x.groups = {} => z.window = x.window
      /\ x.groups # {} => z.window = CutBefore(x, r)
  <2> DEFINE cut == CutBefore(x, r)
  <2>1. z = [x EXCEPT !.window = IF x.groups # {} THEN cut ELSE @, !.verdict = "stop"]
    BY DEF Stop, Admitted
  <2> HIDE DEF cut, z
  <2>2. CASE x.groups = {}
    <3>1. z = [x EXCEPT !.window = x.window, !.verdict = "stop"]
      BY <2>1, <2>2
    <3> QED BY <1>2, <2>2, <3>1 DEF Fields
  <2>3. CASE x.groups # {}
    <3>1. z = [x EXCEPT !.window = cut, !.verdict = "stop"]
      BY <2>1, <2>3
    <3> QED BY <1>2, <2>3, <3>1 DEF Fields, cut
  <2> QED BY <2>2, <2>3
<1> HIDE DEF z
<1>4. Sound(z, b, S) /\ OnDevice(z) = OnDevice(x)
  BY <1>3, SameSound
<1>5. k \in 0..Len(c)
  BY DEF Start
<1>6. Past(z, b, k)
  BY <1>3 DEF Past
<1>7. Stopped(z, b)
  <2>1. CASE z.groups = {}
    <3>1. Hopeless(x, b) => Hopeless(z, b)
      BY <1>4 DEF Hopeless
    <3> QED BY <1>3, <2>1, <3>1 DEF Stopped
  <2>2. CASE z.groups # {}
    <3>1. z.window = Plan(First(c, k), b.window.remaining)
      BY <1>1, <1>3, <2>2
    <3> QED BY <1>3, <1>5, <1>6, <2>2, <3>1 DEF Stopped
  <2> QED BY <2>1, <2>2
<1> QED BY <1>4, <1>7 DEF Ended, z

\* Once a call is passed somebody executes: the first one is no reserve.
LEMMA FirstExecutes ==
    ASSUME NEW b, NEW S, Start(b, S), NEW k \in Nat, NEW x, Past(x, b, k), x.groups = {}
    PROVE  k = 0
<1>1. CASE k # 0
  <2>1. 1 \in 1..k
    BY <1>1
  <2> QED BY <2>1 DEF Past, Start
<1> QED BY <1>1

\* If the first call does not fit alone, it never will.
LEMMA FirstAlone ==
    ASSUME NEW b, NEW S, Start(b, S), NEW x, Midway(x, b, S, 0),
           NEW r, r = b.window.cohort[1], Victims(x, r) = << >>
    PROVE  /\ OnDevice(x) \subseteq {r}
           /\ \A ahead \in Nat :
                  (/\ Wanted(x, r, b, ahead)
                   /\ r \in OnDevice(x) /\ ~CanAppend(x, r, ahead)) => Hopeless(x, b)
<1> DEFINE c == b.window.cohort
<1>1. /\ Sound(x, b, S) /\ x.window = b.window /\ x.ignored = {}
      /\ c \in Seq(S) /\ Len(c) > 0 /\ b.window.remaining \in Nat \ {0} /\ len \in [S -> Nat \ {0}]
  BY DEF Midway, Start
<1>2. /\ Holds(x, S) /\ Used(x) <= Slots /\ OnDevice(x) \subseteq Range(c)
      /\ Lasts(x, b.window.remaining)
  <2>1. S \ x.ignored = S
    BY <1>1
  <2> QED BY <1>1, <2>1 DEF Sound
<1>3. \A i \in DOMAIN c : i > 1 => c[i] \notin OnDevice(x)
  <2>1. 0 \in Nat /\ 0 < Len(c) /\ r = c[0 + 1]
    BY <1>1
  <2>2. \A i \in DOMAIN c : i > 0 + 1 => c[i] \notin OnDevice(x)
    BY <1>1, <2>1, VictimsAre
  <2> QED BY <2>2
<1>4. OnDevice(x) \subseteq {r}
  <2> SUFFICES ASSUME NEW q \in OnDevice(x) PROVE q = r
    OBVIOUS
  <2>1. PICK i \in DOMAIN c : c[i] = q
    BY <1>2 DEF Range
  <2>2. i \in Nat /\ i >= 1 /\ ~(i > 1)
    BY <1>1, <1>3, <2>1
  <2>3. i = 1
    BY <2>2
  <2> QED BY <2>1, <2>3
<1>5. ASSUME NEW ahead \in Nat, Wanted(x, r, b, ahead), r \in OnDevice(x), ~CanAppend(x, r, ahead)
      PROVE  Hopeless(x, b)
  <2>1. r \in S /\ x.slots[r] \in Nat /\ len[r] \in Nat \ {0} /\ Slots \in Nat
    BY <1>1, <1>2, <1>5, UsedIs, DeviceAssumption DEF Holds
  <2>2. Used(x) = x.slots[r]
    BY <1>2, <1>4, <1>5, UsedAlone
  <2>3. /\ Appended(x, r, ahead) \in Nat
        /\ Appended(x, r, ahead) = x.slots[r] \/ Appended(x, r, ahead) = len[r] + ahead
    BY <2>1, AppendedIs
  <2>4. ~(Appended(x, r, ahead) - x.slots[r] <= Slots - Used(x))
    BY <1>5 DEF CanAppend, Free
  <2>5. len[r] + ahead > Slots
    BY <1>2, <2>1, <2>2, <2>3, <2>4
  <2>6. CASE r \in x.reserved
    <3>1. x.slots[r] >= len[r] + b.window.remaining - (IF r \in unfilled THEN 0 ELSE 1)
      BY <1>2, <1>5, <2>6 DEF Lasts
    <3>2. x.slots[r] >= len[r]
      BY <1>1, <2>1, <3>1
    <3> QED BY <1>2, <1>5, <2>1, <2>2, <2>5, <2>6, <3>2 DEF Wanted
  <2>7. CASE r \notin x.reserved
    BY <1>4, <1>5, <2>5, <2>7 DEF Hopeless, Wanted
  <2> QED BY <2>6, <2>7
<1> QED BY <1>4, <1>5

\* A call that fits is brought to the device.
LEMMA BringInGoes ==
    ASSUME NEW b, NEW S, Start(b, S), NEW k \in Nat, k < Len(b.window.cohort),
           NEW r, r = b.window.cohort[k + 1],
           NEW x, Midway(x, b, S, k),
           x.place[r] = "waiting" => len[r] <= Free(x),
           x.place[r] = "swapped" => x.slots[r] <= Free(x),
           NEW y, y = BringIn(x, r)
    PROVE  /\ Midway(y, b, S, k) /\ r \in OnDevice(y) /\ r \in S
           /\ y.tokens = x.tokens /\ y.reserved = x.reserved
<1> DEFINE c == b.window.cohort
           rem == b.window.remaining
<1>1. /\ Sound(x, b, S) /\ Past(x, b, k) /\ x.verdict = "go" /\ x.window = b.window
      /\ x.chosen = b.chosen /\ x.resident = b.resident
      /\ x.outgoing = {} /\ x.ignored = {} /\ x.tokens \in Nat
      /\ \A i \in DOMAIN c : i > k + 1 => x.slots[c[i]] = b.slots[c[i]]
  BY DEF Midway
<1>2. /\ Fields(x) /\ Holds(x, S) /\ Used(x) <= Slots /\ OnDevice(x) \subseteq Range(c)
      /\ x.reserved \cap S \subseteq OnDevice(x) /\ Lasts(x, rem)
      /\ x.prepared \cap unfilled = {}
      /\ x.prepared \subseteq b.prepared \cup S /\ x.reserved \subseteq b.reserved \cup S
      /\ x.groups \subseteq OnDevice(x)
  <2>1. S \ x.ignored = S
    BY <1>1
  <2> QED BY <1>1, <2>1 DEF Sound
<1>3. /\ c \in Seq(S) /\ IsInjective(c) /\ len \in [S -> Nat \ {0}]
  BY DEF Start
<1>4. /\ k + 1 \in DOMAIN c /\ r \in S /\ r \in Range(c) /\ len[r] \in Nat
  <2>1. k + 1 \in DOMAIN c
    BY <1>3
  <2> QED BY <1>3, <2>1 DEF Range
<1>5. /\ Fields(y) /\ Holds(y, S)
      /\ OnDevice(y) = OnDevice(x) \cup {r}
      /\ \A q \in S \ {r} : y.place[q] = x.place[q] /\ y.slots[q] = x.slots[q]
      /\ y.slots[r] = IF x.place[r] = "waiting" THEN len[r] ELSE x.slots[r]
      /\ Used(y) = IF r \in OnDevice(x) THEN Used(x) ELSE Used(x) + y.slots[r]
      /\ y.prepared \ {r} \subseteq x.prepared
      /\ r \in unfilled => y.prepared = x.prepared
      /\ y.reserved = x.reserved /\ y.outgoing = x.outgoing
      /\ y.window = x.window /\ y.chosen = x.chosen /\ y.resident = x.resident
      /\ y.groups = x.groups /\ y.ignored = x.ignored
      /\ y.tokens = x.tokens /\ y.verdict = x.verdict
  <2>1. Fields(x) /\ Holds(x, S) /\ r \in S /\ len[r] \in Nat
    BY <1>2, <1>4
  <2> QED BY <2>1, BringInView
<1> HIDE DEF c, rem
<1>6. r \in OnDevice(x) <=> x.place[r] = "running"
  BY <1>2, <1>4 DEF OnDevice, Holds
<1>7. x.place[r] \in Queue /\ x.slots[r] \in Nat /\ Used(x) \in Nat /\ Slots \in Nat
  BY <1>2, <1>4, UsedIs, DeviceAssumption DEF Holds
<1>8. Used(y) <= Slots
  <2>1. CASE x.place[r] = "waiting"
    <3>1. Used(y) = Used(x) + y.slots[r] /\ y.slots[r] = len[r]
      BY <1>5, <1>6, <2>1
    <3> QED BY <1>4, <1>7, <2>1, <3>1 DEF Free
  <2>2. CASE x.place[r] = "swapped"
    <3>1. Used(y) = Used(x) + y.slots[r] /\ y.slots[r] = x.slots[r]
      BY <1>5, <1>6, <2>2
    <3> QED BY <1>7, <2>2, <3>1 DEF Free
  <2>3. CASE x.place[r] = "running"
    BY <1>2, <1>5, <1>6, <2>3
  <2> QED BY <1>7, <2>1, <2>2, <2>3 DEF Queue
<1>9. Lasts(y, rem)
  <2> SUFFICES ASSUME NEW q \in y.reserved \cap OnDevice(y)
               PROVE  y.slots[q] >= len[q] + rem - (IF q \in unfilled THEN 0 ELSE 1)
    BY DEF Lasts
  <2>1. q \in S
    BY <1>5, UsedIs
  <2>2. q \in x.reserved \cap OnDevice(x)
    BY <1>2, <1>5, <2>1
  <2>3. y.slots[q] = x.slots[q]
    BY <1>5, <1>6, <2>1, <2>2
  <2> QED BY <1>2, <2>2, <2>3 DEF Lasts
<1>10. y.prepared \cap unfilled = {} /\ y.prepared \subseteq b.prepared \cup S
  BY <1>2, <1>4, <1>5
<1>11. Sound(y, b, S)
  <2>1. S \ y.ignored = S
    BY <1>1, <1>5
  <2> QED BY <1>1, <1>2, <1>4, <1>5, <1>8, <1>9, <1>10, <2>1 DEF Sound, c, rem
<1>12. \A i \in DOMAIN c : i > k + 1 => y.slots[c[i]] = b.slots[c[i]]
  <2> SUFFICES ASSUME NEW i \in DOMAIN c, i > k + 1 PROVE y.slots[c[i]] = b.slots[c[i]]
    OBVIOUS
  <2>1. c[i] \in S /\ c[i] # r
    BY <1>3, <1>4 DEF IsInjective, c
  <2> QED BY <1>1, <1>5, <2>1
<1>13. Past(y, b, k)
  <2>1. y.groups = x.groups /\ Past(x, b, k)
    BY <1>1, <1>5
  <2> QED BY <2>1 DEF Past
<1>14. y.verdict = "go" /\ y.window = b.window /\ y.chosen = b.chosen /\ y.resident = b.resident
       /\ y.outgoing = {} /\ y.ignored = {} /\ y.tokens \in Nat
  BY <1>1, <1>5
<1>15. Midway(y, b, S, k)
  BY <1>11, <1>12, <1>13, <1>14 DEF Midway, c
<1> QED BY <1>4, <1>5, <1>15

\* A call on the device gets its slots for the window: the loop goes on.
LEMMA ReserveGoes ==
    ASSUME NEW b, NEW S, Start(b, S), NEW k \in Nat, NEW r, Turn(r, b, k),
           NEW x, Midway(x, b, S, k), r \in OnDevice(x),
           NEW ahead \in Nat, NEW count \in Nat, Wanted(x, r, b, ahead),
           CanAppend(x, r, ahead),
           NEW z, z = Reserve(x, r, ahead, count)
    PROVE  Going(z, b, S, k + 1)
<1> DEFINE c == b.window.cohort
           rem == b.window.remaining
<1>1. /\ Sound(x, b, S) /\ Past(x, b, k) /\ x.verdict = "go" /\ x.window = b.window
      /\ x.chosen = b.chosen /\ x.resident = b.resident
      /\ x.outgoing = {} /\ x.ignored = {} /\ x.tokens \in Nat
      /\ \A i \in DOMAIN c : i > k + 1 => x.slots[c[i]] = b.slots[c[i]]
  BY DEF Midway
<1>2. /\ Fields(x) /\ Holds(x, S) /\ Used(x) <= Slots /\ OnDevice(x) \subseteq Range(c)
      /\ x.reserved \cap S \subseteq OnDevice(x) /\ Lasts(x, rem)
      /\ x.prepared \cap unfilled = {}
      /\ x.prepared \subseteq b.prepared \cup S /\ x.reserved \subseteq b.reserved \cup S
      /\ x.groups \subseteq OnDevice(x)
  <2>1. S \ x.ignored = S
    BY <1>1
  <2> QED BY <1>1, <2>1 DEF Sound
<1>3. /\ c \in Seq(S) /\ IsInjective(c) /\ len \in [S -> Nat \ {0}] /\ rem \in Nat \ {0}
      /\ b.resident \subseteq b.window.reserve \ unfilled
  BY DEF Start
<1>4. /\ k + 1 \in DOMAIN c /\ r = c[k + 1]
      /\ r \in S /\ len[r] \in Nat /\ x.slots[r] \in Nat
  <2>1. k + 1 \in DOMAIN c /\ r = c[k + 1]
    BY <1>3 DEF Turn
  <2> QED BY <1>2, <1>3, <2>1 DEF Holds
<1>5. /\ Fields(z) /\ Holds(z, S)
      /\ OnDevice(z) = OnDevice(x) /\ z.place = x.place
      /\ \A q \in S \ {r} : z.slots[q] = x.slots[q]
      /\ z.slots[r] = Appended(x, r, ahead)
      /\ Used(z) + x.slots[r] = Used(x) + z.slots[r]
      /\ z.reserved = x.reserved \cup {r}
      /\ z.groups \subseteq x.groups \cup {r} /\ x.groups \subseteq z.groups
      /\ Executes(x, r) => r \in z.groups
      /\ z.tokens = x.tokens + count
      /\ z.incoming = x.incoming /\ z.outgoing = x.outgoing /\ z.ignored = x.ignored
      /\ z.window = x.window /\ z.chosen = x.chosen /\ z.resident = x.resident
      /\ z.prepared = x.prepared /\ z.verdict = x.verdict
  <2>1. Fields(x) /\ Holds(x, S) /\ len[r] \in Nat
    BY <1>2, <1>4
  <2> QED BY <2>1, ReserveView
<1>6. /\ Appended(x, r, ahead) \in Nat
      /\ Appended(x, r, ahead) >= x.slots[r] /\ Appended(x, r, ahead) >= len[r] + ahead
  BY <1>4, AppendedIs
<1>7. Used(x) \in Nat /\ Used(z) \in Nat /\ Slots \in Nat
  BY <1>2, <1>5, UsedIs, DeviceAssumption
<1> HIDE DEF c, rem
<1>8. Used(z) <= Slots
  <2>1. Appended(x, r, ahead) - x.slots[r] <= Slots - Used(x)
    BY DEF CanAppend, Free
  <2>2. Used(z) + x.slots[r] = Used(x) + Appended(x, r, ahead)
    BY <1>5
  <2>3. x.slots[r] \in Nat
    BY <1>4
  <2> QED BY <1>6, <1>7, <2>1, <2>2, <2>3
<1>9. Lasts(z, rem)
  <2> SUFFICES ASSUME NEW q \in z.reserved \cap OnDevice(z)
               PROVE  z.slots[q] >= len[q] + rem - (IF q \in unfilled THEN 0 ELSE 1)
    BY DEF Lasts
  <2>1. q \in S /\ q \in OnDevice(x)
    BY <1>5, UsedIs
  <2>2. CASE q # r
    BY <1>2, <1>5, <2>1, <2>2 DEF Lasts
  <2>3. CASE q = r /\ r \in x.reserved
    <3>1. x.slots[r] >= len[r] + rem - (IF r \in unfilled THEN 0 ELSE 1)
      BY <1>2, <2>1, <2>3 DEF Lasts
    <3>2. z.slots[r] >= x.slots[r] /\ z.slots[r] \in Nat
      BY <1>5, <1>6
    <3>3. rem \in Nat /\ len[r] \in Nat /\ x.slots[r] \in Nat
      BY <1>3, <1>4
    <3> QED BY <2>3, <3>1, <3>2, <3>3
  <2>4. CASE q = r /\ r \notin x.reserved
    <3>1. z.slots[r] >= len[r] + rem /\ z.slots[r] \in Nat
      BY <1>5, <1>6, <2>4 DEF rem, Wanted
    <3>2. rem \in Nat /\ len[r] \in Nat
      BY <1>3, <1>4
    <3> QED BY <2>4, <3>1, <3>2
  <2> QED BY <2>2, <2>3, <2>4
<1>10. Sound(z, b, S)
  <2>1. S \ z.ignored = S /\ z.ignored \subseteq S
    BY <1>1, <1>5
  <2> QED BY <1>2, <1>4, <1>5, <1>8, <1>9, <2>1 DEF Sound, c, rem
<1>11. Past(z, b, k + 1)
  <2>1. r \in z.groups \cup (b.window.reserve \ unfilled)
    <3>1. CASE Executes(x, r)
      BY <1>5, <3>1
    <3>2. CASE ~Executes(x, r)
      BY <1>1, <1>3, <3>2 DEF Executes, Kept
    <3> QED BY <3>1, <3>2
  <2>2. \A i \in 1..(k + 1) : i \in 1..k \/ i = k + 1
    OBVIOUS
  <2>3. k + 1 \in 1..(k + 1) /\ \A i \in 1..k : i \in 1..(k + 1)
    OBVIOUS
  <2>4. \A i \in 1..(k + 1) : c[i] \in z.groups \cup (b.window.reserve \ unfilled)
    BY <1>1, <1>4, <1>5, <2>1, <2>2 DEF Past, c
  <2>5. ASSUME NEW q \in z.groups PROVE \E i \in 1..(k + 1) : q = c[i]
    <3>1. CASE q \in x.groups
      <4>1. PICK i \in 1..k : q = c[i]
        BY <1>1, <3>1 DEF Past, c
      <4> QED BY <2>3, <4>1
    <3>2. CASE q = r
      BY <1>4, <2>3, <3>2
    <3> QED BY <1>5, <3>1, <3>2
  <2> QED BY <2>4, <2>5 DEF Past, c
<1>12. \A i \in DOMAIN c : i > k + 2 => z.slots[c[i]] = b.slots[c[i]]
  <2> SUFFICES ASSUME NEW i \in DOMAIN c, i > k + 2 PROVE z.slots[c[i]] = b.slots[c[i]]
    OBVIOUS
  <2>1. i > k + 1 /\ i # k + 1
    BY <1>3
  <2>2. c[i] \in S /\ c[i] # r
    BY <1>3, <1>4, <2>1 DEF IsInjective, c
  <2> QED BY <1>1, <1>5, <2>1, <2>2
<1>13. z.verdict = "go" /\ z.window = b.window /\ z.chosen = b.chosen /\ z.resident = b.resident
       /\ z.outgoing = {} /\ z.ignored = {} /\ z.tokens \in Nat
  <2>1. z.tokens = x.tokens + count /\ x.tokens \in Nat
    BY <1>1, <1>5
  <2> QED BY <1>1, <1>5, <2>1
<1>14. Midway(z, b, S, k + 1)
  <2>1. (k + 1) + 1 = k + 2
    OBVIOUS
  <2> QED BY <1>10, <1>11, <1>12, <1>13, <2>1 DEF Midway, c
<1>15. k + 1 # 0
  OBVIOUS
<1> QED BY <1>14, <1>15 DEF Going

\* A call on the device is appended to, or the step ends.
LEMMA ReserveOrStopIs ==
    ASSUME NEW b, NEW S, Start(b, S), NEW k \in Nat, NEW r, Turn(r, b, k),
           NEW x, Midway(x, b, S, k), r \in OnDevice(x),
           NEW ahead \in Nat, NEW count \in Nat, Wanted(x, r, b, ahead),
           NEW y, y = ReserveOrStop(x, r, ahead, count)
    PROVE  Going(y, b, S, k + 1) \/ Ended(y, b, S)
<1>1. /\ Sound(x, b, S) /\ Past(x, b, k) /\ x.window = b.window
      /\ x.outgoing = {} /\ x.ignored = {} /\ Fields(x)
      /\ k < Len(b.window.cohort) /\ r = b.window.cohort[k + 1]
  BY DEF Midway, Turn, Sound
<1>2. CASE CanAppend(x, r, ahead)
  <2>1. y = Reserve(x, r, ahead, count)
    BY <1>2 DEF ReserveOrStop
  <2> QED BY <1>2, <2>1, ReserveGoes
<1>3. CASE ~CanAppend(x, r, ahead) /\ CanMakeRoom(x, r)
  <2>1. y = MakeRoom(x, r)
    BY <1>3 DEF ReserveOrStop
  <2> QED BY <1>1, <1>3, <2>1, MakeRoomEnds
<1>4. CASE ~CanAppend(x, r, ahead) /\ ~CanMakeRoom(x, r) /\ x.incoming # {}
  <2>1. y = [x EXCEPT !.verdict = "return", !.groups = {}]
    BY <1>4 DEF ReserveOrStop
  <2>2. /\ Fields(y) /\ y.place = x.place /\ y.slots = x.slots
        /\ y.prepared = x.prepared /\ y.reserved = x.reserved
        /\ y.ignored = x.ignored /\ y.outgoing = x.outgoing
        /\ y.window = x.window /\ y.groups = {} /\ y.verdict = "return"
    BY <1>1, <2>1 DEF Fields
  <2>3. Sound(y, b, S)
    BY <1>1, <2>2, SameSound
  <2>4. Returned(y, b, S)
    BY <1>1, <2>2 DEF Returned
  <2> QED BY <2>3, <2>4 DEF Ended
<1>5. CASE ~CanAppend(x, r, ahead) /\ ~CanMakeRoom(x, r) /\ x.incoming = {} /\ x.groups = {}
  <2>1. y = [x EXCEPT !.verdict = "raise"]
    BY <1>5 DEF ReserveOrStop, Admitted
  <2>2. /\ Fields(y) /\ y.place = x.place /\ y.slots = x.slots
        /\ y.prepared = x.prepared /\ y.reserved = x.reserved
        /\ y.ignored = x.ignored /\ y.outgoing = x.outgoing
        /\ y.window = x.window /\ y.groups = x.groups /\ y.verdict = "raise"
    BY <1>1, <2>1 DEF Fields
  <2>3. Sound(y, b, S) /\ OnDevice(y) = OnDevice(x)
    BY <1>1, <2>2, SameSound
  <2>4. k = 0 /\ r = b.window.cohort[1]
    <3>1. k = 0
      BY <1>1, <1>5, FirstExecutes
    <3> QED BY <1>1, <3>1
  <2>5. Victims(x, r) = << >>
    BY <1>5 DEF CanMakeRoom
  <2>6. Midway(x, b, S, 0)
    BY <2>4
  <2>7. Hopeless(x, b)
    BY <1>5, <2>4, <2>5, <2>6, FirstAlone
  <2>8. Raised(y, b)
    BY <1>1, <1>5, <2>2, <2>3, <2>7 DEF Raised, Hopeless
  <2> QED BY <2>3, <2>8 DEF Ended
<1>6. CASE ~CanAppend(x, r, ahead) /\ ~CanMakeRoom(x, r) /\ x.incoming = {} /\ x.groups # {}
  <2>1. y = Stop(x, r)
    BY <1>6 DEF ReserveOrStop, Admitted
  <2> QED BY <1>1, <1>6, <2>1, StopEnds
<1> QED BY <1>2, <1>3, <1>4, <1>5, <1>6

\* A call that never fits is aborted, and is the last one the step looks at.
LEMMA IgnoreEnds ==
    ASSUME NEW b, NEW S, Start(b, S), NEW k \in Nat, NEW r, Turn(r, b, k),
           NEW x, Going(x, b, S, k), r \notin OnDevice(x)
    PROVE  Ended(Stop(Ignore(x, r), r), b, S)
<1> DEFINE c == b.window.cohort
           y == Ignore(x, r)
<1>1. /\ Sound(x, b, S) /\ Past(x, b, k) /\ x.window = b.window
      /\ x.outgoing = {} /\ x.ignored = {} /\ (k = 0 => x.incoming = {})
      /\ k < Len(c) /\ r = c[k + 1] /\ c \in Seq(S)
  BY DEF Going, Midway, Turn, Start
<1>2. /\ Fields(x) /\ Holds(x, S) /\ Used(x) <= Slots /\ OnDevice(x) \subseteq Range(c)
      /\ x.reserved \cap S \subseteq OnDevice(x) /\ Lasts(x, b.window.remaining)
      /\ x.prepared \cap unfilled = {}
      /\ x.prepared \subseteq b.prepared \cup S /\ x.reserved \subseteq b.reserved \cup S
      /\ x.groups \subseteq OnDevice(x)
  <2>1. S \ x.ignored = S
    BY <1>1
  <2> QED BY <1>1, <2>1 DEF Sound
<1>3. r \in S
  BY <1>1
<1>4. /\ Fields(y) /\ Holds(y, S \ {r})
      /\ OnDevice(y) = OnDevice(x) /\ Used(y) = Used(x)
      /\ \A q \in S \ {r} : y.place[q] = x.place[q] /\ y.slots[q] = x.slots[q]
      /\ y.ignored = x.ignored \cup {r}
      /\ y.prepared = x.prepared /\ y.reserved = x.reserved
      /\ y.incoming = x.incoming /\ y.outgoing = x.outgoing
      /\ y.window = x.window /\ y.groups = x.groups
  BY <1>2, <1>3, IgnoreView
<1> HIDE DEF y, c
<1>5. Lasts(y, b.window.remaining)
  <2>1. OnDevice(x) \subseteq S \ {r}
    BY <1>2, UsedIs
  <2> QED BY <1>2, <1>4, <2>1 DEF Lasts
<1>6. Sound(y, b, S)
  <2>1. y.ignored = {r} /\ S \ y.ignored = S \ {r}
    BY <1>1, <1>4
  <2> QED BY <1>2, <1>3, <1>4, <1>5, <2>1 DEF Sound, c
<1>7. Past(y, b, k)
  <2>1. y.groups = x.groups /\ Past(x, b, k)
    BY <1>1, <1>4
  <2> QED BY <2>1 DEF Past
<1>8. y.groups = {} => y.incoming = {} /\ y.ignored # {}
  <2>1. y.groups = {} => k = 0
    BY <1>7, FirstExecutes
  <2> QED BY <1>1, <1>4, <2>1
<1>9. y.window = b.window /\ y.outgoing = {}
  BY <1>1, <1>4
<1>10. k < Len(b.window.cohort) /\ r = b.window.cohort[k + 1]
  BY <1>1 DEF c
<1>11. Ended(Stop(y, r), b, S)
  BY <1>6, <1>7, <1>8, <1>9, <1>10, StopEnds
<1> QED BY <1>11 DEF y

\* A call that does not fit now, with nobody to make room: somebody executes, or it is the
\* first one and the device could not hold it alone.
LEMMA LaterEnds ==
    ASSUME NEW b, NEW S, Start(b, S), NEW k \in Nat, NEW r, Turn(r, b, k),
           NEW x, Going(x, b, S, k), NEW ahead \in Nat, Wanted(x, r, b, ahead),
           ~CanMakeRoom(x, r),
           r \in OnDevice(x) => ~CanAppend(x, r, ahead),
           r \notin OnDevice(x) => \E needs \in Nat : Status(needs, x) = "later"
    PROVE  Ended(Stop(x, r), b, S)
<1>1. /\ Sound(x, b, S) /\ Past(x, b, k) /\ x.window = b.window /\ Midway(x, b, S, k)
      /\ x.outgoing = {} /\ x.ignored = {} /\ (k = 0 => x.incoming = {})
      /\ k < Len(b.window.cohort) /\ r = b.window.cohort[k + 1]
  BY DEF Going, Midway, Turn
<1>2. ASSUME x.groups = {} PROVE x.incoming = {} /\ Hopeless(x, b)
  <2>1. k = 0
    BY <1>1, <1>2, FirstExecutes
  <2>2. x.incoming = {} /\ r = b.window.cohort[1] /\ Midway(x, b, S, 0)
    BY <1>1, <2>1
  <2>3. Victims(x, r) = << >>
    BY <2>2 DEF CanMakeRoom
  <2>4. OnDevice(x) \subseteq {r}
    BY <2>2, <2>3, FirstAlone
  <2>5. CASE r \in OnDevice(x)
    BY <2>2, <2>3, <2>5, FirstAlone
  <2>6. CASE r \notin OnDevice(x)
    <3>1. Holds(x, S)
      <4>1. S \ x.ignored = S
        BY <1>1
      <4> QED BY <1>1, <4>1 DEF Sound
    <3>2. Used(x) = 0
      BY <2>4, <2>6, <3>1, UsedAlone
    <3>3. PICK needs \in Nat : Status(needs, x) = "later"
      BY <2>6
    <3>4. Free(x) = Slots /\ Slots \in Nat
      BY <3>2, DeviceAssumption DEF Free
    <3> QED BY <3>3, <3>4 DEF Status
  <2> QED BY <2>2, <2>5, <2>6
<1> QED BY <1>1, <1>2, StopEnds

\* One call of the cohort.
LEMMA AdmitIs ==
    ASSUME NEW b, NEW S, Start(b, S), NEW k \in Nat, NEW r, Turn(r, b, k),
           NEW x, Going(x, b, S, k), NEW y, y = Admit(x, r)
    PROVE  Going(y, b, S, k + 1) \/ Ended(y, b, S)
<1> DEFINE c == b.window.cohort
           count == IF ~Executes(x, r) THEN 0 ELSE IF r \in unfilled THEN len[r] ELSE 1
           ahead == IF r \in x.reserved THEN 0 ELSE Ahead(x)
           status == CASE x.place[r] = "waiting" -> Status(len[r], x)
                       [] x.place[r] = "swapped" -> Status(Appended(x, r, ahead), x)
                       [] OTHER -> IF CanAppend(x, r, ahead) THEN "ok" ELSE "later"
           skipped == r \notin x.chosen /\ r \in x.reserved
           over == x.tokens + count > Budget
<1>1. /\ Sound(x, b, S) /\ Past(x, b, k) /\ x.window = b.window /\ Midway(x, b, S, k)
      /\ x.verdict = "go" /\ x.chosen = b.chosen /\ x.resident = b.resident
      /\ x.outgoing = {} /\ x.ignored = {} /\ x.tokens \in Nat
      /\ k = 0 => x.incoming = {} /\ x.tokens = 0
      /\ k < Len(c) /\ r = c[k + 1] /\ c \in Seq(S)
      /\ len \in [S -> Nat \ {0}] /\ b.window.remaining \in Nat
      /\ \A q \in unfilled : len[q] <= Budget
  BY DEF Going, Midway, Turn, Start
<1>2. k + 1 \in DOMAIN c /\ r \in S /\ r \in Range(c) /\ len[r] \in Nat
  <2>1. k + 1 \in DOMAIN c
    BY <1>1
  <2> QED BY <1>1, <2>1 DEF Range
<1>3. Holds(x, S) /\ x.place[r] \in Queue /\ x.slots[r] \in Nat
  <2>1. S \ x.ignored = S
    BY <1>1
  <2>2. Holds(x, S)
    BY <1>1, <2>1 DEF Sound
  <2> QED BY <1>2, <2>2 DEF Holds
<1>4. ahead \in Nat /\ Wanted(x, r, b, ahead)
  BY <1>1 DEF Wanted, Ahead
<1>5. count \in Nat
  BY <1>2
<1>6. y = IF x.verdict # "go" \/ skipped THEN x
          ELSE IF over THEN Stop(x, r)
          ELSE IF status = "ok" THEN Place(x, r, ahead, count)
          ELSE IF CanMakeRoom(x, r) THEN MakeRoom(x, r)
          ELSE Stop(IF status = "never" THEN Ignore(x, r) ELSE x, r)
  BY DEF Admit
<1>7. count <= Budget
  <2>1. Budget \in Nat \ {0}
    BY DeviceAssumption
  <2> QED BY <1>1, <1>2, <2>1
<1>8. /\ x.place[r] = "waiting" => status = Status(len[r], x)
      /\ x.place[r] = "swapped" => status = Status(Appended(x, r, ahead), x)
      /\ x.place[r] = "running" => status = IF CanAppend(x, r, ahead) THEN "ok" ELSE "later"
      /\ r \in OnDevice(x) <=> x.place[r] = "running"
  BY <1>2, <1>3 DEF OnDevice, Holds
<1>9. /\ Appended(x, r, ahead) \in Nat /\ Appended(x, r, ahead) >= x.slots[r]
      /\ Slots \in Nat /\ Used(x) \in Nat /\ Free(x) = Slots - Used(x)
  BY <1>2, <1>3, <1>4, AppendedIs, UsedIs, DeviceAssumption DEF Free
<1>10. k < Len(b.window.cohort) /\ r = b.window.cohort[k + 1]
  BY <1>1
<1>11. status \in {"ok", "later", "never"}
  BY <1>3, <1>8 DEF Queue, Status
<1> HIDE DEF c, ahead, count, status
<1>12. CASE skipped
  <2>1. y = x
    BY <1>6, <1>12
  <2>2. r \in b.window.reserve \ unfilled
    BY <1>1, <1>2, <1>12 DEF Start, c
  <2>3. Past(x, b, k + 1)
    <3>1. \A i \in 1..(k + 1) : i \in 1..k \/ i = k + 1
      OBVIOUS
    <3>2. \A i \in 1..k : i \in 1..(k + 1)
      OBVIOUS
    <3>3. \A i \in 1..(k + 1) : c[i] \in x.groups \cup (b.window.reserve \ unfilled)
      BY <1>1, <2>2, <3>1 DEF Past, c
    <3>4. \A q \in x.groups : \E i \in 1..(k + 1) : q = c[i]
      BY <1>1, <3>2 DEF Past, c
    <3> QED BY <3>3, <3>4 DEF Past, c
  <2>4. Midway(x, b, S, k + 1)
    <3>1. \A i \in DOMAIN c : i > (k + 1) + 1 => i > k + 1
      BY <1>1
    <3>2. \A i \in DOMAIN c : i > (k + 1) + 1 => x.slots[c[i]] = b.slots[c[i]]
      BY <1>1, <3>1 DEF Midway, c
    <3> QED BY <1>1, <2>3, <3>2 DEF Midway, c
  <2>5. k + 1 # 0
    OBVIOUS
  <2> QED BY <2>1, <2>4, <2>5 DEF Going
<1>13. CASE ~skipped /\ over
  <2>1. y = Stop(x, r)
    BY <1>1, <1>6, <1>13
  <2>2. x.groups # {}
    <3>1. SUFFICES ASSUME x.groups = {} PROVE FALSE
      OBVIOUS
    <3>2. k = 0
      BY <1>1, <3>1, FirstExecutes
    <3>3. Budget \in Nat /\ x.tokens = 0
      BY <1>1, <3>2, DeviceAssumption
    <3> QED BY <1>5, <1>7, <1>13, <3>3
  <2>3. Sound(x, b, S) /\ Past(x, b, k) /\ x.window = b.window /\ x.outgoing = {}
    BY <1>1
  <2>4. Ended(Stop(x, r), b, S)
    BY <1>10, <2>2, <2>3, StopEnds
  <2> QED BY <2>1, <2>4
<1>14. CASE ~skipped /\ ~over /\ status = "ok"
  <2> DEFINE z == BringIn(x, r)
  <2>1. y = ReserveOrStop(z, r, ahead, count)
    BY <1>1, <1>6, <1>14 DEF Place
  <2>2. x.place[r] = "waiting" => len[r] <= Free(x)
    BY <1>2, <1>8, <1>9, <1>14 DEF Status
  <2>3. x.place[r] = "swapped" => x.slots[r] <= Free(x)
    <3>1. x.place[r] = "swapped" => Appended(x, r, ahead) <= Free(x)
      BY <1>8, <1>9, <1>14 DEF Status
    <3> QED BY <1>3, <1>9, <3>1
  <2>4. Midway(z, b, S, k) /\ r \in OnDevice(z) /\ z.reserved = x.reserved
    BY SMTT(30), <1>1, <1>10, <2>2, <2>3, BringInGoes
  <2>5. Wanted(z, r, b, ahead)
    BY <1>4, <2>4 DEF Wanted
  <2> HIDE DEF z
  <2> QED BY <1>4, <1>5, <2>1, <2>4, <2>5, ReserveOrStopIs
<1>15. CASE ~skipped /\ ~over /\ status # "ok" /\ CanMakeRoom(x, r)
  <2>1. y = MakeRoom(x, r)
    BY <1>1, <1>6, <1>15
  <2> QED BY <1>1, <1>10, <1>15, <2>1, MakeRoomEnds
<1>16. CASE ~skipped /\ ~over /\ status = "never" /\ ~CanMakeRoom(x, r)
  <2>1. y = Stop(Ignore(x, r), r)
    BY <1>1, <1>6, <1>16
  <2>2. r \notin OnDevice(x)
    BY <1>8, <1>16
  <2> QED BY <2>1, <2>2, IgnoreEnds
<1>17. CASE ~skipped /\ ~over /\ status = "later" /\ ~CanMakeRoom(x, r)
  <2>1. y = Stop(x, r)
    BY <1>1, <1>6, <1>17
  <2>2. r \in OnDevice(x) => ~CanAppend(x, r, ahead)
    BY <1>8, <1>17
  <2>3. r \notin OnDevice(x) => \E needs \in Nat : Status(needs, x) = "later"
    <3>1. CASE x.place[r] = "waiting"
      BY <1>2, <1>8, <1>17, <3>1
    <3>2. CASE x.place[r] = "swapped"
      BY <1>8, <1>9, <1>17, <3>2
    <3> QED BY <1>3, <1>8, <3>1, <3>2 DEF Queue
  <2> QED BY <1>4, <1>17, <2>1, <2>2, <2>3, LaterEnds
<1> QED BY <1>11, <1>12, <1>13, <1>14, <1>15, <1>16, <1>17

\* The fold goes through the calls in their order.
Looped(x, c) == FoldLeft(Admit, x, c)

\* The values v that the fold goes through.
Visits(v, x, c, n) ==
    /\ v[0] = x /\ v[n] = Looped(x, c)
    /\ \A k \in 0..(n - 1) : v[k + 1] = Admit(v[k], c[k + 1])

\* The fold over a list goes through one value per element.
LEMMA LoopSteps ==
    ASSUME NEW x, NEW n \in Nat, NEW c, DOMAIN c = 1..n
    PROVE  \E v : Visits(v, x, c, n)
<1> DEFINE pick(s) == Max(s)
           Folds(g, m) == g = [s \in SUBSET (1..m) |->
                                  IF s = {} THEN x ELSE Admit(g[s \ {pick(s)}], c[pick(s)])]
           Bad == {m \in Nat : ~\E g : Folds(g, m)}
<1>1. Looped(x, c) = (CHOOSE g : Folds(g, n))[1..n]
  BY DEF Looped, FoldLeft, MapThenFoldSet
<1>2. ASSUME NEW m \in Nat, NEW s \in SUBSET (1..m), m \in s PROVE pick(s) = m
  <2>1. \A k \in s : m >= k
    BY <1>2
  <2>2. \A j \in s : (\A k \in s : j >= k) => j = m
    BY <1>2, <2>1
  <2>3. pick(s) = CHOOSE j \in s : \A k \in s : j >= k
    BY DEF Max
  <2> QED BY <1>2, <2>1, <2>2, <2>3
<1> HIDE DEF pick
<1>3. \E g : Folds(g, 0)
  <2> DEFINE g == [s \in SUBSET (1..0) |-> x]
  <2>1. \A s \in SUBSET (1..0) : s = {}
    OBVIOUS
  <2>2. Folds(g, 0)
    BY <2>1
  <2> QED BY <2>2
<1>4. ASSUME NEW m \in Nat, NEW g, Folds(g, m) PROVE \E h : Folds(h, m + 1)
  <2> DEFINE h == [s \in SUBSET (1..(m + 1)) |->
                      IF m + 1 \in s THEN Admit(g[s \ {m + 1}], c[m + 1]) ELSE g[s]]
  <2>1. \A s \in SUBSET (1..(m + 1)) : m + 1 \notin s => s \in SUBSET (1..m)
    <3>1. \A k \in 1..(m + 1) : k # m + 1 => k \in 1..m
      OBVIOUS
    <3> QED BY <3>1
  <2>2. \A s \in SUBSET (1..m) : s \in SUBSET (1..(m + 1)) /\ m + 1 \notin s
    <3>1. \A k \in 1..m : k \in 1..(m + 1) /\ k # m + 1
      OBVIOUS
    <3> QED BY <3>1
  <2>3. \A s \in SUBSET (1..m) : h[s] = g[s]
    BY <2>2
  <2>4. ASSUME NEW s \in SUBSET (1..(m + 1))
        PROVE  h[s] = IF s = {} THEN x ELSE Admit(h[s \ {pick(s)}], c[pick(s)])
    <3>1. CASE m + 1 \in s
      <4>1. pick(s) = m + 1
        <5>1. m + 1 \in Nat
          OBVIOUS
        <5> QED BY <1>2, <3>1, <5>1
      <4>2. s \ {m + 1} \in SUBSET (1..m)
        BY <2>1
      <4>3. h[s] = Admit(g[s \ {m + 1}], c[m + 1])
        BY <3>1
      <4>4. h[s \ {m + 1}] = g[s \ {m + 1}]
        BY <2>3, <4>2
      <4> HIDE DEF h
      <4> QED BY <3>1, <4>1, <4>3, <4>4
    <3>2. CASE m + 1 \notin s
      <4>1. s \in SUBSET (1..m) /\ s \ {pick(s)} \in SUBSET (1..m)
        BY <2>1, <3>2
      <4>2. h[s] = g[s] /\ h[s \ {pick(s)}] = g[s \ {pick(s)}]
        BY <2>3, <4>1
      <4>3. g[s] = IF s = {} THEN x ELSE Admit(g[s \ {pick(s)}], c[pick(s)])
        BY <1>4, <4>1
      <4> HIDE DEF h
      <4> QED BY <4>2, <4>3
    <3> QED BY <3>1, <3>2
  <2>5. Folds(h, m + 1)
    BY <2>4
  <2> QED BY <2>5
<1>5. Bad = {}
  <2> SUFFICES ASSUME Bad # {} PROVE FALSE
    OBVIOUS
  <2>1. PICK m \in Bad : \A k \in Bad : m <= k
    BY LeastNat
  <2>2. m # 0
    BY <1>3
  <2>3. m - 1 \in Nat /\ m - 1 \notin Bad /\ (m - 1) + 1 = m
    <3> HIDE DEF Folds
    <3> QED BY <2>1, <2>2
  <2>4. PICK g : Folds(g, m - 1)
    BY <2>3
  <2> HIDE DEF Folds
  <2>5. \E h : Folds(h, (m - 1) + 1)
    BY <1>4, <2>3, <2>4
  <2> QED BY <2>3, <2>5
<1>6. \E g : Folds(g, n)
  BY <1>5
<1> DEFINE g == CHOOSE h : Folds(h, n)
           v == [k \in 0..n |-> g[1..k]]
<1> HIDE DEF Folds
<1>7. Folds(g, n)
  BY <1>6
<1> HIDE DEF g
<1>8. \A s \in SUBSET (1..n) :
          g[s] = IF s = {} THEN x ELSE Admit(g[s \ {pick(s)}], c[pick(s)])
  BY <1>7 DEF Folds
<1>9. v[0] = x
  <2>1. 1..0 = {} /\ {} \in SUBSET (1..n) /\ 0 \in 0..n
    OBVIOUS
  <2>2. g[{}] = x
    BY <1>8, <2>1
  <2> QED BY <2>1, <2>2
<1>10. v[n] = Looped(x, c)
  BY <1>1 DEF g
<1>11. ASSUME NEW k \in 0..(n - 1) PROVE v[k + 1] = Admit(v[k], c[k + 1])
  <2>1. k \in 0..n /\ k + 1 \in 0..n /\ k + 1 \in Nat
    OBVIOUS
  <2>2. 1..(k + 1) \in SUBSET (1..n) /\ k + 1 \in 1..(k + 1) /\ (1..(k + 1)) \ {k + 1} = 1..k
    OBVIOUS
  <2>3. pick(1..(k + 1)) = k + 1
    BY <1>2, <2>1, <2>2
  <2>4. g[1..(k + 1)] = Admit(g[(1..(k + 1)) \ {k + 1}], c[k + 1])
    BY <1>8, <2>2, <2>3
  <2> QED BY <2>1, <2>2, <2>4
<1>12. Visits(v, x, c, n)
  <2> HIDE DEF v
  <2> QED BY <1>9, <1>10, <1>11 DEF Visits
<1> QED BY <1>12

\* The whole loop.
LEMMA LoopIs ==
    ASSUME NEW b, NEW S, Start(b, S), Going(b, b, S, 0),
           NEW y, y = Looped(b, b.window.cohort)
    PROVE  Going(y, b, S, Len(b.window.cohort)) \/ Ended(y, b, S)
<1> DEFINE c == b.window.cohort
           n == Len(c)
           Ok(x, k) == Going(x, b, S, k) \/ Ended(x, b, S)
<1>1. c \in Seq(S) /\ n \in Nat /\ DOMAIN c = 1..n
  BY DEF Start
<1> HIDE DEF c, n
<1>2. PICK v : Visits(v, b, c, n)
  <2>1. n \in Nat /\ DOMAIN c = 1..n
    BY <1>1
  <2> QED BY <2>1, LoopSteps
<1>3. ASSUME NEW k \in 0..(n - 1), Ok(v[k], k) PROVE Ok(v[k + 1], k + 1)
  <2>1. k \in Nat /\ Turn(c[k + 1], b, k)
    BY <1>1 DEF Turn, c, n
  <2>2. CASE Going(v[k], b, S, k)
    BY <1>2, <2>1, <2>2, AdmitIs DEF Visits
  <2>3. CASE Ended(v[k], b, S)
    <3>1. v[k].verdict # "go"
      BY <2>3 DEF Ended, Stopped, Returned, Raised
    <3>2. Admit(v[k], c[k + 1]) = v[k]
      BY <3>1 DEF Admit
    <3> QED BY <1>2, <2>3, <3>2 DEF Visits
  <2> QED BY <1>3, <2>2, <2>3
<1>4. Ok(v[0], 0)
  BY <1>2 DEF Visits
<1> DEFINE Bad == {k \in 0..n : ~Ok(v[k], k)}
<1> HIDE DEF Ok
<1>5. Bad = {}
  <2> SUFFICES ASSUME Bad # {} PROVE FALSE
    OBVIOUS
  <2>1. PICK k \in Bad : \A j \in Bad : k <= j
    <3>1. Bad \subseteq Nat
      BY <1>1
    <3> HIDE DEF Bad
    <3> QED BY <3>1, LeastNat
  <2>2. k \in 0..n /\ k # 0 /\ ~Ok(v[k], k)
    BY <1>4, <2>1
  <2>3. k - 1 \in 0..(n - 1) /\ (k - 1) + 1 = k /\ k - 1 \in 0..n
    BY <1>1, <2>2
  <2>4. Ok(v[k - 1], k - 1)
    BY <1>1, <2>1, <2>3
  <2>5. Ok(v[(k - 1) + 1], (k - 1) + 1)
    BY <1>3, <2>3, <2>4
  <2> QED BY <2>2, <2>3, <2>5
<1>6. Ok(v[n], n)
  BY <1>1, <1>5
<1> QED BY <1>2, <1>6 DEF Ok, Visits, c, n

-----------------------------------------------------------------------------
(* What next_step leaves. *)

\* What it works on: the calls as they are, and the plan of the window.
Outset(b, S) ==
    /\ Start(b, S) /\ b.window = Plan(b.window.cohort, b.window.remaining)
    /\ Fields(b) /\ Holds(b, S) /\ Used(b) <= Slots
    /\ b.reserved \cap S \subseteq OnDevice(b) /\ Lasts(b, b.window.remaining)
    /\ b.prepared \cap unfilled = {}
    /\ b.groups = {} /\ b.incoming = {} /\ b.outgoing = {} /\ b.ignored = {}
    /\ b.tokens = 0 /\ b.verdict = "go"

\* The device, whatever the step did.
Left(x, b, S) ==
    /\ x.ignored \subseteq S /\ Holds(x, S \ x.ignored)
    /\ Used(x) <= Slots
    /\ (x.reserved \cap S) \ x.ignored \subseteq OnDevice(x)
    /\ Lasts(x, b.window.remaining)
    /\ x.prepared \cap unfilled \subseteq x.groups
    /\ x.prepared \subseteq b.prepared \cup S /\ x.reserved \subseteq b.reserved \cup S
    /\ x.groups \subseteq OnDevice(x)

\* The batch, and the part of the plan that it leaves for the next step.
Batch(x, b) ==
    \E k \in 0..Len(b.window.cohort) :
        /\ x.window = Plan(First(b.window.cohort, k), b.window.remaining)
        /\ x.groups # {} => Past(x, b, k)

Outcome(x, b, S) ==
    /\ Left(x, b, S) /\ Batch(x, b)
    /\ x.verdict = "raise" => x.window = b.window /\ x.ignored = {} /\ Hopeless(x, b)
    /\ x.outgoing # {} =>
           /\ x.groups = {} /\ x.incoming = {}
           /\ x.outgoing \subseteq S /\ Used(x) + Total(b.slots, x.outgoing) <= Slots

\* A window that nothing cut.
LEMMA WholeBatch ==
    ASSUME NEW b, NEW S, Outset(b, S), NEW x, x.window = b.window,
           x.groups # {} => Past(x, b, Len(b.window.cohort))
    PROVE  Batch(x, b)
<1> DEFINE c == b.window.cohort
<1>1. c \in Seq(S) /\ Len(c) \in Nat /\ b.window = Plan(c, b.window.remaining)
  BY DEF Outset, Start
<1>2. First(c, Len(c)) = c
  BY <1>1 DEF First
<1>3. Len(c) \in 0..Len(c)
  BY <1>1
<1> HIDE DEF c
<1>4. x.window = Plan(First(c, Len(c)), b.window.remaining)
  BY <1>1, <1>2
<1> QED BY <1>3, <1>4 DEF Batch, c

\* The end of the step, after the loop.
LEMMA LoopOutcome ==
    ASSUME NEW b, NEW S, Outset(b, S), OnDevice(b) \subseteq Range(b.window.cohort),
           NEW y, y = Loop(b)
    PROVE  Outcome(y, b, S)
<1> DEFINE c == b.window.cohort
           x == Looped(b, c)
<1>1. Start(b, S) /\ Len(c) \in Nat /\ Len(c) # 0
  BY DEF Outset, Start
<1>2. Going(b, b, S, 0)
  <2>1. S \ b.ignored = S
    BY DEF Outset
  <2>2. Sound(b, b, S)
    BY <2>1 DEF Outset, Sound
  <2>3. Past(b, b, 0)
    BY DEF Outset, Past
  <2>4. Midway(b, b, S, 0)
    BY <2>2, <2>3 DEF Outset, Midway
  <2> QED BY <2>4 DEF Outset, Going
<1>3. Going(x, b, S, Len(c)) \/ Ended(x, b, S)
  BY <1>1, <1>2, LoopIs
<1>4. y = Concluded(x)
  BY DEF Loop, Looped
<1> HIDE DEF x, c
<1>5. Sound(x, b, S)
  BY <1>3 DEF Going, Midway, Ended
<1>6. Fields(x) /\ Left(x, b, S)
  BY <1>5 DEF Sound, Left
<1>7. CASE Returned(x, b, S)
  <2>1. y = x
    BY <1>4, <1>7 DEF Concluded, Returned
  <2>2. x.window = b.window /\ x.groups = {} /\ x.verdict = "return"
    BY <1>7 DEF Returned
  <2>3. Batch(x, b)
    BY <2>2, WholeBatch
  <2>4. ASSUME x.outgoing # {}
        PROVE  /\ x.incoming = {} /\ x.outgoing \subseteq S
               /\ Used(x) + Total(b.slots, x.outgoing) <= Slots
    <3>1. PICK v \in S : x.outgoing = {v} /\ Used(x) + b.slots[v] <= Slots
      BY <1>7, <2>4 DEF Returned
    <3>2. b.slots[v] \in Nat
      BY DEF Outset, Holds
    <3>3. Counts(b.slots, {v}) /\ {v} \ {v} = {} /\ v \in {v}
      BY <3>2, FS_Singleton DEF Counts
    <3>4. Total(b.slots, {v}) = b.slots[v] + Total(b.slots, {v} \ {v})
      BY <3>3, TotalOne
    <3>5. Total(b.slots, {v}) = b.slots[v]
      BY <3>2, <3>3, <3>4, TotalEmpty
    <3> QED BY <1>7, <2>4, <3>1, <3>5 DEF Returned
  <2> QED BY <1>6, <2>1, <2>2, <2>3, <2>4 DEF Outcome
<1>8. CASE Raised(x, b)
  <2>1. y = x
    BY <1>4, <1>8 DEF Concluded, Raised
  <2>2. x.window = b.window /\ x.groups = {} /\ x.outgoing = {} /\ x.ignored = {} /\ Hopeless(x, b)
    BY <1>8 DEF Raised
  <2>3. Batch(x, b)
    BY <2>2, WholeBatch
  <2> QED BY <1>6, <2>1, <2>2, <2>3 DEF Outcome
<1> DEFINE nothing == x.groups = {} /\ x.incoming = {} /\ x.ignored = {}
<1>9. ASSUME x.verdict \in {"go", "stop"}, ~nothing, x.outgoing = {}, Batch(x, b)
      PROVE  Outcome(y, b, S)
  <2>1. y = [x EXCEPT !.prepared = @ \cup x.groups]
    BY <1>4, <1>9 DEF Concluded
  <2>2. /\ y.place = x.place /\ y.slots = x.slots /\ y.window = x.window
        /\ y.prepared = x.prepared \cup x.groups /\ y.reserved = x.reserved
        /\ y.groups = x.groups /\ y.outgoing = x.outgoing /\ y.ignored = x.ignored
        /\ y.verdict = x.verdict
    BY <1>6, <2>1 DEF Fields
  <2>3. Holds(y, S \ x.ignored) /\ OnDevice(y) = OnDevice(x) /\ Used(y) = Used(x)
    BY <1>5, <2>2, SameDevice DEF Sound
  <2>4. Left(y, b, S)
    <3>1. Lasts(y, b.window.remaining)
      BY <1>6, <2>2, <2>3 DEF Lasts, Left
    <3>2. x.groups \subseteq S
      BY <1>5, UsedIs DEF Sound
    <3>3. y.prepared \cap unfilled \subseteq y.groups
      BY <1>6, <2>2 DEF Left
    <3> QED BY <1>6, <2>2, <2>3, <3>1, <3>2, <3>3 DEF Left
  <2>5. Batch(y, b)
    BY <1>9, <2>2 DEF Batch, Past
  <2>6. y.verdict # "raise" /\ y.outgoing = {}
    BY <1>9, <2>2
  <2> QED BY <2>4, <2>5, <2>6 DEF Outcome
<1>10. CASE Going(x, b, S, Len(c))
  <2>1. x.verdict = "go" /\ x.window = b.window /\ x.outgoing = {} /\ Past(x, b, Len(c))
    BY <1>10 DEF Going, Midway
  <2>2. x.groups # {}
    BY <1>1, <2>1, FirstExecutes
  <2>3. Batch(x, b)
    BY <2>1, WholeBatch DEF c
  <2> QED BY <1>9, <2>1, <2>2, <2>3
<1>11. CASE Stopped(x, b) /\ ~nothing
  <2>1. x.verdict = "stop" /\ x.outgoing = {}
    BY <1>11 DEF Stopped
  <2>2. Batch(x, b)
    <3>1. CASE x.groups = {}
      BY <1>11, <3>1, WholeBatch DEF Stopped
    <3>2. CASE x.groups # {}
      BY <1>11, <3>2 DEF Stopped, Batch
    <3> QED BY <3>1, <3>2
  <2> QED BY <1>9, <1>11, <2>1, <2>2
<1>12. CASE Stopped(x, b) /\ nothing
  <2>1. x.verdict = "stop" /\ x.outgoing = {} /\ x.window = b.window /\ Hopeless(x, b)
    BY <1>12 DEF Stopped
  <2>2. y = [x EXCEPT !.verdict = "raise"]
    BY <1>4, <1>12, <2>1 DEF Concluded
  <2>3. /\ Fields(y) /\ y.place = x.place /\ y.slots = x.slots /\ y.window = x.window
        /\ y.prepared = x.prepared /\ y.reserved = x.reserved
        /\ y.groups = x.groups /\ y.outgoing = x.outgoing /\ y.ignored = x.ignored
        /\ y.verdict = "raise"
    BY <1>6, <2>2 DEF Fields
  <2>4. Sound(y, b, S) /\ OnDevice(y) = OnDevice(x)
    BY <1>5, <2>3, SameSound
  <2>5. Batch(y, b)
    BY <1>12, <2>1, <2>3, WholeBatch
  <2>6. Left(y, b, S)
    BY <2>4 DEF Left, Sound
  <2>7. Hopeless(y, b)
    BY <2>1, <2>4 DEF Hopeless
  <2> QED BY <1>12, <2>1, <2>3, <2>5, <2>6, <2>7 DEF Outcome
<1> QED BY <1>3, <1>7, <1>8, <1>10, <1>11, <1>12 DEF Ended

\* A prepared window goes on: what it appends is reserved.
LEMMA ContinueOutcome ==
    ASSUME NEW b, NEW S, Outset(b, S), Prepared(b), NEW y, y = Continue(b)
    PROVE  Outcome(y, b, S)
<1> DEFINE c == b.window.cohort
           w == b.window
           rem == b.window.remaining
<1>1. /\ c \in Seq(S) /\ IsInjective(c) /\ Len(c) > 0 /\ w = Plan(c, rem)
      /\ rem \in Nat \ {0} /\ len \in [S -> Nat \ {0}]
      /\ Fields(b) /\ Holds(b, S) /\ Used(b) <= Slots
      /\ b.reserved \cap S \subseteq OnDevice(b) /\ Lasts(b, rem)
      /\ b.prepared \cap unfilled = {}
      /\ b.incoming = {} /\ b.outgoing = {} /\ b.ignored = {}
  BY DEF Outset, Start
<1>2. Range(c) \subseteq (b.prepared \cap b.reserved \cap OnDevice(b)) \ unfilled
  BY DEF Prepared
<1>3. w.active \cup w.reserve = Range(c)
  BY <1>1, PlanIs
<1>4. b.slots \in [S -> Nat] /\ OnDevice(b) \subseteq S
  BY <1>1, UsedIs DEF Holds
<1> HIDE DEF c, w, rem
<1>5. ASSUME NEW r \in S PROVE (IF r \in w.active THEN Appended(b, r, 0) ELSE b.slots[r]) = b.slots[r]
  <2>1. CASE r \in w.active
    <3>1. r \in b.reserved \cap OnDevice(b) /\ r \notin unfilled
      BY <1>2, <1>3, <2>1
    <3>2. b.slots[r] >= len[r] + rem - 1
      BY <1>1, <3>1 DEF Lasts
    <3>3. b.slots[r] \in Nat /\ len[r] \in Nat /\ rem \in Nat \ {0}
      BY <1>1, <1>4
    <3>4. Appended(b, r, 0) = b.slots[r]
      BY <3>2, <3>3 DEF Appended, Larger
    <3> QED BY <2>1, <3>4
  <2> QED BY <2>1
<1>6. /\ y.groups = w.active /\ y.verdict = "return" /\ y.window = w
      /\ y.place = b.place /\ y.prepared = b.prepared /\ y.reserved = b.reserved
      /\ y.outgoing = b.outgoing /\ y.ignored = b.ignored
      /\ y.slots = [r \in DOMAIN b.slots |-> IF r \in w.active THEN Appended(b, r, 0) ELSE b.slots[r]]
  BY <1>1 DEF Continue, Fields, w
<1>7. y.slots = b.slots
  BY <1>4, <1>5, <1>6
<1>8. Holds(y, S) /\ OnDevice(y) = OnDevice(b) /\ Used(y) = Used(b)
  BY <1>1, <1>6, <1>7, SameDevice
<1>9. Left(y, b, S)
  <2>1. y.ignored = {} /\ S \ y.ignored = S
    BY <1>1, <1>6
  <2>2. Lasts(y, rem)
    BY <1>1, <1>6, <1>7, <1>8 DEF Lasts
  <2>3. y.groups \subseteq OnDevice(y)
    BY <1>2, <1>3, <1>6, <1>8
  <2> QED BY <1>1, <1>6, <1>8, <2>1, <2>2, <2>3 DEF Left, rem
<1>10. Past(y, b, Len(c))
  <2>1. DOMAIN c = 1..Len(c)
    BY <1>1
  <2>2. ASSUME NEW i \in 1..Len(c) PROVE c[i] \in y.groups \cup (w.reserve \ unfilled)
    <3>1. c[i] \in Range(c)
      BY <2>1 DEF Range
    <3> QED BY <1>2, <1>3, <1>6, <3>1
  <2>3. \A r \in y.groups : \E i \in 1..Len(c) : r = c[i]
    BY <1>3, <1>6, <2>1 DEF Range
  <2> QED BY <2>2, <2>3 DEF Past, c, w
<1>11. Batch(y, b)
  BY <1>6, <1>10, WholeBatch DEF c, w
<1> QED BY <1>1, <1>6, <1>9, <1>11 DEF Outcome

\* The calls in s leave the device.
Cleared(x, s) ==
    [x EXCEPT !.place = [r \in DOMAIN x.place |-> IF r \in s THEN "swapped" ELSE x.place[r]],
              !.outgoing = x.outgoing \cup s,
              !.prepared = x.prepared \ s, !.reserved = x.reserved \ s]

\* The first loop of next_step, in whatever order it takes the calls.
Emptied(x, T) == FoldSet(LAMBDA r, y : Evict(y, r), x, T)

\* Whatever the order, the same calls leave the same set behind.
LEMMA EmptiedIs ==
    ASSUME NEW x, Fields(x), NEW S, Holds(x, S), NEW T \in SUBSET S
    PROVE  Emptied(x, T) = Cleared(x, T)
<1> DEFINE pick(s) == CHOOSE r \in s : TRUE
           Folds(g) == g = [s \in SUBSET T |->
                               IF s = {} THEN x ELSE Evict(g[s \ {pick(s)}], pick(s))]
           m(s) == Cleared(x, s)
<1>1. Emptied(x, T) = (CHOOSE g : Folds(g))[T]
  BY DEF Emptied, FoldSet, MapThenFoldSet
<1>2. IsFiniteSet(T) /\ \A s \in SUBSET T : IsFiniteSet(s) /\ Cardinality(s) \in Nat
  BY FS_Subset, FS_CardinalityType DEF Holds
<1>3. m({}) = x
  <2>1. [r \in DOMAIN x.place |-> IF r \in {} THEN "swapped" ELSE x.place[r]] = x.place
    BY DEF Holds
  <2>2. x.outgoing \cup {} = x.outgoing /\ x.prepared \ {} = x.prepared /\ x.reserved \ {} = x.reserved
    OBVIOUS
  <2>3. m({}) = [x EXCEPT !.place = x.place, !.outgoing = x.outgoing,
                          !.prepared = x.prepared, !.reserved = x.reserved]
    BY <2>1, <2>2 DEF Cleared
  <2> HIDE DEF m
  <2> QED BY <2>3 DEF Fields
<1>4. ASSUME NEW s \in SUBSET T, s # {} PROVE pick(s) \in s
  BY <1>4
<1>5. ASSUME NEW s \in SUBSET T, NEW r \in s PROVE m(s) = Evict(m(s \ {r}), r)
  <2> DEFINE y == m(s \ {r})
             z == m(s)
  <2>1. /\ DOMAIN x.place = S /\ r \in S
        /\ y.place = [q \in S |-> IF q \in s \ {r} THEN "swapped" ELSE x.place[q]]
        /\ z.place = [q \in S |-> IF q \in s THEN "swapped" ELSE x.place[q]]
    BY DEF Cleared, Fields, Holds
  <2>2. /\ y.outgoing = x.outgoing \cup (s \ {r}) /\ z.outgoing = x.outgoing \cup s
        /\ y.prepared = x.prepared \ (s \ {r}) /\ z.prepared = x.prepared \ s
        /\ y.reserved = x.reserved \ (s \ {r}) /\ z.reserved = x.reserved \ s
    BY DEF Cleared, Fields
  <2>3. /\ Fields(y) /\ Fields(z)
        /\ y.slots = z.slots /\ y.window = z.window /\ y.chosen = z.chosen
        /\ y.resident = z.resident /\ y.groups = z.groups /\ y.incoming = z.incoming
        /\ y.ignored = z.ignored /\ y.tokens = z.tokens /\ y.verdict = z.verdict
    <3>1. ASSUME NEW q
          PROVE  /\ Fields(m(q))
                 /\ m(q).slots = x.slots /\ m(q).window = x.window /\ m(q).chosen = x.chosen
                 /\ m(q).resident = x.resident /\ m(q).groups = x.groups
                 /\ m(q).incoming = x.incoming /\ m(q).ignored = x.ignored
                 /\ m(q).tokens = x.tokens /\ m(q).verdict = x.verdict
      <4> DEFINE p == [u \in DOMAIN x.place |-> IF u \in q THEN "swapped" ELSE x.place[u]]
                 t == m(q)
      <4>1. t = [x EXCEPT !.place = p, !.outgoing = x.outgoing \cup q,
                           !.prepared = x.prepared \ q, !.reserved = x.reserved \ q]
        BY DEF Cleared
      <4> HIDE DEF p, t
      <4>2. /\ Fields(t)
            /\ t.slots = x.slots /\ t.window = x.window /\ t.chosen = x.chosen
            /\ t.resident = x.resident /\ t.groups = x.groups
            /\ t.incoming = x.incoming /\ t.ignored = x.ignored
            /\ t.tokens = x.tokens /\ t.verdict = x.verdict
        BY <4>1 DEF Fields
      <4> QED BY <4>2 DEF t
    <3> HIDE DEF m
    <3> QED BY <3>1
  <2> HIDE DEF y, z
  <2>4. z.place = [y.place EXCEPT ![r] = "swapped"]
    BY <2>1
  <2>5. z.outgoing = y.outgoing \cup {r} /\ z.prepared = y.prepared \ {r}
        /\ z.reserved = y.reserved \ {r}
    BY <2>2
  <2> DEFINE e == Evict(y, r)
  <2>6. /\ Fields(e) /\ e.place = z.place /\ e.slots = y.slots
        /\ e.outgoing = y.outgoing \cup {r}
        /\ e.prepared = y.prepared \ {r} /\ e.reserved = y.reserved \ {r}
        /\ e.window = y.window /\ e.chosen = y.chosen /\ e.resident = y.resident
        /\ e.groups = y.groups /\ e.incoming = y.incoming /\ e.ignored = y.ignored
        /\ e.tokens = y.tokens /\ e.verdict = y.verdict
    <3>1. Fields(y)
      BY <2>3
    <3>2. /\ Fields(e) /\ e.place = Swapped(y.place, r) /\ e.slots = y.slots
          /\ e.outgoing = y.outgoing \cup {r}
          /\ e.prepared = y.prepared \ {r} /\ e.reserved = y.reserved \ {r}
          /\ e.window = y.window /\ e.chosen = y.chosen /\ e.resident = y.resident
          /\ e.groups = y.groups /\ e.incoming = y.incoming /\ e.ignored = y.ignored
          /\ e.tokens = y.tokens /\ e.verdict = y.verdict
      BY <3>1, EvictParts
    <3>3. z.place = Swapped(y.place, r)
      BY <2>4 DEF Swapped
    <3> HIDE DEF e
    <3> QED BY <3>2, <3>3
  <2> HIDE DEF e
  <2>7. /\ e.place = z.place /\ e.outgoing = z.outgoing
        /\ e.prepared = z.prepared /\ e.reserved = z.reserved
    BY <2>5, <2>6
  <2>8. z = e
    BY <2>3, <2>6, <2>7 DEF Fields
  <2> QED BY <2>8 DEF e, y, z
<1> HIDE DEF m, pick
<1>6. Folds([s \in SUBSET T |-> m(s)])
  BY <1>3, <1>4, <1>5
<1>7. ASSUME NEW g, Folds(g) PROVE g[T] = m(T)
  <2> DEFINE Bad == {s \in SUBSET T : g[s] # m(s)}
             Sizes == {Cardinality(s) : s \in Bad}
  <2>1. ASSUME Bad # {} PROVE FALSE
    <3>1. PICK n \in Sizes : \A k \in Sizes : n <= k
      <4>1. Sizes # {} /\ Sizes \subseteq Nat
        BY <1>2, <2>1
      <4> HIDE DEF Sizes
      <4> QED BY <4>1, LeastNat
    <3>2. PICK s \in Bad : Cardinality(s) = n
      OBVIOUS
    <3>3. g[s] = IF s = {} THEN x ELSE Evict(g[s \ {pick(s)}], pick(s))
      BY <1>7
    <3>4. s # {}
      BY <1>3, <3>3
    <3> DEFINE t == s \ {pick(s)}
    <3>5. pick(s) \in s /\ t \in SUBSET T
      BY <1>4, <3>4
    <3>6. Cardinality(t) < n
      <4>1. Cardinality(t) = Cardinality(s) - 1 /\ Cardinality(s) \in Nat
        BY <1>2, <3>5, FS_RemoveElement
      <4> QED BY <3>2, <4>1
    <3>7. t \notin Bad
      <4>1. n \in Nat /\ Cardinality(t) \in Nat
        BY <1>2, <3>2, <3>5
      <4> QED BY <3>1, <3>6, <4>1
    <3>8. g[t] = m(t)
      BY <3>5, <3>7
    <3>9. m(s) = Evict(m(t), pick(s))
      BY <1>5, <3>5
    <3> QED BY <3>2, <3>3, <3>4, <3>8, <3>9
  <2> QED BY <2>1
<1> HIDE DEF Folds
<1>8. Folds(CHOOSE g : Folds(g))
  BY <1>6
<1> QED BY <1>1, <1>7, <1>8 DEF m

\* The calls outside the cohort leave in a step of their own.
LEMMA ClearedOutcome ==
    ASSUME NEW b, NEW S, Outset(b, S), Outside(b) # {},
           NEW y, y = Cleared(b, Outside(b))
    PROVE  Outcome(y, b, S)
<1> DEFINE T == Outside(b)
           D == OnDevice(b)
<1>1. /\ Fields(b) /\ Holds(b, S) /\ Used(b) <= Slots
      /\ b.reserved \cap S \subseteq D /\ Lasts(b, b.window.remaining)
      /\ b.prepared \cap unfilled = {}
      /\ b.groups = {} /\ b.incoming = {} /\ b.outgoing = {} /\ b.ignored = {}
      /\ b.verdict = "go"
  BY DEF Outset
<1>2. T \subseteq D /\ D \subseteq S
  BY <1>1, UsedIs DEF Outside
<1>3. b.place \in [S -> Queue] /\ b.slots \in [S -> Nat] /\ IsFiniteSet(S)
  BY <1>1 DEF Holds
<1> HIDE DEF T
<1>4. /\ y.place = [r \in S |-> IF r \in T THEN "swapped" ELSE b.place[r]]
      /\ y.slots = b.slots /\ y.window = b.window
      /\ y.outgoing = b.outgoing \cup T
      /\ y.prepared = b.prepared \ T /\ y.reserved = b.reserved \ T
      /\ y.groups = b.groups /\ y.incoming = b.incoming /\ y.ignored = b.ignored
      /\ y.verdict = b.verdict
  BY <1>1, <1>3 DEF Cleared, Fields, T
<1>5. Holds(y, S)
  BY <1>3, <1>4 DEF Holds, Queue
<1>6. OnDevice(y) = D \ T
  BY <1>3, <1>4 DEF OnDevice
<1>7. Used(y) + Total(b.slots, T) = Used(b) /\ Used(y) \in Nat /\ Total(b.slots, T) \in Nat
  <2>1. Counts(b.slots, D) /\ Used(b) = Total(b.slots, D)
    BY <1>1, UsedIs
  <2>2. Used(y) = Total(b.slots, D \ T) /\ Used(y) \in Nat
    <3>1. Used(y) = Total(y.slots, OnDevice(y)) /\ Used(y) \in Nat
      BY <1>5, UsedIs
    <3> QED BY <1>4, <1>6, <3>1
  <2>3. Total(b.slots, D) = Total(b.slots, T) + Total(b.slots, D \ T)
    BY <1>2, <2>1, TotalSplit
  <2>4. Total(b.slots, T) \in Nat
    <3>1. Counts(b.slots, T)
      BY <1>2, <2>1, FS_Subset DEF Counts
    <3> QED BY <3>1, TotalType
  <2> HIDE DEF D
  <2> QED BY <2>1, <2>2, <2>3, <2>4
<1>8. Slots \in Nat /\ Used(b) \in Nat
  BY <1>1, UsedIs, DeviceAssumption
<1>9. Left(y, b, S)
  <2>1. y.ignored = {} /\ S \ y.ignored = S /\ y.groups = {}
    BY <1>1, <1>4
  <2>2. Lasts(y, b.window.remaining)
    BY <1>1, <1>4, <1>6 DEF Lasts
  <2>3. Used(y) <= Slots
    BY <1>1, <1>7, <1>8
  <2> QED BY <1>1, <1>4, <1>5, <1>6, <2>1, <2>2, <2>3 DEF Left
<1>10. y.groups = {} /\ y.window = b.window /\ Batch(y, b)
  <2>1. y.groups = {} /\ y.window = b.window
    BY <1>1, <1>4
  <2> QED BY <2>1, WholeBatch
<1>11. /\ y.verdict # "raise" /\ y.incoming = {} /\ y.outgoing = T /\ T \subseteq S
       /\ Used(y) + Total(b.slots, T) <= Slots
  BY <1>1, <1>2, <1>4, <1>7
<1> QED BY <1>9, <1>10, <1>11 DEF Outcome

\* next_step, on whatever branch.
LEMMA PlannedOutcome ==
    ASSUME NEW b, NEW S, Outset(b, S), NEW boundary, NEW y, y = Planned(b, boundary)
    PROVE  Outcome(y, b, S)
<1>1. CASE Outside(b) # {}
  <2>1. y = Emptied(b, Outside(b))
    BY <1>1 DEF Planned, Emptied
  <2>2. Fields(b) /\ Holds(b, S) /\ Outside(b) \in SUBSET S
    BY UsedIs DEF Outset, Outside
  <2>3. y = Cleared(b, Outside(b))
    BY <2>1, <2>2, EmptiedIs
  <2> QED BY <1>1, <2>3, ClearedOutcome
<1>2. CASE Outside(b) = {} /\ ~boundary /\ Prepared(b)
  <2>1. y = Continue(b)
    BY <1>2 DEF Planned
  <2> QED BY <1>2, <2>1, ContinueOutcome
<1>3. CASE Outside(b) = {} /\ ~(~boundary /\ Prepared(b))
  <2>1. y = Loop(b)
    BY <1>3 DEF Planned
  <2>2. OnDevice(b) \subseteq Range(b.window.cohort)
    BY <1>3 DEF Outside
  <2> QED BY <2>1, <2>2, LoopOutcome
<1> QED BY <1>1, <1>2, <1>3

-----------------------------------------------------------------------------
(* The invariant. *)

\* The calls of the replica, and what it remembers of them and of the window.
TypeInv ==
    /\ order \in Seq(Available) /\ Range(order) = Available
    /\ Holds(Device, Available)
    /\ len \in [Available -> Nat \ {0}]
    /\ unfilled \subseteq Available /\ \A r \in unfilled : len[r] <= Budget
    /\ Available \subseteq used /\ prepared \subseteq used /\ reserved \subseteq used
    /\ Range(plan) \subseteq used
    /\ window = Plan(window.cohort, window.remaining) /\ window.remaining \in Nat
    /\ window.cohort \in Seq(used) /\ IsInjective(window.cohort)

\* What was reserved is on the device, with slots for the rest of the window.
ReservedInv ==
    /\ reserved \cap Available \subseteq OnDevice(Device)
    /\ \A r \in reserved \cap OnDevice(Device) :
           slots[r] >= len[r] + window.remaining - (IF r \in unfilled THEN 0 ELSE 1)

\* The batch is on the device and of the window; only it may have prompts to compute.
BatchInv ==
    /\ ~running => prepared \cap unfilled = {}
    /\ running =>
           /\ window.remaining > 0
           /\ prepared \cap unfilled \subseteq output.groups
           /\ output.groups \subseteq OnDevice(Device) \cap Range(window.cohort)

\* A window keeps the calls it chose in their order, and none without those before it.
OrderInv ==
    \A p \in Available, q \in Range(window.cohort) :
        Precedes(plan, p, q) => Precedes(window.cohort, p, q)

\* The replica gives up for a call that the device could not hold alone.
Doomed ==
    /\ OnDevice(Device) \subseteq {Head(window.cohort)}
    /\ len[Head(window.cohort)] + window.remaining > Slots

Inv ==
    /\ TypeInv
    /\ Used(Device) <= Slots
    /\ failed => ~running /\ Doomed
    /\ ~failed => ReservedInv /\ BatchInv /\ OrderInv
    /\ NoneRunsPast

\* A replica starts with no call and no window.
LEMMA InitHolds == Init => Inv
<1> SUFFICES ASSUME Init PROVE Inv
  OBVIOUS
<1>1. Available = {} /\ Device = [place |-> << >>, slots |-> << >>]
  BY DEF Init, Available, Device
<1>2. Holds(Device, {})
  BY <1>1, FS_EmptySet DEF Holds
<1>3. EmptyWindow = Plan(<< >>, 0)
  <2>1. Capacity \in Nat \ {0}
    BY WindowAssumption
  <2>2. First(<< >>, Capacity) = << >> /\ After(<< >>, Capacity) = << >>
    BY <2>1 DEF First, After
  <2>3. Range(<< >>) = {}
    BY DEF Range
  <2> QED BY <2>2, <2>3 DEF EmptyWindow, Plan
<1>4. window.cohort = << >> /\ window.remaining = 0 /\ window = Plan(window.cohort, window.remaining)
  BY <1>3 DEF Init, EmptyWindow
<1>5. TypeInv
  <2>1. order \in Seq(Available) /\ Range(order) = Available /\ Range(plan) = {}
    BY <1>1 DEF Init, Range
  <2>2. len \in [Available -> Nat \ {0}]
    BY <1>1 DEF Init
  <2>3. window.cohort \in Seq(used) /\ IsInjective(window.cohort)
    BY <1>4 DEF IsInjective
  <2> QED BY <1>1, <1>2, <1>4, <2>1, <2>2, <2>3 DEF TypeInv, Init
<1>6. OnDevice(Device) = {}
  BY <1>1 DEF OnDevice
<1>7. Used(Device) <= Slots
  <2>1. Used(Device) = 0
    BY <1>1, <1>2, <1>6, UsedIs, TotalEmpty
  <2> QED BY <2>1, DeviceAssumption
<1>8. ReservedInv /\ BatchInv /\ OrderInv /\ NoneRunsPast
  BY <1>1, <1>6 DEF Init, ReservedInv, BatchInv, OrderInv, Precedes, NoneRunsPast
<1> QED BY <1>5, <1>7, <1>8 DEF Inv, Init

-----------------------------------------------------------------------------
(* Calls come and go. *)

\* Calls that are gone leave their slots.
LEMMA GoneView ==
    ASSUME NEW x, NEW S, Holds(x, S), NEW T \in SUBSET S, NEW y,
           y.place = Restrict(x.place, T), y.slots = Restrict(x.slots, T)
    PROVE  Holds(y, T) /\ OnDevice(y) = OnDevice(x) \cap T /\ Used(y) <= Used(x)
<1>1. Holds(y, T) /\ OnDevice(y) = OnDevice(x) \cap T
  <2>1. /\ y.place \in [T -> Queue] /\ y.slots \in [T -> Nat]
        /\ \A r \in T : y.place[r] = x.place[r]
        /\ DOMAIN x.place = S /\ DOMAIN y.place = T
    BY DEF Holds, Restrict
  <2>2. IsFiniteSet(T)
    BY FS_Subset DEF Holds
  <2> QED BY <2>1, <2>2 DEF Holds, OnDevice
<1> DEFINE D == OnDevice(x)
           E == OnDevice(y)
<1>2. /\ Counts(x.slots, D) /\ Used(x) = Total(x.slots, D)
      /\ Counts(y.slots, E) /\ Used(y) = Total(y.slots, E)
  BY <1>1, UsedIs
<1>3. E \in SUBSET D /\ E \subseteq T
  BY <1>1
<1>4. \A r \in E : y.slots[r] = x.slots[r]
  BY <1>3 DEF Restrict
<1> HIDE DEF D, E
<1>5. Total(y.slots, E) = Total(x.slots, E)
  BY <1>2, <1>4, TotalSame
<1>6. Total(x.slots, D) = Total(x.slots, E) + Total(x.slots, D \ E)
  BY <1>2, <1>3, TotalSplit
<1>7. Counts(x.slots, E) /\ Counts(x.slots, D \ E)
  BY <1>2, <1>3, FS_Subset DEF Counts
<1>8. Total(x.slots, E) \in Nat /\ Total(x.slots, D \ E) \in Nat
  BY <1>7, TotalType
<1> QED BY <1>1, <1>2, <1>5, <1>6, <1>8

\* The controller's list of the calls that stay.
LEMMA OrderLeft ==
    ASSUME TypeInv, NEW T \in SUBSET Available
    PROVE  Among(order, T) \in Seq(T) /\ Range(Among(order, T)) = T
<1>1. order \in Seq(Available) /\ Range(order) \cap T = T
  BY DEF TypeInv
<1> QED BY <1>1, AmongIs

\* A call that the client gave up.
LEMMA CancelKeepsInv ==
    ASSUME Inv, NEW r, Cancel(r)
    PROVE  Inv'
<1> DEFINE T == Available \ {r}
<1>1. TypeInv /\ Used(Device) <= Slots /\ ReservedInv /\ BatchInv /\ OrderInv
      /\ ~running /\ ~failed
  BY DEF Inv, Cancel
<1>2. /\ order' = Among(order, T)
      /\ place' = Restrict(place, T) /\ slots' = Restrict(slots, T) /\ len' = Restrict(len, T)
      /\ unfilled' = unfilled \ {r}
      /\ UNCHANGED << window, prepared, reserved, output, running, failed, plan, used >>
  BY <1>1 DEF Cancel, Forget, Drop, Available, TypeInv, Holds, Device
<1>3. Available' = T
  BY <1>2 DEF Available, Restrict
<1>4. /\ Holds(Device, Available)' /\ OnDevice(Device)' = OnDevice(Device) \cap T
      /\ Used(Device)' <= Used(Device)
  <2>1. Holds(Device, Available) /\ T \in SUBSET Available
    BY <1>1 DEF TypeInv
  <2>2. Device'.place = Restrict(Device.place, T) /\ Device'.slots = Restrict(Device.slots, T)
    BY <1>2 DEF Device
  <2>3. /\ Holds(Device', T) /\ OnDevice(Device') = OnDevice(Device) \cap T
        /\ Used(Device') <= Used(Device)
    BY <2>1, <2>2, GoneView
  <2> QED BY <1>3, <2>3
<1>5. TypeInv'
  <2>1. (order \in Seq(Available) /\ Range(order) = Available)'
    <3>1. T \in SUBSET Available
      OBVIOUS
    <3>2. Among(order, T) \in Seq(T) /\ Range(Among(order, T)) = T
      BY <1>1, <3>1, OrderLeft
    <3> QED BY <1>2, <1>3, <3>2
  <2>2. (len \in [Available -> Nat \ {0}])' /\ \A q \in T : len'[q] = len[q]
    BY <1>1, <1>2, <1>3 DEF TypeInv, Restrict
  <2>3. (unfilled \subseteq Available)' /\ (\A q \in unfilled : len[q] <= Budget)'
    BY <1>1, <1>2, <1>3, <2>2 DEF TypeInv
  <2> QED BY <1>1, <1>2, <1>3, <1>4, <2>1, <2>2, <2>3 DEF TypeInv
<1>6. (Used(Device) <= Slots)'
  <2>1. Used(Device) \in Nat /\ Used(Device)' \in Nat /\ Slots \in Nat
    BY <1>1, <1>5, UsedIs, DeviceAssumption DEF TypeInv
  <2> QED BY <1>1, <1>4, <2>1
<1>7. ReservedInv'
  <2>1. (reserved \cap Available \subseteq OnDevice(Device))'
    BY <1>1, <1>2, <1>3, <1>4 DEF ReservedInv
  <2>2. ASSUME NEW q \in (reserved \cap OnDevice(Device))'
        PROVE  (slots[q] >= len[q] + window.remaining - (IF q \in unfilled THEN 0 ELSE 1))'
    <3>1. q \in reserved \cap OnDevice(Device) /\ q \in T /\ q # r
      BY <1>2, <1>4
    <3>2. slots'[q] = slots[q] /\ len'[q] = len[q] /\ (q \in unfilled' <=> q \in unfilled)
      BY <1>2, <3>1 DEF Restrict
    <3>3. slots[q] >= len[q] + window.remaining - (IF q \in unfilled THEN 0 ELSE 1)
      BY <1>1, <3>1 DEF ReservedInv
    <3> QED BY <1>2, <3>2, <3>3
  <2> QED BY <2>1, <2>2 DEF ReservedInv
<1>8. BatchInv' /\ OrderInv' /\ NoneRunsPast'
  BY <1>1, <1>2, <1>3 DEF BatchInv, OrderInv, NoneRunsPast
<1> QED BY <1>1, <1>2, <1>5, <1>6, <1>7, <1>8 DEF Inv

\* A new call waits, and has no KV.
LEMMA AddKeepsInv ==
    ASSUME Inv, NEW r, NEW prompt \in Prompts, NEW at \in 1..(Len(order) + 1), Add(r, prompt, at)
    PROVE  Inv'
<1> DEFINE T == Available \cup {r}
<1>1. TypeInv /\ Used(Device) <= Slots /\ ReservedInv /\ BatchInv /\ OrderInv
      /\ ~running /\ ~failed
  BY DEF Inv, Add
<1>2. /\ r \notin used /\ used' = used \cup {r}
      /\ order' = InsertAt(order, at, r)
      /\ place' = Put(place, r, "waiting") /\ slots' = Put(slots, r, 0)
      /\ len' = Put(len, r, prompt) /\ unfilled' = unfilled \cup {r}
      /\ UNCHANGED << window, prepared, reserved, output, running, failed, plan >>
  BY DEF Add
<1>3. /\ Available' = T /\ r \notin Available /\ r \notin prepared /\ r \notin reserved
      /\ r \notin Range(plan)
  BY <1>1, <1>2 DEF TypeInv, Available, Put
<1>4. Holds(Device, Available)' /\ OnDevice(Device)' = OnDevice(Device)
  <2>1. /\ IsFiniteSet(Available) /\ place \in [Available -> Queue] /\ slots \in [Available -> Nat]
    BY <1>1 DEF TypeInv, Holds, Device
  <2>2. IsFiniteSet(T)
    BY <2>1, FS_AddElement
  <2>3. /\ place' \in [T -> Queue] /\ slots' \in [T -> Nat]
        /\ place'[r] = "waiting" /\ \A q \in Available : place'[q] = place[q]
    BY <1>2, <1>3, <2>1 DEF Put, Queue
  <2>4. OnDevice(Device') = {q \in T : place'[q] = "running"}
    BY <2>3 DEF OnDevice, Device
  <2>5. OnDevice(Device) = {q \in Available : place[q] = "running"}
    BY <2>1 DEF OnDevice, Device
  <2> QED BY <1>3, <2>2, <2>3, <2>4, <2>5 DEF Holds, Device
<1>5. \A q \in Available : slots'[q] = slots[q] /\ len'[q] = len[q]
  BY <1>1, <1>2, <1>3 DEF TypeInv, Holds, Device, Put
<1>6. OnDevice(Device) \subseteq Available /\ r \notin OnDevice(Device)
  BY <1>1, <1>3, UsedIs DEF TypeInv
<1>7. TypeInv'
  <2>1. (order \in Seq(Available) /\ Range(order) = Available)'
    <3>1. order \in Seq(Available) /\ Range(order) = Available
      BY <1>1 DEF TypeInv
    <3>2. /\ InsertAt(order, at, r) \in Seq(Available \cup {r})
          /\ Range(InsertAt(order, at, r)) = Range(order) \cup {r}
      <4>1. \A S : \A s \in Seq(S) : \A k \in 1..(Len(s) + 1) :
                /\ InsertAt(s, k, r) \in Seq(S \cup {r})
                /\ Range(InsertAt(s, k, r)) = Range(s) \cup {r}
        BY InsertIs
      <4> QED BY <3>1, <4>1
    <3> QED BY <1>2, <1>3, <3>1, <3>2
  <2>2. (len \in [Available -> Nat \ {0}])' /\ len'[r] = prompt /\ prompt <= Budget
    <3>1. prompt \in Nat \ {0} /\ prompt <= Budget
      BY DeviceAssumption
    <3> QED BY <1>1, <1>2, <1>3, <3>1 DEF TypeInv, Put
  <2>3. (unfilled \subseteq Available)' /\ (\A q \in unfilled : len[q] <= Budget)'
    BY <1>1, <1>2, <1>3, <1>5, <2>2 DEF TypeInv
  <2>4. (window.cohort \in Seq(used))'
    <3>1. window.cohort \in Seq(used) /\ used \subseteq used' /\ window' = window
      BY <1>1, <1>2 DEF TypeInv
    <3> QED BY <3>1
  <2>5. /\ window' = window /\ prepared' = prepared /\ reserved' = reserved /\ plan' = plan
        /\ used \subseteq used' /\ Available' \subseteq used'
    BY <1>1, <1>2, <1>3 DEF TypeInv
  <2> QED BY <1>1, <1>4, <2>1, <2>2, <2>3, <2>4, <2>5 DEF TypeInv
<1>8. (Used(Device) <= Slots)'
  <2>1. Holds(Device, Available) /\ Holds(Device', T)
    BY <1>1, <1>3, <1>4 DEF TypeInv
  <2>2. \A q \in OnDevice(Device) \ {r} : Device'.slots[q] = Device.slots[q]
    BY <1>5, <1>6 DEF Device
  <2>3. Used(Device') + (IF r \in OnDevice(Device) THEN Device.slots[r] ELSE 0) =
        Used(Device) + (IF r \in OnDevice(Device') THEN Device'.slots[r] ELSE 0)
    BY <1>4, <2>1, <2>2, UsedChanges
  <2>4. Used(Device) \in Nat /\ Used(Device') \in Nat
    BY <2>1, UsedIs
  <2> QED BY <1>1, <1>4, <1>6, <2>3, <2>4
<1>9. ReservedInv'
  <2>1. (reserved \cap Available \subseteq OnDevice(Device))'
    BY <1>1, <1>2, <1>3, <1>4 DEF ReservedInv
  <2>2. ASSUME NEW q \in (reserved \cap OnDevice(Device))'
        PROVE  (slots[q] >= len[q] + window.remaining - (IF q \in unfilled THEN 0 ELSE 1))'
    <3>1. q \in reserved \cap OnDevice(Device) /\ q \in Available /\ q # r
      BY <1>2, <1>4, <1>6
    <3>2. slots'[q] = slots[q] /\ len'[q] = len[q] /\ (q \in unfilled' <=> q \in unfilled)
      BY <1>2, <1>5, <3>1
    <3>3. slots[q] >= len[q] + window.remaining - (IF q \in unfilled THEN 0 ELSE 1)
      BY <1>1, <3>1 DEF ReservedInv
    <3> QED BY <1>2, <3>2, <3>3
  <2> QED BY <2>1, <2>2 DEF ReservedInv
<1>10. BatchInv'
  BY <1>1, <1>2, <1>3 DEF BatchInv
<1>11. OrderInv'
  BY <1>1, <1>2, <1>3 DEF OrderInv, Precedes, Range
<1> QED BY <1>1, <1>2, <1>7, <1>8, <1>9, <1>10, <1>11 DEF Inv, NoneRunsPast

\* The model computed the batch: each of its calls has one token more, some have ended.
LEMMA RunKeepsInv ==
    ASSUME Inv, NEW done \in SUBSET output.groups, Run(done)
    PROVE  Inv'
<1> DEFINE T == Available \ done
<1>1. TypeInv /\ Used(Device) <= Slots /\ ReservedInv /\ BatchInv /\ OrderInv /\ running /\ ~failed
  BY DEF Inv, Run
<1>2. /\ order' = Among(order, T)
      /\ len' = [r \in DOMAIN len \ done |-> IF r \in output.groups THEN len[r] + 1 ELSE len[r]]
      /\ unfilled' = unfilled \ output.groups
      /\ place' = Restrict(place, T) /\ slots' = Restrict(slots, T)
      /\ window' = WindowExecuted(window, IsPrefill) /\ running' = FALSE
      /\ UNCHANGED << prepared, reserved, output, failed, plan, used >>
  BY DEF Run
<1>3. Available' = T /\ DOMAIN len = Available
  BY <1>1, <1>2 DEF Available, Restrict, TypeInv
<1>4. /\ Holds(Device, Available)' /\ OnDevice(Device)' = OnDevice(Device) \cap T
      /\ Used(Device)' <= Used(Device)
  <2>1. Holds(Device, Available) /\ T \in SUBSET Available
    BY <1>1 DEF TypeInv
  <2>2. Device'.place = Restrict(Device.place, T) /\ Device'.slots = Restrict(Device.slots, T)
    BY <1>2 DEF Device
  <2>3. /\ Holds(Device', T) /\ OnDevice(Device') = OnDevice(Device) \cap T
        /\ Used(Device') <= Used(Device)
    BY <2>1, <2>2, GoneView
  <2> QED BY <1>3, <2>3
<1>5. /\ window.remaining \in Nat \ {0}
      /\ window'.cohort = window.cohort /\ window'.active = window.active
      /\ window'.reserve = window.reserve
      /\ window' = Plan(window'.cohort, window'.remaining) /\ window'.remaining \in Nat
      /\ IsPrefill => window'.remaining = window.remaining
      /\ ~IsPrefill => window'.remaining = window.remaining - 1
  <2>1. /\ window = Plan(window.cohort, window.remaining) /\ window.remaining \in Nat \ {0}
        /\ window' = WindowExecuted(window, IsPrefill)
    BY <1>1, <1>2 DEF TypeInv, BatchInv
  <2>2. CASE IsPrefill
    <3>1. window' = window
      BY <2>1, <2>2 DEF WindowExecuted
    <3> QED BY <2>1, <2>2, <3>1
  <2>3. CASE ~IsPrefill
    <3>1. window' = [window EXCEPT !.remaining = window.remaining - 1]
      BY <2>1, <2>3 DEF WindowExecuted
    <3>2. /\ window'.remaining = window.remaining - 1 /\ window'.cohort = window.cohort
          /\ window'.active = window.active /\ window'.reserve = window.reserve
      BY <2>1, <3>1 DEF Plan
    <3>3. window' = Plan(window.cohort, window.remaining - 1)
      BY <2>1, <3>1 DEF Plan
    <3> QED BY <2>1, <2>3, <3>2, <3>3
  <2> QED BY <2>2, <2>3
<1>6. \A q \in T : /\ len[q] \in Nat \ {0} /\ slots'[q] = slots[q]
                   /\ q \in output.groups => len'[q] = len[q] + 1
                   /\ q \notin output.groups => len'[q] = len[q]
  BY <1>1, <1>2, <1>3 DEF TypeInv, Restrict
<1>7. TypeInv'
  <2>1. (order \in Seq(Available) /\ Range(order) = Available)'
    <3>1. T \in SUBSET Available
      OBVIOUS
    <3>2. Among(order, T) \in Seq(T) /\ Range(Among(order, T)) = T
      BY <1>1, <3>1, OrderLeft
    <3> QED BY <1>2, <1>3, <3>2
  <2>2. (len \in [Available -> Nat \ {0}])'
    <3>1. \A q \in T : len'[q] \in Nat \ {0}
      BY <1>6
    <3>2. DOMAIN len' = T /\ len' = [q \in T |-> len'[q]]
      BY <1>2, <1>3
    <3> QED BY <1>3, <3>1, <3>2
  <2>3. (unfilled \subseteq Available)' /\ (\A q \in unfilled : len[q] <= Budget)'
    BY <1>1, <1>2, <1>3, <1>6 DEF TypeInv
  <2>4. Available' \subseteq used' /\ prepared' \subseteq used' /\ reserved' \subseteq used'
        /\ Range(plan') \subseteq used'
    BY <1>1, <1>2, <1>3 DEF TypeInv
  <2>5. (window.cohort \in Seq(used) /\ IsInjective(window.cohort))'
    BY <1>1, <1>2, <1>5 DEF TypeInv
  <2> QED BY <1>4, <1>5, <2>1, <2>2, <2>3, <2>4, <2>5 DEF TypeInv
<1>8. (Used(Device) <= Slots)'
  <2>1. Used(Device) \in Nat /\ Used(Device)' \in Nat /\ Slots \in Nat
    BY <1>1, <1>7, UsedIs, DeviceAssumption DEF TypeInv
  <2> QED BY <1>1, <1>4, <2>1
<1>9. ReservedInv'
  <2>1. (reserved \cap Available \subseteq OnDevice(Device))'
    BY <1>1, <1>2, <1>3, <1>4 DEF ReservedInv
  <2>2. ASSUME NEW q \in (reserved \cap OnDevice(Device))'
        PROVE  (slots[q] >= len[q] + window.remaining - (IF q \in unfilled THEN 0 ELSE 1))'
    <3>1. q \in reserved \cap OnDevice(Device) /\ q \in T
      BY <1>2, <1>4
    <3>2. slots[q] \in Nat
      BY <1>1, <3>1 DEF TypeInv, Holds, Device
    <3>3. slots[q] >= len[q] + window.remaining - (IF q \in unfilled THEN 0 ELSE 1)
      BY <1>1, <3>1 DEF ReservedInv
    <3>4. CASE q \in output.groups
      <4>1. q \notin unfilled' /\ len'[q] = len[q] + 1
        BY <1>2, <1>6, <3>1, <3>4
      <4>2. q \in unfilled \/ ~IsPrefill
        BY <3>4 DEF IsPrefill
      <4> QED BY <1>5, <1>6, <3>1, <3>2, <3>3, <4>1, <4>2
    <3>5. CASE q \notin output.groups
      <4>1. (q \in unfilled' <=> q \in unfilled) /\ len'[q] = len[q]
        BY <1>2, <1>6, <3>1, <3>5
      <4> QED BY <1>5, <1>6, <3>1, <3>2, <3>3, <4>1
    <3> QED BY <3>4, <3>5
  <2> QED BY <2>1, <2>2 DEF ReservedInv
<1>10. BatchInv'
  BY <1>1, <1>2 DEF BatchInv
<1>11. OrderInv'
  BY <1>1, <1>2, <1>3, <1>5 DEF OrderInv
<1> QED BY <1>1, <1>2, <1>7, <1>8, <1>9, <1>10, <1>11 DEF Inv, NoneRunsPast

-----------------------------------------------------------------------------
(* A step of the replica. *)

\* What next_step works on after select returned w.
Here == prepared \cap {r \in Available : place[r] = "running"}
Opening(w, boundary) ==
    [place |-> place, slots |-> slots, window |-> w,
     prepared |-> prepared \cap Available,
     reserved |-> IF boundary THEN {} ELSE reserved,
     chosen |-> Chosen(w, Here), resident |-> Held(w, Here),
     groups |-> {}, incoming |-> {}, outgoing |-> {}, ignored |-> {},
     tokens |-> 0, verdict |-> "go"]

\* Its parts.
LEMMA OpeningIs ==
    ASSUME NEW w, NEW boundary, NEW b, b = Opening(w, boundary)
    PROVE  /\ Fields(b) /\ b.place = place /\ b.slots = slots /\ b.window = w
           /\ b.prepared = prepared \cap Available
           /\ boundary => b.reserved = {}
           /\ ~boundary => b.reserved = reserved
           /\ b.chosen = w.active \cup (w.reserve \ Here) /\ b.resident = w.reserve \cap Here
           /\ b.groups = {} /\ b.incoming = {} /\ b.outgoing = {} /\ b.ignored = {}
           /\ b.tokens = 0 /\ b.verdict = "go"
<1> DEFINE R == IF boundary THEN {} ELSE reserved
<1>1. (boundary => R = {}) /\ (~boundary => R = reserved)
  OBVIOUS
<1>2. b = [place |-> place, slots |-> slots, window |-> w,
           prepared |-> prepared \cap Available, reserved |-> R,
           chosen |-> w.active \cup (w.reserve \ Here), resident |-> w.reserve \cap Here,
           groups |-> {}, incoming |-> {}, outgoing |-> {}, ignored |-> {},
           tokens |-> 0, verdict |-> "go"]
  BY DEF Opening, Chosen, Held
<1> HIDE DEF R
<1> QED BY <1>1, <1>2 DEF Fields

\* It can start from what the calls hold and what is reserved.
LEMMA BeginIs ==
    ASSUME Inv, ~running, ~failed, NEW w,
           w = Plan(w.cohort, w.remaining), w.remaining \in Nat \ {0},
           w.cohort \in Seq(Available), IsInjective(w.cohort), Len(w.cohort) > 0,
           NEW boundary, ~boundary => w.remaining = window.remaining,
           NEW b, b = Opening(w, boundary)
    PROVE  Outset(b, Available)
<1>1. /\ Holds(Device, Available) /\ Used(Device) <= Slots
      /\ len \in [Available -> Nat \ {0}] /\ unfilled \subseteq Available
      /\ \A r \in unfilled : len[r] <= Budget
      /\ prepared \cap unfilled = {} /\ ReservedInv
  BY DEF Inv, TypeInv, BatchInv
<1>2. /\ Fields(b) /\ b.place = place /\ b.slots = slots /\ b.window = w
      /\ b.prepared = prepared \cap Available
      /\ boundary => b.reserved = {}
      /\ ~boundary => b.reserved = reserved
      /\ b.chosen = w.active \cup (w.reserve \ Here) /\ b.resident = w.reserve \cap Here
      /\ b.groups = {} /\ b.incoming = {} /\ b.outgoing = {} /\ b.ignored = {}
      /\ b.tokens = 0 /\ b.verdict = "go"
  BY OpeningIs
<1>3. /\ w.active \cup w.reserve = Range(w.cohort)
      /\ w.cohort[1] \in w.active /\ w.cohort[1] \notin w.reserve
  BY PlanIs
<1>4. Here \subseteq prepared
  BY DEF Here
<1>5. Start(b, Available)
  <2>1. IsFiniteSet(Available)
    BY <1>1 DEF Holds
  <2>2. b.resident \subseteq b.window.reserve \ unfilled
    BY <1>1, <1>2, <1>4
  <2>3. \A r \in Range(w.cohort) : r \in b.chosen \/ r \in w.reserve \ unfilled
    BY <1>1, <1>2, <1>3, <1>4
  <2>4. w.cohort[1] \in b.chosen
    BY <1>2, <1>3
  <2> QED BY <1>1, <1>2, <1>3, <2>1, <2>2, <2>3, <2>4 DEF Start
<1>6. Holds(b, Available) /\ OnDevice(b) = OnDevice(Device) /\ Used(b) = Used(Device)
  <2>1. b.place = Device.place /\ b.slots = Device.slots
    BY <1>2 DEF Device
  <2> QED BY <1>1, <2>1, SameDevice
<1>7. b.reserved \cap Available \subseteq OnDevice(b) /\ Lasts(b, w.remaining)
  <2>1. CASE boundary
    BY <1>2, <2>1 DEF Lasts
  <2>2. CASE ~boundary
    BY <1>1, <1>2, <1>6, <2>2 DEF Lasts, ReservedInv
  <2> QED BY <2>1, <2>2
<1> QED BY <1>1, <1>2, <1>5, <1>6, <1>7 DEF Outset

\* What the step reads, works out and leaves.
Steps(sorted, w, boundary, b, x) ==
    /\ ~running /\ ~failed /\ Available # {}
    /\ (boundary <=> AtBoundary(window, Available))
    /\ w = Select(window, Keyed(sorted), Available)
    /\ b = Opening(w, boundary)
    /\ x = Planned(b, boundary)
    /\ boundary => plan' = w.cohort
    /\ ~boundary => plan' = plan /\ sorted = order
    /\ order' = Among(sorted, Available \ x.ignored)
    /\ len' = Restrict(len, DOMAIN len \ x.ignored)
    /\ unfilled' = unfilled \ x.ignored
    /\ place' = x.place /\ slots' = x.slots /\ window' = x.window
    /\ prepared' = x.prepared /\ reserved' = x.reserved
    /\ output' = [groups |-> x.groups, incoming |-> x.incoming,
                  outgoing |-> x.outgoing, ignored |-> x.ignored]
    /\ failed' <=> x.verdict = "raise"
    /\ running' <=> x.groups # {} /\ x.verdict # "raise"
    /\ used' = used

\* next_step is such a step.
LEMMA NextStepIs ==
    ASSUME NEW sorted, NextStep(sorted)
    PROVE  \E w, boundary, b, x : Steps(sorted, w, boundary, b, x)
<1> DEFINE boundary == AtBoundary(window, Available)
           w == Select(window, Keyed(sorted), Available)
           b == Opening(w, boundary)
           x == Planned(b, boundary)
<1>1. /\ ~running /\ ~failed /\ Available # {} /\ used' = used
      /\ boundary \/ sorted = order
      /\ plan' = IF boundary THEN w.cohort ELSE plan
      /\ order' = Among(sorted, Available \ x.ignored)
      /\ len' = Restrict(len, DOMAIN len \ x.ignored)
      /\ unfilled' = unfilled \ x.ignored
      /\ place' = x.place /\ slots' = x.slots /\ window' = x.window
      /\ prepared' = x.prepared /\ reserved' = x.reserved
      /\ output' = [groups |-> x.groups, incoming |-> x.incoming,
                    outgoing |-> x.outgoing, ignored |-> x.ignored]
      /\ failed' = (x.verdict = "raise")
      /\ running' = (x.groups # {} /\ x.verdict # "raise")
  BY ZenonT(60) DEF NextStep, Opening, Here
<1> HIDE DEF boundary, w, b, x
<1>2. /\ boundary => plan' = w.cohort
      /\ ~boundary => plan' = plan /\ sorted = order
  BY <1>1
<1>3. Steps(sorted, w, boundary, b, x)
  BY <1>1, <1>2 DEF Steps, boundary, w, b, x
<1> QED BY <1>3

\* All that is known of the plan and of what the step makes of it.
LEMMA StepOutcome ==
    ASSUME Inv, NEW sorted \in SetToSeqs(Range(order)), NEW w, NEW boundary, NEW b, NEW x,
           Steps(sorted, w, boundary, b, x)
    PROVE  /\ sorted \in Seq(Available) /\ Range(sorted) = Available
           /\ w = Plan(w.cohort, w.remaining) /\ w.remaining \in Nat \ {0}
           /\ w.cohort \in Seq(Available) /\ IsInjective(w.cohort) /\ Len(w.cohort) > 0
           /\ ~boundary => w.cohort = Among(window.cohort, Available)
           /\ b.window = w /\ b.slots = slots /\ b.prepared \subseteq prepared
           /\ b.reserved \subseteq reserved
           /\ Outcome(x, b, Available)
<1>1. TypeInv /\ IsFiniteSet(Available) /\ Range(order) = Available
  BY DEF Inv, TypeInv, Holds
<1>2. /\ ~running /\ ~failed /\ Available # {}
      /\ boundary <=> AtBoundary(window, Available)
      /\ w = Select(window, Keyed(sorted), Available)
      /\ b = Opening(w, boundary) /\ x = Planned(b, boundary)
  BY DEF Steps
<1>3. sorted \in Seq(Available) /\ Range(sorted) = Available
  BY <1>1, SortedIs
<1>4. PlacedIn(Keyed(sorted), sorted)
  BY DEF PlacedIn, Keyed, Range
<1>5. /\ window.cohort \in Seq(used) /\ IsInjective(window.cohort) /\ window.remaining \in Nat
       /\ IsFiniteSet(Available) /\ sorted \in SetToSeqs(Available)
  BY <1>1 DEF TypeInv
<1>6. /\ w = Plan(w.cohort, w.remaining) /\ w.remaining \in Nat \ {0}
      /\ w.cohort \in Seq(Available) /\ IsInjective(w.cohort) /\ Len(w.cohort) > 0
      /\ ~AtBoundary(window, Available) =>
             w.remaining = window.remaining /\ w.cohort = Among(window.cohort, Available)
  BY <1>2, <1>4, <1>5, SelectIs
<1>7. /\ ~boundary => w.remaining = window.remaining
      /\ ~boundary => w.cohort = Among(window.cohort, Available)
  BY <1>2, <1>6
<1>8. /\ b.window = w /\ b.slots = slots /\ b.prepared \subseteq prepared
      /\ b.reserved \subseteq reserved
  BY <1>2, OpeningIs
<1>9. Outset(b, Available)
  BY <1>2, <1>6, <1>7, BeginIs
<1>10. Outcome(x, b, Available)
  BY <1>2, <1>9, PlannedOutcome
<1> QED BY <1>3, <1>6, <1>7, <1>8, <1>10

\* What the window keeps of the plan.
LEMMA StepKeepsOrder ==
    ASSUME Inv, NEW sorted \in SetToSeqs(Range(order)), NEW w, NEW boundary, NEW b, NEW x,
           Steps(sorted, w, boundary, b, x), Available' \subseteq Available,
           NEW k \in Nat, window'.cohort = First(w.cohort, k)
    PROVE  OrderInv'
<1> DEFINE c == w.cohort
           d == First(c, k)
<1>1. OrderInv /\ window.cohort \in Seq(used) /\ IsInjective(window.cohort)
  BY DEF Inv, TypeInv, Steps
<1>2. boundary => plan' = c
  BY DEF Steps
<1>3. ~boundary => plan' = plan
  BY DEF Steps
<1>4. window'.cohort = d
  OBVIOUS
<1>5. c \in Seq(Available) /\ IsInjective(c)
  BY StepOutcome
<1> HIDE DEF c
<1>6. /\ DOMAIN d = {i \in DOMAIN c : i <= k}
      /\ \A i \in DOMAIN d : d[i] = c[i]
      /\ \A i \in DOMAIN c : c[i] \in Range(d) <=> i <= k
  <2> HIDE DEF d
  <2>1. c \in Seq(Available) /\ IsInjective(c)
    BY <1>5
  <2> QED BY <2>1, FirstOnce DEF d
<1>7. DOMAIN c \subseteq Nat
  BY <1>5
<1> HIDE DEF d
<1>8. \A p \in Available, q \in Range(c) : Precedes(plan', p, q) => Precedes(c, p, q)
  <2>1. CASE boundary
    BY <1>2, <2>1
  <2>2. CASE ~boundary
    <3>1. c = Among(window.cohort, Available)
      BY <2>2, StepOutcome DEF c
    <3>2. /\ Range(c) = Range(window.cohort) \cap Available
          /\ \A p, q \in Available : Precedes(window.cohort, p, q) => Precedes(c, p, q)
      BY <1>1, <3>1, AmongIs
    <3> QED BY <1>1, <1>3, <2>2, <3>2 DEF OrderInv
  <2> QED BY <2>1, <2>2
<1> SUFFICES ASSUME NEW p \in Available, NEW q \in Range(d), Precedes(c, p, q)
             PROVE  Precedes(d, p, q)
  <2>1. Range(d) \subseteq Range(c)
    BY <1>6 DEF Range
  <2> QED BY <1>4, <1>8, <2>1 DEF OrderInv
<1>9. PICK m \in DOMAIN c, n \in DOMAIN c : m < n /\ c[m] = p /\ c[n] = q
  BY DEF Precedes
<1>10. n <= k
  BY <1>6, <1>7, <1>9
<1>11. m \in DOMAIN d /\ n \in DOMAIN d
  BY <1>6, <1>7, <1>9, <1>10
<1> QED BY <1>6, <1>9, <1>11 DEF Precedes

\* Whatever the branch: a step keeps the invariant.
LEMMA NextStepKeepsInv ==
    ASSUME Inv, NEW sorted \in SetToSeqs(Range(order)), NextStep(sorted)
    PROVE  Inv'
<1>1. PICK w, boundary, b, x : Steps(sorted, w, boundary, b, x)
  BY NextStepIs
<1> DEFINE c == w.cohort
           rem == w.remaining
           T == Available \ x.ignored
<1>2. /\ sorted \in Seq(Available) /\ Range(sorted) = Available
      /\ w = Plan(c, rem) /\ rem \in Nat \ {0}
      /\ c \in Seq(Available) /\ IsInjective(c) /\ Len(c) > 0
      /\ b.window = w /\ b.prepared \subseteq prepared /\ b.reserved \subseteq reserved
      /\ Outcome(x, b, Available)
  BY <1>1, StepOutcome
<1>3. /\ ~running /\ ~failed /\ used' = used
      /\ order' = Among(sorted, T) /\ len' = Restrict(len, DOMAIN len \ x.ignored)
      /\ unfilled' = unfilled \ x.ignored
      /\ place' = x.place /\ slots' = x.slots /\ window' = x.window
      /\ prepared' = x.prepared /\ reserved' = x.reserved
      /\ output'.groups = x.groups
      /\ failed' <=> x.verdict = "raise"
      /\ running' <=> x.groups # {} /\ x.verdict # "raise"
  BY <1>1 DEF Steps
<1>4. /\ len \in [Available -> Nat \ {0}] /\ unfilled \subseteq Available
      /\ \A r \in unfilled : len[r] <= Budget
      /\ Available \subseteq used /\ prepared \subseteq used /\ reserved \subseteq used
      /\ Range(plan) \subseteq used
  BY DEF Inv, TypeInv
<1>5. /\ x.ignored \subseteq Available /\ Holds(x, T) /\ Used(x) <= Slots
      /\ x.reserved \cap T \subseteq OnDevice(x) /\ Lasts(x, rem)
      /\ x.prepared \cap unfilled \subseteq x.groups
      /\ x.prepared \subseteq b.prepared \cup Available
      /\ x.reserved \subseteq b.reserved \cup Available
      /\ x.groups \subseteq OnDevice(x)
  BY <1>2 DEF Outcome, Left
<1>6. PICK k \in 0..Len(c) : /\ x.window = Plan(First(c, k), rem)
                             /\ x.groups # {} => Past(x, b, k)
  BY <1>2 DEF Outcome, Batch
<1>7. x.verdict = "raise" => x.window = w /\ x.ignored = {} /\ Hopeless(x, b)
  BY <1>2 DEF Outcome
<1>8. boundary => plan' = c
  BY <1>1 DEF Steps
<1>9. ~boundary => plan' = plan
  BY <1>1 DEF Steps
<1> HIDE DEF c, rem
<1> DEFINE d == First(c, k)
<1>10. k \in Nat
  BY <1>2, <1>6
<1>11. /\ d \in Seq(Available) /\ IsInjective(d)
       /\ \A i \in DOMAIN c : c[i] \in Range(d) <=> i <= k
  BY <1>2, <1>10, FirstOnce
<1>12. window' = Plan(d, rem) /\ window'.cohort = d /\ window'.remaining = rem
  BY <1>3, <1>6 DEF Plan
<1>13. Available' = T /\ Available' \subseteq Available
  BY <1>3, <1>5 DEF Holds, Available
<1>14. /\ Holds(Device, Available)' /\ OnDevice(Device)' = OnDevice(x)
       /\ Used(Device)' = Used(x)
  <2>1. Device'.place = x.place /\ Device'.slots = x.slots
    BY <1>3 DEF Device
  <2>2. Holds(Device', T) /\ OnDevice(Device') = OnDevice(x) /\ Used(Device') = Used(x)
    BY <1>5, <2>1, SameDevice
  <2> QED BY <1>13, <2>2
<1>15. \A q \in T : len'[q] = len[q] /\ (q \in unfilled' <=> q \in unfilled)
  BY <1>3, <1>4 DEF Restrict
<1>16. TypeInv'
  <2>1. (order \in Seq(Available) /\ Range(order) = Available)'
    <3>1. Among(sorted, T) \in Seq(T) /\ Range(Among(sorted, T)) = T
      <4>1. Range(sorted) \cap T = T
        BY <1>2
      <4> QED BY <1>2, <4>1, AmongIs
    <3> QED BY <1>3, <1>13, <3>1
  <2>2. (len \in [Available -> Nat \ {0}])'
    BY <1>3, <1>4, <1>13 DEF Restrict
  <2>3. (unfilled \subseteq Available)' /\ (\A q \in unfilled : len[q] <= Budget)'
    BY <1>3, <1>4, <1>13, <1>15
  <2>4. Range(plan') \subseteq used
    <3>1. Range(c) \subseteq Available
      BY <1>2 DEF Range
    <3>2. CASE boundary
      BY <1>4, <1>8, <3>1, <3>2
    <3>3. CASE ~boundary
      BY <1>4, <1>9, <3>3
    <3> QED BY <3>2, <3>3
  <2>5. d \in Seq(used)
    <3> HIDE DEF d
    <3> QED BY <1>4, <1>11
  <2>6. /\ Available' \subseteq used /\ x.prepared \subseteq used /\ x.reserved \subseteq used
    BY <1>2, <1>4, <1>5, <1>13
  <2> HIDE DEF d, T
  <2> QED BY <1>2, <1>3, <1>11, <1>12, <1>14, <2>1, <2>2, <2>3, <2>4, <2>5, <2>6 DEF TypeInv
<1>17. (Used(Device) <= Slots)'
  BY <1>5, <1>14
<1>18. ReservedInv'
  <2>1. (reserved \cap Available \subseteq OnDevice(Device))'
    BY <1>3, <1>5, <1>13, <1>14
  <2>2. ASSUME NEW q \in (reserved \cap OnDevice(Device))'
        PROVE  (slots[q] >= len[q] + window.remaining - (IF q \in unfilled THEN 0 ELSE 1))'
    <3>1. q \in x.reserved \cap OnDevice(x) /\ q \in T
      BY <1>3, <1>5, <1>14, UsedIs
    <3>2. x.slots[q] >= len[q] + rem - (IF q \in unfilled THEN 0 ELSE 1)
      BY <1>5, <3>1 DEF Lasts
    <3>3. /\ slots'[q] = x.slots[q] /\ len'[q] = len[q] /\ (q \in unfilled' <=> q \in unfilled)
          /\ window'.remaining = rem
      BY <1>3, <1>12, <1>15, <3>1
    <3> QED BY <3>2, <3>3
  <2> QED BY <2>1, <2>2 DEF ReservedInv
<1>19. ~failed' => BatchInv'
  <2>1. x.groups # {} => x.groups \subseteq Range(d)
    <3>1. SUFFICES ASSUME NEW r \in x.groups PROVE r \in Range(d)
      OBVIOUS
    <3>2. PICK i \in 1..k : r = c[i]
      BY <1>2, <1>6 DEF Past, c
    <3>3. i \in DOMAIN c /\ i <= k
      BY <1>2, <1>6, <3>2
    <3> QED BY <1>11, <3>2, <3>3
  <2>2. x.prepared \cap unfilled' \subseteq x.groups
    BY <1>3, <1>5
  <2> HIDE DEF d
  <2> QED BY <1>2, <1>3, <1>5, <1>12, <1>14, <2>1, <2>2 DEF BatchInv
<1>20. OrderInv'
  BY <1>1, <1>10, <1>12, <1>13, StepKeepsOrder DEF c
<1>21. NoneRunsPast'
  <2> SUFFICES ASSUME running', NEW i \in DOMAIN plan', NEW j \in DOMAIN plan',
                      i < j, plan'[j] \in output'.groups, plan'[i] \in Available'
               PROVE  plan'[i] \in output'.groups \/ plan'[i] \in window'.reserve \ unfilled'
    BY DEF NoneRunsPast
  <2>1. x.groups # {} /\ Past(x, b, k) /\ output'.groups = x.groups
    BY <1>3, <1>6
  <2>2. PICK n \in 1..k : plan'[j] = c[n]
    BY <1>2, <2>1 DEF Past, c
  <2>3. n \in DOMAIN c /\ n <= k
    BY <1>2, <1>6, <2>2
  <2>4. plan'[j] \in Range(d)
    BY <1>11, <2>2, <2>3
  <2>5. Precedes(plan', plan'[i], plan'[j])
    BY DEF Precedes
  <2>6. Precedes(d, plan'[i], plan'[j])
    BY <1>12, <1>20, <2>4, <2>5 DEF OrderInv
  <2>7. PICK m \in DOMAIN d : d[m] = plan'[i]
    BY <2>6 DEF Precedes
  <2>8. m \in DOMAIN c /\ m <= k /\ c[m] = plan'[i]
    <3>1. c \in Seq(Available)
      BY <1>2
    <3>2. /\ DOMAIN First(c, k) = {q \in DOMAIN c : q <= k}
          /\ \A q \in DOMAIN First(c, k) : First(c, k)[q] = c[q]
      BY <1>10, <3>1, FirstIs
    <3> QED BY <2>7, <3>2
  <2>9. m \in 1..k
    BY <1>2, <1>10, <2>8
  <2>10. plan'[i] \in x.groups \/ plan'[i] \in w.reserve \ unfilled
    BY <1>2, <2>1, <2>8, <2>9 DEF Past, c
  <2>11. ASSUME plan'[i] \in w.reserve PROVE plan'[i] \in window'.reserve
    <3>1. m > Capacity
      BY <1>2, <2>8, <2>11, PlanIs
    <3>2. Len(d) > 0
      BY <1>11, <2>7
    <3> HIDE DEF d
    <3>3. d[m] \in window'.reserve
      BY <1>11, <1>12, <2>7, <3>1, <3>2, PlanIs
    <3> QED BY <2>7, <3>3
  <2> QED BY <1>3, <2>1, <2>10, <2>11
<1>22. failed' => Doomed'
  <2> SUFFICES ASSUME failed' PROVE Doomed'
    OBVIOUS
  <2>1. window' = w /\ x.ignored = {} /\ Hopeless(x, b)
    BY <1>3, <1>7
  <2>2. window'.cohort = c /\ window'.remaining = rem /\ Head(c) = c[1] /\ c[1] \in T
    BY <1>2, <2>1 DEF c, rem
  <2>3. OnDevice(x) \subseteq {c[1]} /\ len[c[1]] + rem > Slots
    BY <1>2, <2>1 DEF Hopeless, c, rem
  <2>4. len'[c[1]] = len[c[1]]
    BY <1>15, <2>2
  <2> QED BY <1>14, <2>2, <2>3, <2>4 DEF Doomed
<1> QED BY <1>3, <1>16, <1>17, <1>18, <1>19, <1>20, <1>21, <1>22 DEF Inv

-----------------------------------------------------------------------------
(* The theorems. *)

\* Every step of the replica, and of those who add and cancel, keeps the invariant.
LEMMA NextKeepsInv == Inv /\ [Next]_vars => Inv'
<1> SUFFICES ASSUME Inv, [Next]_vars PROVE Inv'
  OBVIOUS
<1>1. CASE \E r \in Rid, prompt \in Prompts, at \in 1..(Len(order) + 1) : Add(r, prompt, at)
  BY <1>1, AddKeepsInv
<1>2. CASE \E r \in Rid : Cancel(r)
  BY <1>2, CancelKeepsInv
<1>3. CASE \E sorted \in SetToSeqs(Range(order)) : NextStep(sorted)
  BY <1>3, NextStepKeepsInv
<1>4. CASE \E done \in SUBSET output.groups : Run(done)
  BY <1>4, RunKeepsInv
<1>5. CASE UNCHANGED vars
  BY <1>5 DEF vars, Inv, TypeInv, ReservedInv, BatchInv, OrderInv, Doomed, NoneRunsPast,
              Available, Device
<1> QED BY <1>1, <1>2, <1>3, <1>4, <1>5 DEF Next

\* The invariant of the replica holds in every reachable state.
THEOREM PlanInvariant == Spec => []Inv
BY InitHolds, NextKeepsInv, PTL DEF Spec

\* ReserveLasts: the device is never overfilled, what a prepared window reserved lasts until
\* its end, and the replica gives up only for a call that the device could not hold alone.
THEOREM ReservationsLast == Spec => []ReserveLasts
<1>1. Inv => ReserveLasts
  <2> SUFFICES ASSUME Inv PROVE ReserveLasts
    OBVIOUS
  <2>1. Used(Device) <= Slots
    BY DEF Inv
  <2>2. ASSUME ~running, ~failed,
               NEW r \in (reserved \cap prepared \cap OnDevice(Device)) \ unfilled
        PROVE  slots[r] >= len[r] + window.remaining - 1
    BY <2>2 DEF Inv, ReservedInv
  <2>3. ASSUME failed
        PROVE  LET r == Head(window.cohort)
               IN  OnDevice(Device) \subseteq {r} /\ len[r] + window.remaining > Slots
    BY <2>3 DEF Inv, Doomed
  <2> QED BY <2>1, <2>2, <2>3 DEF ReserveLasts
<1> QED BY <1>1, PlanInvariant, PTL

\* NoneRunsPast: what the window chose before an executing call executes with it, unless it
\* is done or is a reserve with its prompt computed.
THEOREM NobodyRunsPast == Spec => []NoneRunsPast
<1>1. Inv => NoneRunsPast
  BY DEF Inv
<1> QED BY <1>1, PlanInvariant, PTL

\* FlushBeforeReuse: what a step leaves on the device fits beside all that it flushes.
THEOREM FlushedBeforeReuse == Spec => FlushBeforeReuse
<1> DEFINE Fits ==
               output'.outgoing # {} /\ output' # output =>
                   /\ output'.groups = {} /\ output'.incoming = {}
                   /\ Used([place |-> place', slots |-> slots'])
                         + MapThenSumSet(LAMBDA r : slots[r], output'.outgoing) <= Slots
<1>1. Inv /\ [Next]_vars => [Fits]_vars
  <2> SUFFICES ASSUME Inv, Next PROVE Fits
    OBVIOUS
  <2>1. CASE \E r \in Rid, prompt \in Prompts, at \in 1..(Len(order) + 1) : Add(r, prompt, at)
    BY <2>1 DEF Add
  <2>2. CASE \E r \in Rid : Cancel(r)
    BY <2>2 DEF Cancel
  <2>3. CASE \E done \in SUBSET output.groups : Run(done)
    BY <2>3 DEF Run
  <2>4. CASE \E sorted \in SetToSeqs(Range(order)) : NextStep(sorted)
    <3>1. PICK sorted \in SetToSeqs(Range(order)) : NextStep(sorted)
      BY <2>4
    <3>2. PICK w, boundary, b, x : Steps(sorted, w, boundary, b, x)
      BY <3>1, NextStepIs
    <3>3. Outcome(x, b, Available) /\ b.slots = slots
      BY <3>2, StepOutcome
    <3>4. /\ output'.groups = x.groups /\ output'.incoming = x.incoming
          /\ output'.outgoing = x.outgoing
          /\ place' = x.place /\ slots' = x.slots
      BY <3>2 DEF Steps
    <3>5. x.outgoing # {} => /\ x.groups = {} /\ x.incoming = {}
                             /\ Used(x) + Total(slots, x.outgoing) <= Slots
      BY <3>3 DEF Outcome
    <3> DEFINE d == [place |-> place', slots |-> slots']
    <3>6. Holds(x, Available \ x.ignored) /\ d.place = x.place /\ d.slots = x.slots
      BY <3>3, <3>4 DEF Outcome, Left
    <3> HIDE DEF d
    <3>7. Used(d) = Used(x)
      BY <3>6, SameDevice
    <3>8. Total(slots, x.outgoing) = MapThenSumSet(LAMBDA r : slots[r], output'.outgoing)
      BY <3>4 DEF Total
    <3> QED BY <3>4, <3>5, <3>7, <3>8 DEF d
  <2> QED BY <2>1, <2>2, <2>3, <2>4 DEF Next
<1> QED BY <1>1, PlanInvariant, PTL DEF Spec, FlushBeforeReuse

=============================================================================
