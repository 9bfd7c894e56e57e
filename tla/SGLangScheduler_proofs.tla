----------------------- MODULE SGLangScheduler_proofs -----------------------
(***************************************************************************)
(* The hooks in the scheduler of one SGLang replica, for any calls,        *)
(* prompts, KV pool, host budget and window: locks and copies are kept     *)
(* exactly, no token is computed twice, the loop goes on, and nobody runs  *)
(* past a call of higher priority.                                         *)
(***************************************************************************)
EXTENDS SGLangScheduler, Common_proofs

Calls == DOMAIN tok

\* What a pass works on.
Fields(x) ==
    x = [kv |-> x.kv, cached |-> x.cached, pins |-> x.pins, reserve |-> x.reserve,
         host |-> x.host, hostUsed |-> x.hostUsed, window |-> x.window,
         waiting |-> x.waiting, batch |-> x.batch, admitted |-> x.admitted,
         extend |-> x.extend, selected |-> x.selected, sorted |-> x.sorted,
         remainingBefore |-> x.remainingBefore, lru |-> x.lru, ready |-> x.ready,
         blocked |-> x.blocked, restored |-> x.restored, full |-> x.full,
         verdict |-> x.verdict]

-----------------------------------------------------------------------------
(* The loops of a pass.  Each is a fold; this one step stands for all of    *)
(* them, so that a fold is shown once to go through one value per element.  *)

EvictOne(y, n, r) ==
    IF Free(y) < n /\ r \in Unlocked(y)
    THEN [y EXCEPT !.kv[r] = @ - y.cached[r], !.cached[r] = 0] ELSE y
ShedOne(y) ==
    IF RoomToDecode(y) THEN y
    ELSE IF Cardinality(y.batch) <= 1 THEN Raise(y, "capacity") ELSE Shed(y)
EnterOne(y, r) == IF ~y.full /\ Fits(y, r) THEN Enter(y, r) ELSE [y EXCEPT !.full = TRUE]
SettleOne(y, r) == Discard(IF r \in y.reserve THEN ReleaseUnsaved(y, r) ELSE y, r)

Body(y, loop, n, r) ==
    IF loop = "evict" THEN EvictOne(y, n, r)
    ELSE IF loop = "release" THEN ReleaseReserve(y, r)
    ELSE IF loop = "retract" THEN Retract(y, r)
    ELSE IF loop = "shed" THEN ShedOne(y)
    ELSE IF loop = "prepare" THEN PrepareCall(y, r)
    ELSE SettleOne(y, r)
Step(y, loop, n, r) ==
    IF loop = "enter" THEN EnterOne(y, r)
    ELSE IF y.verdict = "go" THEN Body(y, loop, n, r) ELSE y

\* The values v that a loop over c goes through from x to y.
Visits(v, x, y, c, m, loop, n) ==
    /\ v[0] = x /\ v[m] = y
    /\ \A k \in 0..(m - 1) : v[k + 1] = Step(v[k], loop, n, c[k + 1])

Largest(s) == Max(s)
Folds(g, x, c, m, loop, n) ==
    g = [s \in SUBSET (1..m) |->
            IF s = {} THEN x ELSE Step(g[s \ {Largest(s)}], loop, n, c[Largest(s)])]

\* What holds at first and is kept by every step holds to the end.
LEMMA KeptToTheEnd ==
    ASSUME NEW m \in Nat, NEW Ok, 0 \in Ok, \A k \in 0..(m - 1) : k \in Ok => k + 1 \in Ok
    PROVE  \A k \in 0..m : k \in Ok
<1> DEFINE Bad == {k \in 0..m : k \notin Ok}
<1> SUFFICES ASSUME Bad # {} PROVE FALSE
  OBVIOUS
<1>1. Bad \subseteq Nat
  OBVIOUS
<1>2. PICK k \in Bad : \A j \in Bad : k <= j
  BY <1>1, LeastNat
<1>3. k # 0 /\ k - 1 \in 0..(m - 1) /\ k - 1 \notin Bad /\ (k - 1) + 1 = k
  BY <1>2
<1> QED BY <1>3

\* The largest of some numbers.
LEMMA LargestIs ==
    ASSUME NEW m \in Nat, NEW s \in SUBSET (1..m), m \in s
    PROVE  Largest(s) = m
<1>1. \A k \in s : m >= k
  OBVIOUS
<1>2. \A j \in s : (\A k \in s : j >= k) => j = m
  BY <1>1
<1>3. Largest(s) = CHOOSE j \in s : \A k \in s : j >= k
  BY DEF Largest, Max
<1> QED BY <1>1, <1>2, <1>3

\* Over a list of any length the fold is defined.
LEMMA FoldExists ==
    ASSUME NEW x, NEW c, NEW n \in Nat, NEW loop, NEW a
    PROVE  \E g : Folds(g, x, c, n, loop, a)
<1> DEFINE Bad == {m \in Nat : ~\E g : Folds(g, x, c, m, loop, a)}
<1>1. \E g : Folds(g, x, c, 0, loop, a)
  <2> DEFINE g == [s \in SUBSET (1..0) |-> x]
  <2>1. \A s \in SUBSET (1..0) : s = {}
    OBVIOUS
  <2>2. Folds(g, x, c, 0, loop, a)
    BY <2>1 DEF Folds
  <2> QED BY <2>2
<1>2. ASSUME NEW m \in Nat, NEW g, Folds(g, x, c, m, loop, a)
      PROVE  \E h : Folds(h, x, c, m + 1, loop, a)
  <2> DEFINE h == [s \in SUBSET (1..(m + 1)) |->
                      IF m + 1 \in s THEN Step(g[s \ {m + 1}], loop, a, c[m + 1]) ELSE g[s]]
  <2>1. \A s \in SUBSET (1..(m + 1)) : m + 1 \notin s => s \in SUBSET (1..m)
    <3>1. \A k \in 1..(m + 1) : k # m + 1 => k \in 1..m
      OBVIOUS
    <3> QED BY <3>1
  <2>2. \A s \in SUBSET (1..m) : s \in SUBSET (1..(m + 1)) /\ m + 1 \notin s
    <3>1. \A k \in 1..m : k \in 1..(m + 1) /\ k # m + 1
      OBVIOUS
    <3> QED BY <3>1
  <2>3. \A s \in SUBSET (1..m) : h[s] = g[s]
    BY <2>2
  <2>4. ASSUME NEW s \in SUBSET (1..(m + 1))
        PROVE  h[s] = IF s = {} THEN x ELSE Step(h[s \ {Largest(s)}], loop, a, c[Largest(s)])
    <3>1. CASE m + 1 \in s
      <4>1. Largest(s) = m + 1
        <5>1. m + 1 \in Nat
          OBVIOUS
        <5> QED BY <3>1, <5>1, LargestIs
      <4>2. s \ {m + 1} \in SUBSET (1..m)
        BY <2>1
      <4>3. h[s] = Step(g[s \ {m + 1}], loop, a, c[m + 1])
        BY <3>1
      <4>4. h[s \ {m + 1}] = g[s \ {m + 1}]
        BY <2>3, <4>2
      <4> HIDE DEF h
      <4> QED BY <3>1, <4>1, <4>3, <4>4
    <3>2. CASE m + 1 \notin s
      <4>1. s \in SUBSET (1..m) /\ s \ {Largest(s)} \in SUBSET (1..m)
        BY <2>1, <3>2
      <4>2. h[s] = g[s] /\ h[s \ {Largest(s)}] = g[s \ {Largest(s)}]
        BY <2>3, <4>1
      <4>3. g[s] = IF s = {} THEN x ELSE Step(g[s \ {Largest(s)}], loop, a, c[Largest(s)])
        BY <1>2, <4>1 DEF Folds
      <4> HIDE DEF h
      <4> QED BY <4>2, <4>3
    <3> QED BY <3>1, <3>2
  <2>5. Folds(h, x, c, m + 1, loop, a)
    BY <2>4 DEF Folds
  <2> QED BY <2>5
<1>3. Bad = {}
  <2> SUFFICES ASSUME Bad # {} PROVE FALSE
    OBVIOUS
  <2>1. PICK m \in Bad : \A k \in Bad : m <= k
    BY LeastNat
  <2>2. m # 0
    BY <1>1
  <2>3. m - 1 \in Nat /\ m - 1 \notin Bad /\ (m - 1) + 1 = m
    BY <2>1, <2>2
  <2>4. PICK g : Folds(g, x, c, m - 1, loop, a)
    BY <2>3
  <2>5. \E h : Folds(h, x, c, (m - 1) + 1, loop, a)
    BY <1>2, <2>3, <2>4
  <2> QED BY <2>3, <2>5
<1> QED BY <1>3

\* It goes through one value per element.
LEMMA FoldVisits ==
    ASSUME NEW x, NEW c, NEW n \in Nat, NEW loop, NEW a, NEW g, Folds(g, x, c, n, loop, a)
    PROVE  \E v : Visits(v, x, g[1..n], c, n, loop, a)
<1> DEFINE v == [k \in 0..n |-> g[1..k]]
<1>1. \A s \in SUBSET (1..n) :
          g[s] = IF s = {} THEN x ELSE Step(g[s \ {Largest(s)}], loop, a, c[Largest(s)])
  BY DEF Folds
<1>2. v[0] = x
  <2>1. 1..0 = {} /\ {} \in SUBSET (1..n) /\ 0 \in 0..n
    OBVIOUS
  <2>2. g[{}] = x
    BY <1>1, <2>1
  <2> QED BY <2>1, <2>2
<1>3. v[n] = g[1..n]
  OBVIOUS
<1>4. ASSUME NEW k \in 0..(n - 1) PROVE v[k + 1] = Step(v[k], loop, a, c[k + 1])
  <2>1. k \in 0..n /\ k + 1 \in 0..n /\ k + 1 \in Nat
    OBVIOUS
  <2>2. 1..(k + 1) \in SUBSET (1..n) /\ k + 1 \in 1..(k + 1) /\ (1..(k + 1)) \ {k + 1} = 1..k
    OBVIOUS
  <2>3. Largest(1..(k + 1)) = k + 1
    BY <2>1, <2>2, LargestIs
  <2>4. g[1..(k + 1)] = Step(g[(1..(k + 1)) \ {k + 1}], loop, a, c[k + 1])
    BY <1>1, <2>2, <2>3
  <2> QED BY <2>1, <2>2, <2>4
<1> QED
  <2> HIDE DEF v
  <2> QED BY <1>2, <1>3, <1>4 DEF Visits

\* tree_cache.evict.
EvictOrder(x) == x.lru \o Among(order, DOMAIN x.kv \ Range(x.lru))

\* MakeFree tries the branches one by one.
LEMMA EvictVisits ==
    ASSUME NEW x, NEW n, NEW m \in Nat, NEW c, c = EvictOrder(x), DOMAIN c = 1..m
    PROVE  \E v : Visits(v, x, MakeFree(x, n), c, m, "evict", n)
<1> DEFINE Is(h) == h = [s \in SUBSET (DOMAIN EvictOrder(x)) |-> IF s = {} THEN x ELSE
                            IF h[s \ {Largest(s)}].verdict = "go"
                            THEN EvictOne(h[s \ {Largest(s)}], n, EvictOrder(x)[Largest(s)])
                            ELSE h[s \ {Largest(s)}]]
           g == CHOOSE h : Is(h)
<1>1. MakeFree(x, n) = g[DOMAIN EvictOrder(x)]
  BY DEF MakeFree, EvictOrder, EvictOne, Each, FoldLeft, MapThenFoldSet, Largest
<1>2. \A h : Folds(h, x, c, m, "evict", n) => Is(h)
  BY DEF Folds, Step, Body
<1>3. \A h : Is(h) => Folds(h, x, c, m, "evict", n)
  BY DEF Folds, Step, Body
<1> HIDE DEF Is
<1>4. Folds(g, x, c, m, "evict", n)
  BY <1>2, <1>3, FoldExists
<1> HIDE DEF g
<1> QED BY <1>1, <1>4, FoldVisits

\* release_reserves saves and unlocks one call after another.
LEMMA ReleaseVisits ==
    ASSUME NEW x, NEW rids, NEW m \in Nat, NEW c, c = Among(order, rids), DOMAIN c = 1..m
    PROVE  \E v : Visits(v, x, ReleaseReserves(x, rids), c, m, "release", 0)
<1> DEFINE Is(h) == h = [s \in SUBSET (DOMAIN Among(order, rids)) |-> IF s = {} THEN x ELSE
                            IF h[s \ {Largest(s)}].verdict = "go"
                            THEN ReleaseReserve(h[s \ {Largest(s)}], Among(order, rids)[Largest(s)])
                            ELSE h[s \ {Largest(s)}]]
           g == CHOOSE h : Is(h)
<1>1. ReleaseReserves(x, rids) = g[DOMAIN Among(order, rids)]
  BY DEF ReleaseReserves, Each, FoldLeft, MapThenFoldSet, Largest
<1>2. \A h : Folds(h, x, c, m, "release", 0) => Is(h)
  BY DEF Folds, Step, Body
<1>3. \A h : Is(h) => Folds(h, x, c, m, "release", 0)
  BY DEF Folds, Step, Body
<1> HIDE DEF Is
<1>4. Folds(g, x, c, m, "release", 0)
  BY <1>2, <1>3, FoldExists
<1> HIDE DEF g
<1> QED BY <1>1, <1>4, FoldVisits

\* So does the retraction.
LEMMA RetractVisits ==
    ASSUME NEW x, NEW m \in Nat, NEW c, c = Among(order, x.batch \ Kept(x)), DOMAIN c = 1..m
    PROVE  \E v : Visits(v, x, RetractVictims(x), c, m, "retract", 0)
<1> DEFINE Is(h) == h = [s \in SUBSET (DOMAIN Among(order, x.batch \ Kept(x))) |-> IF s = {} THEN x ELSE
                            IF h[s \ {Largest(s)}].verdict = "go"
                            THEN Retract(h[s \ {Largest(s)}], Among(order, x.batch \ Kept(x))[Largest(s)])
                            ELSE h[s \ {Largest(s)}]]
           g == CHOOSE h : Is(h)
<1>1. RetractVictims(x) = g[DOMAIN Among(order, x.batch \ Kept(x))]
  BY DEF RetractVictims, Each, FoldLeft, MapThenFoldSet, Largest
<1>2. \A h : Folds(h, x, c, m, "retract", 0) => Is(h)
  BY DEF Folds, Step, Body
<1>3. \A h : Is(h) => Folds(h, x, c, m, "retract", 0)
  BY DEF Folds, Step, Body
<1> HIDE DEF Is
<1>4. Folds(g, x, c, m, "retract", 0)
  BY <1>2, <1>3, FoldExists
<1> HIDE DEF g
<1> QED BY <1>1, <1>4, FoldVisits

\* make_decode_room, once the reserves are given up.
Shedding(x, c) == Each(x, c, LAMBDA y, q : ShedOne(y))

\* It sheds a call at a time.
LEMMA ShedVisits ==
    ASSUME NEW x, NEW m \in Nat, NEW c, DOMAIN c = 1..m
    PROVE  \E v : Visits(v, x, Shedding(x, c), c, m, "shed", 0)
<1> DEFINE Is(h) == h = [s \in SUBSET (DOMAIN c) |-> IF s = {} THEN x ELSE
                            IF h[s \ {Largest(s)}].verdict = "go"
                            THEN ShedOne(h[s \ {Largest(s)}])
                            ELSE h[s \ {Largest(s)}]]
           g == CHOOSE h : Is(h)
<1>1. Shedding(x, c) = g[DOMAIN c]
  BY DEF Shedding, Each, FoldLeft, MapThenFoldSet, Largest
<1>2. \A h : Folds(h, x, c, m, "shed", 0) => Is(h)
  BY DEF Folds, Step, Body
<1>3. \A h : Is(h) => Folds(h, x, c, m, "shed", 0)
  BY DEF Folds, Step, Body
<1> HIDE DEF Is
<1>4. Folds(g, x, c, m, "shed", 0)
  BY <1>2, <1>3, FoldExists
<1> HIDE DEF g
<1> QED BY <1>1, <1>4, FoldVisits

\* _prepare_ready.
Preparing(x) == Each(x, x.ready, PrepareCall)

\* The ready calls are prepared in their order.
LEMMA PrepareVisits ==
    ASSUME NEW x, NEW m \in Nat, NEW c, c = x.ready, DOMAIN c = 1..m
    PROVE  \E v : Visits(v, x, Preparing(x), c, m, "prepare", 0)
<1> DEFINE Is(h) == h = [s \in SUBSET (DOMAIN x.ready) |-> IF s = {} THEN x ELSE
                            IF h[s \ {Largest(s)}].verdict = "go"
                            THEN PrepareCall(h[s \ {Largest(s)}], x.ready[Largest(s)])
                            ELSE h[s \ {Largest(s)}]]
           g == CHOOSE h : Is(h)
<1>1. Preparing(x) = g[DOMAIN x.ready]
  BY DEF Preparing, Each, FoldLeft, MapThenFoldSet, Largest
<1>2. \A h : Folds(h, x, c, m, "prepare", 0) => Is(h)
  BY DEF Folds, Step, Body
<1>3. \A h : Is(h) => Folds(h, x, c, m, "prepare", 0)
  BY DEF Folds, Step, Body
<1> HIDE DEF Is
<1>4. Folds(g, x, c, m, "prepare", 0)
  BY <1>2, <1>3, FoldExists
<1> HIDE DEF g
<1> QED BY <1>1, <1>4, FoldVisits

\* The loop of native admission, before its evictions.
Entering(x, queue) ==
    FoldLeft(LAMBDA y, r : EnterOne(y, r), [x EXCEPT !.full = FALSE], Among(x.window.cohort, queue))

\* Calls enter in the order of the cohort.
LEMMA EnterVisits ==
    ASSUME NEW x, NEW queue, NEW m \in Nat, NEW c, c = Among(x.window.cohort, queue), DOMAIN c = 1..m
    PROVE  \E v : Visits(v, [x EXCEPT !.full = FALSE], Entering(x, queue), c, m, "enter", 0)
<1> DEFINE Is(h) == h = [s \in SUBSET (DOMAIN Among(x.window.cohort, queue)) |-> IF s = {} THEN [x EXCEPT !.full = FALSE] ELSE
                            EnterOne(h[s \ {Largest(s)}], Among(x.window.cohort, queue)[Largest(s)])]
           g == CHOOSE h : Is(h)
<1>1. Entering(x, queue) = g[DOMAIN Among(x.window.cohort, queue)]
  BY DEF Entering, FoldLeft, MapThenFoldSet, Largest
<1>2. \A h : Folds(h, [x EXCEPT !.full = FALSE], c, m, "enter", 0) => Is(h)
  BY DEF Folds, Step, Body
<1>3. \A h : Is(h) => Folds(h, [x EXCEPT !.full = FALSE], c, m, "enter", 0)
  BY DEF Folds, Step, Body
<1> HIDE DEF Is
<1>4. Folds(g, [x EXCEPT !.full = FALSE], c, m, "enter", 0)
  BY <1>2, <1>3, FoldExists
<1> HIDE DEF g
<1> QED BY <1>1, <1>4, FoldVisits

\* Whoever entered is settled in turn.
LEMMA SettleVisits ==
    ASSUME NEW x, NEW m \in Nat, NEW c, c = Among(order, x.admitted), DOMAIN c = 1..m
    PROVE  \E v : Visits(v, x, Settle(x), c, m, "settle", 0)
<1> DEFINE Is(h) == h = [s \in SUBSET (DOMAIN Among(order, x.admitted)) |-> IF s = {} THEN x ELSE
                            IF h[s \ {Largest(s)}].verdict = "go"
                            THEN SettleOne(h[s \ {Largest(s)}], Among(order, x.admitted)[Largest(s)])
                            ELSE h[s \ {Largest(s)}]]
           g == CHOOSE h : Is(h)
<1>1. Settle(x) = g[DOMAIN Among(order, x.admitted)]
  BY DEF Settle, SettleOne, Each, FoldLeft, MapThenFoldSet, Largest
<1>2. \A h : Folds(h, x, c, m, "settle", 0) => Is(h)
  BY DEF Folds, Step, Body
<1>3. \A h : Is(h) => Folds(h, x, c, m, "settle", 0)
  BY DEF Folds, Step, Body
<1> HIDE DEF Is
<1>4. Folds(g, x, c, m, "settle", 0)
  BY <1>2, <1>3, FoldExists
<1> HIDE DEF g
<1> QED BY <1>1, <1>4, FoldVisits

-----------------------------------------------------------------------------
(* The KV pool and the radix cache. *)

\* The calls that were ever added, and the order of those that are not finished.
Setting ==
    /\ IsFiniteSet(Calls) /\ tok \in [Calls -> Nat \ {0}]
    /\ order \in Seq(Calls) /\ IsInjective(order)

\* What no step of a pass changes, and what changes together.
Fixed(x) == << x.selected, x.sorted, x.remainingBefore, x.lru >>
Asked(x) == << x.ready, x.blocked, x.restored, x.full >>
Owned(x) == << x.waiting, x.batch, x.admitted, x.extend >>
Copied(x) == << x.host, x.hostUsed >>
OnDevice(x) == << x.kv, x.cached >>

Pool(held, shared, locks) ==
    /\ held \in [Calls -> Nat] /\ shared \in [Calls -> Nat] /\ locks \in [Calls -> Int]
    /\ \A r \in Calls : shared[r] <= held[r]

\* What prefill may use.
Avail(x) == Free(x) + Evictable(x)

\* A sum that changes in one place.
LEMMA TotalChanges ==
    ASSUME NEW f, NEW g, NEW S, Counts(f, S), Counts(g, S), NEW r \in S,
           \A q \in S : q # r => g[q] = f[q]
    PROVE  Total(g, S) = Total(f, S) - f[r] + g[r]
<1>1. Total(f, S) = f[r] + Total(f, S \ {r}) /\ Total(g, S) = g[r] + Total(g, S \ {r})
  BY TotalOne
<1>2. Counts(f, S \ {r})
  BY FS_Subset DEF Counts
<1>3. Total(f, S \ {r}) = Total(g, S \ {r}) /\ Total(f, S \ {r}) \in Nat
  BY <1>2, TotalSame, TotalType
<1>4. f[r] \in Nat /\ g[r] \in Nat
  BY DEF Counts
<1> QED BY <1>1, <1>3, <1>4

\* What is free and what can be evicted, as sums.
LEMMA FreeIs ==
    ASSUME NEW x, Setting, Pool(x.kv, x.cached, x.pins)
    PROVE  /\ DOMAIN x.kv = Calls /\ Counts(x.kv, Calls) /\ Free(x) = Slots - Total(x.kv, Calls)
           /\ Unlocked(x) = {r \in Calls : x.pins[r] = 0}
           /\ Counts(x.cached, Unlocked(x)) /\ Evictable(x) = Total(x.cached, Unlocked(x))
           /\ Free(x) \in Int /\ Evictable(x) \in Nat /\ Avail(x) \in Int /\ Free(x) <= Avail(x)
<1>1. DOMAIN x.kv = Calls /\ Counts(x.kv, Calls)
  BY DEF Setting, Pool, Counts
<1>2. Unlocked(x) = {r \in Calls : x.pins[r] = 0}
  BY <1>1 DEF Unlocked
<1>3. Counts(x.cached, Unlocked(x))
  BY <1>2, FS_Subset DEF Setting, Pool, Counts
<1>4. Free(x) = Slots - Total(x.kv, Calls) /\ Evictable(x) = Total(x.cached, Unlocked(x))
  BY <1>1 DEF Free, Evictable, Total
<1>5. Total(x.kv, Calls) \in Nat /\ Total(x.cached, Unlocked(x)) \in Nat
  BY <1>1, <1>3, TotalType
<1>6. Free(x) \in Int /\ Evictable(x) \in Nat
  BY <1>4, <1>5, PoolAssumption
<1> QED BY <1>1, <1>2, <1>3, <1>4, <1>6 DEF Avail

\* They depend on the KV and the locks.
LEMMA FreeSame ==
    ASSUME NEW x, NEW y, OnDevice(y) = OnDevice(x)
    PROVE  /\ Free(y) = Free(x)
           /\ y.pins = x.pins => Unlocked(y) = Unlocked(x) /\ Evictable(y) = Evictable(x)
                                 /\ Avail(y) = Avail(x)
<1>1. y.kv = x.kv /\ y.cached = x.cached
  BY DEF OnDevice
<1>2. Free(y) = Free(x)
  <2>1. Free(x) = Slots - Total(x.kv, DOMAIN x.kv) /\ Free(y) = Slots - Total(y.kv, DOMAIN y.kv)
    BY DEF Free, Total
  <2> QED BY <1>1, <2>1
<1>3. ASSUME y.pins = x.pins PROVE Unlocked(y) = Unlocked(x)
  BY <1>1, <1>3 DEF Unlocked
<1>4. ASSUME y.pins = x.pins PROVE Evictable(y) = Evictable(x)
  <2>1. Unlocked(y) = Unlocked(x)
    BY <1>3, <1>4
  <2>2. Evictable(x) = Total(x.cached, Unlocked(x)) /\ Evictable(y) = Total(y.cached, Unlocked(y))
    BY DEF Evictable, Total
  <2> QED BY <1>1, <2>1, <2>2
<1> QED BY <1>2, <1>3, <1>4 DEF Avail

\* Evicting a branch.
LEMMA EvictOneIs ==
    ASSUME NEW x, Fields(x), Setting, Pool(x.kv, x.cached, x.pins), NEW n, NEW r \in Calls,
           NEW y, y = EvictOne(x, n, r)
    PROVE  /\ Fields(y) /\ Pool(y.kv, y.cached, y.pins)
           /\ Fixed(y) = Fixed(x) /\ Asked(y) = Asked(x) /\ Owned(y) = Owned(x)
           /\ Copied(y) = Copied(x) /\ y.pins = x.pins /\ y.reserve = x.reserve
           /\ y.window = x.window /\ y.verdict = x.verdict
           /\ Avail(y) = Avail(x) /\ Free(x) <= Free(y)
           /\ \A q \in Calls : \/ y.kv[q] = x.kv[q] /\ y.cached[q] = x.cached[q]
                               \/ /\ x.pins[q] = 0 /\ y.cached[q] = 0
                                  /\ y.kv[q] = x.kv[q] - x.cached[q]
           /\ (Free(x) < n /\ x.pins[r] = 0) => y.cached[r] = 0
<1>1. /\ Counts(x.kv, Calls) /\ Free(x) = Slots - Total(x.kv, Calls)
      /\ Unlocked(x) = {q \in Calls : x.pins[q] = 0}
      /\ Counts(x.cached, Unlocked(x)) /\ Evictable(x) = Total(x.cached, Unlocked(x))
      /\ Free(x) \in Int /\ Evictable(x) \in Nat
  BY FreeIs
<1>2. CASE ~(Free(x) < n /\ r \in Unlocked(x))
  <2>1. y = x
    BY <1>2 DEF EvictOne
  <2> QED BY <1>1, <1>2, <2>1
<1>3. CASE Free(x) < n /\ r \in Unlocked(x)
  <2>1. y = [x EXCEPT !.kv[r] = @ - x.cached[r], !.cached[r] = 0]
    BY <1>3 DEF EvictOne
  <2>2. /\ Fields(y) /\ y.kv = [x.kv EXCEPT ![r] = @ - x.cached[r]]
        /\ y.cached = [x.cached EXCEPT ![r] = 0]
        /\ Fixed(y) = Fixed(x) /\ Asked(y) = Asked(x) /\ Owned(y) = Owned(x)
        /\ Copied(y) = Copied(x) /\ y.pins = x.pins /\ y.reserve = x.reserve
        /\ y.window = x.window /\ y.verdict = x.verdict
    BY ZenonT(40), <2>1 DEF Fields, Fixed, Asked, Owned, Copied
  <2>3. Pool(y.kv, y.cached, y.pins)
    BY <2>2 DEF Pool
  <2>4. /\ Counts(y.kv, Calls) /\ Free(y) = Slots - Total(y.kv, Calls)
        /\ Unlocked(y) = {q \in Calls : y.pins[q] = 0}
        /\ Counts(y.cached, Unlocked(y)) /\ Evictable(y) = Total(y.cached, Unlocked(y))
    BY <2>3, FreeIs
  <2>5. Unlocked(y) = Unlocked(x)
    BY <1>1, <2>2, <2>4
  <2>6. x.kv[r] \in Nat /\ x.cached[r] \in Nat /\ y.kv[r] = x.kv[r] - x.cached[r] /\ y.cached[r] = 0
        /\ \A q \in Calls : q # r => y.kv[q] = x.kv[q] /\ y.cached[q] = x.cached[q]
    BY <2>2 DEF Pool
  <2>7. Total(y.kv, Calls) = Total(x.kv, Calls) - x.kv[r] + y.kv[r]
    BY <1>1, <2>4, <2>6, TotalChanges
  <2>8. Total(y.cached, Unlocked(x)) = Total(x.cached, Unlocked(x)) - x.cached[r] + y.cached[r]
    <3>1. Counts(y.cached, Unlocked(x))
      BY <2>4, <2>5
    <3>2. \A q \in Unlocked(x) : q # r => y.cached[q] = x.cached[q]
      BY <1>1, <2>6
    <3> QED BY <1>1, <1>3, <3>1, <3>2, TotalChanges
  <2>9. Total(x.kv, Calls) \in Nat /\ Total(x.cached, Unlocked(x)) \in Nat
    BY <1>1, TotalType
  <2>10. Free(y) = Free(x) + x.cached[r]
    BY <1>1, <2>4, <2>6, <2>7, <2>9, PoolAssumption
  <2>11. Evictable(y) = Evictable(x) - x.cached[r]
    <3>1. Evictable(x) = Total(x.cached, Unlocked(x)) /\ Evictable(y) = Total(y.cached, Unlocked(x))
      BY <1>1, <2>4, <2>5
    <3> HIDE DEF Unlocked
    <3> QED BY <2>6, <2>8, <2>9, <3>1
  <2>12. Avail(y) = Avail(x) /\ Free(x) <= Free(y)
    BY <1>1, <2>6, <2>10, <2>11 DEF Avail
  <2> QED BY <1>1, <1>3, <2>2, <2>3, <2>6, <2>12
<1> QED BY <1>2, <1>3

\* A sum of nothings.
LEMMA TotalZero ==
    ASSUME NEW f, NEW S, Counts(f, S), \A r \in S : f[r] = 0
    PROVE  Total(f, S) = 0
<1>1. Units(f, S) = {}
  BY DEF Units, Counts
<1> QED BY <1>1, TotalIs, FS_EmptySet

\* What stays the same under evictions, and what the pool looks like afterwards.
Evicted(x, y) ==
    /\ Fields(y) /\ Pool(y.kv, y.cached, y.pins)
    /\ Fixed(y) = Fixed(x) /\ Asked(y) = Asked(x) /\ Owned(y) = Owned(x)
    /\ Copied(y) = Copied(x) /\ y.pins = x.pins /\ y.reserve = x.reserve
    /\ y.window = x.window /\ y.verdict = x.verdict
    /\ Avail(y) = Avail(x) /\ Free(x) <= Free(y)
    /\ \A q \in Calls : \/ y.kv[q] = x.kv[q] /\ y.cached[q] = x.cached[q]
                        \/ /\ x.pins[q] = 0 /\ y.cached[q] = 0
                           /\ y.kv[q] = x.kv[q] - x.cached[q]

\* One eviction after others.
LEMMA EvictedThen ==
    ASSUME NEW x, NEW y, NEW z, Evicted(x, y), Evicted(y, z), Pool(x.kv, x.cached, x.pins), Setting
    PROVE  Evicted(x, z)
<1>1. \A q \in Calls : \/ z.kv[q] = x.kv[q] /\ z.cached[q] = x.cached[q]
                       \/ /\ x.pins[q] = 0 /\ z.cached[q] = 0
                          /\ z.kv[q] = x.kv[q] - x.cached[q]
  <2> SUFFICES ASSUME NEW q \in Calls
               PROVE  \/ z.kv[q] = x.kv[q] /\ z.cached[q] = x.cached[q]
                      \/ /\ x.pins[q] = 0 /\ z.cached[q] = 0
                         /\ z.kv[q] = x.kv[q] - x.cached[q]
    OBVIOUS
  <2>1. x.kv[q] \in Nat /\ x.cached[q] \in Nat /\ y.kv[q] \in Nat /\ y.cached[q] \in Nat
    BY DEF Evicted, Pool
  <2>2. y.pins = x.pins
    BY DEF Evicted
  <2>3. /\ \/ y.kv[q] = x.kv[q] /\ y.cached[q] = x.cached[q]
           \/ /\ x.pins[q] = 0 /\ y.cached[q] = 0
              /\ y.kv[q] = x.kv[q] - x.cached[q]
        /\ \/ z.kv[q] = y.kv[q] /\ z.cached[q] = y.cached[q]
           \/ /\ y.pins[q] = 0 /\ z.cached[q] = 0
              /\ z.kv[q] = y.kv[q] - y.cached[q]
    BY DEF Evicted
  <2> QED BY <2>1, <2>2, <2>3
<1>2. Free(x) <= Free(z)
  <2>1. Pool(y.kv, y.cached, y.pins) /\ Pool(z.kv, z.cached, z.pins)
    BY DEF Evicted
  <2>2. Free(x) \in Int /\ Free(y) \in Int /\ Free(z) \in Int
    BY <2>1, FreeIs
  <2> QED BY <2>2 DEF Evicted
<1> QED BY <1>1, <1>2 DEF Evicted

\* The list that evict goes through has every branch.
LEMMA EvictOrderIs ==
    ASSUME NEW x, Setting, DOMAIN x.kv = Calls, x.lru \in Seq(Calls)
    PROVE  /\ EvictOrder(x) \in Seq(Calls)
           /\ \A r \in Range(order) : \E i \in DOMAIN EvictOrder(x) : EvictOrder(x)[i] = r
<1> DEFINE rest == Among(order, DOMAIN x.kv \ Range(x.lru))
<1>1. order \in Seq(Calls)
  BY DEF Setting
<1>2. rest \in Seq(Range(order) \cap (DOMAIN x.kv \ Range(x.lru)))
      /\ Range(rest) = Range(order) \cap (DOMAIN x.kv \ Range(x.lru))
  BY <1>1, AmongIs
<1>3. rest \in Seq(Calls) /\ Range(order) \subseteq Calls
  BY <1>1, <1>2 DEF Range
<1>4. EvictOrder(x) = x.lru \o rest
  BY DEF EvictOrder
<1> HIDE DEF rest
<1>5. EvictOrder(x) \in Seq(Calls)
  BY <1>3, <1>4
<1>6. ASSUME NEW r \in Range(order) PROVE \E i \in DOMAIN EvictOrder(x) : EvictOrder(x)[i] = r
  <2>1. CASE r \in Range(x.lru)
    <3>1. PICK i \in DOMAIN x.lru : x.lru[i] = r
      BY <2>1 DEF Range
    <3>2. i \in DOMAIN (x.lru \o rest) /\ (x.lru \o rest)[i] = r
      BY <1>3, <3>1
    <3> QED BY <1>4, <3>2
  <2>2. CASE r \notin Range(x.lru)
    <3>1. r \in Range(rest)
      BY <1>2, <1>3, <2>2
    <3>2. PICK i \in DOMAIN rest : rest[i] = r
      BY <3>1 DEF Range
    <3>3. Len(x.lru) + i \in DOMAIN (x.lru \o rest) /\ (x.lru \o rest)[Len(x.lru) + i] = r
      BY <1>3, <3>2
    <3> QED BY <1>4, <3>3
  <2> QED BY <2>1, <2>2
<1> QED BY <1>5, <1>6

\* tree_cache.evict stops when there is room, or when no branch without a lock is left.
LEMMA MakeFreeIs ==
    ASSUME NEW x, Fields(x), Setting, Pool(x.kv, x.cached, x.pins), x.lru \in Seq(Calls),
           \A r \in Calls \ Range(order) : x.cached[r] = 0, NEW n \in Int,
           NEW y, y = MakeFree(x, n)
    PROVE  /\ Evicted(x, y)
           /\ x.verdict = "go" => (Free(y) >= n \/ Free(y) = Avail(x))
<1> DEFINE c == EvictOrder(x)
           m == Len(c)
<1>1. c \in Seq(Calls) /\ \A r \in Range(order) : \E i \in DOMAIN c : c[i] = r
  <2>1. DOMAIN x.kv = Calls
    BY DEF Pool
  <2> QED BY <2>1, EvictOrderIs
<1>2. m \in Nat /\ DOMAIN c = 1..m /\ \A i \in 1..m : c[i] \in Calls
  BY <1>1
<1>3. PICK v : Visits(v, x, y, c, m, "evict", n)
  BY <1>2, EvictVisits
<1> HIDE DEF c, m
<1>4. v[0] = x /\ v[m] = y /\ \A k \in 0..(m - 1) : v[k + 1] = Step(v[k], "evict", n, c[k + 1])
  BY <1>3 DEF Visits
<1> DEFINE Past(k) == Free(v[k]) >= n \/ \A i \in 1..k : x.pins[c[i]] = 0 => v[k].cached[c[i]] = 0
           Good(k) == Evicted(x, v[k]) /\ (x.verdict = "go" => Past(k))
<1>5. Good(0)
  BY <1>4, FreeIs DEF Evicted
<1>6. ASSUME NEW k \in 0..(m - 1), Good(k) PROVE Good(k + 1)
  <2> DEFINE r == c[k + 1]
             z == v[k]
             w == v[k + 1]
  <2>1. r \in Calls /\ k + 1 \in 1..m
    BY <1>2
  <2>2. Evicted(x, z)
    BY <1>6
  <2>3. Fields(z) /\ Pool(z.kv, z.cached, z.pins) /\ z.pins = x.pins /\ z.verdict = x.verdict
    BY <2>2 DEF Evicted
  <2>4. w = IF z.verdict = "go" THEN EvictOne(z, n, r) ELSE z
    BY <1>4 DEF Step, Body
  <2>5. CASE z.verdict # "go"
    BY <1>6, <2>3, <2>4, <2>5
  <2>6. CASE z.verdict = "go"
    <3>0. w = EvictOne(z, n, r)
      BY <2>4, <2>6
    <3> HIDE DEF r, z, w
    <3>1. /\ Evicted(z, w)
          /\ (Free(z) < n /\ z.pins[r] = 0) => w.cached[r] = 0
      BY <2>1, <2>3, <3>0, EvictOneIs DEF Evicted
    <3>2. Evicted(x, w)
      BY <2>2, <3>1, EvictedThen
    <3>3. Free(w) >= n \/ \A i \in 1..(k + 1) : x.pins[c[i]] = 0 => w.cached[c[i]] = 0
      <4>1. Free(z) \in Int /\ Free(w) \in Int /\ Free(z) <= Free(w)
        BY <2>3, <3>1, FreeIs DEF Evicted
      <4>2. CASE Free(z) >= n
        BY <4>1, <4>2
      <4>3. CASE Free(z) < n
        <5>1. \A i \in 1..k : x.pins[c[i]] = 0 => z.cached[c[i]] = 0
          BY <1>6, <2>3, <2>6, <4>1, <4>3 DEF z
        <5>2. \A q \in Calls : z.cached[q] = 0 => w.cached[q] = 0
          BY <3>1 DEF Evicted
        <5>3. ASSUME NEW i \in 1..(k + 1), x.pins[c[i]] = 0 PROVE w.cached[c[i]] = 0
          <6>1. CASE i \in 1..k
            BY <1>2, <5>1, <5>2, <5>3, <6>1
          <6>2. CASE i = k + 1
            BY <2>3, <3>1, <4>3, <5>3, <6>2 DEF r
          <6> QED BY <6>1, <6>2
        <5> QED BY <5>3
      <4> QED BY <4>1, <4>2, <4>3
    <3> QED BY <3>2, <3>3 DEF w
  <2> QED BY <2>5, <2>6
<1>7. \A k \in 0..m : Good(k)
  <2> DEFINE Ok == {k \in 0..m : Good(k)}
  <2> HIDE DEF Good
  <2>1. 0 \in Ok /\ \A k \in 0..(m - 1) : k \in Ok => k + 1 \in Ok
    BY <1>2, <1>5, <1>6
  <2> HIDE DEF Ok
  <2>2. \A k \in 0..m : k \in Ok
    BY <1>2, <2>1, KeptToTheEnd
  <2> QED BY <2>2 DEF Ok
<1>8. Good(m)
  BY <1>2, <1>7
<1>9. Evicted(x, y)
  BY <1>4, <1>8
<1>10. ASSUME x.verdict = "go", ~(Free(y) >= n) PROVE Free(y) = Avail(x)
  <2>1. \A i \in 1..m : x.pins[c[i]] = 0 => y.cached[c[i]] = 0
    BY <1>4, <1>8, <1>10
  <2>2. Pool(y.kv, y.cached, y.pins) /\ y.pins = x.pins /\ Avail(y) = Avail(x)
    BY <1>9 DEF Evicted
  <2>3. \A r \in Calls \ Range(order) : y.cached[r] = 0
    <3>1. \A r \in Calls : y.cached[r] = x.cached[r] \/ y.cached[r] = 0
      BY <1>9 DEF Evicted
    <3> QED BY <3>1
  <2>4. \A r \in Calls : x.pins[r] = 0 => y.cached[r] = 0
    BY <1>1, <1>2, <2>1, <2>3
  <2>5. \A r \in Unlocked(y) : y.cached[r] = 0
    BY <2>2, <2>4, FreeIs
  <2>6. Evictable(y) = Total(y.cached, Unlocked(y)) /\ Counts(y.cached, Unlocked(y)) /\ Free(y) \in Int
    BY <2>2, FreeIs
  <2>7. Total(y.cached, Unlocked(y)) = 0
    BY <2>5, <2>6, TotalZero
  <2> QED BY <2>2, <2>6, <2>7 DEF Avail
<1> QED BY <1>9, <1>10

-----------------------------------------------------------------------------
(* What holds of a pass all the time, also after it raised.                 *)

One(r, T) == IF r \in T THEN 1 ELSE 0

\* Every call is in one place.
Parted(wait, run, new) ==
    /\ wait \cup run \cup new = Range(order)
    /\ wait \cap run = {} /\ wait \cap new = {} /\ run \cap new = {}

\* Every lock is owed: by the reserves, by the calls of a batch, by those just restored.
Locked(locks, res, run, held) ==
    \A r \in Calls : locks[r] = One(r, res) + One(r, run) + One(r, held)

\* A copy has all that was computed of a call that has not entered for good.
Copies(h, used, present) ==
    /\ DOMAIN h \subseteq present /\ \A r \in DOMAIN h : h[r] = Computed(r)
    /\ used = Total(h, DOMAIN h) /\ used <= HostLimit

\* A call that runs has its KV, a reserve has it in the radix cache, and a call that waits
\* has nothing else.
Computes(held, shared, wait, run, res) ==
    /\ \A r \in wait : held[r] = shared[r] /\ shared[r] <= Computed(r)
    /\ \A r \in run : held[r] = Computed(r)
    /\ \A r \in res : shared[r] = Computed(r)
    /\ \A r \in Calls \ Range(order) : held[r] = 0 /\ shared[r] = 0

\* A call that ran is a reserve or has a copy, and computes one token when it enters.
Remembered(wait, res, h) == \A r \in wait \cap began : r \in res \cup DOMAIN h
Finds(new, ext) == \A r \in new \cap began : r \in DOMAIN ext /\ ext[r] = 1

\* A call that entered has its slots.
Filled(new, held) == \A r \in new : held[r] = tok[r]

Lined(c) == c \in Seq(Calls) /\ IsInjective(c)

Sound(x, held) ==
    /\ Fields(x)
    /\ Pool(x.kv, x.cached, x.pins)
    /\ Parted(x.waiting, x.batch, x.admitted)
    /\ x.reserve \subseteq x.waiting \cup x.admitted
    /\ Locked(x.pins, x.reserve, x.batch \cup x.admitted, held)
    /\ Copies(x.host, x.hostUsed, x.waiting \cup x.admitted)
    /\ Computes(x.kv, x.cached, x.waiting, x.batch, x.reserve)
    /\ Remembered(x.waiting, x.reserve, x.host)
    /\ Finds(x.admitted, x.extend) /\ Filled(x.admitted, x.kv)
    /\ Lined(x.window.cohort) /\ x.lru \in Seq(Calls)
    /\ x.verdict # "broken"

\* What was computed of a call is a number of tokens.
LEMMA ComputedIs ==
    ASSUME Setting, NEW r \in Calls
    PROVE  Computed(r) \in Nat
BY DEF Setting, Computed

\* The calls of the order are calls.
LEMMA PlacesAre ==
    ASSUME Setting, NEW x, NEW held, Sound(x, held)
    PROVE  /\ Range(order) \subseteq Calls /\ IsFiniteSet(Range(order))
           /\ x.waiting \subseteq Calls /\ x.batch \subseteq Calls /\ x.admitted \subseteq Calls
           /\ x.reserve \subseteq Calls /\ DOMAIN x.host \subseteq Calls
<1>1. Range(order) \subseteq Calls
  BY DEF Setting, Range
<1>2. IsFiniteSet(Range(order))
  BY <1>1, FS_Subset DEF Setting
<1> QED BY <1>1, <1>2 DEF Sound, Parted, Copies

\* Evictions leave what is locked, so what holds of a pass goes on.
LEMMA EvictedSound ==
    ASSUME Setting, NEW x, NEW held, Sound(x, held), NEW y, Evicted(x, y)
    PROVE  Sound(y, held)
<1>1. /\ y.waiting = x.waiting /\ y.batch = x.batch /\ y.admitted = x.admitted
      /\ y.extend = x.extend /\ y.host = x.host /\ y.hostUsed = x.hostUsed
      /\ y.pins = x.pins /\ y.reserve = x.reserve /\ y.window = x.window
      /\ y.lru = x.lru /\ y.verdict = x.verdict
  BY DEF Evicted, Owned, Copied, Fixed
<1>2. ASSUME NEW r \in Calls, r \in x.batch \cup x.admitted \cup x.reserve
      PROVE  y.kv[r] = x.kv[r] /\ y.cached[r] = x.cached[r]
  <2>1. x.pins[r] = One(r, x.reserve) + One(r, x.batch \cup x.admitted) + One(r, held)
    BY DEF Sound, Locked
  <2>2. x.pins[r] # 0
    BY <1>2, <2>1 DEF One
  <2> QED BY <2>2 DEF Evicted
<1>3. \A r \in x.waiting : y.kv[r] = y.cached[r] /\ y.cached[r] <= Computed(r)
  <2> SUFFICES ASSUME NEW r \in x.waiting
               PROVE  y.kv[r] = y.cached[r] /\ y.cached[r] <= Computed(r)
    OBVIOUS
  <2>1. r \in Calls /\ Computed(r) \in Nat /\ x.kv[r] \in Nat
    BY PlacesAre, ComputedIs DEF Sound, Pool
  <2>2. x.kv[r] = x.cached[r] /\ x.cached[r] <= Computed(r)
    BY DEF Sound, Computes
  <2> QED BY <2>1, <2>2 DEF Evicted
<1>4. \A r \in Calls \ Range(order) : y.kv[r] = 0 /\ y.cached[r] = 0
  BY DEF Evicted, Sound, Computes
<1>5. Computes(y.kv, y.cached, x.waiting, x.batch, x.reserve)
  BY <1>2, <1>3, <1>4, PlacesAre DEF Sound, Computes
<1>6. Filled(x.admitted, y.kv)
  BY <1>2, PlacesAre DEF Sound, Filled
<1> QED BY <1>1, <1>5, <1>6 DEF Sound, Evicted

\* tree_cache.evict.
LEMMA MakeFreeSound ==
    ASSUME Setting, NEW x, NEW held, Sound(x, held), NEW n \in Int, NEW y, y = MakeFree(x, n)
    PROVE  /\ Sound(y, held) /\ Evicted(x, y)
           /\ x.verdict = "go" => (Free(y) >= n \/ Free(y) = Avail(x))
<1>1. \A r \in Calls \ Range(order) : x.cached[r] = 0
  BY DEF Sound, Computes
<1>2. Fields(x) /\ Pool(x.kv, x.cached, x.pins) /\ x.lru \in Seq(Calls)
  BY DEF Sound
<1>3. Evicted(x, y) /\ (x.verdict = "go" => (Free(y) >= n \/ Free(y) = Avail(x)))
  BY <1>1, <1>2, MakeFreeIs
<1> QED BY <1>3, EvictedSound

\* More can be evicted when fewer branches are locked.
LEMMA UnlockedMore ==
    ASSUME Setting, NEW x, NEW y, Pool(x.kv, x.cached, x.pins), Pool(y.kv, y.cached, y.pins),
           OnDevice(y) = OnDevice(x), \A r \in Calls : x.pins[r] = 0 => y.pins[r] = 0
    PROVE  Avail(x) <= Avail(y)
<1>1. /\ Unlocked(x) = {r \in Calls : x.pins[r] = 0} /\ Evictable(x) = Total(x.cached, Unlocked(x))
      /\ Unlocked(y) = {r \in Calls : y.pins[r] = 0} /\ Evictable(y) = Total(y.cached, Unlocked(y))
      /\ Counts(y.cached, Unlocked(y)) /\ Free(x) \in Int /\ Evictable(x) \in Nat
  BY FreeIs
<1>2. Free(y) = Free(x) /\ y.cached = x.cached
  BY FreeSame DEF OnDevice
<1>3. Unlocked(x) \subseteq Unlocked(y)
  BY <1>1
<1>4. Total(y.cached, Unlocked(y)) =
          Total(y.cached, Unlocked(x)) + Total(y.cached, Unlocked(y) \ Unlocked(x))
  BY <1>1, <1>3, TotalSplit
<1>5. Total(y.cached, Unlocked(y) \ Unlocked(x)) \in Nat
  <2>1. Counts(y.cached, Unlocked(y) \ Unlocked(x))
    BY <1>1, FS_Subset DEF Counts
  <2> QED BY <2>1, TotalType
<1>6. Evictable(y) = Evictable(x) + Total(y.cached, Unlocked(y) \ Unlocked(x))
  BY <1>1, <1>2, <1>4
<1> QED BY <1>1, <1>2, <1>5, <1>6 DEF Avail

-----------------------------------------------------------------------------
(* Host copies. *)

\* What a copy counts for.
Had(f, r) == IF r \in DOMAIN f THEN f[r] ELSE 0

\* HostKV.save and discard: the budget counts each copy once.
LEMMA TotalPut ==
    ASSUME NEW f, Counts(f, DOMAIN f), NEW r, NEW n \in Nat, NEW g, g = Put(f, r, n)
    PROVE  /\ DOMAIN g = DOMAIN f \cup {r} /\ g[r] = n
           /\ \A q \in DOMAIN f : q # r => g[q] = f[q]
           /\ Total(g, DOMAIN g) = Total(f, DOMAIN f) + n - Had(f, r)
<1> DEFINE D == DOMAIN f
           rest == Total(f, D \ {r})
<1>1. DOMAIN g = D \cup {r} /\ g[r] = n /\ \A q \in D : q # r => g[q] = f[q]
  BY DEF Put
<1>2. Counts(g, D \cup {r}) /\ Counts(f, D \ {r})
  BY <1>1, FS_AddElement, FS_Subset DEF Counts
<1>3. Total(g, D \cup {r}) = n + Total(g, (D \cup {r}) \ {r})
  BY <1>1, <1>2, TotalOne
<1>4. (D \cup {r}) \ {r} = D \ {r}
  OBVIOUS
<1>5. Total(g, D \ {r}) = rest /\ rest \in Nat
  BY <1>1, <1>2, TotalSame, TotalType
<1>6. Total(f, D) = rest + Had(f, r)
  <2>1. CASE r \in D
    <3>1. Total(f, D) = f[r] + rest /\ f[r] \in Nat /\ Had(f, r) = f[r]
      BY <2>1, TotalOne DEF Counts, Had
    <3> HIDE DEF D, rest
    <3> QED BY <1>5, <3>1
  <2>2. CASE r \notin D
    <3>1. D \ {r} = D /\ Had(f, r) = 0
      BY <2>2 DEF Had
    <3>2. Total(f, D) = rest
      BY <3>1
    <3> HIDE DEF D, rest
    <3> QED BY <1>5, <3>1, <3>2
  <2> QED BY <2>1, <2>2
<1>7. Had(f, r) \in Nat
  BY DEF Counts, Had
<1> HIDE DEF D, rest
<1>8. Total(g, D \cup {r}) = n + rest
  BY <1>3, <1>4, <1>5
<1>9. Total(g, D \cup {r}) = Total(f, D) + n - Had(f, r)
  BY <1>5, <1>6, <1>7, <1>8
<1> QED BY <1>1, <1>9 DEF D

\* HostKV.discard: what a copy had is given back to the budget.
LEMMA TotalDrop ==
    ASSUME NEW f, Counts(f, DOMAIN f), NEW r, NEW g, g = Drop(f, r)
    PROVE  /\ DOMAIN g = DOMAIN f \ {r} /\ \A q \in DOMAIN g : g[q] = f[q]
           /\ Total(g, DOMAIN g) = Total(f, DOMAIN f) - Had(f, r)
           /\ Total(g, DOMAIN g) <= Total(f, DOMAIN f)
<1> DEFINE D == DOMAIN f
<1>1. DOMAIN g = D \ {r} /\ \A q \in D \ {r} : g[q] = f[q]
  BY DEF Drop, Restrict
<1>2. Counts(f, D \ {r})
  BY FS_Subset DEF Counts
<1>3. Total(g, D \ {r}) = Total(f, D \ {r}) /\ Total(f, D \ {r}) \in Nat
  BY <1>1, <1>2, TotalSame, TotalType
<1>4. CASE r \in D
  <2>1. Total(f, D) = f[r] + Total(f, D \ {r}) /\ f[r] \in Nat
    BY <1>4, TotalOne DEF Counts
  <2> HIDE DEF D
  <2>2. Total(g, D \ {r}) = Total(f, D) - f[r] /\ Total(g, D \ {r}) <= Total(f, D)
    BY <1>3, <2>1
  <2> QED BY <1>1, <1>4, <2>2 DEF D, Had
<1>5. CASE r \notin D
  <2>1. D \ {r} = D
    BY <1>5
  <2>2. Total(g, D \ {r}) = Total(f, D) /\ Total(f, D) \in Nat /\ Had(f, r) = 0
    BY <1>3, <1>5, <2>1 DEF Had
  <2> QED BY <1>1, <2>1, <2>2
<1> QED BY <1>4, <1>5

Copying(x, y, r, present) ==
    /\ Fields(y) /\ Copies(y.host, y.hostUsed, present)
    /\ Fixed(y) = Fixed(x) /\ Asked(y) = Asked(x) /\ Owned(y) = Owned(x)
    /\ OnDevice(y) = OnDevice(x) /\ y.pins = x.pins /\ y.reserve = x.reserve
    /\ y.window = x.window /\ y.verdict \in {"go", "budget"}
    /\ DOMAIN x.host \subseteq DOMAIN y.host
    /\ y.verdict = "go" => DOMAIN y.host = DOMAIN x.host \cup {r}
    /\ y.verdict # "go" => Copied(y) = Copied(x)

\* A copy of all that was computed fits the budget, or the plan raises and has none.
LEMMA SaveIs ==
    ASSUME Setting, NEW x, Fields(x), NEW present, present \subseteq Calls,
           Copies(x.host, x.hostUsed, present), NEW r \in present, x.verdict = "go",
           NEW y, y = Save(x, r, Computed(r))
    PROVE  Copying(x, y, r, present)
<1>1. Computed(r) \in Nat
  BY ComputedIs
<1>2. Counts(x.host, DOMAIN x.host)
  BY ComputedIs, FS_Subset DEF Counts, Copies, Setting
<1>3. CASE x.hostUsed - Saved(x, r) + Computed(r) > HostLimit
  <2>1. y = [x EXCEPT !.verdict = "budget"]
    BY <1>3 DEF Save, Raise
  <2> QED BY <2>1 DEF Copying, Fields, Fixed, Asked, Owned, OnDevice, Copied
<1>4. CASE ~(x.hostUsed - Saved(x, r) + Computed(r) > HostLimit)
  <2>1. y = [x EXCEPT !.host = Put(@, r, Computed(r)), !.hostUsed = @ + Computed(r) - Saved(x, r)]
    BY <1>4 DEF Save
  <2>2. /\ Fields(y) /\ Fixed(y) = Fixed(x) /\ Asked(y) = Asked(x) /\ Owned(y) = Owned(x)
        /\ OnDevice(y) = OnDevice(x) /\ y.pins = x.pins /\ y.reserve = x.reserve
        /\ y.window = x.window /\ y.verdict = "go"
        /\ y.host = Put(x.host, r, Computed(r))
        /\ y.hostUsed = x.hostUsed + Computed(r) - Saved(x, r)
    BY <2>1 DEF Fields, Fixed, Asked, Owned, OnDevice
  <2>3. /\ DOMAIN y.host = DOMAIN x.host \cup {r} /\ y.host[r] = Computed(r)
        /\ \A q \in DOMAIN x.host : q # r => y.host[q] = x.host[q]
        /\ Total(y.host, DOMAIN y.host) = Total(x.host, DOMAIN x.host) + Computed(r)
                                          - Had(x.host, r)
    <3> DEFINE f == x.host
               n == Computed(r)
               g == y.host
    <3>1. g = Put(f, r, n) /\ n \in Nat /\ Counts(f, DOMAIN f)
      BY <1>1, <1>2, <2>2
    <3> HIDE DEF f, n, g
    <3>2. /\ DOMAIN g = DOMAIN f \cup {r} /\ g[r] = n
          /\ \A q \in DOMAIN f : q # r => g[q] = f[q]
      BY <3>1 DEF Put
    <3>3. Total(g, DOMAIN g) = Total(f, DOMAIN f) + n - Had(f, r)
      BY <3>1, TotalPut
    <3> QED BY <3>2, <3>3 DEF f, n, g
  <2>4. Total(y.host, DOMAIN y.host) = y.hostUsed
    BY <2>2, <2>3 DEF Copies, Saved, Had
  <2>5. y.hostUsed <= HostLimit
    <3>1. x.hostUsed \in Nat /\ Saved(x, r) \in Nat
      BY <1>2, TotalType DEF Copies, Saved, Counts
    <3> QED BY <1>1, <1>4, <2>2, <3>1, PoolAssumption
  <2>6. Copies(y.host, y.hostUsed, present)
    BY <2>3, <2>4, <2>5 DEF Copies
  <2> QED BY <2>2, <2>3, <2>6 DEF Copying
<1> QED BY <1>3, <1>4

\* Without a copy the others and the budget agree still.
LEMMA DiscardIs ==
    ASSUME Setting, NEW x, Fields(x), NEW present, present \subseteq Calls,
           Copies(x.host, x.hostUsed, present), NEW r,
           NEW y, y = Discard(x, r)
    PROVE  /\ Fields(y) /\ Copies(y.host, y.hostUsed, present) /\ DOMAIN y.host = DOMAIN x.host \ {r}
           /\ Fixed(y) = Fixed(x) /\ Asked(y) = Asked(x) /\ Owned(y) = Owned(x)
           /\ OnDevice(y) = OnDevice(x) /\ y.pins = x.pins /\ y.reserve = x.reserve
           /\ y.window = x.window /\ y.verdict = x.verdict
<1>1. Counts(x.host, DOMAIN x.host)
  BY ComputedIs, FS_Subset DEF Counts, Copies, Setting
<1>2. /\ Fields(y) /\ Fixed(y) = Fixed(x) /\ Asked(y) = Asked(x) /\ Owned(y) = Owned(x)
      /\ OnDevice(y) = OnDevice(x) /\ y.pins = x.pins /\ y.reserve = x.reserve
      /\ y.window = x.window /\ y.verdict = x.verdict
      /\ y.host = Drop(x.host, r) /\ y.hostUsed = x.hostUsed - Saved(x, r)
  BY DEF Discard, Fields, Fixed, Asked, Owned, OnDevice
<1>3. /\ DOMAIN y.host = DOMAIN x.host \ {r} /\ \A q \in DOMAIN y.host : y.host[q] = x.host[q]
      /\ Total(y.host, DOMAIN y.host) = Total(x.host, DOMAIN x.host)
                                        - Had(x.host, r)
      /\ Total(y.host, DOMAIN y.host) <= Total(x.host, DOMAIN x.host)
  BY <1>1, <1>2, TotalDrop
<1>4. Total(y.host, DOMAIN y.host) = y.hostUsed
  BY <1>2, <1>3 DEF Copies, Saved, Had
<1>5. y.hostUsed <= HostLimit
  <2>1. x.hostUsed \in Nat /\ y.hostUsed \in Nat
    <3>1. Counts(y.host, DOMAIN y.host)
      BY <1>1, <1>3, FS_Subset DEF Counts
    <3> QED BY <1>1, <1>4, <3>1, TotalType DEF Copies
  <2> QED BY <1>3, <1>4, <2>1, PoolAssumption DEF Copies
<1>6. Copies(y.host, y.hostUsed, present)
  BY <1>3, <1>4, <1>5 DEF Copies
<1> QED BY <1>2, <1>3, <1>6

-----------------------------------------------------------------------------
(* Reserves are given up. *)

\* A reserve that is given up loses its one lock.
LEMMA ReleaseUnsavedIs ==
    ASSUME NEW x, Fields(x), Pool(x.kv, x.cached, x.pins), NEW r \in Calls,
           NEW y, y = ReleaseUnsaved(x, r)
    PROVE  /\ Fields(y) /\ Pool(y.kv, y.cached, y.pins)
           /\ y.pins[r] = x.pins[r] - 1 /\ \A q \in Calls : q # r => y.pins[q] = x.pins[q]
           /\ y.reserve = x.reserve \ {r}
           /\ Fixed(y) = Fixed(x) /\ Asked(y) = Asked(x) /\ Owned(y) = Owned(x)
           /\ OnDevice(y) = OnDevice(x) /\ Copied(y) = Copied(x)
           /\ y.window = x.window /\ y.verdict = x.verdict
<1>1. /\ Fields(y) /\ y.pins = [x.pins EXCEPT ![r] = @ - 1] /\ y.reserve = x.reserve \ {r}
      /\ Fixed(y) = Fixed(x) /\ Asked(y) = Asked(x) /\ Owned(y) = Owned(x)
      /\ y.kv = x.kv /\ y.cached = x.cached /\ Copied(y) = Copied(x)
      /\ y.window = x.window /\ y.verdict = x.verdict
  BY DEF ReleaseUnsaved, Unlock, Fields, Fixed, Asked, Owned, Copied
<1> QED BY <1>1 DEF Pool, OnDevice

\* No branch has locks that had none; or only one call's differ.
NoneAnew(p, q) == \A s \in Calls : p[s] = 0 => q[s] = 0
SameBut(p, q, r) == \A s \in Calls : s # r => q[s] = p[s]

\* A reserve that is no longer one has one lock less.
LEMMA LockedLess ==
    ASSUME NEW p, NEW q, NEW res, NEW run, NEW held, NEW r \in res \cap Calls,
           Locked(p, res, run, held), p \in [Calls -> Int],
           q[r] = p[r] - 1, SameBut(p, q, r), NEW less, less = res \ {r}
    PROVE  Locked(q, less, run, held) /\ NoneAnew(p, q)
<1>1. ASSUME NEW s \in Calls
      PROVE  q[s] = One(s, less) + One(s, run) + One(s, held) /\ (p[s] = 0 => q[s] = 0)
  <2>1. p[s] = One(s, res) + One(s, run) + One(s, held)
    BY DEF Locked
  <2>2. One(s, run) \in {0, 1} /\ One(s, held) \in {0, 1}
    BY DEF One
  <2>3. CASE s = r
    <3>1. One(s, res) = 1 /\ One(s, less) = 0
      BY <2>3 DEF One
    <3> QED BY <2>1, <2>2, <2>3, <3>1
  <2>4. CASE s # r
    <3>1. One(s, less) = One(s, res)
      BY <2>4 DEF One
    <3> QED BY <2>1, <2>4, <3>1 DEF SameBut
  <2> QED BY <2>3, <2>4
<1> QED BY <1>1 DEF Locked, NoneAnew

\* What is the same, or only less, after reserves were given up.
Released(x, y) ==
    /\ Fixed(y) = Fixed(x) /\ Asked(y) = Asked(x) /\ Owned(y) = Owned(x)
    /\ OnDevice(y) = OnDevice(x) /\ y.window = x.window
    /\ y.reserve \subseteq x.reserve /\ DOMAIN x.host \subseteq DOMAIN y.host
    /\ NoneAnew(x.pins, y.pins)

\* release_reserves for one call: the copy is made before the lock goes.
LEMMA ReleaseReserveSound ==
    ASSUME Setting, NEW x, NEW held, Sound(x, held), x.verdict = "go",
           NEW r \in x.reserve \cap x.waiting, NEW y, y = ReleaseReserve(x, r)
    PROVE  /\ Sound(y, held) /\ Released(x, y)
           /\ y.verdict = "go" => /\ y.reserve = x.reserve \ {r}
                                  /\ DOMAIN y.host = DOMAIN x.host \cup {r}
<1> DEFINE z == Save(x, r, Computed(r))
           present == x.waiting \cup x.admitted
<1>1. r \in Calls /\ r \in present /\ present \subseteq Calls /\ x.cached[r] = Computed(r)
  BY PlacesAre DEF Sound, Computes
<1>2. y = IF z.verdict = "go" THEN ReleaseUnsaved(z, r) ELSE z
  BY <1>1 DEF ReleaseReserve, Then
<1>3. Fields(x) /\ Copies(x.host, x.hostUsed, present)
  BY DEF Sound
<1>4. /\ Fields(z) /\ Copies(z.host, z.hostUsed, present)
      /\ Fixed(z) = Fixed(x) /\ Asked(z) = Asked(x) /\ Owned(z) = Owned(x)
      /\ OnDevice(z) = OnDevice(x) /\ z.pins = x.pins /\ z.reserve = x.reserve
      /\ z.window = x.window /\ z.verdict \in {"go", "budget"}
      /\ DOMAIN x.host \subseteq DOMAIN z.host
      /\ z.verdict = "go" => DOMAIN z.host = DOMAIN x.host \cup {r}
  <2>1. Copying(x, z, r, present)
    BY <1>1, <1>3, SaveIs
  <2> QED BY <2>1 DEF Copying
<1> HIDE DEF z
<1>5. Sound(z, held)
  BY <1>4 DEF Sound, Remembered, Fixed, Owned, OnDevice
<1>6. CASE z.verdict # "go"
  BY <1>2, <1>4, <1>5, <1>6 DEF Released, NoneAnew
<1>7. CASE z.verdict = "go"
  <2>1. y = ReleaseUnsaved(z, r)
    BY <1>2, <1>7
  <2>2. Fields(z) /\ Pool(z.kv, z.cached, z.pins)
    BY <1>5 DEF Sound
  <2>3. /\ Fields(y) /\ Pool(y.kv, y.cached, y.pins)
        /\ y.pins[r] = z.pins[r] - 1 /\ \A q \in Calls : q # r => y.pins[q] = z.pins[q]
        /\ y.reserve = z.reserve \ {r}
        /\ Fixed(y) = Fixed(z) /\ Asked(y) = Asked(z) /\ Owned(y) = Owned(z)
        /\ OnDevice(y) = OnDevice(z) /\ Copied(y) = Copied(z)
        /\ y.window = z.window /\ y.verdict = z.verdict
    BY <1>1, <2>1, <2>2, ReleaseUnsavedIs
  <2>4. /\ y.waiting = x.waiting /\ y.batch = x.batch /\ y.admitted = x.admitted
        /\ y.extend = x.extend /\ y.kv = x.kv /\ y.cached = x.cached /\ y.lru = x.lru
        /\ y.host = z.host /\ y.hostUsed = z.hostUsed
    BY <1>4, <2>3 DEF Owned, OnDevice, Fixed, Copied
  <2>5. /\ Locked(y.pins, y.reserve, x.batch \cup x.admitted, held)
        /\ NoneAnew(x.pins, y.pins)
    <3>1. Locked(x.pins, x.reserve, x.batch \cup x.admitted, held) /\ x.pins \in [Calls -> Int]
      BY DEF Sound, Pool
    <3>2. y.pins[r] = x.pins[r] - 1 /\ SameBut(x.pins, y.pins, r)
      BY <1>4, <2>3 DEF SameBut
    <3>3. y.reserve = x.reserve \ {r} /\ r \in x.reserve \cap Calls
      BY <1>1, <1>4, <2>3
    <3> QED BY <3>1, <3>2, <3>3, LockedLess
  <2>6. Remembered(x.waiting, y.reserve, y.host)
    BY <1>4, <1>7, <2>3, <2>4 DEF Sound, Remembered
  <2>7. Computes(x.kv, x.cached, x.waiting, x.batch, y.reserve)
    BY <1>4, <2>3 DEF Sound, Computes
  <2>8. Sound(y, held)
    BY <1>4, <1>5, <1>7, <2>3, <2>4, <2>5, <2>6, <2>7 DEF Sound
  <2>9. Released(x, y)
    BY <1>4, <2>3, <2>4, <2>5 DEF Released
  <2> QED BY <1>4, <1>7, <2>3, <2>4, <2>8, <2>9
<1> QED BY <1>6, <1>7

\* The calls of a filtered order.
LEMMA AmongOrder ==
    ASSUME Setting, NEW T
    PROVE  /\ Among(order, T) \in Seq(Range(order) \cap T) /\ IsInjective(Among(order, T))
           /\ Range(Among(order, T)) = Range(order) \cap T
           /\ Len(Among(order, T)) \in Nat /\ DOMAIN Among(order, T) = 1..Len(Among(order, T))
<1>1. order \in Seq(Calls) /\ IsInjective(order)
  BY DEF Setting
<1>2. /\ Among(order, T) \in Seq(Range(order) \cap T) /\ Range(Among(order, T)) = Range(order) \cap T
      /\ IsInjective(Among(order, T))
  BY <1>1, AmongIs
<1> QED BY <1>2

\* release_reserves.
LEMMA ReleaseReservesSound ==
    ASSUME Setting, NEW x, NEW held, Sound(x, held), NEW rids, rids \subseteq x.reserve \cap x.waiting,
           NEW y, y = ReleaseReserves(x, rids)
    PROVE  /\ Sound(y, held) /\ Released(x, y)
           /\ x.verdict # "go" => y = x
           /\ y.verdict = "go" => /\ y.reserve = x.reserve \ rids
                                  /\ DOMAIN y.host = DOMAIN x.host \cup rids
<1> DEFINE c == Among(order, rids)
           m == Len(c)
<1>1. rids \subseteq Range(order)
  BY DEF Sound, Parted
<1>2. m \in Nat /\ DOMAIN c = 1..m /\ Range(c) = rids /\ IsInjective(c)
  BY <1>1, AmongOrder
<1>3. PICK v : Visits(v, x, y, c, m, "release", 0)
  BY <1>2, ReleaseVisits
<1> HIDE DEF c, m
<1>4. v[0] = x /\ v[m] = y /\ \A k \in 0..(m - 1) : v[k + 1] = Step(v[k], "release", 0, c[k + 1])
  BY <1>3 DEF Visits
<1> DEFINE Past(k) == {c[i] : i \in 1..k}
           Good(k) == /\ Sound(v[k], held) /\ Released(x, v[k])
                      /\ x.verdict # "go" => v[k] = x
                      /\ v[k].verdict = "go" => /\ v[k].reserve = x.reserve \ Past(k)
                                                /\ DOMAIN v[k].host = DOMAIN x.host \cup Past(k)
<1>5. Good(0)
  <2>1. Past(0) = {}
    OBVIOUS
  <2>2. Released(x, x)
    BY DEF Released, NoneAnew
  <2> HIDE DEF Past
  <2> QED BY <1>4, <2>1, <2>2
<1>6. ASSUME NEW k \in 0..(m - 1), Good(k) PROVE Good(k + 1)
  <2> DEFINE r == c[k + 1]
             z == v[k]
             w == v[k + 1]
  <2>1. r \in rids /\ r \notin Past(k) /\ Past(k + 1) = Past(k) \cup {r}
    <3>1. k + 1 \in DOMAIN c
      BY <1>2
    <3>2. \A i \in 1..k : c[i] # r
      BY <1>2, <3>1 DEF IsInjective
    <3>3. \A i \in 1..(k + 1) : i \in 1..k \/ i = k + 1
      OBVIOUS
    <3> QED BY <1>2, <3>1, <3>2, <3>3 DEF Range
  <2> HIDE DEF Past
  <2>2. Sound(z, held) /\ Released(x, z)
    BY <1>6
  <2>3. w = IF z.verdict = "go" THEN ReleaseReserve(z, r) ELSE z
    BY <1>4 DEF Step, Body
  <2>4. CASE z.verdict # "go"
    BY <1>6, <2>3, <2>4
  <2>5. CASE z.verdict = "go"
    <3>1. z.reserve = x.reserve \ Past(k) /\ DOMAIN z.host = DOMAIN x.host \cup Past(k)
      BY <1>6, <2>5
    <3>2. w = ReleaseReserve(z, r) /\ x.verdict = "go"
      BY <1>6, <2>3, <2>5
    <3>3. z.waiting = x.waiting
      BY <2>2 DEF Released, Owned
    <3> HIDE DEF r, z, w
    <3>4. r \in z.reserve \cap z.waiting
      BY <2>1, <3>1, <3>3
    <3>5. /\ Sound(w, held) /\ Released(z, w)
          /\ w.verdict = "go" => /\ w.reserve = z.reserve \ {r}
                                 /\ DOMAIN w.host = DOMAIN z.host \cup {r}
      BY <2>2, <2>5, <3>2, <3>4, ReleaseReserveSound
    <3>6. Released(x, w)
      BY <2>2, <3>5 DEF Released, NoneAnew
    <3>7. ASSUME w.verdict = "go"
          PROVE  w.reserve = x.reserve \ Past(k + 1) /\ DOMAIN w.host = DOMAIN x.host \cup Past(k + 1)
      BY <2>1, <3>1, <3>5, <3>7
    <3> QED BY <3>2, <3>5, <3>6, <3>7 DEF w
  <2> QED BY <2>4, <2>5
<1>7. \A k \in 0..m : Good(k)
  <2> DEFINE Ok == {k \in 0..m : Good(k)}
  <2> HIDE DEF Good
  <2>1. 0 \in Ok /\ \A k \in 0..(m - 1) : k \in Ok => k + 1 \in Ok
    BY <1>2, <1>5, <1>6
  <2> HIDE DEF Ok
  <2>2. \A k \in 0..m : k \in Ok
    BY <1>2, <2>1, KeptToTheEnd
  <2> QED BY <2>2 DEF Ok
<1>8. Good(m)
  BY <1>2, <1>7
<1>9. Past(m) = rids
  BY <1>2 DEF Range
<1> HIDE DEF Past
<1> QED BY <1>4, <1>8, <1>9

-----------------------------------------------------------------------------
(* Calls leave the batch. *)

\* A copy is one wherever its call is.
LEMMA CopiesMore ==
    ASSUME NEW h, NEW used, NEW S, NEW T, Copies(h, used, S), S \subseteq T
    PROVE  Copies(h, used, T)
BY DEF Copies

\* What a retraction leaves: who leaves the batch waits, as a reserve or with a copy.
Retired(x, y) ==
    /\ Fixed(y) = Fixed(x) /\ Asked(y) = Asked(x) /\ y.window = x.window
    /\ y.admitted = x.admitted /\ y.extend = x.extend
    /\ y.batch \subseteq x.batch /\ y.waiting = x.waiting \cup (x.batch \ y.batch)
    /\ x.reserve \subseteq y.reserve /\ DOMAIN x.host \subseteq DOMAIN y.host
    /\ x.batch \ y.batch \subseteq y.reserve \cup DOMAIN y.host

\* swap_out: the call leaves the batch with a copy, and without a lock.
LEMMA SwapOutSound ==
    ASSUME Setting, NEW x, NEW held, Sound(x, held), x.verdict = "go",
           NEW r \in x.batch, NEW y, y = SwapOut(x, r)
    PROVE  /\ Sound(y, held) /\ Retired(x, y) /\ y.reserve = x.reserve
           /\ y.verdict \in {"go", "budget"}
           /\ y.verdict = "go" => y.batch = x.batch \ {r}
<1> DEFINE z == Save(x, r, Computed(r))
           present == x.waiting \cup x.admitted
           more == present \cup {r}
<1>1. r \in Calls /\ r \in more /\ more \subseteq Calls /\ r \notin present /\ r \notin x.reserve
  BY PlacesAre DEF Sound, Parted
<1>2. y = IF z.verdict = "go"
          THEN [Unlock(z, r) EXCEPT !.kv[r] = z.cached[r],
                                    !.batch = @ \ {r}, !.waiting = @ \cup {r}]
          ELSE z
  BY DEF SwapOut, Then
<1>3. Fields(x) /\ Copies(x.host, x.hostUsed, more)
  BY CopiesMore DEF Sound
<1>4. /\ Fields(z) /\ Copies(z.host, z.hostUsed, more)
      /\ Fixed(z) = Fixed(x) /\ Asked(z) = Asked(x) /\ Owned(z) = Owned(x)
      /\ OnDevice(z) = OnDevice(x) /\ z.pins = x.pins /\ z.reserve = x.reserve
      /\ z.window = x.window /\ z.verdict \in {"go", "budget"}
      /\ DOMAIN x.host \subseteq DOMAIN z.host
      /\ z.verdict = "go" => DOMAIN z.host = DOMAIN x.host \cup {r}
      /\ z.verdict # "go" => Copied(z) = Copied(x)
  <2>1. Copying(x, z, r, more)
    BY <1>1, <1>3, SaveIs
  <2> QED BY <2>1 DEF Copying
<1> HIDE DEF z
<1>5. /\ z.waiting = x.waiting /\ z.batch = x.batch /\ z.admitted = x.admitted
      /\ z.extend = x.extend /\ z.kv = x.kv /\ z.cached = x.cached /\ z.lru = x.lru
  BY <1>4 DEF Owned, OnDevice, Fixed
<1>6. CASE z.verdict # "go"
  <2>1. y = z /\ z.host = x.host /\ z.hostUsed = x.hostUsed
    BY <1>2, <1>4, <1>6 DEF Copied
  <2>2. Sound(z, held)
    BY <1>4, <1>5, <2>1 DEF Sound
  <2> QED BY <1>4, <1>5, <1>6, <2>1, <2>2 DEF Retired
<1>7. CASE z.verdict = "go"
  <2>1. y = [Unlock(z, r) EXCEPT !.kv[r] = z.cached[r],
                                 !.batch = @ \ {r}, !.waiting = @ \cup {r}]
    BY <1>2, <1>7
  <2>2. /\ Fields(y) /\ y.pins = [x.pins EXCEPT ![r] = @ - 1]
        /\ y.kv = [x.kv EXCEPT ![r] = x.cached[r]] /\ y.cached = x.cached
        /\ y.batch = x.batch \ {r} /\ y.waiting = x.waiting \cup {r}
        /\ y.admitted = x.admitted /\ y.extend = x.extend
        /\ y.host = z.host /\ y.hostUsed = z.hostUsed
        /\ Fixed(y) = Fixed(z) /\ Asked(y) = Asked(z)
        /\ y.reserve = z.reserve /\ y.window = z.window /\ y.verdict = z.verdict
    <3>1. /\ Fields(y) /\ y.pins = [z.pins EXCEPT ![r] = @ - 1]
          /\ y.kv = [z.kv EXCEPT ![r] = z.cached[r]] /\ y.cached = z.cached
          /\ y.batch = z.batch \ {r} /\ y.waiting = z.waiting \cup {r}
          /\ y.admitted = z.admitted /\ y.extend = z.extend
          /\ y.host = z.host /\ y.hostUsed = z.hostUsed
          /\ Fixed(y) = Fixed(z) /\ Asked(y) = Asked(z)
          /\ y.reserve = z.reserve /\ y.window = z.window /\ y.verdict = z.verdict
      BY ZenonT(40), <1>4, <2>1 DEF Fields, Unlock, Fixed, Asked
    <3> QED BY <1>4, <1>5, <3>1
  <2>3. /\ Pool(x.kv, x.cached, x.pins) /\ Parted(x.waiting, x.batch, x.admitted)
        /\ Locked(x.pins, x.reserve, x.batch \cup x.admitted, held)
        /\ Computes(x.kv, x.cached, x.waiting, x.batch, x.reserve)
        /\ Remembered(x.waiting, x.reserve, x.host) /\ Finds(x.admitted, x.extend)
        /\ Filled(x.admitted, x.kv) /\ Lined(x.window.cohort) /\ x.lru \in Seq(Calls)
        /\ x.reserve \subseteq x.waiting \cup x.admitted
    BY DEF Sound
  <2>4. Pool(y.kv, y.cached, y.pins)
    BY <1>1, <2>2, <2>3 DEF Pool
  <2>5. Parted(y.waiting, y.batch, y.admitted)
    BY <2>2, <2>3 DEF Parted
  <2>6. Locked(y.pins, y.reserve, y.batch \cup y.admitted, held)
    <3> DEFINE run == x.batch \cup x.admitted
               less == y.batch \cup y.admitted
    <3>1. Locked(x.pins, run, x.reserve, held) /\ x.pins \in [Calls -> Int]
      BY <2>3 DEF Locked, Pool, One
    <3>2. y.pins[r] = x.pins[r] - 1 /\ SameBut(x.pins, y.pins, r)
      BY <1>1, <2>2, <3>1 DEF SameBut
    <3>3. less = run \ {r} /\ r \in run \cap Calls
      BY <1>1, <2>2, <2>3 DEF Parted
    <3> HIDE DEF run, less
    <3>4. Locked(y.pins, less, x.reserve, held)
      BY <3>1, <3>2, <3>3, LockedLess
    <3>5. y.reserve = x.reserve /\ y.pins \in [Calls -> Int]
      BY <1>4, <2>2, <2>4 DEF Pool
    <3>6. Locked(y.pins, y.reserve, less, held)
      BY <3>4, <3>5 DEF Locked, One
    <3> QED BY <3>6 DEF less
  <2>7. Copies(y.host, y.hostUsed, y.waiting \cup y.admitted)
    <3>1. y.waiting \cup y.admitted = more
      BY <2>2
    <3> QED BY <1>4, <2>2, <3>1
  <2>8. Computes(y.kv, y.cached, y.waiting, y.batch, y.reserve)
    <3>1. y.kv[r] = y.cached[r] /\ y.cached[r] <= Computed(r)
      BY <1>1, <2>2, <2>3 DEF Computes, Pool
    <3>2. \A q \in Calls : q # r => y.kv[q] = x.kv[q]
      BY <2>2, <2>3 DEF Pool
    <3>3. x.waiting \subseteq Calls /\ x.batch \subseteq Calls /\ r \notin x.waiting /\ r \notin y.batch
      BY <2>2, <2>3, PlacesAre DEF Parted
    <3> QED BY <1>4, <2>2, <2>3, <3>1, <3>2, <3>3 DEF Computes
  <2>9. Remembered(y.waiting, y.reserve, y.host)
    BY <1>4, <1>7, <2>2, <2>3 DEF Remembered
  <2>10. y.reserve \subseteq y.waiting \cup y.admitted /\ y.reserve = x.reserve
    BY <1>4, <2>2, <2>3
  <2>11. Finds(y.admitted, y.extend) /\ Lined(y.window.cohort) /\ y.lru \in Seq(Calls)
    BY <1>4, <1>5, <2>2, <2>3 DEF Fixed
  <2>14. Filled(y.admitted, y.kv)
    <3>1. x.admitted \subseteq Calls
      BY PlacesAre
    <3> QED BY <1>1, <2>2, <2>3, <3>1 DEF Filled, Pool
  <2>12. Sound(y, held)
    BY <1>7, <2>2, <2>4, <2>5, <2>6, <2>7, <2>8, <2>9, <2>10, <2>11, <2>14 DEF Sound
  <2>13. Retired(x, y)
    BY <1>1, <1>4, <1>7, <2>2, <2>10 DEF Retired
  <2> QED BY <1>7, <2>2, <2>10, <2>12, <2>13
<1> QED BY <1>6, <1>7

\* A reserve of the window stays.
LEMMA RetractSound ==
    ASSUME Setting, NEW x, NEW held, Sound(x, held), x.verdict = "go",
           NEW r \in x.batch, NEW y, y = Retract(x, r)
    PROVE  /\ Sound(y, held) /\ Retired(x, y) /\ y.verdict \in {"go", "budget"}
           /\ y.verdict = "go" => y.batch = x.batch \ {r}
<1>1. CASE ~(Cardinality(x.reserve) < Over /\ r \in x.window.reserve)
  <2>1. y = SwapOut(x, r)
    BY <1>1 DEF Retract
  <2> QED BY <2>1, SwapOutSound
<1>2. CASE Cardinality(x.reserve) < Over /\ r \in x.window.reserve
  <2>1. y = [x EXCEPT !.cached[r] = x.kv[r], !.reserve = @ \cup {r},
                      !.batch = @ \ {r}, !.waiting = @ \cup {r}]
    BY <1>2 DEF Retract
  <2>2. /\ Pool(x.kv, x.cached, x.pins) /\ Parted(x.waiting, x.batch, x.admitted)
        /\ Locked(x.pins, x.reserve, x.batch \cup x.admitted, held)
        /\ Copies(x.host, x.hostUsed, x.waiting \cup x.admitted)
        /\ Computes(x.kv, x.cached, x.waiting, x.batch, x.reserve)
        /\ Remembered(x.waiting, x.reserve, x.host) /\ Finds(x.admitted, x.extend)
        /\ Filled(x.admitted, x.kv) /\ Lined(x.window.cohort) /\ x.lru \in Seq(Calls)
        /\ x.reserve \subseteq x.waiting \cup x.admitted /\ Fields(x)
    BY DEF Sound
  <2>3. /\ Fields(y) /\ y.pins = x.pins /\ y.kv = x.kv
        /\ y.cached = [x.cached EXCEPT ![r] = x.kv[r]]
        /\ y.reserve = x.reserve \cup {r}
        /\ y.batch = x.batch \ {r} /\ y.waiting = x.waiting \cup {r}
        /\ y.admitted = x.admitted /\ y.extend = x.extend
        /\ y.host = x.host /\ y.hostUsed = x.hostUsed
        /\ Fixed(y) = Fixed(x) /\ Asked(y) = Asked(x)
        /\ y.window = x.window /\ y.verdict = x.verdict
    BY ZenonT(40), <2>1, <2>2 DEF Fields, Fixed, Asked
  <2>4. r \in Calls /\ r \notin x.waiting \cup x.admitted /\ r \notin x.reserve
        /\ r \in Range(order) /\ x.waiting \subseteq Calls /\ x.batch \subseteq Calls
        /\ x.reserve \subseteq Calls /\ Computed(r) \in Nat
    BY <2>2, PlacesAre, ComputedIs DEF Parted
  <2>5. Pool(y.kv, y.cached, y.pins)
    BY <2>2, <2>3, <2>4 DEF Pool
  <2>6. Parted(y.waiting, y.batch, y.admitted)
    BY <2>2, <2>3 DEF Parted
  <2>7. Locked(y.pins, y.reserve, y.batch \cup y.admitted, held)
    <3>1. ASSUME NEW q \in Calls
          PROVE  One(q, y.reserve) + One(q, y.batch \cup y.admitted) =
                     One(q, x.reserve) + One(q, x.batch \cup x.admitted)
      BY <2>3, <2>4 DEF One
    <3> QED BY <2>2, <2>3, <3>1 DEF Locked
  <2>8. Copies(y.host, y.hostUsed, y.waiting \cup y.admitted)
    <3>1. x.waiting \cup x.admitted \subseteq y.waiting \cup y.admitted
      BY <2>3
    <3> QED BY <2>2, <2>3, <3>1, CopiesMore
  <2>9. Computes(y.kv, y.cached, y.waiting, y.batch, y.reserve)
    <3>1. y.cached[r] = Computed(r) /\ y.kv[r] = Computed(r)
      BY <2>2, <2>3, <2>4 DEF Computes, Pool
    <3>2. \A q \in Calls : q # r => y.cached[q] = x.cached[q]
      BY <2>2, <2>3 DEF Pool
    <3> QED BY <2>2, <2>3, <2>4, <3>1, <3>2 DEF Computes
  <2>10. Remembered(y.waiting, y.reserve, y.host)
    BY <2>2, <2>3 DEF Remembered
  <2>11. y.lru \in Seq(Calls) /\ y.reserve \subseteq y.waiting \cup y.admitted
    BY <2>2, <2>3 DEF Fixed
  <2>12. Sound(y, held)
    BY <2>2, <2>3, <2>5, <2>6, <2>7, <2>8, <2>9, <2>10, <2>11 DEF Sound
  <2>13. Retired(x, y)
    BY <2>3 DEF Retired
  <2> QED BY <2>3, <2>12, <2>13
<1> QED BY <1>1, <1>2

\* One retraction after another.
LEMMA RetiredThen ==
    ASSUME NEW x, NEW y, NEW z, Retired(x, y), Retired(y, z)
    PROVE  Retired(x, z)
BY DEF Retired

\* Retraction ends with the calls that are kept.
LEMMA RetractVictimsSound ==
    ASSUME Setting, NEW x, NEW held, Sound(x, held), NEW y, y = RetractVictims(x)
    PROVE  /\ Sound(y, held) /\ Retired(x, y)
           /\ x.verdict # "go" => y = x
           /\ y.verdict = "go" => y.batch = x.batch \cap Kept(x)
<1> DEFINE rids == x.batch \ Kept(x)
           c == Among(order, rids)
           m == Len(c)
<1>1. rids \subseteq Range(order)
  BY DEF Sound, Parted
<1>2. m \in Nat /\ DOMAIN c = 1..m /\ Range(c) = rids /\ IsInjective(c)
  BY <1>1, AmongOrder
<1>3. PICK v : Visits(v, x, y, c, m, "retract", 0)
  BY <1>2, RetractVisits
<1>4. rids \subseteq x.batch
  OBVIOUS
<1>5. x.batch \ rids = x.batch \cap Kept(x)
  OBVIOUS
<1> HIDE DEF c, m, rids
<1>6. v[0] = x /\ v[m] = y /\ \A k \in 0..(m - 1) : v[k + 1] = Step(v[k], "retract", 0, c[k + 1])
  BY <1>3 DEF Visits
<1> DEFINE Past(k) == {c[i] : i \in 1..k}
           Good(k) == /\ Sound(v[k], held) /\ Retired(x, v[k])
                      /\ x.verdict # "go" => v[k] = x
                      /\ v[k].verdict = "go" => v[k].batch = x.batch \ Past(k)
<1>7. Good(0)
  <2>1. Past(0) = {}
    OBVIOUS
  <2>2. Retired(x, x)
    BY DEF Retired
  <2> HIDE DEF Past
  <2> QED BY <1>6, <2>1, <2>2
<1>8. ASSUME NEW k \in 0..(m - 1), Good(k) PROVE Good(k + 1)
  <2> DEFINE r == c[k + 1]
             z == v[k]
             w == v[k + 1]
  <2>1. r \in rids /\ r \notin Past(k) /\ Past(k + 1) = Past(k) \cup {r}
    <3>1. k + 1 \in DOMAIN c
      BY <1>2
    <3>2. \A i \in 1..k : c[i] # r
      BY <1>2, <3>1 DEF IsInjective
    <3>3. \A i \in 1..(k + 1) : i \in 1..k \/ i = k + 1
      OBVIOUS
    <3> QED BY <1>2, <3>1, <3>2, <3>3 DEF Range
  <2> HIDE DEF Past
  <2>2. Sound(z, held) /\ Retired(x, z)
    BY <1>8
  <2>3. w = IF z.verdict = "go" THEN Retract(z, r) ELSE z
    BY <1>6 DEF Step, Body
  <2>4. CASE z.verdict # "go"
    BY <1>8, <2>3, <2>4
  <2>5. CASE z.verdict = "go"
    <3>1. z.batch = x.batch \ Past(k)
      BY <1>8, <2>5
    <3>2. w = Retract(z, r) /\ x.verdict = "go"
      BY <1>8, <2>3, <2>5
    <3> HIDE DEF r, z, w
    <3>3. r \in z.batch
      BY <1>4, <2>1, <3>1
    <3>4. /\ Sound(w, held) /\ Retired(z, w)
          /\ w.verdict = "go" => w.batch = z.batch \ {r}
      BY <2>2, <2>5, <3>2, <3>3, RetractSound
    <3>5. Retired(x, w)
      BY <2>2, <3>4, RetiredThen
    <3>6. ASSUME w.verdict = "go" PROVE w.batch = x.batch \ Past(k + 1)
      BY <2>1, <3>1, <3>4, <3>6
    <3> QED BY <3>2, <3>4, <3>5, <3>6 DEF w
  <2> QED BY <2>4, <2>5
<1>9. \A k \in 0..m : Good(k)
  <2> DEFINE Ok == {k \in 0..m : Good(k)}
  <2> HIDE DEF Good
  <2>1. 0 \in Ok /\ \A k \in 0..(m - 1) : k \in Ok => k + 1 \in Ok
    BY <1>2, <1>7, <1>8
  <2> HIDE DEF Ok
  <2>2. \A k \in 0..m : k \in Ok
    BY <1>2, <2>1, KeptToTheEnd
  <2> QED BY <2>2 DEF Ok
<1>10. Good(m)
  BY <1>2, <1>9
<1>11. Past(m) = rids
  BY <1>2 DEF Range
<1> HIDE DEF Past
<1> QED BY <1>5, <1>6, <1>10, <1>11


-----------------------------------------------------------------------------
(* Restoration of the copies of ready calls. *)

\* Nothing but KV and locks changed.
Alike(x, y) ==
    /\ Fixed(y) = Fixed(x) /\ Asked(y) = Asked(x) /\ Owned(y) = Owned(x)
    /\ Copied(y) = Copied(x) /\ y.reserve = x.reserve /\ y.window = x.window
    /\ y.verdict = x.verdict

\* Field by field.
LEMMA AlikeIs ==
    ASSUME NEW x, NEW y, Alike(x, y)
    PROVE  /\ y.waiting = x.waiting /\ y.batch = x.batch /\ y.admitted = x.admitted
           /\ y.extend = x.extend /\ y.host = x.host /\ y.hostUsed = x.hostUsed
           /\ y.reserve = x.reserve /\ y.window = x.window /\ y.lru = x.lru
           /\ y.verdict = x.verdict /\ y.ready = x.ready /\ y.blocked = x.blocked
           /\ y.restored = x.restored /\ y.selected = x.selected /\ y.sorted = x.sorted
BY DEF Alike, Fixed, Asked, Owned, Copied

\* Other locks on the same KV.
LEMMA LocksSound ==
    ASSUME Setting, NEW x, NEW held, Sound(x, held), NEW y, Alike(x, y), Fields(y),
           OnDevice(y) = OnDevice(x), y.pins \in [Calls -> Int], NEW other,
           Locked(y.pins, y.reserve, y.batch \cup y.admitted, other)
    PROVE  Sound(y, other)
<1>1. /\ y.waiting = x.waiting /\ y.batch = x.batch /\ y.admitted = x.admitted
      /\ y.extend = x.extend /\ y.host = x.host /\ y.hostUsed = x.hostUsed
      /\ y.reserve = x.reserve /\ y.window = x.window /\ y.lru = x.lru
      /\ y.verdict = x.verdict
  BY AlikeIs
<1>2. y.kv = x.kv /\ y.cached = x.cached
  BY DEF OnDevice
<1>3. Pool(y.kv, y.cached, y.pins)
  BY <1>2 DEF Sound, Pool
<1> QED BY <1>1, <1>2, <1>3 DEF Sound

\* A lock more.
LEMMA LockSound ==
    ASSUME Setting, NEW x, NEW held, Sound(x, held), NEW r \in Calls, r \notin held,
           NEW more, more = held \cup {r}, NEW y, y = Lock(x, r)
    PROVE  /\ Sound(y, more) /\ Alike(x, y) /\ OnDevice(y) = OnDevice(x)
           /\ SameBut(x.pins, y.pins, r)
<1>1. Fields(x) /\ x.pins \in [Calls -> Int]
      /\ Locked(x.pins, x.reserve, x.batch \cup x.admitted, held)
  BY DEF Sound, Pool
<1>2. /\ Fields(y) /\ Alike(x, y) /\ OnDevice(y) = OnDevice(x)
      /\ y.pins = [x.pins EXCEPT ![r] = @ + 1]
  BY <1>1 DEF Lock, Fields, Alike, Fixed, Asked, Owned, Copied, OnDevice
<1>3. y.batch = x.batch /\ y.admitted = x.admitted /\ y.reserve = x.reserve
  BY <1>2, AlikeIs
<1>4. y.pins \in [Calls -> Int] /\ SameBut(x.pins, y.pins, r)
  BY <1>1, <1>2 DEF SameBut
<1>5. Locked(y.pins, y.reserve, y.batch \cup y.admitted, more)
  <2> SUFFICES ASSUME NEW s \in Calls
               PROVE  y.pins[s] = One(s, x.reserve) + One(s, x.batch \cup x.admitted) + One(s, more)
    BY <1>3 DEF Locked
  <2>1. x.pins[s] = One(s, x.reserve) + One(s, x.batch \cup x.admitted) + One(s, held)
    BY <1>1 DEF Locked
  <2>2. One(s, x.reserve) \in {0, 1} /\ One(s, x.batch \cup x.admitted) \in {0, 1}
    BY DEF One
  <2>3. CASE s = r
    <3>1. One(s, held) = 0 /\ One(s, more) = 1 /\ y.pins[s] = x.pins[s] + 1
      BY <1>1, <1>2, <2>3 DEF One
    <3> QED BY <2>1, <2>2, <3>1
  <2>4. CASE s # r
    <3>1. One(s, held) = One(s, more) /\ y.pins[s] = x.pins[s]
      BY <1>4, <2>4 DEF One, SameBut
    <3> QED BY <2>1, <3>1
  <2> QED BY <2>3, <2>4
<1> QED BY <1>2, <1>4, <1>5, LocksSound

\* A lock less.
LEMMA UnlockSound ==
    ASSUME Setting, NEW x, NEW more, Sound(x, more), NEW r \in more \cap Calls,
           NEW held, held = more \ {r}, NEW y, y = Unlock(x, r)
    PROVE  /\ Sound(y, held) /\ Alike(x, y) /\ OnDevice(y) = OnDevice(x)
           /\ SameBut(x.pins, y.pins, r)
<1> DEFINE run == x.batch \cup x.admitted
<1>1. Fields(x) /\ x.pins \in [Calls -> Int] /\ Locked(x.pins, x.reserve, run, more)
  BY DEF Sound, Pool
<1>2. /\ Fields(y) /\ Alike(x, y) /\ OnDevice(y) = OnDevice(x)
      /\ y.pins = [x.pins EXCEPT ![r] = @ - 1]
  BY <1>1 DEF Unlock, Fields, Alike, Fixed, Asked, Owned, Copied, OnDevice
<1>3. y.batch \cup y.admitted = run /\ y.reserve = x.reserve
  BY <1>2, AlikeIs
<1>4. y.pins \in [Calls -> Int] /\ SameBut(x.pins, y.pins, r) /\ y.pins[r] = x.pins[r] - 1
  BY <1>1, <1>2 DEF SameBut
<1> HIDE DEF run
<1>5. Locked(x.pins, more, run, x.reserve)
  BY <1>1 DEF Locked, One
<1>6. Locked(y.pins, held, run, x.reserve)
  BY <1>1, <1>4, <1>5, LockedLess
<1>7. Locked(y.pins, y.reserve, y.batch \cup y.admitted, held)
  BY <1>3, <1>6 DEF Locked, One
<1> QED BY <1>2, <1>4, <1>7, LocksSound

\* HostKV.restore loads all that is missing, or nothing.
LEMMA LoadedSound ==
    ASSUME Setting, NEW x, NEW held, Sound(x, held), NEW r \in x.waiting \cap DOMAIN x.host,
           NEW y, y = Loaded(x, r)
    PROVE  /\ Sound(y, held) /\ Alike(x, y)
           /\ SameBut(x.cached, y.cached, r) /\ y.pins = x.pins
<1>1. r \in Calls /\ x.waiting \subseteq Calls /\ x.batch \subseteq Calls
      /\ x.reserve \subseteq Calls /\ x.admitted \subseteq Calls /\ Computed(r) \in Nat
  BY PlacesAre, ComputedIs
<1>2. /\ Pool(x.kv, x.cached, x.pins) /\ Parted(x.waiting, x.batch, x.admitted) /\ Fields(x)
      /\ Computes(x.kv, x.cached, x.waiting, x.batch, x.reserve) /\ Filled(x.admitted, x.kv)
      /\ x.host[r] = Computed(r)
  BY DEF Sound, Copies
<1>3. x.kv[r] = x.cached[r] /\ x.cached[r] <= Computed(r) /\ x.cached[r] \in Nat
  BY <1>1, <1>2 DEF Computes, Pool
<1> DEFINE missing == x.host[r] - x.cached[r]
<1>4. CASE Free(x) < missing
  <2>1. y = x
    BY <1>4 DEF Loaded
  <2> QED BY <2>1 DEF Alike, SameBut
<1>5. CASE ~(Free(x) < missing)
  <2>1. y = [x EXCEPT !.kv[r] = @ + missing, !.cached[r] = x.host[r]]
    BY <1>5 DEF Loaded
  <2>2. /\ Fields(y) /\ Alike(x, y) /\ y.pins = x.pins
        /\ y.kv = [x.kv EXCEPT ![r] = @ + missing]
        /\ y.cached = [x.cached EXCEPT ![r] = x.host[r]]
    BY ZenonT(40), <1>2, <2>1 DEF Fields, Alike, Fixed, Asked, Owned, Copied
  <2>3. y.kv[r] = Computed(r) /\ y.cached[r] = Computed(r)
        /\ \A s \in Calls : s # r => y.kv[s] = x.kv[s] /\ y.cached[s] = x.cached[s]
    BY <1>1, <1>2, <1>3, <2>2 DEF Pool
  <2>4. Pool(y.kv, y.cached, y.pins)
    BY <1>1, <1>2, <2>2, <2>3 DEF Pool
  <2>5. /\ y.waiting = x.waiting /\ y.batch = x.batch /\ y.admitted = x.admitted
        /\ y.extend = x.extend /\ y.host = x.host /\ y.hostUsed = x.hostUsed
        /\ y.reserve = x.reserve /\ y.window = x.window /\ y.lru = x.lru
        /\ y.verdict = x.verdict
    BY <2>2, AlikeIs
  <2>6. r \notin x.batch /\ r \notin x.admitted /\ r \in Range(order)
    BY <1>2 DEF Parted
  <2>7. Computes(y.kv, y.cached, x.waiting, x.batch, x.reserve)
    BY <1>1, <1>2, <2>3, <2>6 DEF Computes
  <2>8. Filled(x.admitted, y.kv)
    BY <1>1, <1>2, <2>3, <2>6 DEF Filled
  <2>9. Sound(y, held)
    BY <2>2, <2>4, <2>5, <2>7, <2>8 DEF Sound
  <2> QED BY <2>2, <2>3, <2>9 DEF SameBut
<1> QED BY <1>4, <1>5

\* The KV of the calls in `held' stays.
Keeping(x, y, held) == \A s \in held \cap Calls : y.cached[s] = x.cached[s]

\* A lock keeps a branch from being evicted.
LEMMA EvictedKeeps ==
    ASSUME Setting, NEW x, NEW held, Sound(x, held), NEW y, Evicted(x, y)
    PROVE  Keeping(x, y, held) /\ Alike(x, y)
<1>1. ASSUME NEW s \in held \cap Calls PROVE x.pins[s] # 0
  <2>1. x.pins[s] = One(s, x.reserve) + One(s, x.batch \cup x.admitted) + One(s, held)
    BY DEF Sound, Locked
  <2> QED BY <2>1 DEF One
<1> QED BY <1>1 DEF Evicted, Keeping, Alike

\* Restoring one call leaves what was restored before.
LEMMA RestoredSound ==
    ASSUME Setting, NEW x, NEW held, Sound(x, held), NEW r \in x.waiting \cap DOMAIN x.host,
           r \notin held, NEW y, y = Restored(x, r)
    PROVE  Sound(y, held) /\ Alike(x, y) /\ Keeping(x, y, held)
<1> DEFINE more == held \cup {r}
           n == x.host[r] - x.cached[r]
           a == Lock(x, r)
           b == MakeFree(a, n)
           d == Unlock(b, r)
<1>1. r \in Calls /\ n \in Int
  <2>1. r \in Calls /\ Computed(r) \in Nat /\ x.host[r] = Computed(r)
    BY PlacesAre, ComputedIs DEF Sound, Copies
  <2> QED BY <2>1 DEF Sound, Pool
<1>2. y = Loaded(d, r)
  BY DEF Restored
<1>3. more = held \cup {r} /\ a = Lock(x, r)
  OBVIOUS
<1>4. b = MakeFree(a, n)
  OBVIOUS
<1>5. d = Unlock(b, r) /\ r \in more \cap Calls /\ held = more \ {r}
  BY <1>1
<1> HIDE DEF more, n, a, b, d
<1>6. Sound(a, more) /\ Alike(x, a) /\ OnDevice(a) = OnDevice(x)
  BY <1>1, <1>3, LockSound
<1>7. Sound(b, more) /\ Evicted(a, b)
  BY <1>1, <1>4, <1>6, MakeFreeSound
<1>8. Keeping(a, b, more) /\ Alike(a, b)
  BY <1>6, <1>7, EvictedKeeps
<1>9. Sound(d, held) /\ Alike(b, d) /\ OnDevice(d) = OnDevice(b)
  BY <1>5, <1>7, UnlockSound
<1>10. r \in d.waiting \cap DOMAIN d.host
  BY <1>6, <1>8, <1>9, AlikeIs
<1>11. Sound(y, held) /\ Alike(d, y) /\ SameBut(d.cached, y.cached, r)
  BY <1>2, <1>9, <1>10, LoadedSound
<1>12. Alike(x, y)
  BY <1>6, <1>8, <1>9, <1>11 DEF Alike
<1>13. Keeping(x, y, held)
  <2>1. a.cached = x.cached /\ d.cached = b.cached
    BY <1>6, <1>9 DEF OnDevice
  <2>2. \A s \in held \cap Calls : s # r /\ s \in more
    BY <1>5
  <2> QED BY <1>8, <1>11, <2>1, <2>2 DEF Keeping, SameBut
<1> QED BY <1>11, <1>12, <1>13

-----------------------------------------------------------------------------
(* The window gets shorter. *)

\* A window's reserve is what comes after its first Capacity calls.
Split(w) ==
    /\ w = [remaining |-> w.remaining, cohort |-> w.cohort,
            active |-> w.active, reserve |-> w.reserve]
    /\ w.remaining \in Nat
    /\ \A i \in DOMAIN w.cohort : i <= MaxRunning /\ (w.cohort[i] \in w.reserve => i > Capacity)

\* What is left of a cohort is its beginning, and with it of the reserve.
Shorter(x, y) ==
    /\ \A i \in DOMAIN y.window.cohort :
            i \in DOMAIN x.window.cohort /\ y.window.cohort[i] = x.window.cohort[i]
    /\ DOMAIN x.window.cohort # {} => DOMAIN y.window.cohort # {}
    /\ x.window.reserve \cap Range(y.window.cohort) \subseteq y.window.reserve

\* Only the reserve was cut.
Cut(x, y) ==
    /\ Shorter(x, y)
    /\ \A i \in DOMAIN x.window.cohort : i <= Capacity => i \in DOMAIN y.window.cohort

\* Who stays in the window stays a reserve.
Spared(x, y, S) == x.reserve \cap S \cap Range(y.window.cohort) \subseteq y.reserve

\* A cohort that was cut has no other calls.
LEMMA CutRange ==
    ASSUME NEW x, NEW y, Shorter(x, y)
    PROVE  Range(y.window.cohort) \subseteq Range(x.window.cohort)
BY DEF Shorter, Range

\* One cut after another.
LEMMA ShorterThen ==
    ASSUME NEW x, NEW y, NEW z, Shorter(x, y), Shorter(y, z)
    PROVE  Shorter(x, z)
<1>1. Range(z.window.cohort) \subseteq Range(y.window.cohort)
  BY CutRange
<1> QED BY <1>1 DEF Shorter

\* The same for a cut of the reserve.
LEMMA CutThen ==
    ASSUME NEW x, NEW y, NEW z, Cut(x, y), Cut(y, z)
    PROVE  Cut(x, z)
<1>1. Shorter(x, z)
  BY ShorterThen DEF Cut
<1> QED BY <1>1 DEF Cut, Shorter

\* A window that stayed was not cut.
LEMMA CutSame ==
    ASSUME NEW x, NEW y, y.window = x.window
    PROVE  Cut(x, y)
BY DEF Cut, Shorter

\* Nothing but the window changed.
Framed(x, y) ==
    /\ Fixed(y) = Fixed(x) /\ Asked(y) = Asked(x) /\ Owned(y) = Owned(x)
    /\ Copied(y) = Copied(x) /\ OnDevice(y) = OnDevice(x)
    /\ y.pins = x.pins /\ y.reserve = x.reserve /\ y.verdict = x.verdict

\* What holds of a pass does not depend on the plan of its window.
LEMMA FramedSound ==
    ASSUME Setting, NEW x, NEW held, Sound(x, held), NEW y, Framed(x, y), Fields(y),
           Lined(y.window.cohort)
    PROVE  Sound(y, held)
<1>1. /\ y.waiting = x.waiting /\ y.batch = x.batch /\ y.admitted = x.admitted
      /\ y.extend = x.extend /\ y.host = x.host /\ y.hostUsed = x.hostUsed
      /\ y.kv = x.kv /\ y.cached = x.cached /\ y.lru = x.lru
  BY DEF Framed, Owned, Copied, OnDevice, Fixed
<1> QED BY <1>1 DEF Sound, Framed

\* A cohort without its reserves.
LEMMA DroppedSound ==
    ASSUME Setting, NEW x, NEW held, Sound(x, held), Split(x.window), NEW y, y = Dropped(x)
    PROVE  /\ Sound(y, held) /\ Framed(x, y) /\ Cut(x, y) /\ Split(y.window)
           /\ \A i \in DOMAIN y.window.cohort : i <= Capacity
           /\ x.window.reserve \cap Range(y.window.cohort) = {}
           /\ y.window.reserve = {}
<1>1. Fields(x) /\ Lined(x.window.cohort)
  BY DEF Sound
<1> DEFINE c == x.window.cohort
           d == First(c, Capacity)
<1>2. /\ Fields(y) /\ Framed(x, y) /\ y.window = DropReserve(x.window)
  BY <1>1 DEF Dropped, Fields, Framed, Fixed, Asked, Owned, Copied, OnDevice
<1>3. y.window = [remaining |-> x.window.remaining, cohort |-> d,
                  active |-> x.window.active, reserve |-> {}]
  BY <1>2 DEF DropReserve, Split
<1>4. Capacity \in Nat \ {0}
  BY WindowAssumption
<1>5. /\ d \in Seq(Calls) /\ IsInjective(d)
      /\ DOMAIN d = {i \in DOMAIN c : i <= Capacity} /\ \A i \in DOMAIN d : d[i] = c[i]
  BY <1>1, <1>4, FirstOnce DEF Lined
<1>6. c \in Seq(Calls)
  BY <1>1 DEF Lined
<1>7. y.window.cohort = d /\ y.window.reserve = {}
  BY <1>3
<1>8. Sound(y, held)
  BY <1>2, <1>5, <1>7, FramedSound DEF Lined
<1>9. DOMAIN c # {} => DOMAIN d # {}
  <2>1. DOMAIN c = 1..Len(c) /\ Len(c) \in Nat
    BY <1>6
  <2>2. DOMAIN c # {} => 1 \in DOMAIN c
    BY <2>1
  <2> QED BY <1>4, <1>5, <2>2
<1>10. x.window.reserve \cap Range(d) = {}
  <2>1. \A i \in DOMAIN d : ~(i > Capacity)
    <3>1. \A i \in DOMAIN c : i \in Nat
      BY <1>6
    <3> QED BY <1>4, <1>5, <3>1
  <2>2. \A i \in DOMAIN d : d[i] \notin x.window.reserve
    BY <1>5, <2>1 DEF Split
  <2> QED BY <2>2 DEF Range
<1> HIDE DEF c, d
<1>11. Cut(x, y)
  BY <1>5, <1>7, <1>9, <1>10 DEF Cut, Shorter, c
<1>12. Split(y.window)
  <2>1. \A i \in DOMAIN d : i <= MaxRunning
    BY <1>5 DEF Split, c
  <2> QED BY <1>3, <1>7, <2>1 DEF Split
<1> QED BY <1>2, <1>5, <1>7, <1>8, <1>10, <1>11, <1>12

\* Trying again without the reserves.
Retrying(x, y, held) ==
    /\ Fixed(y) = Fixed(x) /\ Asked(y) = Asked(x) /\ Owned(y) = Owned(x)
    /\ Keeping(x, y, held) /\ DOMAIN x.host \subseteq DOMAIN y.host
    /\ y.verdict = "go" => Cut(x, y) /\ Split(y.window) /\ Spared(x, y, x.reserve)

\* The second attempt to restore: reserves that are given up have copies.
LEMMA RetriedSound ==
    ASSUME Setting, NEW x, NEW held, Sound(x, held), x.verdict = "go", x.admitted = {},
           Split(x.window), NEW r \in x.waiting \cap DOMAIN x.host, r \notin held,
           NEW y, y = Retried(x, r)
    PROVE  Sound(y, held) /\ Retrying(x, y, held)
<1>1. CASE IsRestored(x, r) \/ x.reserve = {}
  <2>1. y = x
    BY <1>1 DEF Retried
  <2> QED BY <2>1, CutSame DEF Retrying, Keeping, Spared
<1>2. CASE ~(IsRestored(x, r) \/ x.reserve = {})
  <2> DEFINE rids == x.window.reserve \cap x.reserve
             a == ReleaseReserves(x, rids)
             b == Dropped(a)
             d == Restored(b, r)
  <2>1. y = IF a.verdict = "go" THEN d ELSE a
    BY <1>2 DEF Retried, Then
  <2>2. rids \subseteq x.reserve \cap x.waiting
    BY DEF Sound
  <2>3. b = Dropped(a) /\ d = Restored(b, r) /\ a = ReleaseReserves(x, rids)
    OBVIOUS
  <2>4. rids = x.window.reserve \cap x.reserve
    OBVIOUS
  <2> HIDE DEF a, b, d, rids
  <2>5. /\ Sound(a, held) /\ Released(x, a)
        /\ a.verdict = "go" => a.reserve = x.reserve \ rids
    BY <2>2, <2>3, ReleaseReservesSound
  <2>6. /\ Fixed(a) = Fixed(x) /\ Asked(a) = Asked(x) /\ Owned(a) = Owned(x)
        /\ a.cached = x.cached /\ a.window = x.window /\ DOMAIN x.host \subseteq DOMAIN a.host
    BY <2>5 DEF Released, OnDevice
  <2>7. CASE a.verdict # "go"
    BY <2>1, <2>5, <2>6, <2>7 DEF Retrying, Keeping
  <2>8. CASE a.verdict = "go"
    <3>1. /\ Sound(b, held) /\ Framed(a, b) /\ Cut(a, b) /\ Split(b.window)
          /\ a.window.reserve \cap Range(b.window.cohort) = {}
      BY <2>3, <2>5, <2>6, DroppedSound
    <3>2. /\ b.waiting = x.waiting /\ b.host = a.host /\ b.cached = x.cached
          /\ Fixed(b) = Fixed(x) /\ Asked(b) = Asked(x) /\ Owned(b) = Owned(x)
          /\ b.reserve = a.reserve /\ b.verdict = "go"
      BY <2>6, <2>8, <3>1 DEF Framed, Owned, Copied, OnDevice
    <3>3. r \in b.waiting \cap DOMAIN b.host
      BY <2>6, <3>2
    <3>4. Sound(d, held) /\ Alike(b, d) /\ Keeping(b, d, held)
      BY <2>3, <3>1, <3>3, RestoredSound
    <3>5. /\ Fixed(d) = Fixed(x) /\ Asked(d) = Asked(x) /\ Owned(d) = Owned(x)
          /\ d.host = a.host /\ d.window = b.window /\ d.reserve = a.reserve
      BY <3>2, <3>1, <3>4 DEF Alike, Copied, Framed
    <3>6. Keeping(x, d, held)
      BY <3>2, <3>4 DEF Keeping
    <3>7. Cut(x, d)
      BY <2>6, <3>1, <3>5 DEF Cut, Shorter
    <3>8. Spared(x, d, x.reserve)
      BY <2>4, <2>5, <2>6, <2>8, <3>1, <3>5 DEF Spared
    <3>9. y = d /\ Split(d.window) /\ DOMAIN x.host \subseteq DOMAIN d.host
      BY <2>1, <2>6, <2>8, <3>1, <3>5
    <3> QED BY <3>4, <3>5, <3>6, <3>7, <3>8, <3>9 DEF Retrying
  <2> QED BY <2>7, <2>8
<1> QED BY <1>1, <1>2

-----------------------------------------------------------------------------
(* Preparation of the ready calls. *)

\* The place of a call in a list.
LEMMA OrderInIs ==
    ASSUME NEW c, IsInjective(c), NEW i \in DOMAIN c
    PROVE  OrderIn(c, c[i]) = i
BY DEF OrderIn, IsInjective

\* What follows in a list.
LEMMA AfterRange ==
    ASSUME NEW S, NEW c \in Seq(S), NEW k \in Nat
    PROVE  \A q : q \in Range(After(c, k)) <=> \E j \in DOMAIN c : j > k /\ c[j] = q
<1>1. /\ After(c, k) \in Seq(S)
      /\ \A i \in DOMAIN After(c, k) : i + k \in DOMAIN c /\ After(c, k)[i] = c[i + k]
      /\ \A i \in DOMAIN c : i > k => i - k \in DOMAIN After(c, k)
  BY AfterIs
<1> DEFINE d == After(c, k)
<1>2. ASSUME NEW i \in DOMAIN d PROVE i \in Nat \ {0}
  BY <1>1
<1>3. ASSUME NEW j \in DOMAIN c PROVE j \in Nat
  OBVIOUS
<1> HIDE DEF d
<1>4. ASSUME NEW q, q \in Range(d) PROVE \E j \in DOMAIN c : j > k /\ c[j] = q
  <2>1. PICK i \in DOMAIN d : d[i] = q
    BY <1>4 DEF Range
  <2>2. i + k \in DOMAIN c /\ c[i + k] = q /\ i + k > k
    BY <1>1, <1>2, <2>1 DEF d
  <2> QED BY <2>2
<1>5. ASSUME NEW q, NEW j \in DOMAIN c, j > k, c[j] = q PROVE q \in Range(d)
  <2>1. j - k \in DOMAIN d
    BY <1>1, <1>5 DEF d
  <2>2. d[j - k] = c[(j - k) + k] /\ (j - k) + k = j
    BY <1>1, <1>3, <2>1 DEF d
  <2> QED BY <1>5, <2>1, <2>2 DEF Range
<1> QED BY <1>4, <1>5 DEF d

\* Nothing changed but what the plan notes for itself.
Noted(x, y) ==
    /\ Fixed(y) = Fixed(x) /\ Owned(y) = Owned(x) /\ Copied(y) = Copied(x)
    /\ OnDevice(y) = OnDevice(x) /\ y.pins = x.pins /\ y.reserve = x.reserve
    /\ y.window = x.window

\* What holds of a pass does not depend on its notes of what is ready or barred.
LEMMA NotedSound ==
    ASSUME Setting, NEW x, NEW held, Sound(x, held), NEW y, Noted(x, y), Fields(y),
           y.verdict # "broken"
    PROVE  Sound(y, held)
<1>1. /\ y.waiting = x.waiting /\ y.batch = x.batch /\ y.admitted = x.admitted
      /\ y.extend = x.extend /\ y.host = x.host /\ y.hostUsed = x.hostUsed
      /\ y.kv = x.kv /\ y.cached = x.cached /\ y.lru = x.lru
  BY DEF Noted, Owned, Copied, OnDevice, Fixed
<1> QED BY <1>1 DEF Sound, Noted

\* A blocked call of the cohort blocks those after it.
Bars(x) ==
    \A i, j \in DOMAIN x.ready :
        (x.ready[i] \in x.blocked \cap Range(x.window.cohort) /\ i <= j) => x.ready[j] \in x.blocked

\* Of the first k ready calls, those that ran have their KV, or they are blocked.
Covered(x, k) ==
    \A i \in 1..k :
        x.ready[i] \in began \cap Range(x.window.cohort) =>
            x.ready[i] \in x.reserve \cup x.restored \cup x.blocked

\* The plan after k of the ready calls, which are c.
Loads(x, S) ==
    /\ x.restored \subseteq S
    /\ \A r \in x.restored : x.cached[r] = Computed(r)
Going(x, c, k) ==
    /\ Sound(x, x.restored) /\ x.admitted = {} /\ x.ready = c
    /\ Loads(x, {c[i] : i \in 1..k})
    /\ x.verdict = "go" => Split(x.window) /\ Bars(x) /\ Covered(x, k)

\* What it leaves of a plan.
Prepared(x, y) ==
    /\ Fixed(y) = Fixed(x) /\ Owned(y) = Owned(x) /\ DOMAIN x.host \subseteq DOMAIN y.host
    /\ y.verdict = "go" => Cut(x, y) /\ Spared(x, y, x.reserve)

\* One prepared call after another.
LEMMA PreparedThen ==
    ASSUME NEW x, NEW y, NEW z, Prepared(x, y), Prepared(y, z), y.verdict = "go"
    PROVE  Prepared(x, z)
<1>1. ASSUME z.verdict = "go" PROVE Cut(x, z) /\ Spared(x, z, x.reserve)
  <2>1. Range(z.window.cohort) \subseteq Range(y.window.cohort)
    BY <1>1, CutRange DEF Prepared, Cut
  <2>2. Cut(x, z)
    BY <1>1, CutThen DEF Prepared
  <2> QED BY <1>1, <2>1, <2>2 DEF Prepared, Spared
<1> QED BY <1>1 DEF Prepared

\* A shorter window blocks nobody new, and its reserves stay.
LEMMA CutCovers ==
    ASSUME NEW x, NEW y, NEW k, Cut(x, y), Spared(x, y, x.reserve), Asked(y) = Asked(x),
           Bars(x), Covered(x, k)
    PROVE  Bars(y) /\ Covered(y, k)
<1>1. y.ready = x.ready /\ y.blocked = x.blocked /\ y.restored = x.restored
  BY DEF Asked
<1>2. Range(y.window.cohort) \subseteq Range(x.window.cohort)
  BY CutRange DEF Cut
<1> QED BY <1>1, <1>2 DEF Bars, Covered, Spared

\* The next call is held, or it bars those after it.
LEMMA HoldOrBarSound ==
    ASSUME Setting, NEW x, x.verdict = "go", NEW c \in Seq(Calls), IsInjective(c), NEW k \in Nat,
           Going(x, c, k), k + 1 \in DOMAIN c, NEW r, r = c[k + 1], r \notin x.blocked,
           r \in x.waiting \cap DOMAIN x.host, NEW y, y = HoldOrBar(x, r)
    PROVE  Going(y, c, k + 1) /\ Prepared(x, y)
<1>1. /\ Sound(x, x.restored) /\ x.admitted = {} /\ x.ready = c
      /\ x.restored \subseteq {c[i] : i \in 1..k} /\ \A q \in x.restored : x.cached[q] = Computed(q)
      /\ Split(x.window) /\ Bars(x) /\ Covered(x, k)
  BY DEF Going, Loads
<1>2. Fields(x) /\ r \in Calls /\ x.host[r] = Computed(r)
  BY <1>1, PlacesAre DEF Sound, Copies
<1>3. \A i \in 1..(k + 1) : i \in 1..k \/ i = k + 1
  OBVIOUS
<1>4. DOMAIN c = 1..Len(c) /\ Len(c) \in Nat /\ k + 1 \in 1..Len(c)
  OBVIOUS
<1>5. r \notin x.restored
  <2>1. \A i \in 1..k : c[i] # r
    <3>1. \A i \in 1..k : i \in DOMAIN c /\ i # k + 1
      BY <1>4
    <3> QED BY <3>1 DEF IsInjective
  <2> QED BY <1>1, <2>1
<1>6. CASE IsRestored(x, r)
  <2> DEFINE more == x.restored \cup {r}
             l == Lock(x, r)
  <2>1. y = [l EXCEPT !.restored = @ \cup {r}]
    BY <1>6 DEF HoldOrBar, Hold
  <2>2. more = x.restored \cup {r} /\ l = Lock(x, r)
    OBVIOUS
  <2> HIDE DEF more, l
  <2>3. Sound(l, more) /\ Alike(x, l) /\ OnDevice(l) = OnDevice(x)
    BY <1>1, <1>2, <1>5, <2>2, LockSound
  <2>4. /\ Fields(y) /\ Noted(l, y) /\ y.verdict = l.verdict /\ y.ready = l.ready
        /\ y.blocked = l.blocked /\ y.restored = l.restored \cup {r}
    BY <2>1, <2>3 DEF Sound, Fields, Noted, Fixed, Owned, Copied, OnDevice
  <2>5. l.verdict = "go" /\ l.ready = c /\ l.blocked = x.blocked /\ l.restored = x.restored
        /\ l.window = x.window /\ l.reserve = x.reserve /\ l.admitted = {} /\ l.cached = x.cached
        /\ l.host = x.host
    BY <1>1, <2>3, AlikeIs DEF OnDevice
  <2>6. /\ y.verdict = "go" /\ y.ready = c /\ y.blocked = x.blocked /\ y.restored = more
        /\ y.window = x.window /\ y.reserve = x.reserve /\ y.admitted = {}
        /\ y.cached = x.cached /\ y.host = x.host
    BY <2>2, <2>4, <2>5 DEF Noted, Owned, OnDevice, Copied
  <2>7. Sound(y, y.restored)
    BY <2>3, <2>4, <2>6, NotedSound
  <2>8. Loads(y, {c[i] : i \in 1..(k + 1)})
    <3>1. \A i \in 1..k : i \in 1..(k + 1)
      OBVIOUS
    <3>2. k + 1 \in 1..(k + 1)
      OBVIOUS
    <3>3. \A q \in more : y.cached[q] = Computed(q)
      BY <1>1, <1>2, <1>6, <2>2, <2>6 DEF IsRestored
    <3> QED BY <1>1, <2>2, <2>6, <3>1, <3>2, <3>3 DEF Loads
  <2>9. Bars(y) /\ Covered(y, k + 1)
    BY <1>1, <1>3, <2>2, <2>6 DEF Bars, Covered
  <2>10. Prepared(x, y)
    <3>1. Fixed(y) = Fixed(x) /\ Owned(y) = Owned(x)
      BY <2>3, <2>4 DEF Alike, Noted
    <3> QED BY <2>6, <3>1, CutSame DEF Prepared, Spared
  <2> QED BY <1>1, <2>6, <2>7, <2>8, <2>9, <2>10 DEF Going
<1>7. CASE ~IsRestored(x, r) /\ x.batch = {} /\ r = Head(x.ready)
  <2>1. y = [x EXCEPT !.verdict = "capacity"]
    BY <1>7 DEF HoldOrBar, Raise
  <2>2. /\ Fields(y) /\ Noted(x, y) /\ y.verdict = "capacity" /\ Asked(y) = Asked(x)
    BY <1>2, <2>1 DEF Fields, Noted, Fixed, Owned, Copied, OnDevice, Asked
  <2>3. Sound(y, x.restored)
    BY <1>1, <2>2, NotedSound
  <2>4. y.restored = x.restored /\ y.ready = c /\ y.admitted = {} /\ y.cached = x.cached
        /\ y.host = x.host
    BY <1>1, <2>2 DEF Asked, Noted, Owned, OnDevice, Copied
  <2>5. Loads(y, {c[i] : i \in 1..(k + 1)})
    <3>1. \A i \in 1..k : i \in 1..(k + 1)
      OBVIOUS
    <3> QED BY <1>1, <2>4, <3>1 DEF Loads
  <2>6. Prepared(x, y)
    BY <2>2, <2>4 DEF Prepared, Noted
  <2> QED BY <2>2, <2>3, <2>4, <2>5, <2>6 DEF Going
<1>8. CASE ~IsRestored(x, r) /\ ~(x.batch = {} /\ r = Head(x.ready))
  <2> DEFINE rest == Range(After(c, k))
  <2>1. y = [x EXCEPT !.blocked = rest]
    <3>1. OrderIn(c, r) = k + 1 /\ (k + 1) - 1 = k
      BY OrderInIs
    <3>2. OrderIn(x.ready, r) - 1 = k
      BY <1>1, <3>1
    <3> QED BY <1>1, <1>8, <3>2 DEF HoldOrBar
  <2>2. \A q : q \in rest <=> \E j \in DOMAIN c : j > k /\ c[j] = q
    BY AfterRange
  <2> HIDE DEF rest
  <2>3. /\ Fields(y) /\ Noted(x, y) /\ y.verdict = x.verdict /\ y.ready = x.ready
        /\ y.blocked = rest /\ y.restored = x.restored
    BY <1>2, <2>1 DEF Fields, Noted, Fixed, Owned, Copied, OnDevice
  <2>4. y.restored = x.restored /\ y.ready = c /\ y.admitted = {} /\ y.cached = x.cached
        /\ y.host = x.host /\ y.window = x.window /\ y.reserve = x.reserve /\ y.verdict = "go"
    BY <1>1, <2>3 DEF Noted, Owned, OnDevice, Copied
  <2>5. Sound(y, y.restored)
    BY <1>1, <2>3, <2>4, NotedSound
  <2>6. Loads(y, {c[i] : i \in 1..(k + 1)})
    <3>1. \A i \in 1..k : i \in 1..(k + 1)
      OBVIOUS
    <3> QED BY <1>1, <2>4, <3>1 DEF Loads
  <2>7. Bars(y)
    <3> SUFFICES ASSUME NEW i \in DOMAIN c, NEW j \in DOMAIN c, c[i] \in rest, i <= j
                 PROVE  c[j] \in rest
      BY <2>3, <2>4 DEF Bars
    <3>1. PICK n \in DOMAIN c : n > k /\ c[n] = c[i]
      BY <2>2
    <3>2. n = i
      BY <3>1 DEF IsInjective
    <3>3. j > k
      BY <1>4, <3>1, <3>2
    <3> QED BY <2>2, <3>3
  <2>8. Covered(y, k + 1)
    <3> SUFFICES ASSUME NEW i \in 1..(k + 1), c[i] \in began \cap Range(x.window.cohort)
                 PROVE  c[i] \in x.reserve \cup x.restored \cup rest
      BY <2>3, <2>4 DEF Covered
    <3>1. CASE i = k + 1
      <4>1. k + 1 > k
        OBVIOUS
      <4> QED BY <2>2, <3>1, <4>1
    <3>2. CASE i \in 1..k
      <4>1. c[i] \in x.reserve \cup x.restored \cup x.blocked
        BY <1>1, <3>2 DEF Covered
      <4>2. i \in DOMAIN c /\ i <= k + 1
        BY <1>4, <3>2
      <4>3. c[i] \notin x.blocked
        BY <1>1, <4>2 DEF Bars
      <4> QED BY <4>1, <4>3
    <3> QED BY <1>3, <3>1, <3>2
  <2>9. Prepared(x, y)
    BY <2>3, <2>4, CutSame DEF Prepared, Noted, Spared
  <2> QED BY <1>1, <2>4, <2>5, <2>6, <2>7, <2>8, <2>9 DEF Going
<1> QED BY <1>6, <1>7, <1>8

\* One ready call.
LEMMA RestoreSound ==
    ASSUME Setting, NEW x, x.verdict = "go", NEW c \in Seq(Calls), IsInjective(c), NEW k \in Nat,
           Going(x, c, k), k + 1 \in DOMAIN c, NEW r, r = c[k + 1], r \notin x.blocked,
           r \in x.waiting \cap DOMAIN x.host, NEW y, y = Restore(x, r)
    PROVE  Going(y, c, k + 1) /\ Prepared(x, y)
<1> DEFINE held == x.restored
           a == Restored(x, r)
           b == Retried(a, r)
<1>1. y = IF b.verdict = "go" THEN HoldOrBar(b, r) ELSE b
  BY DEF Restore, Then
<1>2. /\ Sound(x, held) /\ x.admitted = {} /\ x.ready = c
      /\ held \subseteq {c[i] : i \in 1..k} /\ \A q \in held : x.cached[q] = Computed(q)
      /\ Split(x.window) /\ Bars(x) /\ Covered(x, k)
  BY DEF Going, Loads
<1>3. r \notin held
  <2>1. \A i \in 1..k : i \in DOMAIN c /\ i # k + 1
    <3>1. DOMAIN c = 1..Len(c) /\ Len(c) \in Nat /\ k + 1 \in 1..Len(c)
      OBVIOUS
    <3> QED BY <3>1
  <2>2. \A i \in 1..k : c[i] # r
    BY <2>1 DEF IsInjective
  <2> QED BY <1>2, <2>2
<1>4. a = Restored(x, r) /\ b = Retried(a, r)
  OBVIOUS
<1> HIDE DEF a, b
<1>5. Sound(a, held) /\ Alike(x, a) /\ Keeping(x, a, held)
  BY <1>2, <1>3, <1>4, RestoredSound
<1>6. /\ a.waiting = x.waiting /\ a.admitted = {} /\ a.host = x.host /\ a.window = x.window
      /\ a.reserve = x.reserve /\ a.verdict = "go" /\ Asked(a) = Asked(x) /\ Owned(a) = Owned(x)
      /\ Fixed(a) = Fixed(x)
  BY <1>2, <1>5, AlikeIs DEF Alike
<1>7. Sound(b, held) /\ Retrying(a, b, held)
  BY <1>2, <1>3, <1>4, <1>5, <1>6, RetriedSound
<1>8. /\ Fixed(b) = Fixed(x) /\ Asked(b) = Asked(x) /\ Owned(b) = Owned(x)
      /\ DOMAIN x.host \subseteq DOMAIN b.host
  BY <1>6, <1>7 DEF Retrying
<1>9. b.restored = held /\ b.ready = c /\ b.admitted = {} /\ b.blocked = x.blocked
      /\ b.waiting = x.waiting
  BY <1>2, <1>8 DEF Asked, Owned
<1>10. \A q \in held : b.cached[q] = Computed(q)
  <2>1. \A i \in 1..k : c[i] \in Calls
    <3>1. DOMAIN c = 1..Len(c) /\ Len(c) \in Nat /\ k + 1 \in 1..Len(c)
      OBVIOUS
    <3>2. \A i \in 1..k : i \in DOMAIN c
      BY <3>1
    <3> QED BY <3>2
  <2>2. \A q \in held : q \in Calls
    BY <1>2, <2>1
  <2> QED BY <1>2, <1>5, <1>7, <2>2 DEF Keeping, Retrying
<1>11. ASSUME b.verdict = "go"
       PROVE  Cut(x, b) /\ Spared(x, b, x.reserve) /\ Split(b.window) /\ Bars(b) /\ Covered(b, k)
  <2>1. Cut(x, b) /\ Spared(x, b, x.reserve) /\ Split(b.window)
    BY <1>6, <1>7, <1>11 DEF Retrying, Cut, Shorter, Spared
  <2> QED BY <1>2, <1>8, <2>1, CutCovers
<1>12. CASE b.verdict # "go"
  <2>1. Loads(b, {c[i] : i \in 1..(k + 1)})
    <3>1. \A i \in 1..k : i \in 1..(k + 1)
      OBVIOUS
    <3> QED BY <1>2, <1>9, <1>10, <3>1 DEF Loads
  <2> QED BY <1>1, <1>7, <1>8, <1>9, <1>12, <2>1 DEF Going, Prepared
<1>13. CASE b.verdict = "go"
  <2>1. Going(b, c, k)
    BY <1>2, <1>7, <1>9, <1>10, <1>11, <1>13 DEF Going, Loads
  <2>2. y = HoldOrBar(b, r) /\ r \notin b.blocked /\ r \in b.waiting \cap DOMAIN b.host
    BY <1>1, <1>8, <1>9, <1>13
  <2>3. Going(y, c, k + 1) /\ Prepared(b, y)
    BY <1>13, <2>1, <2>2, HoldOrBarSound
  <2>4. Prepared(x, b)
    BY <1>8, <1>11, <1>13 DEF Prepared
  <2> QED BY <1>13, <2>3, <2>4, PreparedThen
<1> QED BY <1>12, <1>13

\* A step of the loop over the ready calls: restored and locked, or barred with all after.
LEMMA PrepareCallSound ==
    ASSUME Setting, NEW x, x.verdict = "go", NEW c \in Seq(Calls), IsInjective(c), NEW k \in Nat,
           Going(x, c, k), k + 1 \in DOMAIN c, NEW r, r = c[k + 1], r \in x.waiting,
           NEW y, y = PrepareCall(x, r)
    PROVE  Going(y, c, k + 1) /\ Prepared(x, y)
<1>1. /\ Sound(x, x.restored) /\ x.admitted = {} /\ x.ready = c
      /\ x.restored \subseteq {c[i] : i \in 1..k} /\ \A q \in x.restored : x.cached[q] = Computed(q)
      /\ Split(x.window) /\ Bars(x) /\ Covered(x, k)
  BY DEF Going, Loads
<1>2. \A i \in 1..(k + 1) : i \in 1..k \/ i = k + 1
  OBVIOUS
<1>3. Loads(x, {c[i] : i \in 1..(k + 1)})
  <2>1. \A i \in 1..k : i \in 1..(k + 1)
    OBVIOUS
  <2> QED BY <1>1, <2>1 DEF Loads
<1>4. Prepared(x, x)
  BY CutSame DEF Prepared, Spared
<1>5. CASE r \in x.blocked
  <2>1. y = x
    BY <1>5 DEF PrepareCall
  <2>2. Covered(x, k + 1)
    BY <1>1, <1>2, <1>5 DEF Covered
  <2> QED BY <1>1, <1>3, <1>4, <2>1, <2>2 DEF Going
<1>6. CASE r \notin x.blocked /\ r \notin Range(x.window.cohort)
  <2>1. y = [x EXCEPT !.blocked = @ \cup {r}]
    BY <1>6 DEF PrepareCall
  <2>2. /\ Fields(y) /\ Noted(x, y) /\ y.verdict = x.verdict /\ y.ready = x.ready
        /\ y.blocked = x.blocked \cup {r} /\ y.restored = x.restored
    BY ZenonT(40), <1>1, <2>1 DEF Sound, Fields, Noted, Fixed, Owned, Copied, OnDevice
  <2>3. y.restored = x.restored /\ y.ready = c /\ y.admitted = {} /\ y.cached = x.cached
        /\ y.host = x.host /\ y.window = x.window /\ y.reserve = x.reserve /\ y.verdict = "go"
    BY <1>1, <2>2 DEF Noted, Owned, OnDevice, Copied
  <2>4. Sound(y, y.restored)
    BY <1>1, <2>2, <2>3, NotedSound
  <2>5. Bars(y)
    BY <1>1, <1>6, <2>2, <2>3 DEF Bars
  <2>6. Covered(y, k + 1)
    BY <1>1, <1>2, <1>6, <2>2, <2>3 DEF Covered
  <2>7. Loads(y, {c[i] : i \in 1..(k + 1)})
    BY <1>3, <2>3 DEF Loads
  <2>8. Prepared(x, y)
    BY <2>2, <2>3, CutSame DEF Prepared, Noted, Spared
  <2> QED BY <1>1, <2>3, <2>4, <2>5, <2>6, <2>7, <2>8 DEF Going
<1>7. CASE r \notin x.blocked /\ r \in Range(x.window.cohort) /\ r \in DOMAIN x.host
  <2>1. y = Restore(x, r)
    BY <1>7 DEF PrepareCall
  <2> QED BY <1>7, <2>1, RestoreSound
<1>8. CASE r \notin x.blocked /\ r \in Range(x.window.cohort) /\ r \notin DOMAIN x.host
  <2>1. y = x
    BY <1>8 DEF PrepareCall
  <2>2. r \in began => r \in x.reserve
    BY <1>1, <1>8 DEF Sound, Remembered
  <2>3. Covered(x, k + 1)
    BY <1>1, <1>2, <2>2 DEF Covered
  <2> QED BY <1>1, <1>3, <1>4, <2>1, <2>3 DEF Going
<1> QED BY <1>5, <1>6, <1>7, <1>8

\* All ready calls.
LEMMA PreparingSound ==
    ASSUME Setting, NEW x, NEW c \in Seq(Calls), IsInjective(c), Range(c) \subseteq x.waiting,
           Going(x, c, 0), NEW y, y = Preparing(x)
    PROVE  Going(y, c, Len(c)) /\ Prepared(x, y)
<1> DEFINE m == Len(c)
<1>1. m \in Nat /\ DOMAIN c = 1..m /\ x.ready = c
  BY DEF Going
<1>2. PICK v : Visits(v, x, y, c, m, "prepare", 0)
  BY <1>1, PrepareVisits
<1> HIDE DEF m
<1>3. v[0] = x /\ v[m] = y /\ \A k \in 0..(m - 1) : v[k + 1] = Step(v[k], "prepare", 0, c[k + 1])
  BY <1>2 DEF Visits
<1> DEFINE Good(k) == Going(v[k], c, k) /\ Prepared(x, v[k])
<1>4. Good(0)
  <2>1. Prepared(x, x)
    BY CutSame DEF Prepared, Spared
  <2> QED BY <1>3, <2>1
<1>5. ASSUME NEW k \in 0..(m - 1), Good(k) PROVE Good(k + 1)
  <2> DEFINE r == c[k + 1]
             z == v[k]
             w == v[k + 1]
  <2>1. k \in Nat /\ k + 1 \in DOMAIN c /\ r \in x.waiting
    BY <1>1 DEF Range
  <2>2. w = IF z.verdict = "go" THEN PrepareCall(z, r) ELSE z
    BY <1>3 DEF Step, Body
  <2>3. Going(z, c, k) /\ Prepared(x, z)
    BY <1>5
  <2>4. CASE z.verdict # "go"
    <3>1. w = z
      BY <2>2, <2>4
    <3>2. \A i \in 1..k : i \in 1..(k + 1)
      BY <2>1
    <3>3. Going(z, c, k + 1)
      BY <2>3, <2>4, <3>2 DEF Going, Loads
    <3> QED BY <2>3, <3>1, <3>3
  <2>5. CASE z.verdict = "go"
    <3>1. w = PrepareCall(z, r)
      BY <2>2, <2>5
    <3>2. z.waiting = x.waiting
      BY <2>3 DEF Prepared, Owned
    <3>3. r = c[k + 1] /\ r \in z.waiting
      BY <2>1, <3>2
    <3> HIDE DEF r, z, w
    <3>4. Going(w, c, k + 1) /\ Prepared(z, w)
      BY <2>1, <2>3, <2>5, <3>1, <3>3, PrepareCallSound
    <3>5. Prepared(x, w)
      BY <2>3, <2>5, <3>4, PreparedThen
    <3> QED BY <3>4, <3>5 DEF w
  <2> QED BY <2>4, <2>5
<1>6. \A k \in 0..m : Good(k)
  <2> DEFINE Ok == {k \in 0..m : Good(k)}
  <2> HIDE DEF Good
  <2>1. 0 \in Ok /\ \A k \in 0..(m - 1) : k \in Ok => k + 1 \in Ok
    BY <1>1, <1>4, <1>5
  <2> HIDE DEF Ok
  <2>2. \A k \in 0..m : k \in Ok
    BY <1>1, <2>1, KeptToTheEnd
  <2> QED BY <2>2 DEF Ok
<1>7. Good(m)
  BY <1>1, <1>6
<1> QED BY <1>3, <1>7 DEF m

-----------------------------------------------------------------------------
(* SGLang's own admission. *)

\* A call that enters takes a lock and its slots.
TakesPlace(x, y, r) ==
    /\ Fixed(y) = Fixed(x) /\ Asked(y) = Asked(x) /\ Copied(y) = Copied(x)
    /\ y.window = x.window /\ y.reserve = x.reserve /\ y.verdict = x.verdict
    /\ y.batch = x.batch /\ y.cached = x.cached
    /\ y.waiting = x.waiting \ {r} /\ y.admitted = x.admitted \cup {r}
    /\ y.pins = [x.pins EXCEPT ![r] = @ + 1] /\ y.kv = [x.kv EXCEPT ![r] = tok[r]]

\* A call that enters takes its lock and its slots, and computes what it lacks.
LEMMA EnterSound ==
    ASSUME Setting, NEW x, NEW held, Sound(x, held), NEW r \in x.waiting,
           r \in began => x.cached[r] = Computed(r), NEW y, y = Enter(x, r)
    PROVE  Sound(y, held) /\ TakesPlace(x, y, r)
<1>1. /\ Fields(x) /\ Pool(x.kv, x.cached, x.pins) /\ Parted(x.waiting, x.batch, x.admitted)
      /\ x.reserve \subseteq x.waiting \cup x.admitted
      /\ Locked(x.pins, x.reserve, x.batch \cup x.admitted, held)
      /\ Copies(x.host, x.hostUsed, x.waiting \cup x.admitted)
      /\ Computes(x.kv, x.cached, x.waiting, x.batch, x.reserve)
      /\ Remembered(x.waiting, x.reserve, x.host)
      /\ Finds(x.admitted, x.extend) /\ Filled(x.admitted, x.kv)
  BY DEF Sound
<1>2. /\ r \in Calls /\ tok[r] \in Nat \ {0} /\ r \notin x.batch /\ r \notin x.admitted
      /\ x.cached[r] <= Computed(r) /\ x.cached[r] \in Nat
      /\ x.waiting \subseteq Calls /\ x.batch \subseteq Calls /\ x.admitted \subseteq Calls
  BY <1>1, PlacesAre DEF Setting, Parted, Computes, Pool
<1>3. /\ Fields(y) /\ Fixed(y) = Fixed(x) /\ Asked(y) = Asked(x) /\ Copied(y) = Copied(x)
      /\ y.window = x.window /\ y.reserve = x.reserve /\ y.verdict = x.verdict
      /\ y.batch = x.batch /\ y.cached = x.cached
      /\ y.waiting = x.waiting \ {r} /\ y.admitted = x.admitted \cup {r}
      /\ y.pins = [x.pins EXCEPT ![r] = @ + 1] /\ y.kv = [x.kv EXCEPT ![r] = tok[r]]
      /\ y.extend = Put(x.extend, r, tok[r] - x.cached[r])
      /\ y.lru = x.lru /\ y.host = x.host /\ y.hostUsed = x.hostUsed
  BY <1>1 DEF Enter, Lock, Fields, Fixed, Asked, Copied
<1>4. y.kv[r] = tok[r] /\ \A q \in Calls : q # r => y.kv[q] = x.kv[q]
  BY <1>1, <1>2, <1>3 DEF Pool
<1>5. Pool(y.kv, y.cached, y.pins)
  <2>1. x.cached[r] <= tok[r]
    BY <1>2 DEF Computed
  <2> QED BY <1>1, <1>2, <1>3, <1>4, <2>1 DEF Pool
<1>6. Parted(y.waiting, y.batch, y.admitted)
  BY <1>1, <1>2, <1>3 DEF Parted
<1>7. Locked(y.pins, y.reserve, y.batch \cup y.admitted, held)
  <2> DEFINE run == x.batch \cup x.admitted
             more == y.batch \cup y.admitted
  <2>1. more = run \cup {r} /\ r \notin run
    BY <1>2, <1>3
  <2> HIDE DEF more
  <2> SUFFICES ASSUME NEW s \in Calls
               PROVE  y.pins[s] = One(s, x.reserve) + One(s, more) + One(s, held)
    BY <1>3 DEF Locked, more
  <2>2. x.pins[s] = One(s, x.reserve) + One(s, run) + One(s, held)
    BY <1>1 DEF Locked
  <2> HIDE DEF run
  <2>3. One(s, x.reserve) \in {0, 1} /\ One(s, held) \in {0, 1}
    BY DEF One
  <2>4. CASE s = r
    <3>1. One(s, run) = 0 /\ One(s, more) = 1
      BY <2>1, <2>4 DEF One
    <3>2. y.pins[s] = x.pins[s] + 1
      BY <1>1, <1>3, <2>4 DEF Pool
    <3> QED BY <2>2, <2>3, <3>1, <3>2
  <2>5. CASE s # r
    <3>1. One(s, run) = One(s, more)
      BY <2>1, <2>5 DEF One
    <3>2. y.pins[s] = x.pins[s]
      BY <1>1, <1>3, <2>5 DEF Pool
    <3> QED BY <2>2, <3>1, <3>2
  <2> QED BY <2>4, <2>5
<1>8. y.waiting \cup y.admitted = x.waiting \cup x.admitted
  BY <1>3
<1>9. Computes(y.kv, y.cached, y.waiting, y.batch, y.reserve)
  <2>1. r \in Range(order)
    BY <1>1 DEF Parted
  <2> QED BY <1>1, <1>2, <1>3, <1>4, <2>1 DEF Computes
<1>10. Remembered(y.waiting, y.reserve, y.host)
  BY <1>1, <1>3 DEF Remembered
<1>11. Finds(y.admitted, y.extend)
  <2>1. DOMAIN y.extend = DOMAIN x.extend \cup {r} /\ y.extend[r] = tok[r] - x.cached[r]
        /\ \A s \in DOMAIN x.extend : s # r => y.extend[s] = x.extend[s]
    BY <1>3 DEF Put
  <2>2. r \in began => y.extend[r] = 1
    BY <1>2, <2>1 DEF Computed
  <2>3. ASSUME NEW s \in x.admitted \cap began PROVE s \in DOMAIN y.extend /\ y.extend[s] = 1
    <3>1. s \in DOMAIN x.extend /\ x.extend[s] = 1 /\ s # r
      BY <1>1, <1>2, <2>3 DEF Finds
    <3> QED BY <2>1, <3>1
  <2> QED BY <1>3, <2>1, <2>2, <2>3 DEF Finds
<1>12. Filled(y.admitted, y.kv)
  BY <1>1, <1>2, <1>3, <1>4 DEF Filled
<1>13. Sound(y, held)
  BY <1>1, <1>3, <1>5, <1>6, <1>7, <1>8, <1>9, <1>10, <1>11, <1>12 DEF Sound
<1> QED BY <1>3, <1>13 DEF TakesPlace

\* Native admission leaves a token for each call of the batch.
LEMMA EnterRoom ==
    ASSUME Setting, NEW x, NEW held, Sound(x, held), NEW r \in x.waiting,
           r \in began => x.cached[r] = Computed(r), Fits(x, r), NEW y, y = Enter(x, r)
    PROVE  Cardinality(y.batch \cup y.admitted) <= Avail(y)
<1> DEFINE l == Lock(x, r)
           all == y.batch \cup y.admitted
<1>1. /\ Sound(y, held) /\ y.batch = x.batch /\ y.cached = x.cached
      /\ y.admitted = x.admitted \cup {r}
      /\ y.pins = [x.pins EXCEPT ![r] = @ + 1] /\ y.kv = [x.kv EXCEPT ![r] = tok[r]]
  BY EnterSound DEF TakesPlace
<1>2. all = x.batch \cup x.admitted \cup {r}
  BY <1>1
<1>3. tok[r] - x.kv[r] + Cardinality(all) <= Avail(l)
  BY <1>2 DEF Fits, Avail
<1>4. /\ l.kv = x.kv /\ l.cached = x.cached /\ l.pins = [x.pins EXCEPT ![r] = @ + 1]
  BY DEF Lock, Sound, Fields
<1>5. r \in Calls /\ all \subseteq Calls
  BY <1>1, PlacesAre
<1>6. Cardinality(all) \in Nat
  BY <1>5, FS_Subset, FS_CardinalityType DEF Setting
<1>7. Pool(l.kv, l.cached, l.pins) /\ Pool(y.kv, y.cached, y.pins)
  BY <1>1, <1>4 DEF Sound, Pool
<1> HIDE DEF l, all
<1>8. /\ Counts(l.kv, Calls) /\ Free(l) = Slots - Total(l.kv, Calls)
      /\ Unlocked(l) = {q \in Calls : l.pins[q] = 0} /\ Evictable(l) = Total(l.cached, Unlocked(l))
      /\ Free(l) \in Int /\ Evictable(l) \in Nat
  BY <1>7, FreeIs
<1>9. /\ Counts(y.kv, Calls) /\ Free(y) = Slots - Total(y.kv, Calls)
      /\ Unlocked(y) = {q \in Calls : y.pins[q] = 0} /\ Evictable(y) = Total(y.cached, Unlocked(y))
      /\ Free(y) \in Int /\ Evictable(y) \in Nat
  BY <1>7, FreeIs
<1>10. Evictable(y) = Evictable(l)
  <2>1. Unlocked(y) = Unlocked(l) /\ y.cached = l.cached
    BY <1>1, <1>4, <1>8, <1>9
  <2> QED BY <1>8, <1>9, <2>1
<1>11. Total(y.kv, Calls) = Total(l.kv, Calls) - l.kv[r] + y.kv[r]
  <2>1. \A q \in Calls : q # r => y.kv[q] = l.kv[q]
    BY <1>1, <1>4, <1>7 DEF Pool
  <2> QED BY <1>5, <1>8, <1>9, <2>1, TotalChanges
<1>12. l.kv[r] = x.kv[r] /\ y.kv[r] = tok[r] /\ x.kv[r] \in Nat /\ tok[r] \in Nat
  BY <1>1, <1>4, <1>5, <1>7 DEF Pool, Setting
<1>13. Total(y.kv, Calls) \in Nat /\ Total(l.kv, Calls) \in Nat
  BY <1>8, <1>9, TotalType
<1>14. Free(y) = Free(l) - (tok[r] - x.kv[r])
  BY <1>8, <1>9, <1>11, <1>12, <1>13, PoolAssumption
<1>15. Avail(y) = Avail(l) - (tok[r] - x.kv[r])
  BY <1>8, <1>10, <1>12, <1>14 DEF Avail
<1>16. Avail(l) \in Int
  BY <1>8 DEF Avail
<1>17. Cardinality(all) <= Avail(y)
  BY <1>3, <1>6, <1>12, <1>15, <1>16
<1> QED BY <1>17 DEF all

\* The calls of a list up to a place.
UpToPlace(c, n) == {c[i] : i \in 1..n}

\* Native admission after k calls of the queue, which is c: those before the first that
\* did not fit.
Entered(x, z, held, c, k) ==
    /\ Sound(z, held) /\ Fixed(z) = Fixed(x) /\ Copied(z) = Copied(x)
    /\ z.batch = x.batch /\ z.window = x.window /\ z.reserve = x.reserve
    /\ z.verdict = x.verdict /\ z.cached = x.cached
    /\ z.ready = x.ready /\ z.blocked = x.blocked /\ z.restored = x.restored
    /\ z.waiting = x.waiting \ z.admitted
    /\ \E n \in 0..k : z.admitted = UpToPlace(c, n) /\ (~z.full => n = k)
    /\ z.admitted # {} => Cardinality(z.batch \cup z.admitted) <= Avail(z)

\* A step of native admission: after the first call that does not fit nobody enters.
LEMMA EnterOneSound ==
    ASSUME Setting, NEW x, NEW held, NEW c, IsInjective(c), NEW m \in Nat, DOMAIN c = 1..m,
           Range(c) \subseteq x.waiting, \A r \in Range(c) \cap began : x.cached[r] = Computed(r),
           NEW k \in 0..(m - 1), NEW z, Entered(x, z, held, c, k),
           NEW w, w = EnterOne(z, c[k + 1])
    PROVE  Entered(x, w, held, c, k + 1)
<1> DEFINE r == c[k + 1]
<1>1. PICK n \in 0..k : z.admitted = UpToPlace(c, n) /\ (~z.full => n = k)
  BY DEF Entered
<1>2. r \in Range(c) /\ k + 1 \in DOMAIN c /\ k \in Nat
  BY DEF Range
<1>3. r \notin z.admitted
  <2>1. \A i \in 1..n : i \in DOMAIN c /\ i # k + 1
    OBVIOUS
  <2>2. \A i \in 1..n : c[i] # r
    BY <1>2, <2>1 DEF IsInjective
  <2> QED BY <1>1, <2>2 DEF UpToPlace
<1> HIDE DEF r
<1>4. r \in z.waiting /\ (r \in began => z.cached[r] = Computed(r))
  BY <1>2, <1>3 DEF Entered
<1>5. w = IF ~z.full /\ Fits(z, r) THEN Enter(z, r) ELSE [z EXCEPT !.full = TRUE]
  BY DEF EnterOne, r
<1>6. CASE ~z.full /\ Fits(z, r)
  <2>1. w = Enter(z, r) /\ Sound(z, held)
    BY <1>5, <1>6 DEF Entered
  <2>2. /\ Sound(w, held) /\ Fixed(w) = Fixed(z) /\ Asked(w) = Asked(z) /\ Copied(w) = Copied(z)
        /\ w.window = z.window /\ w.reserve = z.reserve /\ w.verdict = z.verdict
        /\ w.batch = z.batch /\ w.cached = z.cached
        /\ w.waiting = z.waiting \ {r} /\ w.admitted = z.admitted \cup {r}
    <3>1. Sound(w, held) /\ TakesPlace(z, w, r)
      BY <1>4, <2>1, EnterSound
    <3> QED BY <3>1 DEF TakesPlace
  <2>3. Cardinality(w.batch \cup w.admitted) <= Avail(w)
    BY <1>4, <1>6, <2>1, EnterRoom
  <2>4. w.admitted = UpToPlace(c, k + 1)
    <3>1. \A i \in 1..(k + 1) : i \in 1..k \/ i = k + 1
      BY <1>2
    <3>2. \A i \in 1..k : i \in 1..(k + 1)
      BY <1>2
    <3>3. k + 1 \in 1..(k + 1)
      BY <1>2
    <3>4. z.admitted = UpToPlace(c, k)
      BY <1>1, <1>6
    <3> QED BY <2>2, <3>1, <3>2, <3>3, <3>4 DEF UpToPlace, r
  <2>5. k + 1 \in 0..(k + 1)
    BY <1>2
  <2>6. w.ready = z.ready /\ w.blocked = z.blocked /\ w.restored = z.restored
    BY <2>2 DEF Asked
  <2>7. w.waiting = x.waiting \ w.admitted
    BY <2>2 DEF Entered
  <2> QED BY <2>2, <2>3, <2>4, <2>5, <2>6, <2>7 DEF Entered
<1>7. CASE ~(~z.full /\ Fits(z, r))
  <2>1. w = [z EXCEPT !.full = TRUE] /\ Sound(z, held)
    BY <1>5, <1>7 DEF Entered
  <2>2. /\ Fields(w) /\ Noted(z, w) /\ w.verdict = z.verdict /\ w.ready = z.ready
        /\ w.blocked = z.blocked /\ w.restored = z.restored /\ w.full = TRUE
    BY ZenonT(40), <2>1 DEF Sound, Fields, Noted, Fixed, Owned, Copied, OnDevice
  <2>3. Sound(w, held)
    BY <2>1, <2>2, NotedSound DEF Sound
  <2>4. w.waiting = z.waiting /\ w.batch = z.batch /\ w.admitted = z.admitted /\ w.cached = z.cached
    BY <2>2 DEF Noted, Owned, OnDevice
  <2>5. Avail(w) = Avail(z)
    BY <2>2, FreeSame DEF Noted
  <2>6. n \in 0..(k + 1)
    BY <1>2
  <2> QED BY <1>1, <2>2, <2>3, <2>4, <2>5, <2>6 DEF Entered, Noted
<1> QED BY <1>6, <1>7

\* Of the calls of Q, those of S come first in c.
Leads(S, c, Q) ==
    /\ S \subseteq Q \cap Range(c)
    /\ \A i, j \in DOMAIN c : (i < j /\ c[j] \in S /\ c[i] \in Q) => c[i] \in S

\* The first calls of a filtered cohort are ahead of the others that were asked.
LEMMA UpToLeads ==
    ASSUME NEW c, Lined(c), NEW Q, NEW a, a = Among(c, Q), NEW m \in Nat, DOMAIN a = 1..m,
           NEW n \in 0..m, NEW S, S = UpToPlace(a, n)
    PROVE  Leads(S, c, Q)
<1>1. /\ Range(a) = Range(c) \cap Q /\ IsInjective(a)
      /\ \A p, q \in Q : Precedes(c, p, q) => Precedes(a, p, q)
  BY AmongIs DEF Lined
<1>2. \A t \in 1..n : t \in DOMAIN a
  OBVIOUS
<1>3. S \subseteq Q \cap Range(c)
  BY <1>1, <1>2 DEF UpToPlace, Range
<1>4. ASSUME NEW i \in DOMAIN c, NEW j \in DOMAIN c, i < j, c[j] \in S, c[i] \in Q
      PROVE  c[i] \in S
  <2>1. Precedes(a, c[i], c[j])
    BY <1>1, <1>3, <1>4 DEF Precedes
  <2>2. PICK p, q \in DOMAIN a : p < q /\ a[p] = c[i] /\ a[q] = c[j]
    BY <2>1 DEF Precedes
  <2>3. PICK t \in 1..n : c[j] = a[t]
    BY <1>4 DEF UpToPlace
  <2>4. q = t
    BY <1>1, <1>2, <2>2, <2>3 DEF IsInjective
  <2>5. p \in 1..n
    BY <2>2, <2>4
  <2> QED BY <2>2, <2>5 DEF UpToPlace
<1> QED BY <1>3, <1>4 DEF Leads

\* What native admission of a queue does to a plan that admitted nobody yet.
Native(x, y, queue) ==
    /\ Fixed(y) = Fixed(x) /\ Copied(y) = Copied(x)
    /\ y.batch = x.batch /\ y.window = x.window /\ y.reserve = x.reserve
    /\ y.verdict = x.verdict
    /\ y.ready = x.ready /\ y.blocked = x.blocked /\ y.restored = x.restored
    /\ y.waiting = x.waiting \ y.admitted
    /\ Leads(y.admitted, x.window.cohort, queue)
    /\ y.admitted # {} => Cardinality(y.batch \cup y.admitted) <= Avail(y)
    /\ Keeping(x, y, x.reserve \cup x.restored)

\* The calls of a queue that ran have all their KV.
Whole(x, queue) == \A r \in queue \cap began : x.cached[r] = Computed(r)

\* SGLang's own prefill admission.
LEMMA NativePrefillSound ==
    ASSUME Setting, NEW x, NEW held, held = x.restored, Sound(x, held), x.admitted = {},
           NEW queue, queue \subseteq x.waiting, Whole(x, queue),
           NEW y, y = NativePrefill(x, queue)
    PROVE  Sound(y, held) /\ Native(x, y, queue)
<1> DEFINE c == Among(x.window.cohort, queue)
           m == Len(c)
           e == Entering(x, queue)
           x0 == [x EXCEPT !.full = FALSE]
<1>1. /\ c \in Seq(Range(x.window.cohort) \cap queue) /\ IsInjective(c)
      /\ Range(c) = Range(x.window.cohort) \cap queue
  BY AmongIs DEF Sound, Lined
<1>2. m \in Nat /\ DOMAIN c = 1..m /\ c = Among(x.window.cohort, queue)
  BY <1>1
<1>3. y = MakeFree(e, 0)
  BY DEF NativePrefill, Entering, EnterOne
<1>4. PICK v : Visits(v, x0, e, c, m, "enter", 0)
  BY <1>2, EnterVisits
<1>5. x0 = [x EXCEPT !.full = FALSE]
  OBVIOUS
<1> HIDE DEF c, m, e, x0
<1>6. v[0] = x0 /\ v[m] = e /\ \A k \in 0..(m - 1) : v[k + 1] = Step(v[k], "enter", 0, c[k + 1])
  BY <1>4 DEF Visits
<1>7. Range(c) \subseteq x.waiting /\ \A r \in Range(c) \cap began : x.cached[r] = Computed(r)
  BY <1>1 DEF Whole
<1> DEFINE Good(k) == Entered(x, v[k], held, c, k)
<1>8. Good(0)
  <2>1. /\ Fields(x0) /\ Noted(x, x0) /\ x0.verdict = x.verdict /\ x0.ready = x.ready
        /\ x0.blocked = x.blocked /\ x0.restored = x.restored
    BY <1>5 DEF Sound, Fields, Noted, Fixed, Owned, Copied, OnDevice
  <2>2. Sound(x0, held)
    BY <2>1, NotedSound DEF Sound
  <2>3. x0.waiting = x.waiting /\ x0.batch = x.batch /\ x0.admitted = {} /\ x0.cached = x.cached
    BY <2>1 DEF Noted, Owned, OnDevice
  <2>4. UpToPlace(c, 0) = {} /\ 0 \in 0..0
    BY DEF UpToPlace
  <2> QED BY <1>6, <2>1, <2>2, <2>3, <2>4 DEF Entered, Noted
<1>9. ASSUME NEW k \in 0..(m - 1), Good(k) PROVE Good(k + 1)
  <2> DEFINE z == v[k]
             w == v[k + 1]
  <2>1. w = EnterOne(z, c[k + 1])
    BY <1>6 DEF Step
  <2>2. Entered(x, z, held, c, k)
    BY <1>9
  <2> HIDE DEF z, w
  <2>3. Entered(x, w, held, c, k + 1)
    BY <1>1, <1>2, <1>7, <2>1, <2>2, EnterOneSound
  <2> QED BY <2>3 DEF w
<1>10. \A k \in 0..m : Good(k)
  <2> DEFINE Ok == {k \in 0..m : Good(k)}
  <2> HIDE DEF Good
  <2>1. 0 \in Ok /\ \A k \in 0..(m - 1) : k \in Ok => k + 1 \in Ok
    BY <1>2, <1>8, <1>9
  <2> HIDE DEF Ok
  <2>2. \A k \in 0..m : k \in Ok
    BY <1>2, <2>1, KeptToTheEnd
  <2> QED BY <2>2 DEF Ok
<1>11. Entered(x, e, held, c, m)
  BY <1>2, <1>6, <1>10
<1>12. Sound(e, held)
  BY <1>11 DEF Entered
<1>13. Sound(y, held) /\ Evicted(e, y)
  BY <1>3, <1>12, MakeFreeSound
<1>14. Alike(e, y) /\ Avail(y) = Avail(e)
  BY <1>12, <1>13, EvictedKeeps DEF Evicted
<1>15. /\ y.waiting = e.waiting /\ y.batch = e.batch /\ y.admitted = e.admitted
       /\ y.ready = e.ready /\ y.blocked = e.blocked /\ y.restored = e.restored
       /\ y.reserve = e.reserve /\ y.window = e.window /\ y.verdict = e.verdict
       /\ Fixed(y) = Fixed(e) /\ Copied(y) = Copied(e)
  BY <1>14, AlikeIs DEF Alike
<1>16. /\ Fixed(e) = Fixed(x) /\ Copied(e) = Copied(x)
       /\ e.batch = x.batch /\ e.window = x.window /\ e.reserve = x.reserve
       /\ e.verdict = x.verdict /\ e.cached = x.cached
       /\ e.ready = x.ready /\ e.blocked = x.blocked /\ e.restored = x.restored
       /\ e.waiting = x.waiting \ e.admitted
       /\ e.admitted # {} => Cardinality(e.batch \cup e.admitted) <= Avail(e)
  BY <1>11 DEF Entered
<1>17. Leads(e.admitted, x.window.cohort, queue)
  <2>1. PICK n \in 0..m : e.admitted = UpToPlace(c, n)
    BY <1>11 DEF Entered
  <2>2. Lined(x.window.cohort)
    BY DEF Sound
  <2> QED BY <1>2, <2>1, <2>2, UpToLeads
<1>18. Keeping(x, y, x.reserve \cup x.restored)
  <2>1. Keeping(e, y, held)
    BY <1>12, <1>13, EvictedKeeps
  <2>2. \A r \in e.reserve \cap Calls : y.cached[r] = e.cached[r]
    <3>1. \A r \in e.reserve : e.cached[r] = Computed(r)
      BY <1>12 DEF Sound, Computes
    <3>2. \A r \in y.reserve : y.cached[r] = Computed(r)
      BY <1>13 DEF Sound, Computes
    <3> QED BY <1>15, <3>1, <3>2
  <2> QED BY <1>16, <2>1, <2>2 DEF Keeping
<1> QED BY <1>13, <1>14, <1>15, <1>16, <1>17, <1>18 DEF Native

\* What admission leaves of a plan that admitted nobody yet.
Admits(x, y, queue) ==
    /\ Fixed(y) = Fixed(x) /\ y.batch = x.batch /\ DOMAIN x.host \subseteq DOMAIN y.host
    /\ y.ready = x.ready /\ y.blocked = x.blocked /\ y.restored = x.restored
    /\ y.waiting = x.waiting \ y.admitted
    /\ y.verdict = "go" =>
        /\ Cut(x, y) /\ Split(y.window) /\ Spared(x, y, x.window.reserve)
        /\ Leads(y.admitted, y.window.cohort, queue)
        /\ y.admitted # {} => Cardinality(y.batch \cup y.admitted) <= Avail(y)

\* Nobody entered: the reserves are given up, and it is tried again.
LEMMA AgainSound ==
    ASSUME Setting, NEW x, NEW held, held = x.restored, Sound(x, held), x.verdict = "go",
           x.admitted = {}, Split(x.window), NEW queue, queue \subseteq x.waiting, Whole(x, queue),
           NEW a, a = ReleaseReserves(x, x.reserve), NEW b, b = Dropped(a),
           NEW part, part = InCohort(b, queue), NEW d, d = NativePrefill(b, part),
           NEW y, y = IF a.verdict = "go" THEN d ELSE a
    PROVE  Sound(y, held) /\ Admits(x, y, queue)
<1>1. x.reserve \subseteq x.reserve \cap x.waiting
  BY DEF Sound
<1>2. Sound(a, held) /\ Released(x, a)
  BY <1>1, ReleaseReservesSound
<1>3. /\ Fixed(a) = Fixed(x) /\ Asked(a) = Asked(x) /\ Owned(a) = Owned(x)
      /\ a.cached = x.cached /\ a.window = x.window /\ DOMAIN x.host \subseteq DOMAIN a.host
  BY <1>2 DEF Released, OnDevice
<1>4. /\ a.ready = x.ready /\ a.blocked = x.blocked /\ a.restored = x.restored
      /\ a.waiting = x.waiting /\ a.batch = x.batch /\ a.admitted = {}
  BY <1>3 DEF Asked, Owned
<1>5. CASE a.verdict # "go"
  BY <1>2, <1>3, <1>4, <1>5 DEF Admits
<1>6. CASE a.verdict = "go"
  <2>1. /\ Sound(b, held) /\ Framed(a, b) /\ Cut(a, b) /\ Split(b.window)
        /\ a.window.reserve \cap Range(b.window.cohort) = {}
    BY <1>2, <1>3, DroppedSound
  <2>2. /\ b.ready = x.ready /\ b.blocked = x.blocked /\ b.restored = x.restored
        /\ b.waiting = x.waiting /\ b.batch = x.batch /\ b.admitted = {}
        /\ b.cached = x.cached /\ b.host = a.host /\ b.verdict = "go" /\ Fixed(b) = Fixed(x)
    BY <1>3, <1>4, <1>6, <2>1 DEF Framed, Asked, Owned, OnDevice, Copied
  <2>3. part \subseteq b.waiting /\ Whole(b, part) /\ held = b.restored
        /\ part = queue \cap Range(b.window.cohort)
    BY <2>2 DEF InCohort, Whole
  <2>4. Sound(d, held) /\ Native(b, d, part)
    BY <2>1, <2>2, <2>3, NativePrefillSound
  <2>5. /\ Fixed(d) = Fixed(x) /\ d.batch = x.batch /\ d.host = a.host
        /\ d.ready = x.ready /\ d.blocked = x.blocked /\ d.restored = x.restored
        /\ d.waiting = x.waiting \ d.admitted /\ d.window = b.window
        /\ d.admitted # {} => Cardinality(d.batch \cup d.admitted) <= Avail(d)
        /\ Leads(d.admitted, b.window.cohort, part)
    BY <2>2, <2>4 DEF Native, Copied
  <2>6. Leads(d.admitted, d.window.cohort, queue)
    <3>1. \A i \in DOMAIN b.window.cohort : b.window.cohort[i] \in Range(b.window.cohort)
      BY DEF Range
    <3>2. d.window.cohort = b.window.cohort
      BY <2>5
    <3> QED BY ZenonT(40), <2>3, <2>5, <3>1, <3>2 DEF Leads
  <2>7. Cut(x, d) /\ Split(d.window) /\ Spared(x, d, x.window.reserve)
    BY <1>3, <2>1, <2>5 DEF Cut, Shorter, Spared
  <2>8. y = d
    BY <1>6
  <2> QED BY <1>3, <2>4, <2>5, <2>6, <2>7, <2>8 DEF Admits
<1> QED BY <1>5, <1>6

\* Both attempts.
LEMMA AdmissionSound ==
    ASSUME Setting, NEW x, NEW held, held = x.restored, Sound(x, held), x.verdict = "go",
           x.admitted = {}, Split(x.window), \A r \in held : x.cached[r] = Computed(r),
           NEW queue, queue = InCohort(x, (x.waiting \cap x.selected) \ x.blocked),
           queue \cap began \subseteq x.reserve \cup held,
           NEW y, y = Admission(x)
    PROVE  Sound(y, held) /\ Admits(x, y, queue)
<1> DEFINE z == NativePrefill(x, queue)
<1>1. y = AdmitAgain(z, queue)
  BY DEF Admission
<1>2. queue \subseteq x.waiting
  BY DEF InCohort
<1>3. \A r \in queue \cap began : x.cached[r] = Computed(r)
  BY DEF Sound, Computes
<1>4. Whole(x, queue)
  BY <1>3 DEF Whole
<1>5. Sound(z, held) /\ Native(x, z, queue)
  BY <1>2, <1>4, NativePrefillSound
<1> HIDE DEF z
<1>6. Admits(x, z, queue)
  BY <1>5, CutSame DEF Native, Admits, Spared, Copied
<1>7. CASE z.admitted # {} \/ queue = {} \/ z.reserve = {} \/ Cardinality(z.batch) >= MaxRunning
  <2>1. y = z
    BY <1>1, <1>7 DEF AdmitAgain
  <2> QED BY <1>5, <1>6, <2>1
<1>8. CASE ~(z.admitted # {} \/ queue = {} \/ z.reserve = {} \/ Cardinality(z.batch) >= MaxRunning)
  <2> DEFINE a == ReleaseReserves(z, z.reserve)
             b == Dropped(a)
             part == InCohort(b, queue)
             d == NativePrefill(b, part)
  <2>1. y = IF a.verdict = "go" THEN d ELSE a
    BY <1>1, <1>8 DEF AdmitAgain, Then
  <2>2. /\ a = ReleaseReserves(z, z.reserve) /\ b = Dropped(a)
        /\ part = InCohort(b, queue) /\ d = NativePrefill(b, part)
    OBVIOUS
  <2> HIDE DEF a, b, part, d
  <2>3. /\ held = z.restored /\ z.verdict = "go" /\ z.admitted = {} /\ z.waiting = x.waiting
        /\ z.window = x.window /\ z.reserve = x.reserve
        /\ Keeping(x, z, x.reserve \cup held)
    BY <1>5, <1>8 DEF Native
  <2>4. queue \subseteq Calls
    BY <1>2, PlacesAre
  <2>5. Whole(z, queue)
    BY <1>4, <2>3, <2>4 DEF Whole, Keeping
  <2>6. queue \subseteq z.waiting /\ Split(z.window)
    BY <1>2, <2>3
  <2>7. Sound(y, held) /\ Admits(z, y, queue)
    BY <1>5, <2>1, <2>2, <2>3, <2>5, <2>6, AgainSound
  <2>8. /\ Fixed(z) = Fixed(x) /\ z.batch = x.batch /\ z.host = x.host
        /\ z.ready = x.ready /\ z.blocked = x.blocked /\ z.restored = x.restored
    BY <1>5 DEF Native, Copied
  <2>9. y.verdict = "go" => Cut(x, y) /\ Spared(x, y, x.window.reserve)
    BY <2>3, <2>7 DEF Admits, Cut, Shorter, Spared
  <2> QED BY <2>3, <2>7, <2>8, <2>9 DEF Admits
<1> QED BY <1>7, <1>8

-----------------------------------------------------------------------------
(* The cohort ends. *)

\* The first call of a filtered list.
LEMMA HeadIs ==
    ASSUME NEW c, Lined(c), NEW T, Among(c, T) # << >>, NEW r, r = Head(Among(c, T))
    PROVE  /\ r \in T /\ OrderIn(c, r) \in DOMAIN c /\ c[OrderIn(c, r)] = r
           /\ \A i \in DOMAIN c : i < OrderIn(c, r) => c[i] \notin T
<1> DEFINE a == Among(c, T)
<1>1. /\ a \in Seq(Range(c) \cap T) /\ Range(a) = Range(c) \cap T /\ IsInjective(a)
      /\ \A p, q \in T : Precedes(c, p, q) => Precedes(a, p, q)
  BY AmongIs DEF Lined
<1>2. a # << >> /\ r = Head(a)
  OBVIOUS
<1> HIDE DEF a
<1>3. DOMAIN a = 1..Len(a) /\ Len(a) \in Nat /\ 1 \in DOMAIN a /\ a[1] = r
  BY <1>1, <1>2
<1>4. r \in T /\ r \in Range(c)
  BY <1>1, <1>3
<1>5. PICK n \in DOMAIN c : c[n] = r
  BY <1>4 DEF Range
<1>6. OrderIn(c, r) = n
  BY <1>5, OrderInIs DEF Lined
<1>7. ASSUME NEW i \in DOMAIN c, i < n, c[i] \in T PROVE FALSE
  <2>1. Precedes(a, c[i], r)
    BY <1>1, <1>4, <1>5, <1>7 DEF Precedes
  <2>2. PICK p, q \in DOMAIN a : p < q /\ a[q] = r
    BY <2>1 DEF Precedes
  <2>3. q = 1
    BY <1>1, <1>3, <2>2 DEF IsInjective
  <2> QED BY <1>3, <2>2, <2>3
<1> QED BY <1>4, <1>5, <1>6, <1>7

\* A new plan for the first calls of the cohort.
Begins(x, y, n) ==
    /\ DOMAIN y.window.cohort = {i \in DOMAIN x.window.cohort : i <= n}
    /\ \A i \in DOMAIN y.window.cohort : y.window.cohort[i] = x.window.cohort[i]
    /\ x.window.reserve \cap Range(y.window.cohort) \subseteq y.window.reserve

\* The cohort ends before a place.
LEMMA CutAtSound ==
    ASSUME Setting, NEW x, NEW held, Sound(x, held), Split(x.window), NEW n \in Nat,
           NEW y, y = CutAt(x, n)
    PROVE  Sound(y, held) /\ Framed(x, y) /\ Begins(x, y, n) /\ Split(y.window)
<1> DEFINE c == x.window.cohort
           d == First(c, n)
<1>1. Fields(x) /\ c \in Seq(Calls) /\ IsInjective(c)
  BY DEF Sound, Lined
<1>2. /\ Fields(y) /\ Framed(x, y) /\ y.window = Plan(d, x.window.remaining)
  BY <1>1 DEF CutAt, Fields, Framed, Fixed, Asked, Owned, Copied, OnDevice
<1>3. /\ d \in Seq(Calls) /\ IsInjective(d)
      /\ DOMAIN d = {i \in DOMAIN c : i <= n} /\ \A i \in DOMAIN d : d[i] = c[i]
  BY <1>1, FirstOnce
<1>4. y.window.cohort = d
      /\ y.window = [remaining |-> y.window.remaining, cohort |-> y.window.cohort,
                     active |-> y.window.active, reserve |-> y.window.reserve]
      /\ y.window.reserve = Range(After(d, Capacity))
  BY <1>2 DEF Plan
<1>5. Capacity \in Nat
  BY WindowAssumption
<1>6. \A q : q \in y.window.reserve <=> \E j \in DOMAIN d : j > Capacity /\ d[j] = q
  <2>1. d \in Seq(Calls)
    BY <1>3
  <2> HIDE DEF d
  <2> QED BY <1>4, <1>5, <2>1, AfterRange
<1>7. Sound(y, held)
  BY <1>2, <1>3, <1>4, FramedSound DEF Lined
<1> HIDE DEF d
<1>8. Split(y.window)
  <2>2. y.window.remaining \in Nat /\ \A i \in DOMAIN d : i <= MaxRunning
    BY <1>2, <1>3 DEF Plan, Split
  <2> SUFFICES ASSUME NEW i \in DOMAIN d, d[i] \in y.window.reserve PROVE i > Capacity
    BY <1>4, <2>2 DEF Split
  <2>1. PICK j \in DOMAIN d : j > Capacity /\ d[j] = d[i]
    BY <1>6
  <2> QED BY <1>3, <2>1 DEF IsInjective
<1>9. x.window.reserve \cap Range(d) \subseteq y.window.reserve
  <2> SUFFICES ASSUME NEW i \in DOMAIN d, d[i] \in x.window.reserve
               PROVE  d[i] \in y.window.reserve
    BY DEF Range
  <2>1. i \in DOMAIN c /\ c[i] \in x.window.reserve
    BY <1>3
  <2>2. i > Capacity
    BY <2>1 DEF Split
  <2> QED BY <1>6, <2>2
<1>10. Begins(x, y, n)
  BY <1>3, <1>4, <1>9 DEF Begins
<1> QED BY <1>2, <1>7, <1>8, <1>10

\* What it leaves when the first ready call that could not enter ends it.
Ends(x, y) ==
    /\ Fixed(y) = Fixed(x) /\ Asked(y) = Asked(x) /\ Owned(y) = Owned(x)
    /\ Copied(y) = Copied(x) /\ OnDevice(y) = OnDevice(x)
    /\ y.pins = x.pins /\ y.reserve = x.reserve
    /\ y.verdict = "go" =>
        /\ Shorter(x, y) /\ Split(y.window)
        /\ Range(y.window.cohort) \cap Range(x.ready) \subseteq x.admitted
        /\ \A j \in DOMAIN x.window.cohort \ DOMAIN y.window.cohort :
                \E n \in DOMAIN x.window.cohort :
                    n <= j /\ x.window.cohort[n] \in Range(x.ready) \ x.admitted

\* The first ready call that could not enter ends the cohort.
LEMMA EndCohortSound ==
    ASSUME Setting, NEW x, NEW held, Sound(x, held), Split(x.window), NEW y, y = EndCohort(x)
    PROVE  Sound(y, held) /\ Ends(x, y)
<1> DEFINE c == x.window.cohort
           T == Range(x.ready) \ x.admitted
           r == Head(LeftOut(x))
           n == OrderIn(c, r)
<1>1. Lined(c) /\ c \in Seq(Calls) /\ Fields(x)
  BY DEF Sound, Lined
<1>2. LeftOut(x) = Among(c, T)
  BY DEF LeftOut
<1>3. CASE LeftOut(x) = << >>
  <2>1. y = x
    BY <1>3 DEF EndCohort
  <2>2. Range(c) \cap T = {}
    <3>1. Range(Among(c, T)) = Range(c) \cap T
      BY <1>1, AmongIs
    <3>2. Range(<< >>) = {}
      BY DEF Range
    <3> QED BY <1>2, <1>3, <3>1, <3>2
  <2>3. Shorter(x, x)
    BY CutSame DEF Cut
  <2> QED BY <2>1, <2>2, <2>3 DEF Ends
<1>4. CASE LeftOut(x) # << >> /\ r = c[1]
  <2>1. y = [x EXCEPT !.verdict = "capacity"]
    BY <1>4 DEF EndCohort, Raise
  <2>2. Fields(y) /\ Noted(x, y) /\ y.verdict = "capacity" /\ Asked(y) = Asked(x)
    BY <1>1, <2>1 DEF Fields, Noted, Fixed, Owned, Copied, OnDevice, Asked
  <2>3. Sound(y, held)
    BY <2>2, NotedSound
  <2> QED BY <2>2, <2>3 DEF Ends, Noted
<1>5. CASE LeftOut(x) # << >> /\ r # c[1]
  <2>1. y = CutAt(x, n - 1)
    BY <1>5 DEF EndCohort
  <2>2. /\ r \in T /\ n \in DOMAIN c /\ c[n] = r
        /\ \A i \in DOMAIN c : i < n => c[i] \notin T
    <3>1. Among(c, T) # << >> /\ r = Head(Among(c, T)) /\ Lined(c) /\ n = OrderIn(c, r)
      BY <1>1, <1>2, <1>5
    <3> HIDE DEF c, T, r, n
    <3> QED BY <3>1, HeadIs
  <2>3. DOMAIN c = 1..Len(c) /\ Len(c) \in Nat
    BY <1>1
  <2>4. n \in Nat \ {0} /\ n # 1 /\ 1 \in DOMAIN c
    BY <1>5, <2>2, <2>3
  <2> HIDE DEF n, r
  <2>5. n - 1 \in Nat /\ \A i \in DOMAIN c : i <= n - 1 <=> i < n
    BY <2>3, <2>4
  <2>6. Sound(y, held) /\ Framed(x, y) /\ Begins(x, y, n - 1) /\ Split(y.window)
    BY <2>1, <2>5, CutAtSound
  <2>7. DOMAIN y.window.cohort = {i \in DOMAIN c : i < n}
        /\ \A i \in DOMAIN y.window.cohort : y.window.cohort[i] = c[i]
    BY <2>5, <2>6 DEF Begins
  <2>8. 1 \in DOMAIN y.window.cohort
    BY <2>4, <2>7
  <2>9. Shorter(x, y)
    BY <2>6, <2>7, <2>8 DEF Shorter, Begins
  <2>10. Range(y.window.cohort) \cap T = {}
    BY <2>2, <2>7 DEF Range
  <2>11. \A j \in DOMAIN c \ DOMAIN y.window.cohort : n <= j
    BY <2>3, <2>4, <2>7
  <2>12. /\ Fixed(y) = Fixed(x) /\ Asked(y) = Asked(x) /\ Owned(y) = Owned(x)
         /\ Copied(y) = Copied(x) /\ OnDevice(y) = OnDevice(x)
         /\ y.pins = x.pins /\ y.reserve = x.reserve
    BY <2>6 DEF Framed
  <2> QED BY <2>2, <2>6, <2>9, <2>10, <2>11, <2>12 DEF Ends
<1> QED BY <1>3, <1>4, <1>5

-----------------------------------------------------------------------------
(* Whoever entered is settled. *)

\* It is no reserve and has no copy any more.
Settled(x, y, S) ==
    /\ Fixed(y) = Fixed(x) /\ Asked(y) = Asked(x) /\ Owned(y) = Owned(x)
    /\ OnDevice(y) = OnDevice(x) /\ y.window = x.window /\ y.verdict = x.verdict
    /\ NoneAnew(x.pins, y.pins)
    /\ y.reserve = x.reserve \ S /\ DOMAIN y.host = DOMAIN x.host \ S

\* A call that entered gives up its reserve's lock and its copy.
LEMMA SettleOneSound ==
    ASSUME Setting, NEW x, NEW held, Sound(x, held), NEW r \in x.admitted,
           NEW y, y = SettleOne(x, r)
    PROVE  Sound(y, held) /\ Settled(x, y, {r})
<1> DEFINE z == IF r \in x.reserve THEN ReleaseUnsaved(x, r) ELSE x
           present == x.waiting \cup x.admitted
<1>1. r \in Calls /\ r \notin x.waiting /\ present \subseteq Calls
  BY PlacesAre DEF Sound, Parted
<1>2. y = Discard(z, r)
  BY DEF SettleOne
<1>3. /\ Fields(x) /\ Pool(x.kv, x.cached, x.pins) /\ Copies(x.host, x.hostUsed, present)
      /\ Locked(x.pins, x.reserve, x.batch \cup x.admitted, held)
      /\ x.reserve \subseteq present /\ x.pins \in [Calls -> Int]
      /\ Computes(x.kv, x.cached, x.waiting, x.batch, x.reserve)
      /\ Remembered(x.waiting, x.reserve, x.host)
  BY DEF Sound, Pool
<1>4. /\ Fields(z) /\ Pool(z.kv, z.cached, z.pins)
      /\ z.reserve = x.reserve \ {r}
      /\ Fixed(z) = Fixed(x) /\ Asked(z) = Asked(x) /\ Owned(z) = Owned(x)
      /\ OnDevice(z) = OnDevice(x) /\ Copied(z) = Copied(x)
      /\ z.window = x.window /\ z.verdict = x.verdict
      /\ Locked(z.pins, z.reserve, x.batch \cup x.admitted, held) /\ NoneAnew(x.pins, z.pins)
  <2>1. CASE r \in x.reserve
    <3>1. z = ReleaseUnsaved(x, r)
      BY <2>1
    <3> HIDE DEF z
    <3>2. /\ Fields(z) /\ Pool(z.kv, z.cached, z.pins)
          /\ z.pins[r] = x.pins[r] - 1 /\ \A q \in Calls : q # r => z.pins[q] = x.pins[q]
          /\ z.reserve = x.reserve \ {r}
          /\ Fixed(z) = Fixed(x) /\ Asked(z) = Asked(x) /\ Owned(z) = Owned(x)
          /\ OnDevice(z) = OnDevice(x) /\ Copied(z) = Copied(x)
          /\ z.window = x.window /\ z.verdict = x.verdict
      BY <1>1, <1>3, <3>1, ReleaseUnsavedIs
    <3>3. z.pins[r] = x.pins[r] - 1 /\ SameBut(x.pins, z.pins, r) /\ r \in x.reserve \cap Calls
      BY <1>1, <2>1, <3>2 DEF SameBut
    <3>4. Locked(z.pins, z.reserve, x.batch \cup x.admitted, held) /\ NoneAnew(x.pins, z.pins)
      BY <1>3, <3>2, <3>3, LockedLess
    <3> QED BY <3>2, <3>4
  <2>2. CASE r \notin x.reserve
    <3>1. z = x /\ x.reserve \ {r} = x.reserve
      BY <2>2
    <3> HIDE DEF z
    <3> QED BY <1>3, <3>1 DEF NoneAnew
  <2> QED BY <2>1, <2>2
<1> HIDE DEF z
<1>5. z.host = x.host /\ z.hostUsed = x.hostUsed
  BY <1>4 DEF Copied
<1>6. /\ Fields(y) /\ Copies(y.host, y.hostUsed, present) /\ DOMAIN y.host = DOMAIN z.host \ {r}
      /\ Fixed(y) = Fixed(z) /\ Asked(y) = Asked(z) /\ Owned(y) = Owned(z)
      /\ OnDevice(y) = OnDevice(z) /\ y.pins = z.pins /\ y.reserve = z.reserve
      /\ y.window = z.window /\ y.verdict = z.verdict
  BY <1>1, <1>2, <1>3, <1>4, <1>5, DiscardIs
<1>7. /\ y.waiting = x.waiting /\ y.batch = x.batch /\ y.admitted = x.admitted
      /\ y.extend = x.extend /\ y.kv = x.kv /\ y.cached = x.cached /\ y.lru = x.lru
      /\ z.kv = x.kv /\ z.cached = x.cached
  BY <1>4, <1>6 DEF Owned, OnDevice, Fixed
<1>8. Computes(y.kv, y.cached, y.waiting, y.batch, y.reserve)
  BY <1>3, <1>4, <1>6, <1>7 DEF Computes
<1>9. Remembered(y.waiting, y.reserve, y.host)
  BY <1>1, <1>3, <1>4, <1>5, <1>6, <1>7 DEF Remembered
<1>10. Pool(y.kv, y.cached, y.pins)
  BY <1>4, <1>6, <1>7
<1>11. y.reserve \subseteq y.waiting \cup y.admitted
  BY <1>3, <1>4, <1>6, <1>7
<1>12. Sound(y, held)
  BY <1>4, <1>6, <1>7, <1>8, <1>9, <1>10, <1>11 DEF Sound
<1>13. Settled(x, y, {r})
  BY <1>4, <1>5, <1>6 DEF Settled
<1> QED BY <1>12, <1>13

\* One settled call after another.
LEMMA SettledThen ==
    ASSUME NEW x, NEW y, NEW z, NEW S, NEW r, NEW T, Settled(x, y, S), Settled(y, z, {r}),
           T = S \cup {r}
    PROVE  Settled(x, z, T)
BY DEF Settled, NoneAnew

\* All that entered are settled.
LEMMA SettleSound ==
    ASSUME Setting, NEW x, NEW held, Sound(x, held), x.verdict = "go", NEW y, y = Settle(x)
    PROVE  Sound(y, held) /\ Settled(x, y, x.admitted)
<1> DEFINE c == Among(order, x.admitted)
           m == Len(c)
<1>1. x.admitted \subseteq Range(order)
  BY DEF Sound, Parted
<1>2. m \in Nat /\ DOMAIN c = 1..m /\ Range(c) = x.admitted
  BY <1>1, AmongOrder
<1>3. PICK v : Visits(v, x, y, c, m, "settle", 0)
  BY <1>2, SettleVisits
<1> HIDE DEF c, m
<1>4. v[0] = x /\ v[m] = y /\ \A k \in 0..(m - 1) : v[k + 1] = Step(v[k], "settle", 0, c[k + 1])
  BY <1>3 DEF Visits
<1> DEFINE Past(k) == {c[i] : i \in 1..k}
           Good(k) == Sound(v[k], held) /\ Settled(x, v[k], Past(k))
<1>5. Good(0)
  <2>1. Past(0) = {}
    OBVIOUS
  <2>2. Settled(x, x, {})
    BY DEF Settled, NoneAnew
  <2> HIDE DEF Past
  <2> QED BY <1>4, <2>1, <2>2
<1>6. ASSUME NEW k \in 0..(m - 1), Good(k) PROVE Good(k + 1)
  <2> DEFINE r == c[k + 1]
             z == v[k]
             w == v[k + 1]
  <2>1. r \in x.admitted /\ Past(k + 1) = Past(k) \cup {r}
    <3>1. k + 1 \in DOMAIN c
      BY <1>2
    <3>2. \A i \in 1..(k + 1) : i \in 1..k \/ i = k + 1
      OBVIOUS
    <3>3. \A i \in 1..k : i \in 1..(k + 1)
      OBVIOUS
    <3>4. k + 1 \in 1..(k + 1)
      OBVIOUS
    <3> QED BY <1>2, <3>1, <3>2, <3>3, <3>4 DEF Range
  <2> HIDE DEF Past
  <2>2. Sound(z, held) /\ Settled(x, z, Past(k))
    BY <1>6
  <2>3. w = IF z.verdict = "go" THEN SettleOne(z, r) ELSE z
    BY <1>4 DEF Step, Body
  <2>4. z.verdict = "go" /\ z.admitted = x.admitted
    BY <2>2 DEF Settled, Owned
  <2>5. w = SettleOne(z, r) /\ r \in z.admitted
    BY <2>1, <2>3, <2>4
  <2> HIDE DEF r, z, w
  <2>6. Sound(w, held) /\ Settled(z, w, {r})
    BY <2>2, <2>5, SettleOneSound
  <2>7. Settled(x, w, Past(k + 1))
    BY <2>1, <2>2, <2>6, SettledThen
  <2> QED BY <2>6, <2>7 DEF w
<1>7. \A k \in 0..m : Good(k)
  <2> DEFINE Ok == {k \in 0..m : Good(k)}
  <2> HIDE DEF Good
  <2>1. 0 \in Ok /\ \A k \in 0..(m - 1) : k \in Ok => k + 1 \in Ok
    BY <1>2, <1>5, <1>6
  <2> HIDE DEF Ok
  <2>2. \A k \in 0..m : k \in Ok
    BY <1>2, <2>1, KeptToTheEnd
  <2> QED BY <2>2 DEF Ok
<1>8. Good(m)
  <2>1. m \in 0..m
    BY <1>2
  <2> HIDE DEF Good
  <2> QED BY <1>7, <2>1
<1>9. Past(m) = x.admitted
  BY <1>2 DEF Range
<1> HIDE DEF Past
<1> QED BY <1>4, <1>8, <1>9

-----------------------------------------------------------------------------
(* The ready calls. *)

\* A list that has each call once is no longer than a set it is in.
LEMMA LenIs ==
    ASSUME NEW S, IsFiniteSet(S), NEW c \in Seq(S), IsInjective(c)
    PROVE  Len(c) <= Cardinality(S)
<1> DEFINE D == 1..Len(c)
<1>1. Len(c) \in Nat /\ DOMAIN c = D /\ c \in [D -> S]
  OBVIOUS
<1>2. c \in Injection(D, S)
  BY <1>1 DEF Injection, IsInjective
<1>3. Cardinality(D) <= Cardinality(S)
  BY <1>2, FS_Injection
<1>4. Cardinality(D) = Len(c)
  BY SMTT(30), <1>1, FS_Interval
<1> QED BY <1>3, <1>4

\* It has as many calls as it is long, or fewer.
LEMMA RangeSize ==
    ASSUME NEW S, NEW c \in Seq(S)
    PROVE  IsFiniteSet(Range(c)) /\ Cardinality(Range(c)) <= Len(c)
<1>1. Len(c) \in Nat /\ DOMAIN c = 1..Len(c)
  OBVIOUS
<1>2. c \in Surjection(1..Len(c), Range(c))
  BY <1>1 DEF Surjection, Range
<1>3. IsFiniteSet(1..Len(c)) /\ Cardinality(1..Len(c)) = Len(c)
  BY <1>1, FS_Interval
<1> QED BY <1>2, <1>3, FS_Surjection

\* A plan that chooses whom to admit: the batch is what was kept of the selection, ahead
\* of all that waits.
Choosing(x) ==
    /\ x.verdict = "go" /\ x.admitted = {} /\ x.restored = {} /\ x.blocked = {}
    /\ Split(x.window) /\ x.batch \subseteq x.selected
    /\ IsFiniteSet(x.selected) /\ Cardinality(x.selected) <= MaxRunning
    /\ x.sorted \in Seq(Calls) /\ IsInjective(x.sorted) /\ Range(x.sorted) = Range(order)
    /\ Agree(x.window.cohort, x.sorted)
    /\ \A b \in x.batch : \E i \in DOMAIN x.window.cohort :
            /\ x.window.cohort[i] = b /\ i <= Capacity
            /\ \A j \in DOMAIN x.window.cohort :
                    x.window.cohort[j] \in x.waiting \cap x.selected => i < j

\* All that waits in the selection, in order.
ReadyOf(c, x) ==
    /\ c \in Seq(Calls) /\ IsInjective(c) /\ Range(c) = x.waiting \cap x.selected
    /\ \A p, q \in Range(c) : Precedes(x.sorted, p, q) => Precedes(c, p, q)

\* There is place in the batch for all of them.
LEMMA ReadyIs ==
    ASSUME Setting, NEW x, NEW held, Sound(x, held), Choosing(x), NEW c, c = ReadyCalls(x)
    PROVE  ReadyOf(c, x)
<1> DEFINE T == x.waiting \cap x.selected
           q == Among(x.sorted, T)
           k == Larger(0, MaxRunning - Cardinality(x.batch))
<1>1. c = First(q, k)
  BY DEF ReadyCalls
<1>2. x.waiting \subseteq Range(order) /\ Range(order) \subseteq Calls /\ T \subseteq Calls
  BY PlacesAre DEF Sound, Parted
<1>3. /\ q \in Seq(Range(x.sorted) \cap T) /\ Range(q) = T /\ IsInjective(q)
      /\ \A r, s \in T : Precedes(x.sorted, r, s) => Precedes(q, r, s)
  <2>1. x.sorted \in Seq(Calls) /\ IsInjective(x.sorted) /\ Range(x.sorted) = Range(order)
    BY DEF Choosing
  <2>2. Range(x.sorted) \cap T = T
    BY <1>2, <2>1
  <2> HIDE DEF T
  <2> QED BY <2>1, <2>2, AmongIs
<1>4. q \in Seq(T)
  <2>1. Range(x.sorted) \cap T = T
    BY <1>2 DEF Choosing
  <2> QED BY <1>3, <2>1
<1>5. IsFiniteSet(x.selected) /\ T \subseteq x.selected /\ x.batch \subseteq x.selected
      /\ T \cap x.batch = {} /\ Cardinality(x.selected) <= MaxRunning
  BY DEF Choosing, Sound, Parted
<1> HIDE DEF T
<1>6. IsFiniteSet(T) /\ IsFiniteSet(x.batch) /\ Cardinality(T) \in Nat
      /\ Cardinality(x.batch) \in Nat
  BY <1>5, FS_Subset, FS_CardinalityType
<1>7. Cardinality(T) + Cardinality(x.batch) <= MaxRunning
  <2>1. T \cup x.batch \subseteq x.selected
    BY <1>5
  <2>2. Cardinality(T \cup x.batch) <= Cardinality(x.selected)
    BY <1>5, <2>1, FS_Subset
  <2>3. Cardinality(T \cup x.batch) = Cardinality(T) + Cardinality(x.batch) - Cardinality(T \cap x.batch)
    BY <1>6, FS_Union
  <2>4. Cardinality(T \cap x.batch) = 0
    BY <1>5, FS_EmptySet
  <2>5. Cardinality(x.selected) \in Nat
    BY <1>5, FS_CardinalityType
  <2>6. MaxRunning \in Nat
    BY WindowAssumption DEF MaxRunning
  <2> QED BY <1>5, <1>6, <2>2, <2>3, <2>4, <2>5, <2>6
<1>8. Len(q) <= Cardinality(T)
  BY <1>3, <1>4, <1>6, LenIs
<1>9. MaxRunning \in Nat
  BY WindowAssumption DEF MaxRunning
<1> HIDE DEF q
<1>10. Len(q) \in Nat /\ Len(q) <= MaxRunning - Cardinality(x.batch)
  BY <1>4, <1>6, <1>7, <1>8, <1>9
<1>11. k \in Nat /\ Len(q) <= k
  BY <1>6, <1>9, <1>10 DEF Larger
<1> HIDE DEF k
<1>12. c = SubSeq(q, 1, Len(q))
  BY <1>1, <1>10, <1>11 DEF First
<1>13. c = q
  BY <1>4, <1>12
<1>14. q \in Seq(Calls)
  BY <1>2, <1>4 DEF T
<1> QED BY <1>3, <1>13, <1>14 DEF ReadyOf, T

\* What the decision leaves.
Decided(x, y) ==
    /\ Sound(y, y.restored) /\ Fixed(y) = Fixed(x) /\ y.batch = x.batch
    /\ y.verdict = "go" =>
        /\ Shorter(x, y) /\ Split(y.window) /\ y.waiting = x.waiting \ y.admitted
        /\ y.reserve \cap y.admitted = {} /\ DOMAIN y.host \cap y.admitted = {}
        /\ DOMAIN x.host \subseteq DOMAIN y.host \cup y.admitted
        /\ x.reserve \cap x.window.reserve \cap Range(y.window.cohort)
               \subseteq y.reserve \cup y.admitted
        /\ Range(y.window.cohort) \cap x.waiting \cap x.selected \subseteq y.admitted
        /\ y.admitted \cup y.batch \subseteq Range(y.window.cohort)
        /\ y.admitted # {} => Cardinality(y.batch \cup y.admitted) <= Avail(y)

\* Who entered or was kept is ahead of the first ready call that did not.
LEMMA StaysInCohort ==
    ASSUME NEW x, Choosing(x), NEW c, ReadyOf(c, x), NEW p, p.ready = c, Bars(p), Cut(x, p),
           p.waiting = x.waiting, p.selected = x.selected, NEW z, Cut(p, z), z.ready = c,
           NEW queue, queue = InCohort(p, (p.waiting \cap p.selected) \ p.blocked),
           Leads(z.admitted, z.window.cohort, queue), NEW u, Ends(z, u), u.verdict = "go",
           Lined(x.window.cohort)
    PROVE  z.admitted \cup x.batch \subseteq Range(u.window.cohort)
<1> DEFINE X == x.window.cohort
           Z == z.window.cohort
           U == u.window.cohort
<1>1. /\ \A i \in DOMAIN Z : i \in DOMAIN X /\ Z[i] = X[i]
      /\ \A i \in DOMAIN X : i <= Capacity => i \in DOMAIN Z
      /\ Range(Z) \subseteq Range(p.window.cohort)
  <2>1. Range(Z) \subseteq Range(p.window.cohort)
    BY CutRange DEF Cut
  <2> QED BY <2>1 DEF Cut, Shorter
<1>2. /\ \A i \in DOMAIN U : i \in DOMAIN Z /\ U[i] = Z[i]
      /\ \A j \in DOMAIN Z \ DOMAIN U :
            \E n \in DOMAIN Z : n <= j /\ Z[n] \in Range(c) \ z.admitted
  BY DEF Ends, Shorter
<1>3. \A i \in DOMAIN X : i \in Nat
  BY DEF Lined
<1>4. /\ Range(c) = x.waiting \cap x.selected
      /\ \A a, b \in Range(c) : Precedes(x.sorted, a, b) => Precedes(c, a, b)
      /\ c \in Seq(Calls)
  BY DEF ReadyOf
<1>5. z.admitted \subseteq queue \cap Range(Z)
      /\ \A i, j \in DOMAIN Z : (i < j /\ Z[j] \in z.admitted /\ Z[i] \in queue) => Z[i] \in z.admitted
  BY DEF Leads
<1>6. queue = ((x.waiting \cap x.selected) \ p.blocked) \cap Range(p.window.cohort)
  BY DEF InCohort
<1> HIDE DEF X, Z, U
<1>7. ASSUME NEW r \in z.admitted PROVE r \in Range(U)
  <2>1. PICK j \in DOMAIN Z : Z[j] = r
    BY <1>5 DEF Range
  <2>2. CASE j \in DOMAIN U
    BY <1>2, <2>1, <2>2 DEF Range
  <2>3. CASE j \notin DOMAIN U
    <3>1. PICK n \in DOMAIN Z : n <= j /\ Z[n] \in Range(c) \ z.admitted
      BY <1>2, <2>3
    <3>2. n < j
      <4>1. n # j
        BY <2>1, <3>1
      <4>2. n \in Nat /\ j \in Nat
        BY <1>1, <1>3
      <4> QED BY <3>1, <4>1, <4>2
    <3>3. Z[n] \notin queue
      BY <1>5, <2>1, <3>1, <3>2
    <3>4. Z[n] \in p.blocked \cap Range(p.window.cohort)
      <4>1. Z[n] \in Range(Z)
        BY DEF Range
      <4> QED BY <1>1, <1>4, <1>6, <3>1, <3>3, <4>1
    <3>5. Precedes(x.sorted, Z[n], r)
      <4>1. n \in DOMAIN X /\ j \in DOMAIN X /\ X[n] = Z[n] /\ X[j] = r
        BY <1>1, <2>1
      <4> QED BY <3>2, <4>1 DEF Choosing, Agree, X
    <3>6. r \in Range(c) /\ r \notin p.blocked
      BY <1>4, <1>5, <1>6
    <3>7. Precedes(c, Z[n], r)
      BY <1>4, <3>1, <3>5, <3>6
    <3>8. PICK a, b \in DOMAIN c : a < b /\ c[a] = Z[n] /\ c[b] = r
      BY <3>7 DEF Precedes
    <3>9. a <= b
      <4>1. a \in Nat /\ b \in Nat
        BY <1>4
      <4> QED BY <3>8, <4>1
    <3>10. c[b] \in p.blocked
      BY <3>4, <3>8, <3>9 DEF Bars
    <3> QED BY <3>6, <3>8, <3>10
  <2> QED BY <2>2, <2>3
<1>8. ASSUME NEW b \in x.batch PROVE b \in Range(U)
  <2>1. PICK i \in DOMAIN X :
            /\ X[i] = b /\ i <= Capacity
            /\ \A j \in DOMAIN X : X[j] \in x.waiting \cap x.selected => i < j
    BY DEF Choosing, X
  <2>2. i \in DOMAIN Z /\ Z[i] = b
    BY <1>1, <2>1
  <2>3. CASE i \in DOMAIN U
    BY <1>2, <2>2, <2>3 DEF Range
  <2>4. CASE i \notin DOMAIN U
    <3>1. PICK n \in DOMAIN Z : n <= i /\ Z[n] \in Range(c)
      BY <1>2, <2>2, <2>4
    <3>2. i < n /\ n \in Nat /\ i \in Nat
      BY <1>1, <1>3, <1>4, <2>1, <3>1
    <3> QED BY <3>1, <3>2
  <2> QED BY <2>3, <2>4
<1> QED BY <1>7, <1>8 DEF U

\* The decision.
LEMMA AdmitReadySound ==
    ASSUME Setting, NEW x, NEW held, held = {}, Sound(x, held), Choosing(x),
           NEW y, y = AdmitReady(x)
    PROVE  Decided(x, y)
<1> DEFINE c == ReadyCalls(x)
           w == [x EXCEPT !.ready = c]
           p == Preparing(w)
           z == IF p.verdict = "go" THEN Admission(p) ELSE p
           u == IF z.verdict = "go" THEN EndCohort(z) ELSE z
           s == IF u.verdict = "go" THEN Settle(u) ELSE u
<1>1. ReadyOf(c, x)
  BY ReadyIs
<1>2. c \in Seq(Calls) /\ IsInjective(c) /\ Range(c) = x.waiting \cap x.selected
  BY <1>1 DEF ReadyOf
<1>3. /\ x.verdict = "go" /\ x.admitted = {} /\ x.restored = {} /\ x.blocked = {}
      /\ Split(x.window)
  BY DEF Choosing
<1>4. w = [x EXCEPT !.ready = c] /\ c = ReadyCalls(x)
  OBVIOUS
<1>5. w.ready = c
  BY DEF Sound, Fields
<1>6. y = IF c = << >> THEN w ELSE s
  BY <1>4, <1>5 DEF AdmitReady, Preparing, Then
<1> HIDE DEF c, w
<1>7. /\ Fields(w) /\ Noted(x, w) /\ w.verdict = x.verdict /\ w.ready = c
      /\ w.blocked = x.blocked /\ w.restored = x.restored
  BY <1>4, <1>5 DEF Sound, Fields, Noted, Fixed, Owned, Copied, OnDevice
<1>8. Sound(w, held)
  BY <1>3, <1>7, NotedSound
<1>9. /\ w.waiting = x.waiting /\ w.batch = x.batch /\ w.admitted = {} /\ w.window = x.window
      /\ w.reserve = x.reserve /\ w.host = x.host /\ w.verdict = "go" /\ w.restored = held
      /\ w.blocked = {} /\ w.selected = x.selected /\ Fixed(w) = Fixed(x)
  BY <1>3, <1>7 DEF Noted, Owned, Copied, Fixed
<1>10. Lined(x.window.cohort)
  BY DEF Sound
<1>11. CASE c = << >>
  <2>1. y = w
    BY <1>6, <1>11
  <2>2. x.waiting \cap x.selected = {}
    <3>1. Range(<< >>) = {}
      BY DEF Range
    <3> QED BY <1>2, <1>11, <3>1
  <2>3. x.batch \subseteq Range(x.window.cohort)
    BY DEF Choosing, Range
  <2>4. Shorter(x, w)
    BY <1>9, CutSame DEF Cut
  <2> QED BY <1>3, <1>8, <1>9, <2>1, <2>2, <2>3, <2>4 DEF Decided
<1>12. CASE c # << >>
  <2>1. y = s
    BY <1>6, <1>12
  <2>2. Going(w, c, 0)
    <3>1. Loads(w, {c[i] : i \in 1..0})
      BY <1>9 DEF Loads
    <3>2. Bars(w) /\ Covered(w, 0)
      BY <1>9 DEF Bars, Covered
    <3> QED BY <1>3, <1>7, <1>8, <1>9, <3>1, <3>2 DEF Going
  <2>3. p = Preparing(w) /\ Range(c) \subseteq w.waiting
    BY <1>2, <1>9
  <2>4. z = IF p.verdict = "go" THEN Admission(p) ELSE p
    OBVIOUS
  <2>5. u = IF z.verdict = "go" THEN EndCohort(z) ELSE z
    OBVIOUS
  <2>6. s = IF u.verdict = "go" THEN Settle(u) ELSE u
    OBVIOUS
  <2> HIDE DEF p, z, u, s
  <2>7. Going(p, c, Len(c)) /\ Prepared(w, p)
    BY <1>2, <2>2, <2>3, PreparingSound
  <2>8. /\ Sound(p, p.restored) /\ p.admitted = {} /\ p.ready = c
        /\ \A r \in p.restored : p.cached[r] = Computed(r)
        /\ p.verdict = "go" => Split(p.window) /\ Bars(p) /\ Covered(p, Len(c))
    BY <2>7 DEF Going, Loads
  <2>9. /\ Fixed(p) = Fixed(x) /\ p.waiting = x.waiting /\ p.batch = x.batch
        /\ p.selected = x.selected /\ DOMAIN x.host \subseteq DOMAIN p.host
        /\ p.verdict = "go" => Cut(x, p) /\ Spared(x, p, x.reserve)
    BY <1>9, <2>7 DEF Prepared, Owned, Fixed, Cut, Shorter, Spared
  <2>10. CASE p.verdict # "go"
    <3>1. s = p
      BY <2>4, <2>5, <2>6, <2>10
    <3> QED BY <2>1, <2>8, <2>9, <2>10, <3>1 DEF Decided
  <2>11. CASE p.verdict = "go"
    <3> DEFINE queue == InCohort(p, (p.waiting \cap p.selected) \ p.blocked)
    <3>1. queue \cap began \subseteq p.reserve \cup p.restored
      <4>1. ASSUME NEW r \in queue \cap began PROVE r \in p.reserve \cup p.restored
        <5>1. r \in Range(c) /\ r \in Range(p.window.cohort) /\ r \notin p.blocked
          BY <1>2, <2>9 DEF InCohort
        <5>2. PICK i \in DOMAIN c : c[i] = r
          BY <5>1 DEF Range
        <5>3. i \in 1..Len(c)
          BY <1>2, <5>2
        <5>4. p.ready[i] \in p.reserve \cup p.restored \cup p.blocked
          BY <2>8, <2>11, <5>1, <5>2, <5>3 DEF Covered
        <5> QED BY <2>8, <5>1, <5>2, <5>4
      <4> QED BY <4>1
    <3>2. z = Admission(p) /\ queue = InCohort(p, (p.waiting \cap p.selected) \ p.blocked)
      BY <2>4, <2>11
    <3> HIDE DEF queue
    <3>3. Sound(z, p.restored) /\ Admits(p, z, queue)
      <4>1. p.verdict = "go" /\ p.admitted = {} /\ Split(p.window) /\ Sound(p, p.restored)
            /\ \A r \in p.restored : p.cached[r] = Computed(r)
        BY <2>8, <2>11
      <4> QED BY <3>1, <3>2, <4>1, AdmissionSound
    <3>4. /\ Fixed(z) = Fixed(x) /\ z.batch = x.batch /\ DOMAIN x.host \subseteq DOMAIN z.host
          /\ z.ready = c /\ z.restored = p.restored /\ z.waiting = x.waiting \ z.admitted
      BY <2>8, <2>9, <3>3 DEF Admits
    <3>5. CASE z.verdict # "go"
      <4>1. s = z
        BY <2>5, <2>6, <3>5
      <4> QED BY <2>1, <3>3, <3>4, <3>5, <4>1 DEF Decided
    <3>6. CASE z.verdict = "go"
      <4>1. /\ Cut(p, z) /\ Split(z.window) /\ Spared(p, z, p.window.reserve)
            /\ Leads(z.admitted, z.window.cohort, queue)
            /\ z.admitted # {} => Cardinality(z.batch \cup z.admitted) <= Avail(z)
        BY <3>3, <3>6 DEF Admits
      <4>2. u = EndCohort(z)
        BY <2>5, <3>6
      <4>3. Sound(u, p.restored) /\ Ends(z, u)
        BY <3>3, <4>1, <4>2, EndCohortSound
      <4>4. /\ Fixed(u) = Fixed(z) /\ u.waiting = z.waiting /\ u.batch = z.batch
            /\ u.admitted = z.admitted /\ u.restored = z.restored /\ u.host = z.host
            /\ u.reserve = z.reserve /\ OnDevice(u) = OnDevice(z) /\ u.pins = z.pins
        BY <4>3 DEF Ends, Owned, Asked, Copied
      <4>5. CASE u.verdict # "go"
        <5>1. s = u
          BY <2>6, <4>5
        <5> QED BY <2>1, <3>4, <4>3, <4>4, <4>5, <5>1 DEF Decided
      <4>6. CASE u.verdict = "go"
        <5>1. s = Settle(u)
          BY <2>6, <4>6
        <5>2. Sound(s, p.restored) /\ Settled(u, s, u.admitted)
          BY <4>3, <4>6, <5>1, SettleSound
        <5>3. /\ Shorter(z, u) /\ Split(u.window)
              /\ Range(u.window.cohort) \cap Range(c) \subseteq z.admitted
          BY <3>4, <4>3, <4>6 DEF Ends
        <5>4. z.admitted \cup x.batch \subseteq Range(u.window.cohort)
          BY <1>1, <1>10, <2>8, <2>9, <2>11, <3>2, <3>4, <4>1, <4>3, <4>6, StaysInCohort
        <5>5. /\ Fixed(s) = Fixed(x) /\ s.batch = x.batch /\ s.admitted = z.admitted
              /\ s.waiting = x.waiting \ s.admitted /\ s.window = u.window
              /\ s.restored = p.restored
              /\ s.reserve = z.reserve \ s.admitted /\ DOMAIN s.host = DOMAIN z.host \ s.admitted
          BY <3>4, <4>4, <5>2 DEF Settled, Owned, Asked
        <5>6. Shorter(x, s)
          <6>1. Shorter(x, p) /\ Shorter(p, z)
            BY <2>9, <2>11, <4>1 DEF Cut
          <6>2. Shorter(x, u)
            BY <5>3, <6>1, ShorterThen
          <6> QED BY <5>5, <6>2 DEF Shorter
        <5>7. x.reserve \cap x.window.reserve \cap Range(s.window.cohort)
                  \subseteq s.reserve \cup s.admitted
          <6>1. Range(u.window.cohort) \subseteq Range(z.window.cohort)
            BY <5>3, CutRange
          <6>2. Range(z.window.cohort) \subseteq Range(p.window.cohort)
            BY <4>1, CutRange DEF Cut
          <6>3. x.window.reserve \cap Range(p.window.cohort) \subseteq p.window.reserve
            BY <2>9, <2>11 DEF Cut, Shorter
          <6>4. x.reserve \cap Range(p.window.cohort) \subseteq p.reserve
            BY <2>9, <2>11 DEF Spared
          <6>5. p.reserve \cap p.window.reserve \cap Range(z.window.cohort) \subseteq z.reserve
            BY <4>1 DEF Spared
          <6> QED BY <5>5, <6>1, <6>2, <6>3, <6>4, <6>5
        <5>8. s.admitted # {} => Cardinality(s.batch \cup s.admitted) <= Avail(s)
          <6>1. Avail(u) = Avail(z)
            BY <4>4, FreeSame
          <6>2. Pool(u.kv, u.cached, u.pins) /\ Pool(s.kv, s.cached, s.pins)
            BY <4>3, <5>2 DEF Sound
          <6>3. OnDevice(s) = OnDevice(u) /\ \A r \in Calls : u.pins[r] = 0 => s.pins[r] = 0
            BY <5>2 DEF Settled, NoneAnew
          <6>4. Avail(u) <= Avail(s)
            BY <6>2, <6>3, UnlockedMore
          <6>5. Avail(u) \in Int /\ Avail(s) \in Int
            BY <6>2, FreeIs
          <6>6. s.batch \cup s.admitted = z.batch \cup z.admitted
            BY <3>4, <5>5
          <6>7. Cardinality(z.batch \cup z.admitted) \in Nat
            <7>1. z.batch \cup z.admitted \subseteq Calls
              BY <3>3, PlacesAre
            <7> QED BY <7>1, FS_Subset, FS_CardinalityType DEF Setting
          <6>8. z.admitted # {} => Cardinality(z.batch \cup z.admitted) <= Avail(z)
            BY <4>1
          <6>9. Cardinality(s.batch \cup s.admitted) = Cardinality(z.batch \cup z.admitted)
            BY <6>6
          <6>10. s.admitted = z.admitted
            BY <5>5
          <6> QED BY <6>1, <6>4, <6>5, <6>7, <6>8, <6>9, <6>10
        <5>9. Range(s.window.cohort) \cap x.waiting \cap x.selected \subseteq s.admitted
          BY <1>2, <5>3, <5>5
        <5>10. s.admitted \cup s.batch \subseteq Range(s.window.cohort)
          BY <5>4, <5>5
        <5>11. DOMAIN x.host \subseteq DOMAIN s.host \cup s.admitted
          BY <3>4, <5>5
        <5> QED BY <2>1, <5>2, <5>3, <5>5, <5>6, <5>7, <5>8, <5>9, <5>10, <5>11 DEF Decided
      <4> QED BY <4>5, <4>6
    <3> QED BY <3>5, <3>6
  <2> QED BY <2>10, <2>11
<1> QED BY <1>11, <1>12

-----------------------------------------------------------------------------
(* Room for the next token of every running call. *)

\* The last call of a cohort that runs as a whole.
LEMMA LastIs ==
    ASSUME NEW c, Lined(c), NEW T, Range(c) = T, T # {}, NEW r, r = Last(Among(c, T)),
           NEW n, n = OrderIn(c, r)
    PROVE  r \in T /\ n \in DOMAIN c /\ c[n] = r /\ \A i \in DOMAIN c : i <= n
<1> DEFINE a == Among(c, T)
<1>1. c \in Seq(Calls) /\ IsInjective(c) /\ Range(c) \cap T = T
  BY DEF Lined
<1>2. /\ a \in Seq(Range(c) \cap T) /\ Range(a) = T /\ IsInjective(a)
      /\ \A p, q \in T : Precedes(c, p, q) => Precedes(a, p, q)
  BY <1>1, AmongIs
<1>3. a # << >>
  BY <1>2 DEF Range
<1>4. r = a[Len(a)]
  BY DEF Last
<1> HIDE DEF a
<1>5. Len(a) \in DOMAIN a /\ DOMAIN a = 1..Len(a) /\ Len(a) \in Nat
  BY <1>2, <1>3
<1>6. r \in T
  BY <1>2, <1>4, <1>5 DEF Range
<1>7. PICK m \in DOMAIN c : c[m] = r
  BY <1>6 DEF Range
<1>8. n = m
  BY <1>1, <1>7, OrderInIs
<1>9. ASSUME NEW i \in DOMAIN c, ~(i <= m) PROVE FALSE
  <2>1. m < i /\ c[i] \in T
    <3>1. m \in Nat /\ i \in Nat
      BY <1>1
    <3> QED BY <1>9, <3>1 DEF Range
  <2>2. Precedes(c, r, c[i])
    BY <1>7, <2>1 DEF Precedes
  <2>3. Precedes(a, r, c[i])
    BY <1>2, <1>6, <2>1, <2>2
  <2>4. PICK p, q \in DOMAIN a : p < q /\ a[p] = r
    BY <2>3 DEF Precedes
  <2>5. p = Len(a)
    BY <1>2, <1>4, <1>5, <2>4 DEF IsInjective
  <2> QED BY <1>5, <2>4, <2>5
<1> QED BY <1>6, <1>7, <1>8, <1>9

\* The running calls are those of the cohort.
Alone(x) == x.admitted = {} /\ x.batch = Range(x.window.cohort) /\ Split(x.window)

\* What is left of a cohort is its beginning.
Prefix(x, y) ==
    \A i \in DOMAIN y.window.cohort :
        i \in DOMAIN x.window.cohort /\ y.window.cohort[i] = x.window.cohort[i]

\* A call less is in the cohort and in the batch.
LEMMA ShedCallSound ==
    ASSUME Setting, NEW x, NEW held, Sound(x, held), x.verdict = "go", Alone(x), x.batch # {},
           NEW r, r = Last(Among(x.window.cohort, x.batch)), NEW y, y = ShedCall(x, r)
    PROVE  /\ Sound(y, held) /\ Fixed(y) = Fixed(x)
           /\ y.verdict = "go" => /\ Alone(y) /\ Prefix(x, y)
                                  /\ r \in x.batch /\ y.batch = x.batch \ {r}
<1> DEFINE c == x.window.cohort
           a == SwapOut(x, r)
           n == OrderIn(c, r)
           b == CutAt(a, n - 1)
<1>1. Lined(c) /\ c \in Seq(Calls) /\ IsInjective(c) /\ x.batch = Range(c) /\ Split(x.window)
      /\ x.admitted = {}
  BY DEF Sound, Lined, Alone
<1>2. r \in x.batch /\ n \in DOMAIN c /\ c[n] = r /\ \A i \in DOMAIN c : i <= n
  <2>1. Lined(c) /\ Range(c) = x.batch /\ r = Last(Among(c, x.batch)) /\ n = OrderIn(c, r)
    BY <1>1
  <2> HIDE DEF c, n
  <2> QED BY <2>1, LastIs
<1>3. a = SwapOut(x, r)
  OBVIOUS
<1> HIDE DEF a
<1>4. /\ Sound(a, held) /\ Retired(x, a)
      /\ a.verdict = "go" => a.batch = x.batch \ {r}
  BY <1>2, <1>3, SwapOutSound
<1>5. a.window = x.window /\ Fixed(a) = Fixed(x) /\ a.admitted = {}
  BY <1>1, <1>4 DEF Retired
<1>6. y = IF a.verdict = "go" THEN b ELSE a
  BY <1>3, <1>5 DEF ShedCall, Then
<1>7. CASE a.verdict # "go"
  BY <1>4, <1>5, <1>6, <1>7
<1>8. CASE a.verdict = "go"
  <2>1. y = b /\ a.batch = x.batch \ {r}
    BY <1>4, <1>6, <1>8
  <2>2. n - 1 \in Nat /\ \A i \in DOMAIN c : i <= n - 1 <=> i # n
    <3>1. \A i \in DOMAIN c : i \in Nat \ {0}
      BY <1>1
    <3> QED BY <1>2, <3>1
  <2> HIDE DEF n
  <2>3. Sound(b, held) /\ Framed(a, b) /\ Begins(a, b, n - 1) /\ Split(b.window)
    BY <1>1, <1>4, <1>5, <2>2, CutAtSound
  <2> HIDE DEF b
  <2>4. DOMAIN b.window.cohort = {i \in DOMAIN c : i # n}
        /\ \A i \in DOMAIN b.window.cohort : b.window.cohort[i] = c[i]
    BY <1>5, <2>2, <2>3 DEF Begins
  <2>5. Range(b.window.cohort) = Range(c) \ {r}
    BY <1>1, <1>2, <2>4 DEF Range, IsInjective
  <2>6. b.batch = a.batch /\ b.admitted = {} /\ Fixed(b) = Fixed(x)
    BY <1>5, <2>3 DEF Framed, Owned
  <2>7. Prefix(x, b)
    BY <2>4 DEF Prefix
  <2> QED BY <1>1, <1>2, <2>1, <2>3, <2>5, <2>6, <2>7 DEF Alone
<1> QED BY <1>7, <1>8

\* What is left when there is room: at least one call.
Roomy(x, y) ==
    /\ Fixed(y) = Fixed(x)
    /\ y.verdict = "go" => /\ Alone(y) /\ Prefix(x, y) /\ y.batch \subseteq x.batch
                           /\ x.batch # {} => y.batch # {}

\* One turn of the loop.
LEMMA ShedOneSound ==
    ASSUME Setting, NEW x, NEW held, Sound(x, held), x.verdict = "go", Alone(x), x.batch # {},
           NEW y, y = ShedOne(x)
    PROVE  /\ Sound(y, held) /\ Roomy(x, y)
           /\ y.verdict = "go" => \/ RoomToDecode(x) /\ y = x
                                  \/ \E r \in x.batch : y.batch = x.batch \ {r}
<1>1. CASE RoomToDecode(x)
  <2>1. y = x
    BY <1>1 DEF ShedOne
  <2> QED BY <1>1, <2>1 DEF Roomy, Prefix
<1>2. CASE ~RoomToDecode(x) /\ Cardinality(x.batch) <= 1
  <2>1. y = [x EXCEPT !.verdict = "capacity"]
    BY <1>2 DEF ShedOne, Raise
  <2>2. Fields(y) /\ Noted(x, y) /\ y.verdict = "capacity"
    BY <2>1 DEF Sound, Fields, Noted, Fixed, Owned, Copied, OnDevice
  <2>3. Sound(y, held)
    BY <2>2, NotedSound
  <2> QED BY <2>2, <2>3 DEF Roomy, Noted
<1>3. CASE ~RoomToDecode(x) /\ ~(Cardinality(x.batch) <= 1)
  <2> DEFINE r == Last(Among(x.window.cohort, x.batch))
  <2>1. y = ShedCall(x, r)
    BY <1>3 DEF ShedOne, Shed, Alone
  <2>2. r = Last(Among(x.window.cohort, x.batch))
    OBVIOUS
  <2> HIDE DEF r
  <2>3. /\ Sound(y, held) /\ Fixed(y) = Fixed(x)
        /\ y.verdict = "go" => /\ Alone(y) /\ Prefix(x, y)
                               /\ r \in x.batch /\ y.batch = x.batch \ {r}
    BY <2>1, <2>2, ShedCallSound
  <2>4. ASSUME y.verdict = "go" PROVE y.batch # {}
    <3>1. r \in x.batch /\ y.batch = x.batch \ {r}
      BY <2>3, <2>4
    <3>2. IsFiniteSet(x.batch)
      BY PlacesAre, FS_Subset DEF Setting
    <3>3. y.batch = {} => x.batch = {r}
      BY <3>1
    <3>4. Cardinality({r}) = 1
      BY FS_Singleton
    <3> QED BY <1>3, <3>3, <3>4
  <2> QED BY <2>3, <2>4 DEF Roomy
<1> QED BY <1>1, <1>2, <1>3

\* The loop: a turn for every call of the cohort is enough.
LEMMA SheddingSound ==
    ASSUME Setting, NEW x, NEW held, Sound(x, held), NEW c, NEW m \in Nat, DOMAIN c = 1..m,
           x.verdict = "go" => Alone(x) /\ x.batch # {} /\ Cardinality(x.batch) <= m,
           NEW y, y = Shedding(x, c)
    PROVE  /\ Sound(y, held) /\ Roomy(x, y)
           /\ y.verdict = "go" => x.verdict = "go" /\ RoomToDecode(y)
<1>1. PICK v : Visits(v, x, y, c, m, "shed", 0)
  BY ShedVisits
<1>2. v[0] = x /\ v[m] = y /\ \A k \in 0..(m - 1) : v[k + 1] = Step(v[k], "shed", 0, c[k + 1])
  BY <1>1 DEF Visits
<1> DEFINE Good(k) == /\ Sound(v[k], held) /\ Roomy(x, v[k])
                      /\ v[k].verdict = "go" => x.verdict = "go"
                      /\ \/ v[k].verdict # "go" \/ RoomToDecode(v[k])
                         \/ Cardinality(v[k].batch) <= m - k
<1>3. Good(0)
  <2>1. Roomy(x, x)
    BY DEF Roomy, Prefix
  <2>2. x.verdict = "go" => Cardinality(x.batch) <= m - 0
    OBVIOUS
  <2> QED BY <1>2, <2>1, <2>2
<1>4. ASSUME NEW k \in 0..(m - 1), Good(k) PROVE Good(k + 1)
  <2> DEFINE z == v[k]
             w == v[k + 1]
  <2>1. w = IF z.verdict = "go" THEN ShedOne(z) ELSE z
    BY <1>2 DEF Step, Body
  <2>2. Sound(z, held) /\ Roomy(x, z)
    BY <1>4
  <2>3. CASE z.verdict # "go"
    BY <2>1, <2>2, <2>3
  <2>4. CASE z.verdict = "go"
    <3>1. RoomToDecode(z) \/ Cardinality(z.batch) <= m - k
      BY <1>4, <2>4
    <3>6. x.verdict = "go"
      BY <1>4, <2>4
    <3>2. w = ShedOne(z) /\ Alone(z) /\ z.batch # {} /\ Fixed(z) = Fixed(x)
          /\ Prefix(x, z) /\ z.batch \subseteq x.batch
      BY <2>1, <2>2, <2>4, <3>6 DEF Roomy
    <3> HIDE DEF z, w
    <3>3. /\ Sound(w, held) /\ Roomy(z, w)
          /\ w.verdict = "go" => \/ RoomToDecode(z) /\ w = z
                                 \/ \E r \in z.batch : w.batch = z.batch \ {r}
      BY <2>2, <2>4, <3>2, ShedOneSound
    <3>4. Roomy(x, w)
      BY <3>2, <3>3 DEF Roomy, Prefix
    <3>5. ASSUME w.verdict = "go", ~RoomToDecode(w) PROVE Cardinality(w.batch) <= m - (k + 1)
      <4>1. ~(RoomToDecode(z) /\ w = z)
        BY <3>5
      <4>2. PICK r \in z.batch : w.batch = z.batch \ {r}
        BY <3>3, <3>5, <4>1
      <4>3. IsFiniteSet(z.batch)
        BY <2>2, PlacesAre, FS_Subset DEF Setting
      <4>4. Cardinality(w.batch) = Cardinality(z.batch) - 1 /\ Cardinality(z.batch) \in Nat
        BY <4>2, <4>3, FS_RemoveElement, FS_CardinalityType
      <4>5. Cardinality(z.batch) <= m - k
        <5>1. w # z
          BY <4>2
        <5>2. ~RoomToDecode(z)
          <6>1. RoomToDecode(z) => w = z
            BY <2>4, <3>2 DEF ShedOne
          <6> QED BY <5>1, <6>1
        <5> QED BY <3>1, <5>2
      <4> QED BY <4>4, <4>5
    <3> QED BY <3>3, <3>4, <3>5, <3>6 DEF w
  <2> QED BY <2>3, <2>4
<1>5. \A k \in 0..m : Good(k)
  <2> DEFINE Ok == {k \in 0..m : Good(k)}
  <2> HIDE DEF Good
  <2>1. 0 \in Ok /\ \A k \in 0..(m - 1) : k \in Ok => k + 1 \in Ok
    BY <1>3, <1>4
  <2> HIDE DEF Ok
  <2>2. \A k \in 0..m : k \in Ok
    BY <2>1, KeptToTheEnd
  <2> QED BY <2>2 DEF Ok
<1>6. Good(m)
  <2>1. m \in 0..m
    OBVIOUS
  <2> HIDE DEF Good
  <2> QED BY <1>5, <2>1
<1>7. ASSUME y.verdict = "go", Cardinality(y.batch) <= m - m PROVE FALSE
  <2>1. Sound(y, held) /\ y.batch # {}
    BY <1>2, <1>6, <1>7 DEF Roomy
  <2>2. IsFiniteSet(y.batch)
    BY <2>1, PlacesAre, FS_Subset DEF Setting
  <2>3. Cardinality(y.batch) \in Nat /\ Cardinality(y.batch) # 0
    BY <2>1, <2>2, FS_CardinalityType, FS_EmptySet
  <2> QED BY <1>7, <2>3
<1> QED BY <1>2, <1>6, <1>7

\* Whoever is ahead of a call that is to execute executes too, or it is kept for later.
NobodyPast(x) ==
    \A i, j \in DOMAIN x.window.cohort :
        (i < j /\ x.window.cohort[j] \in x.batch \cup x.admitted) =>
            \/ x.window.cohort[i] \in x.batch \cup x.admitted \cup x.reserve
            \/ Over > 1 /\ x.window.cohort[i] \in x.window.reserve \cap DOMAIN x.host

\* The batch that was decided on: the first Capacity calls of the cohort are in it.
Poised(x) ==
    /\ Split(x.window) /\ NobodyPast(x)
    /\ x.batch \cup x.admitted \subseteq Range(x.window.cohort)
    /\ \A i \in DOMAIN x.window.cohort :
            /\ i <= Capacity => x.window.cohort[i] \in x.batch \cup x.admitted
            /\ x.window.cohort[i] \in x.batch => i <= Capacity

\* There is room for it.
MadeRoom(x, y) ==
    /\ Fixed(y) = Fixed(x)
    /\ y.verdict = "go" =>
        /\ Split(y.window) /\ Prefix(x, y) /\ y.admitted = x.admitted
        /\ y.batch \cup y.admitted \subseteq Range(y.window.cohort) /\ NobodyPast(y)
        /\ Cardinality(y.batch \cup y.admitted) <= Avail(y)
        /\ x.batch \cup x.admitted # {} => y.batch \cup y.admitted # {}

\* make_decode_room.
LEMMA MakeDecodeRoomSound ==
    ASSUME Setting, NEW x, NEW held, Sound(x, held), x.verdict = "go", x.admitted = {}, Poised(x),
           x.batch = {} => RoomToDecode(x), NEW y, y = MakeDecodeRoom(x)
    PROVE  Sound(y, held) /\ MadeRoom(x, y)
<1> DEFINE c == x.window.cohort
           a == ReleaseReserves(x, x.reserve)
           b == IF a.verdict = "go" THEN Dropped(a) ELSE a
<1>1. CASE RoomToDecode(x)
  <2>1. y = x
    BY <1>1 DEF MakeDecodeRoom
  <2>2. x.batch \cup x.admitted = x.batch
    OBVIOUS
  <2>3. Cardinality(x.batch \cup x.admitted) <= Avail(x)
    <3>1. Cardinality(x.batch) \in Nat /\ Avail(x) \in Int
      BY PlacesAre, FS_Subset, FS_CardinalityType, FreeIs DEF Setting, Sound
    <3>2. Avail(x) >= Cardinality(x.batch)
      BY <1>1 DEF RoomToDecode, Avail
    <3> QED BY <2>2, <3>1, <3>2
  <2> QED BY <2>1, <2>3 DEF Poised, MadeRoom, Prefix
<1>2. CASE ~RoomToDecode(x)
  <2>1. y = Shedding(b, c)
    BY <1>2 DEF MakeDecodeRoom, Shedding, ShedOne, Then
  <2>2. c \in Seq(Calls) /\ Len(c) \in Nat /\ DOMAIN c = 1..Len(c) /\ Split(x.window)
    BY DEF Sound, Lined, Poised
  <2>3. a = ReleaseReserves(x, x.reserve) /\ x.reserve \subseteq x.reserve \cap x.waiting
    BY DEF Sound
  <2>4. b = IF a.verdict = "go" THEN Dropped(a) ELSE a
    OBVIOUS
  <2> HIDE DEF a, b
  <2>5. Sound(a, held) /\ Released(x, a)
    BY <2>3, ReleaseReservesSound
  <2>6. /\ a.window = x.window /\ a.batch = x.batch /\ a.admitted = {} /\ Fixed(a) = Fixed(x)
    BY <2>5 DEF Released, Owned
  <2>7. Sound(b, held) /\ Fixed(b) = Fixed(x) /\
        (b.verdict = "go" => Alone(b) /\ Prefix(x, b) /\ b.batch = x.batch)
    <3>1. CASE a.verdict # "go"
      BY <2>4, <2>5, <2>6, <3>1
    <3>2. CASE a.verdict = "go"
      <4>1. b = Dropped(a)
        BY <2>4, <3>2
      <4>2. /\ Sound(b, held) /\ Framed(a, b) /\ Cut(a, b) /\ Split(b.window)
            /\ \A i \in DOMAIN b.window.cohort : i <= Capacity
        BY <2>2, <2>5, <2>6, <4>1, DroppedSound
      <4>3. /\ b.batch = x.batch /\ b.admitted = {} /\ Fixed(b) = Fixed(x)
        BY <2>6, <4>2 DEF Framed, Owned
      <4>4. /\ \A i \in DOMAIN b.window.cohort : i \in DOMAIN c /\ b.window.cohort[i] = c[i]
            /\ \A i \in DOMAIN c : i <= Capacity => i \in DOMAIN b.window.cohort
        BY <2>6, <4>2 DEF Cut, Shorter
      <4>5. Range(b.window.cohort) \subseteq x.batch
        <5>1. ASSUME NEW i \in DOMAIN b.window.cohort PROVE b.window.cohort[i] \in x.batch
          BY <4>2, <4>4 DEF Poised
        <5> QED BY <5>1 DEF Range
      <4>6. x.batch \subseteq Range(b.window.cohort)
        <5> SUFFICES ASSUME NEW r \in x.batch PROVE r \in Range(b.window.cohort)
          OBVIOUS
        <5>1. PICK i \in DOMAIN c : c[i] = r
          BY DEF Poised, Range
        <5>2. i <= Capacity
          BY <5>1 DEF Poised
        <5> QED BY <4>4, <5>1, <5>2 DEF Range
      <4>7. Prefix(x, b)
        BY <4>4 DEF Prefix
      <4> QED BY <4>2, <4>3, <4>5, <4>6, <4>7 DEF Alone
    <3> QED BY <3>1, <3>2
  <2>8. Cardinality(x.batch) <= Len(c)
    <3>1. x.batch \subseteq Range(c)
      BY DEF Poised
    <3>4. IsFiniteSet(Range(c)) /\ Cardinality(Range(c)) <= Len(c)
      BY <2>2, RangeSize
    <3>5. Cardinality(x.batch) <= Cardinality(Range(c))
      BY <3>1, <3>4, FS_Subset
    <3>6. Cardinality(x.batch) \in Nat /\ Cardinality(Range(c)) \in Nat
      BY <3>1, <3>4, FS_Subset, FS_CardinalityType
    <3> QED BY <2>2, <3>4, <3>5, <3>6
  <2>9. x.batch # {}
    BY <1>2
  <2> HIDE DEF c
  <2>10. /\ Sound(y, held) /\ Roomy(b, y)
         /\ y.verdict = "go" => b.verdict = "go" /\ RoomToDecode(y)
    BY <2>1, <2>2, <2>7, <2>8, <2>9, SheddingSound
  <2>11. ASSUME y.verdict = "go" PROVE
           /\ Split(y.window) /\ Prefix(x, y) /\ y.admitted = x.admitted
           /\ y.batch \cup y.admitted \subseteq Range(y.window.cohort) /\ NobodyPast(y)
           /\ Cardinality(y.batch \cup y.admitted) <= Avail(y)
           /\ y.batch \cup y.admitted # {}
    <3>1. Alone(y) /\ Prefix(b, y) /\ y.batch # {} /\ Prefix(x, b) /\ RoomToDecode(y)
      BY <2>7, <2>9, <2>10, <2>11 DEF Roomy
    <3>2. y.admitted = {} /\ y.batch = Range(y.window.cohort) /\ Split(y.window)
      BY <3>1 DEF Alone
    <3>3. Prefix(x, y)
      BY <3>1 DEF Prefix
    <3>4. NobodyPast(y)
      BY <3>2 DEF NobodyPast, Range
    <3>5. Cardinality(y.batch) \in Nat /\ Avail(y) \in Int
      BY <2>10, PlacesAre, FS_Subset, FS_CardinalityType, FreeIs DEF Setting, Sound
    <3>6. Avail(y) >= Cardinality(y.batch)
      BY <3>1 DEF RoomToDecode, Avail
    <3>7. y.batch \cup y.admitted = y.batch
      BY <3>2
    <3>8. Cardinality(y.batch \cup y.admitted) <= Avail(y)
      BY <3>5, <3>6, <3>7
    <3> QED BY <3>1, <3>2, <3>3, <3>4, <3>7, <3>8
  <2>12. Fixed(y) = Fixed(x)
    BY <2>7, <2>10 DEF Roomy
  <2> QED BY <2>10, <2>11, <2>12 DEF MadeRoom
<1> QED BY <1>1, <1>2

-----------------------------------------------------------------------------
(* One more token for every running call. *)

\* A sum in which some elements count one more.
LEMMA TotalMore ==
    ASSUME NEW f, NEW S, Counts(f, S), NEW B \in SUBSET S, NEW g,
           \A r \in S : g[r] = IF r \in B THEN f[r] + 1 ELSE f[r]
    PROVE  Counts(g, S) /\ Total(g, S) = Total(f, S) + Cardinality(B)
<1> DEFINE U == Units(f, S)
           h == [r \in B |-> << r, f[r] + 1 >>]
           T == {h[r] : r \in B}
<1>1. IsFiniteSet(S) /\ \A r \in S : f[r] \in Nat
  BY DEF Counts
<1>2. Counts(g, S)
  BY <1>1 DEF Counts
<1>3. IsFiniteSet(B) /\ Cardinality(B) \in Nat
  BY <1>1, FS_Subset, FS_CardinalityType
<1>4. IsFiniteSet(T) /\ Cardinality(T) = Cardinality(B)
  <2>1. \A r \in B : h[r] = << r, f[r] + 1 >> /\ h[r] \in T
    OBVIOUS
  <2>2. h \in Bijection(B, T)
    BY <2>1 DEF Bijection, Injection, Surjection, IsInjective
  <2>3. ExistsBijection(B, T)
    BY <2>2 DEF ExistsBijection
  <2> QED BY <1>3, <2>3, FS_Bijection
<1>5. U \cap T = {}
  <2> SUFFICES ASSUME NEW r \in B, << r, f[r] + 1 >> \in U PROVE FALSE
    OBVIOUS
  <2>1. f[r] + 1 <= f[r]
    BY DEF Units
  <2> QED BY <1>1, <2>1
<1>6. Units(g, S) = U \cup T
  <2>1. ASSUME NEW u \in Units(g, S) PROVE u \in U \cup T
    <3>1. PICK r \in S, n \in Nat : u = << r, n >> /\ 1 <= n /\ n <= g[r]
      BY DEF Units
    <3>2. CASE n <= f[r]
      BY <3>1, <3>2 DEF Units
    <3>3. CASE ~(n <= f[r])
      <4>1. r \in B /\ n = f[r] + 1
        BY <1>1, <3>1, <3>3
      <4> QED BY <3>1, <4>1
    <3> QED BY <3>2, <3>3
  <2>2. ASSUME NEW r \in S, NEW n \in Nat, 1 <= n, n <= f[r] PROVE n <= g[r]
    BY <1>1, <2>2
  <2>3. U \subseteq Units(g, S)
    BY <2>2 DEF Units
  <2>4. ASSUME NEW r \in B PROVE << r, f[r] + 1 >> \in Units(g, S)
    <3>1. g[r] = f[r] + 1 /\ f[r] + 1 \in Nat /\ 1 <= f[r] + 1 /\ f[r] + 1 <= g[r]
      BY <1>1
    <3> QED BY <3>1 DEF Units
  <2>5. T \subseteq Units(g, S)
    BY <2>4
  <2> QED BY <2>1, <2>3, <2>5
<1> HIDE DEF U, T, h
<1>7. IsFiniteSet(U) /\ Cardinality(U) \in Nat
  BY UnitsOf DEF U
<1>8. Cardinality(U \cup T) = Cardinality(U) + Cardinality(T) - Cardinality(U \cap T)
  BY <1>4, <1>7, FS_Union
<1>9. Cardinality(U \cap T) = 0
  BY <1>5, FS_EmptySet
<1>10. Total(f, S) = Cardinality(U) /\ Total(g, S) = Cardinality(U \cup T)
  BY <1>2, <1>6, TotalIs DEF U
<1> QED BY <1>2, <1>3, <1>4, <1>7, <1>8, <1>9, <1>10

\* What executes has its slots, and all else is as it was.
Executes(x, y) ==
    /\ y.verdict = "go" /\ Pool(y.kv, y.cached, y.pins) /\ y.pins = x.pins
    /\ Owned(y) = Owned(x) /\ Copied(y) = Copied(x) /\ y.reserve = x.reserve
    /\ y.window = x.window
    /\ Computes(y.kv, y.cached, y.waiting, {}, y.reserve)
    /\ Filled(y.batch, y.kv) /\ Filled(y.admitted, y.kv)

\* prepare_for_decode.
LEMMA DecodeSound ==
    ASSUME Setting, NEW x, Sound(x, {}), x.verdict = "go",
           Cardinality(x.batch \cup x.admitted) <= Avail(x), NEW y, y = Decode(x)
    PROVE  Executes(x, y)
<1> DEFINE z == [x EXCEPT !.kv = [r \in DOMAIN @ |-> IF r \in x.batch THEN @[r] + 1 ELSE @[r]]]
           w == MakeFree(z, 0)
<1>1. /\ Fields(x) /\ Pool(x.kv, x.cached, x.pins) /\ Parted(x.waiting, x.batch, x.admitted)
      /\ Locked(x.pins, x.reserve, x.batch \cup x.admitted, {})
      /\ Computes(x.kv, x.cached, x.waiting, x.batch, x.reserve) /\ Filled(x.admitted, x.kv)
      /\ x.lru \in Seq(Calls) /\ x.reserve \subseteq x.waiting \cup x.admitted
  BY DEF Sound
<1>2. /\ Range(order) \subseteq Calls /\ x.waiting \subseteq Calls /\ x.batch \subseteq Calls
      /\ x.admitted \subseteq Calls /\ x.reserve \subseteq Calls
      /\ x.batch \subseteq Range(order)
  BY <1>1, PlacesAre DEF Parted
<1>3. y = IF Free(w) < 0 THEN [w EXCEPT !.verdict = "broken"] ELSE w
  BY DEF Decode, Allocated, Raise
<1>4. /\ Fields(z) /\ z.kv = [r \in DOMAIN x.kv |-> IF r \in x.batch THEN x.kv[r] + 1 ELSE x.kv[r]]
      /\ z.cached = x.cached /\ z.pins = x.pins /\ Owned(z) = Owned(x) /\ Copied(z) = Copied(x)
      /\ z.reserve = x.reserve /\ z.window = x.window /\ z.verdict = "go" /\ z.lru = x.lru
  BY <1>1 DEF Fields, Owned, Copied
<1>5. w = MakeFree(z, 0)
  OBVIOUS
<1> HIDE DEF z, w
<1>6. \A r \in Calls : x.kv[r] \in Nat /\ x.cached[r] \in Nat /\ x.cached[r] <= x.kv[r]
                       /\ z.kv[r] = IF r \in x.batch THEN x.kv[r] + 1 ELSE x.kv[r]
  BY <1>1, <1>4 DEF Pool
<1>7. Pool(z.kv, z.cached, z.pins)
  <2>1. DOMAIN z.kv = Calls /\ \A r \in Calls : z.kv[r] \in Nat /\ x.cached[r] <= z.kv[r]
    BY <1>1, <1>4, <1>6 DEF Pool
  <2> QED BY <1>1, <1>4, <2>1 DEF Pool
<1>8. \A r \in Calls \ Range(order) : z.cached[r] = 0
  BY <1>1, <1>4 DEF Computes
<1>9. Evicted(z, w) /\ (Free(w) >= 0 \/ Free(w) = Avail(z))
  <2>1. z.lru \in Seq(Calls) /\ 0 \in Int /\ z.verdict = "go"
    BY <1>1, <1>4
  <2> QED BY <1>4, <1>5, <1>7, <1>8, <2>1, MakeFreeIs
<1>10. Avail(z) = Avail(x) - Cardinality(x.batch)
  <2>1. /\ Counts(x.kv, Calls) /\ Free(x) = Slots - Total(x.kv, Calls)
        /\ Free(z) = Slots - Total(z.kv, Calls) /\ Free(x) \in Int /\ Free(z) \in Int
        /\ Unlocked(x) = {r \in Calls : x.pins[r] = 0} /\ Evictable(x) = Total(x.cached, Unlocked(x))
        /\ Unlocked(z) = {r \in Calls : z.pins[r] = 0} /\ Evictable(z) = Total(z.cached, Unlocked(z))
        /\ Evictable(x) \in Nat
    BY <1>1, <1>7, FreeIs
  <2>2. Evictable(z) = Evictable(x)
    BY <1>4, <2>1
  <2>3. Total(z.kv, Calls) = Total(x.kv, Calls) + Cardinality(x.batch)
    BY <1>2, <1>6, <2>1, TotalMore
  <2>4. Total(x.kv, Calls) \in Nat /\ Cardinality(x.batch) \in Nat
    BY <1>2, <2>1, TotalType, FS_Subset, FS_CardinalityType DEF Setting
  <2>5. Free(z) = Free(x) - Cardinality(x.batch)
    BY <2>1, <2>3, <2>4, PoolAssumption
  <2> QED BY <2>1, <2>2, <2>4, <2>5 DEF Avail
<1>11. Avail(z) >= 0
  <2>1. x.batch \cup x.admitted \subseteq Calls /\ x.batch \subseteq x.batch \cup x.admitted
    BY <1>2
  <2>2. IsFiniteSet(x.batch \cup x.admitted)
    BY <2>1, FS_Subset DEF Setting
  <2>3. /\ Cardinality(x.batch) <= Cardinality(x.batch \cup x.admitted)
        /\ Cardinality(x.batch) \in Nat /\ Cardinality(x.batch \cup x.admitted) \in Nat
    BY <2>1, <2>2, FS_Subset, FS_CardinalityType
  <2>4. Avail(x) \in Int
    BY <1>1, FreeIs
  <2> QED BY <1>10, <2>3, <2>4
<1>12. y = w
  <2>1. Pool(w.kv, w.cached, w.pins) /\ Fields(w)
    BY <1>9 DEF Evicted
  <2>2. Free(w) \in Int /\ Avail(z) \in Int
    BY <1>7, <2>1, FreeIs
  <2> QED BY <1>3, <1>9, <1>11, <2>2
<1>13. /\ Pool(w.kv, w.cached, w.pins) /\ w.pins = x.pins /\ w.verdict = "go"
       /\ Owned(w) = Owned(x) /\ Copied(w) = Copied(x) /\ w.reserve = x.reserve
       /\ w.window = x.window
  BY <1>4, <1>9 DEF Evicted
<1>14. w.waiting = x.waiting /\ w.batch = x.batch /\ w.admitted = x.admitted
  BY <1>13 DEF Owned
<1>15. \A r \in Calls : \/ w.kv[r] = z.kv[r] /\ w.cached[r] = x.cached[r]
                        \/ /\ x.pins[r] = 0 /\ w.cached[r] = 0
                           /\ w.kv[r] = z.kv[r] - x.cached[r]
  BY <1>4, <1>9 DEF Evicted
<1>16. ASSUME NEW r \in Calls, r \in x.batch \cup x.admitted \cup x.reserve
       PROVE  w.kv[r] = z.kv[r] /\ w.cached[r] = x.cached[r]
  <2>1. x.pins[r] = One(r, x.reserve) + One(r, x.batch \cup x.admitted) + One(r, {})
    BY <1>1 DEF Locked
  <2>2. x.pins[r] # 0
    BY <1>16, <2>1 DEF One
  <2> QED BY <1>15, <2>2
<1>17. Filled(x.batch, w.kv)
  <2> SUFFICES ASSUME NEW r \in x.batch PROVE w.kv[r] = tok[r]
    BY DEF Filled
  <2>1. r \in Calls /\ tok[r] \in Nat \ {0} /\ x.kv[r] = tok[r] - 1
    BY <1>1, <1>2 DEF Setting, Computes, Computed
  <2>2. w.kv[r] = x.kv[r] + 1
    BY <1>6, <1>16, <2>1
  <2> QED BY <2>1, <2>2
<1>18. Filled(x.admitted, w.kv)
  <2> SUFFICES ASSUME NEW r \in x.admitted PROVE w.kv[r] = tok[r]
    BY DEF Filled
  <2>1. r \in Calls /\ r \notin x.batch /\ x.kv[r] = tok[r]
    BY <1>1, <1>2 DEF Filled, Parted
  <2> QED BY <1>6, <1>16, <2>1
<1>19. Computes(w.kv, w.cached, x.waiting, {}, x.reserve)
  <2>1. ASSUME NEW r \in x.waiting PROVE w.kv[r] = w.cached[r] /\ w.cached[r] <= Computed(r)
    <3>1. r \in Calls /\ r \notin x.batch /\ x.kv[r] = x.cached[r] /\ x.cached[r] <= Computed(r)
          /\ Computed(r) \in Nat
      BY <1>1, <1>2, ComputedIs DEF Parted, Computes
    <3>2. z.kv[r] = x.cached[r] /\ x.cached[r] \in Nat
      BY <1>6, <3>1
    <3> QED BY <1>15, <3>1, <3>2
  <2>2. ASSUME NEW r \in x.reserve PROVE w.cached[r] = Computed(r)
    BY <1>1, <1>2, <1>16 DEF Computes
  <2>3. ASSUME NEW r \in Calls \ Range(order) PROVE w.kv[r] = 0 /\ w.cached[r] = 0
    <3>1. r \notin x.batch /\ x.kv[r] = 0 /\ x.cached[r] = 0
      BY <1>1, <1>2 DEF Computes
    <3> QED BY <1>6, <1>15, <3>1
  <2> QED BY <2>1, <2>2, <2>3 DEF Computes
<1> QED BY <1>12, <1>13, <1>14, <1>17, <1>18, <1>19 DEF Executes

-----------------------------------------------------------------------------
(* prefill: the locks of the restored branches go, however the plan ended. *)

\* Each restored branch loses the lock that it was given.
LEMMA GiveBackSound ==
    ASSUME Setting, NEW x, NEW held, held = x.restored, Sound(x, held), NEW y, y = GiveBack(x)
    PROVE  Sound(y, {}) /\ Alike(x, y) /\ OnDevice(y) = OnDevice(x) /\ Avail(x) <= Avail(y)
<1>1. Fields(x) /\ Pool(x.kv, x.cached, x.pins)
      /\ Locked(x.pins, x.reserve, x.batch \cup x.admitted, held)
  BY DEF Sound
<1>2. /\ Fields(y) /\ Alike(x, y) /\ OnDevice(y) = OnDevice(x)
      /\ y.pins = [r \in DOMAIN x.pins |-> IF r \in held THEN x.pins[r] - 1 ELSE x.pins[r]]
  BY <1>1 DEF GiveBack, Fields, Alike, Fixed, Asked, Owned, Copied, OnDevice
<1>3. DOMAIN x.pins = Calls /\ \A r \in Calls : x.pins[r] \in Int
  BY <1>1 DEF Pool
<1>4. ASSUME NEW r \in Calls
      PROVE  /\ y.pins[r] \in Int
             /\ y.pins[r] = One(r, x.reserve) + One(r, x.batch \cup x.admitted) + One(r, {})
             /\ x.pins[r] = 0 => y.pins[r] = 0
  <2>1. x.pins[r] = One(r, x.reserve) + One(r, x.batch \cup x.admitted) + One(r, held)
    BY <1>1 DEF Locked
  <2>2. One(r, x.reserve) \in {0, 1} /\ One(r, x.batch \cup x.admitted) \in {0, 1} /\ One(r, {}) = 0
    BY DEF One
  <2>3. y.pins[r] = IF r \in held THEN x.pins[r] - 1 ELSE x.pins[r]
    BY <1>2, <1>3
  <2>4. One(r, held) = IF r \in held THEN 1 ELSE 0
    BY DEF One
  <2> QED BY <1>3, <2>1, <2>2, <2>3, <2>4
<1>5. y.pins \in [Calls -> Int]
  BY <1>2, <1>3, <1>4
<1>6. y.batch = x.batch /\ y.admitted = x.admitted /\ y.reserve = x.reserve
  BY <1>2, AlikeIs
<1>7. Locked(y.pins, y.reserve, y.batch \cup y.admitted, {})
  BY <1>4, <1>6 DEF Locked
<1>8. Sound(y, {})
  BY <1>2, <1>5, <1>7, LocksSound
<1>9. Avail(x) <= Avail(y)
  <2>1. Pool(y.kv, y.cached, y.pins)
    BY <1>8 DEF Sound
  <2> QED BY <1>1, <1>2, <1>4, <2>1, UnlockedMore
<1> QED BY <1>2, <1>8, <1>9

-----------------------------------------------------------------------------
(* get_new_batch_prefill. *)

\* The pass begins with a window of calls that are there, in the order it was given.
Starting(x) ==
    /\ x.verdict = "go" /\ x.admitted = {} /\ x.restored = {} /\ x.blocked = {}
    /\ Split(x.window) /\ x.selected = Chosen(x.window, x.batch \cup x.reserve)
    /\ x.sorted \in Seq(Calls) /\ IsInjective(x.sorted) /\ Range(x.sorted) = Range(order)
    /\ Agree(x.window.cohort, x.sorted)
    /\ x.window.active \cup x.window.reserve = Range(x.window.cohort)
    /\ Range(x.window.cohort) \subseteq Range(order)
    /\ \A i \in DOMAIN x.window.cohort :
            /\ x.window.cohort[i] \in x.window.active <=> i <= Capacity
            /\ x.window.cohort[i] \in x.window.reserve <=> i > Capacity
    /\ Range(order) # {} => 1 \in DOMAIN x.window.cohort

\* What stays of it until victims are chosen.
Begun(x, y) ==
    /\ Fixed(y) = Fixed(x) /\ y.window = x.window /\ y.verdict = "go"
    /\ y.admitted = {} /\ y.restored = {} /\ y.blocked = {}
    /\ y.batch = x.batch /\ y.waiting = x.waiting
    /\ y.reserve = x.reserve \cap Range(x.window.cohort)

\* Who is selected and ran before is among the first Capacity; the others selected wait.
LEMMA SelectedAre ==
    ASSUME Setting, NEW x, NEW held, Sound(x, held), Starting(x)
    PROVE  /\ x.selected \subseteq Range(x.window.cohort) /\ IsFiniteSet(x.selected)
           /\ Cardinality(x.selected) <= MaxRunning
           /\ \A i \in DOMAIN x.window.cohort :
                /\ i <= Capacity => x.window.cohort[i] \in x.selected
                /\ x.window.cohort[i] \in x.selected \cap x.batch => i <= Capacity
                /\ x.window.cohort[i] \notin x.selected =>
                        x.window.cohort[i] \in x.window.reserve \cap (x.batch \cup x.reserve)
<1> DEFINE c == x.window.cohort
           w == x.window
<1>1. c \in Seq(Calls) /\ Len(c) \in Nat /\ DOMAIN c = 1..Len(c)
  BY DEF Sound, Lined
<1>2. x.selected = w.active \cup (w.reserve \ (x.batch \cup x.reserve))
      /\ w.active \cup w.reserve = Range(c)
      /\ \A i \in DOMAIN c : (c[i] \in w.active <=> i <= Capacity) /\ (c[i] \in w.reserve <=> i > Capacity)
  BY DEF Starting, Chosen
<1>3. Len(c) <= MaxRunning /\ MaxRunning \in Nat
  <2>1. MaxRunning \in Nat
    BY WindowAssumption DEF MaxRunning
  <2>2. \A i \in 1..Len(c) : i <= MaxRunning
    BY <1>1 DEF Starting, Split
  <2> QED BY <1>1, <2>1, <2>2
<1> HIDE DEF c, w
<1>4. x.selected \subseteq Range(c)
  BY <1>2
<1>5. IsFiniteSet(Range(c)) /\ Cardinality(Range(c)) <= Len(c)
  BY <1>1, RangeSize
<1>6. IsFiniteSet(x.selected) /\ Cardinality(x.selected) <= MaxRunning
  <2>1. IsFiniteSet(x.selected) /\ Cardinality(x.selected) <= Cardinality(Range(c))
    BY <1>4, <1>5, FS_Subset
  <2>2. Cardinality(x.selected) \in Nat /\ Cardinality(Range(c)) \in Nat
    BY <1>5, <2>1, FS_CardinalityType
  <2> QED BY <1>1, <1>3, <1>5, <2>1, <2>2
<1>7. ASSUME NEW i \in DOMAIN c
      PROVE  /\ i <= Capacity => c[i] \in x.selected
             /\ c[i] \in x.selected \cap x.batch => i <= Capacity
             /\ c[i] \notin x.selected => c[i] \in w.reserve \cap (x.batch \cup x.reserve)
  <2>1. c[i] \in Range(c)
    BY DEF Range
  <2> QED BY <1>2, <2>1
<1> QED BY <1>4, <1>6, <1>7 DEF c, w

\* The batch that prefill decided on.
PlanMade(x, y) ==
    /\ Fixed(y) = Fixed(x)
    /\ y.verdict = "go" =>
        /\ Poised(y) /\ Prefix(x, y)
        /\ Range(order) # {} => y.batch \cup y.admitted # {}
        /\ y.admitted # {} => Cardinality(y.batch \cup y.admitted) <= Avail(y)
        /\ y.reserve \cap y.admitted = {} /\ DOMAIN y.host \cap y.admitted = {}

\* The batch goes on as it is.
LEMMA ContinuesSound ==
    ASSUME Setting, NEW x, NEW held, Sound(x, held), Starting(x), NEW y, Sound(y, held),
           Begun(x, y), y.selected = y.batch
    PROVE  PlanMade(x, y)
<1> DEFINE c == x.window.cohort
<1>1. /\ y.window = x.window /\ y.batch = x.batch /\ y.admitted = {} /\ Fixed(y) = Fixed(x)
      /\ y.reserve = x.reserve \cap Range(c) /\ Split(y.window)
  BY DEF Begun, Starting
<1>2. x.selected = x.batch
  BY <1>1 DEF Fixed
<1>3. /\ x.selected \subseteq Range(c)
      /\ \A i \in DOMAIN c :
            /\ i <= Capacity => c[i] \in x.selected
            /\ c[i] \in x.selected \cap x.batch => i <= Capacity
            /\ c[i] \notin x.selected => c[i] \in x.window.reserve \cap (x.batch \cup x.reserve)
  BY SelectedAre
<1>4. \A i \in DOMAIN c : c[i] \in Range(c)
  BY DEF Range
<1>5. y.window.cohort = c /\ y.batch \cup y.admitted = x.batch
  BY <1>1
<1> HIDE DEF c
<1>6. NobodyPast(y)
  BY <1>1, <1>2, <1>3, <1>4, <1>5 DEF NobodyPast
<1>7. Poised(y)
  BY <1>1, <1>2, <1>3, <1>5, <1>6 DEF Poised
<1>8. Prefix(x, y)
  BY <1>1 DEF Prefix
<1>9. ASSUME Range(order) # {} PROVE y.batch \cup y.admitted # {}
  <2>1. 1 \in DOMAIN c /\ 1 <= Capacity
    BY <1>9, WindowAssumption DEF Starting, c
  <2> QED BY <1>2, <1>3, <1>5, <2>1
<1> QED BY <1>1, <1>7, <1>8, <1>9 DEF PlanMade

\* Once the victims are out, the batch is ahead of whatever waits in the selection.
LEMMA ChoosingAfter ==
    ASSUME Setting, NEW x, NEW held, Sound(x, held), Starting(x), NEW a, Sound(a, held),
           Begun(x, a), NEW b, Retired(a, b), b.verdict = "go", b.batch = a.batch \cap Kept(a)
    PROVE  Choosing(b)
<1> DEFINE c == x.window.cohort
           pending == a.waiting \cap a.selected
<1>1. /\ a.window = x.window /\ a.batch = x.batch /\ a.waiting = x.waiting
      /\ a.selected = x.selected /\ a.sorted = x.sorted
      /\ a.admitted = {} /\ a.restored = {} /\ a.blocked = {}
  BY DEF Begun, Fixed
<1>2. /\ b.window = x.window /\ b.waiting = x.waiting \cup (x.batch \ b.batch)
      /\ b.selected = x.selected /\ b.sorted = x.sorted
      /\ b.admitted = {} /\ b.restored = {} /\ b.blocked = {}
  BY <1>1 DEF Retired, Fixed, Asked
<1>3. /\ x.selected \subseteq Range(c) /\ IsFiniteSet(x.selected)
      /\ Cardinality(x.selected) <= MaxRunning
      /\ \A i \in DOMAIN c : c[i] \in x.selected \cap x.batch => i <= Capacity
  BY SelectedAre
<1>4. Lined(c) /\ IsInjective(c) /\ \A i \in DOMAIN c : i \in Nat
  BY DEF Sound, Lined
<1>5. Kept(a) = {r \in x.selected : \A q \in pending : OrderIn(c, r) < OrderIn(c, q)}
  BY <1>1 DEF Kept
<1>6. pending = x.waiting \cap x.selected
  BY <1>1
<1> HIDE DEF c, pending
<1>7. ASSUME NEW r \in b.batch
      PROVE  \E i \in DOMAIN c : /\ c[i] = r /\ i <= Capacity
                                 /\ \A j \in DOMAIN c : c[j] \in b.waiting \cap b.selected => i < j
  <2>1. r \in x.batch /\ r \in Kept(a) /\ r \in x.selected
    BY <1>1, <1>5
  <2>2. PICK i \in DOMAIN c : c[i] = r
    BY <1>3, <2>1 DEF Range
  <2>3. OrderIn(c, r) = i /\ i <= Capacity
    BY <1>3, <1>4, <2>1, <2>2, OrderInIs
  <2>4. ASSUME NEW q \in pending, NEW n \in DOMAIN c, c[n] = q PROVE i < n
    <3>1. OrderIn(c, q) = n
      BY <1>4, <2>4, OrderInIs
    <3> QED BY <1>5, <2>1, <2>3, <3>1
  <2>5. ASSUME NEW j \in DOMAIN c, c[j] \in b.waiting \cap b.selected PROVE i < j
    <3>1. c[j] \in x.selected /\ (c[j] \in x.waiting \/ c[j] \in x.batch \ b.batch)
      BY <1>2, <2>5
    <3>2. CASE c[j] \in x.waiting
      BY <1>6, <2>4, <3>1, <3>2
    <3>3. CASE c[j] \in x.batch \ b.batch
      <4>1. c[j] \notin Kept(a) /\ OrderIn(c, c[j]) = j
        BY <1>1, <1>4, <3>3, OrderInIs
      <4>2. PICK q \in pending : ~(j < OrderIn(c, q))
        BY <1>5, <3>1, <4>1
      <4>3. PICK n \in DOMAIN c : c[n] = q
        BY <1>3, <1>6 DEF Range
      <4>4. OrderIn(c, q) = n
        BY <1>4, <4>3, OrderInIs
      <4>5. i < n
        BY <2>4, <4>3
      <4> QED BY <1>4, <4>2, <4>4, <4>5
    <3> QED BY <3>1, <3>2, <3>3
  <2> QED BY <2>2, <2>3, <2>5
<1>8. b.batch \subseteq b.selected
  BY <1>2, <1>5
<1>9. /\ Split(x.window) /\ x.sorted \in Seq(Calls) /\ IsInjective(x.sorted)
      /\ Range(x.sorted) = Range(order) /\ Agree(c, x.sorted)
  BY DEF Starting, c
<1>10. b.window.cohort = c
  BY <1>2 DEF c
<1> QED BY <1>2, <1>3, <1>7, <1>8, <1>9, <1>10 DEF Choosing

\* Who is not in the batch that was chosen is not selected: it is a reserve, or it was
\* a victim for which there was no place among the reserves.
LEMMA DecidedIsPlan ==
    ASSUME Setting, NEW x, NEW held, Sound(x, held), Starting(x), NEW a, Sound(a, held),
           Begun(x, a), NEW b, Retired(a, b), b.verdict = "go", b.batch = a.batch \cap Kept(a),
           Choosing(b), Sound(b, held), NEW y, Decided(b, y), y.verdict = "go"
    PROVE  PlanMade(x, y)
<1> DEFINE c == x.window.cohort
           d == y.window.cohort
<1>1. /\ a.window = x.window /\ a.batch = x.batch /\ a.waiting = x.waiting /\ Fixed(a) = Fixed(x)
      /\ a.reserve = x.reserve \cap Range(c)
  BY DEF Begun
<1>2. /\ b.window = x.window /\ b.selected = x.selected /\ Fixed(b) = Fixed(x)
      /\ a.reserve \subseteq b.reserve
      /\ b.waiting = x.waiting \cup (x.batch \ b.batch)
      /\ x.batch \ b.batch \subseteq b.reserve \cup DOMAIN b.host
  BY <1>1 DEF Retired, Fixed
<1>3. /\ Sound(y, y.restored) /\ Fixed(y) = Fixed(b) /\ y.batch = b.batch /\ Split(y.window)
      /\ Shorter(b, y) /\ y.reserve \cap y.admitted = {} /\ DOMAIN y.host \cap y.admitted = {}
      /\ DOMAIN b.host \subseteq DOMAIN y.host \cup y.admitted
      /\ b.reserve \cap b.window.reserve \cap Range(d) \subseteq y.reserve \cup y.admitted
      /\ Range(d) \cap b.waiting \cap b.selected \subseteq y.admitted
      /\ y.admitted \cup y.batch \subseteq Range(d)
      /\ y.admitted # {} => Cardinality(y.batch \cup y.admitted) <= Avail(y)
  BY DEF Decided
<1>4. /\ \A i \in DOMAIN d : i \in DOMAIN c /\ d[i] = c[i]
      /\ DOMAIN c # {} => DOMAIN d # {}
      /\ x.window.reserve \cap Range(d) \subseteq y.window.reserve
  BY <1>2, <1>3 DEF Shorter
<1>5. \A i \in DOMAIN c : /\ i <= Capacity => c[i] \in x.selected
                          /\ c[i] \in x.selected \cap x.batch => i <= Capacity
                          /\ c[i] \notin x.selected =>
                                 c[i] \in x.window.reserve \cap (x.batch \cup x.reserve)
  BY SelectedAre
<1>6. d \in Seq(Calls) /\ \A i \in DOMAIN d : i \in Nat
  BY <1>3 DEF Sound, Lined
<1>7. \A i \in DOMAIN c : c[i] \in Range(c) /\ c[i] \in x.waiting \cup x.batch
  <2>1. x.waiting \cup x.batch = Range(order)
    BY DEF Sound, Parted, Starting
  <2> QED BY <2>1 DEF Starting, Range
<1>8. \A i \in DOMAIN c : c[i] \in x.window.reserve => i > Capacity
  BY DEF Starting
<1>9. b.batch \subseteq x.batch /\ b.batch \subseteq x.selected
  BY <1>1, <1>2 DEF Choosing
<1>10. \A i \in DOMAIN d : d[i] \in Range(d)
  BY DEF Range
<1> HIDE DEF c, d
<1>11. ASSUME NEW i \in DOMAIN d, d[i] \in x.selected PROVE d[i] \in y.batch \cup y.admitted
  <2>1. d[i] \in x.waiting \cup x.batch
    BY <1>4, <1>7
  <2> QED BY <1>2, <1>3, <1>10, <1>11, <2>1
<1>12. ASSUME NEW i \in DOMAIN d, NEW j \in DOMAIN d, i < j,
              d[i] \notin y.batch \cup y.admitted \cup y.reserve
       PROVE  Over > 1 /\ d[i] \in y.window.reserve \cap DOMAIN y.host
  <2>1. d[i] \notin x.selected /\ d[i] = c[i] /\ i \in DOMAIN c
    BY <1>4, <1>11, <1>12
  <2>2. d[i] \in x.window.reserve \cap (x.batch \cup x.reserve) /\ d[i] \in Range(c)
    BY <1>5, <1>7, <2>1
  <2>3. d[i] \notin b.reserve
    BY <1>2, <1>3, <1>10, <1>12, <2>2
  <2>4. d[i] \notin x.reserve
    BY <1>1, <1>2, <2>2, <2>3
  <2>5. d[i] \in x.batch \ b.batch
    BY <1>3, <1>12, <2>2, <2>4
  <2>6. d[i] \in DOMAIN y.host
    BY <1>2, <1>3, <1>12, <2>3, <2>5
  <2>7. d[i] \in y.window.reserve
    BY <1>4, <1>10, <2>2
  <2>8. Over > 1
    <3>1. i > Capacity
      BY <1>8, <2>1, <2>2
    <3>2. j <= Capacity + Over
      BY <1>3 DEF Split, MaxRunning, d
    <3> QED BY <1>6, <1>12, <3>1, <3>2, WindowAssumption
  <2> QED BY <2>6, <2>7, <2>8
<1>13. NobodyPast(y)
  BY <1>12 DEF NobodyPast, d
<1>14. Poised(y)
  <2>1. ASSUME NEW i \in DOMAIN d
        PROVE  /\ i <= Capacity => d[i] \in y.batch \cup y.admitted
               /\ d[i] \in y.batch => i <= Capacity
    <3>1. i \in DOMAIN c /\ d[i] = c[i]
      BY <1>4
    <3>2. i <= Capacity => d[i] \in x.selected
      BY <1>5, <3>1
    <3>3. d[i] \in y.batch => d[i] \in x.selected \cap x.batch
      BY <1>3, <1>9
    <3> QED BY <1>5, <1>11, <3>1, <3>2, <3>3
  <2>2. y.batch \cup y.admitted \subseteq Range(d)
    BY <1>3
  <2> QED BY <1>3, <1>13, <2>1, <2>2 DEF Poised, d
<1>15. Prefix(x, y)
  BY <1>4 DEF Prefix, c, d
<1>16. ASSUME Range(order) # {} PROVE y.batch \cup y.admitted # {}
  <2>1. DOMAIN c # {}
    BY <1>16 DEF Starting, c
  <2>2. 1 \in DOMAIN d
    <3>1. DOMAIN d # {} /\ DOMAIN d = 1..Len(d) /\ Len(d) \in Nat
      BY <1>4, <1>6, <2>1
    <3> QED BY <3>1
  <2>3. 1 <= Capacity
    BY WindowAssumption
  <2>4. d[1] \in y.batch \cup y.admitted
    BY <1>4, <1>5, <1>11, <2>2, <2>3
  <2> QED BY <2>4
<1>17. Fixed(y) = Fixed(x)
  BY <1>2, <1>3
<1> QED BY <1>3, <1>14, <1>15, <1>16, <1>17 DEF PlanMade

\* All of it.
LEMMA PrefillPlanSound ==
    ASSUME Setting, NEW x, NEW held, held = {}, Sound(x, held), Starting(x), NEW y, y = PrefillPlan(x)
    PROVE  Sound(y, y.restored) /\ PlanMade(x, y)
<1> DEFINE rids == x.reserve \ Range(x.window.cohort)
           a == ReleaseReserves(x, rids)
           b == RetractVictims(a)
           d == AdmitReady(b)
<1>1. y = IF a.verdict = "go"
          THEN (IF Continues(a) THEN a ELSE IF b.verdict = "go" THEN d ELSE b)
          ELSE a
  BY DEF PrefillPlan, Then
<1>2. rids \subseteq x.reserve \cap x.waiting /\ a = ReleaseReserves(x, rids)
      /\ x.reserve \ rids = x.reserve \cap Range(x.window.cohort)
  BY DEF Sound, Starting
<1>3. b = RetractVictims(a) /\ d = AdmitReady(b)
  OBVIOUS
<1> HIDE DEF rids, a, b, d
<1>4. /\ Sound(a, held) /\ Released(x, a)
      /\ a.verdict = "go" => a.reserve = x.reserve \ rids
  BY <1>2, ReleaseReservesSound
<1>5. a.restored = {} /\ Fixed(a) = Fixed(x)
  BY <1>4 DEF Released, Asked, Starting
<1>6. CASE a.verdict # "go"
  BY <1>1, <1>4, <1>5, <1>6 DEF PlanMade
<1>7. CASE a.verdict = "go"
  <2>1. Begun(x, a)
    BY <1>2, <1>4, <1>7 DEF Released, Begun, Starting, Asked, Owned
  <2>2. CASE Continues(a)
    <3>1. y = a /\ a.selected = a.batch
      BY <1>1, <1>7, <2>2 DEF Continues
    <3>2. PlanMade(x, a)
      BY <1>4, <2>1, <3>1, ContinuesSound
    <3> QED BY <1>4, <1>5, <3>1, <3>2
  <2>3. CASE ~Continues(a)
    <3>1. /\ Sound(b, held) /\ Retired(a, b)
          /\ b.verdict = "go" => b.batch = a.batch \cap Kept(a)
      BY <1>3, <1>4, RetractVictimsSound
    <3>2. b.restored = {} /\ Fixed(b) = Fixed(x)
      BY <1>5, <3>1 DEF Retired, Asked
    <3>3. CASE b.verdict # "go"
      <4>1. y = b
        BY <1>1, <1>7, <2>3, <3>3
      <4> QED BY <3>1, <3>2, <3>3, <4>1 DEF PlanMade
    <3>4. CASE b.verdict = "go"
      <4>1. y = d
        BY <1>1, <1>7, <2>3, <3>4
      <4>2. Choosing(b)
        BY <1>4, <2>1, <3>1, <3>4, ChoosingAfter
      <4>3. Decided(b, d)
        BY <1>3, <3>1, <4>2, AdmitReadySound
      <4>4. CASE d.verdict # "go"
        BY <3>2, <4>1, <4>3, <4>4 DEF Decided, PlanMade
      <4>5. CASE d.verdict = "go"
        <5>1. PlanMade(x, d)
          BY <1>4, <2>1, <3>1, <3>4, <4>2, <4>3, <4>5, DecidedIsPlan
        <5> QED BY <4>1, <4>3, <5>1 DEF Decided
      <4> QED BY <4>4, <4>5
    <3> QED BY <3>3, <3>4
  <2> QED BY <2>2, <2>3
<1> QED BY <1>6, <1>7

-----------------------------------------------------------------------------
(* A pass. *)

\* What a pass leaves, whether it raised or not.
Outcome(x, y) ==
    /\ Pool(y.kv, y.cached, y.pins) /\ Parted(y.waiting, y.batch, y.admitted)
    /\ y.reserve \subseteq y.waiting \cup y.admitted
    /\ Locked(y.pins, y.reserve, y.batch \cup y.admitted, {})
    /\ Copies(y.host, y.hostUsed, y.waiting \cup y.admitted)
    /\ Remembered(y.waiting, y.reserve, y.host)
    /\ Finds(y.admitted, y.extend) /\ Filled(y.admitted, y.kv)
    /\ y.verdict # "broken"
    /\ y.verdict # "go" => Computes(y.kv, y.cached, y.waiting, y.batch, y.reserve)
    /\ y.verdict = "go" =>
        /\ Computes(y.kv, y.cached, y.waiting, {}, y.reserve) /\ Filled(y.batch, y.kv)
        /\ Split(y.window) /\ Lined(y.window.cohort) /\ Prefix(x, y)
        /\ y.batch \cup y.admitted \subseteq Range(y.window.cohort) /\ NobodyPast(y)
        /\ Range(order) # {} => y.batch \cup y.admitted # {}
        /\ y.reserve \cap y.admitted = {} /\ DOMAIN y.host \cap y.admitted = {}

\* Without calls all of the pool is free.
LEMMA FreeAlone ==
    ASSUME Setting, NEW x, NEW held, Sound(x, held), Range(order) = {}
    PROVE  x.batch = {} /\ RoomToDecode(x)
<1>1. /\ Pool(x.kv, x.cached, x.pins) /\ x.batch = {}
      /\ \A r \in Calls : x.kv[r] = 0
  BY DEF Sound, Parted, Computes
<1>2. Counts(x.kv, Calls) /\ Free(x) = Slots - Total(x.kv, Calls) /\ Evictable(x) \in Nat
  BY <1>1, FreeIs
<1>3. Total(x.kv, Calls) = 0
  BY <1>1, <1>2, TotalZero
<1>4. Cardinality(x.batch) = 0
  BY <1>1, FS_EmptySet
<1> QED BY <1>1, <1>2, <1>3, <1>4, PoolAssumption DEF RoomToDecode

\* What may be decoded.
Ready(x, y) ==
    /\ Split(y.window) /\ Prefix(x, y)
    /\ y.batch \cup y.admitted \subseteq Range(y.window.cohort) /\ NobodyPast(y)
    /\ Cardinality(y.batch \cup y.admitted) <= Avail(y)
    /\ Range(order) # {} => y.batch \cup y.admitted # {}
    /\ y.reserve \cap y.admitted = {} /\ DOMAIN y.host \cap y.admitted = {}

\* There is room, or it is made.
LEMMA RoomSound ==
    ASSUME Setting, NEW x, NEW v, PlanMade(x, v), NEW g, Sound(g, {}), Alike(v, g),
           v.verdict = "go", Avail(v) <= Avail(g), NEW held, Sound(v, held),
           NEW y, y = RoomIfDecoding(g)
    PROVE  Sound(y, {}) /\ (y.verdict = "go" => Ready(x, y))
<1>1. /\ g.window = v.window /\ g.batch = v.batch /\ g.admitted = v.admitted
      /\ g.reserve = v.reserve /\ g.host = v.host /\ g.verdict = "go"
  BY AlikeIs
<1>2. /\ Poised(g) /\ Prefix(x, g)
      /\ Range(order) # {} => g.batch \cup g.admitted # {}
      /\ g.reserve \cap g.admitted = {} /\ DOMAIN g.host \cap g.admitted = {}
  <2>1. /\ Poised(v) /\ Prefix(x, v)
        /\ Range(order) # {} => v.batch \cup v.admitted # {}
        /\ v.reserve \cap v.admitted = {} /\ DOMAIN v.host \cap v.admitted = {}
    BY DEF PlanMade
  <2>2. Poised(g)
    BY <1>1, <2>1 DEF Poised, NobodyPast
  <2>3. Prefix(x, g)
    BY <1>1, <2>1 DEF Prefix
  <2> QED BY <1>1, <2>1, <2>2, <2>3
<1>3. CASE g.admitted # {}
  <2>1. y = g
    BY <1>3 DEF RoomIfDecoding
  <2>2. Cardinality(g.batch \cup g.admitted) <= Avail(g)
    <3>1. Cardinality(v.batch \cup v.admitted) <= Avail(v)
      BY <1>1, <1>3 DEF PlanMade
    <3>2. Avail(v) \in Int /\ Avail(g) \in Int
      BY FreeIs DEF Sound
    <3>3. Cardinality(v.batch \cup v.admitted) \in Nat
      <4>1. v.batch \cup v.admitted \subseteq Calls
        BY PlacesAre
      <4> QED BY <4>1, FS_Subset, FS_CardinalityType DEF Setting
    <3>4. g.batch \cup g.admitted = v.batch \cup v.admitted
      BY <1>1
    <3>5. Cardinality(g.batch \cup g.admitted) = Cardinality(v.batch \cup v.admitted)
      BY <3>4
    <3> QED BY <3>1, <3>2, <3>3, <3>5
  <2> QED BY <1>2, <2>1, <2>2 DEF Ready, Poised
<1>4. CASE g.admitted = {}
  <2>1. y = MakeDecodeRoom(g)
    BY <1>4 DEF RoomIfDecoding
  <2>2. g.batch = {} => RoomToDecode(g)
    <3>1. g.batch = {} => Range(order) = {}
      BY <1>2, <1>4
    <3> QED BY <3>1, FreeAlone
  <2>3. Sound(y, {}) /\ MadeRoom(g, y)
    BY <1>1, <1>2, <1>4, <2>1, <2>2, MakeDecodeRoomSound
  <2>4. ASSUME y.verdict = "go" PROVE Ready(x, y)
    <3>1. /\ Split(y.window) /\ Prefix(g, y) /\ y.admitted = {}
          /\ y.batch \cup y.admitted \subseteq Range(y.window.cohort) /\ NobodyPast(y)
          /\ Cardinality(y.batch \cup y.admitted) <= Avail(y)
          /\ g.batch \cup g.admitted # {} => y.batch \cup y.admitted # {}
      BY <1>4, <2>3, <2>4 DEF MadeRoom
    <3>2. Prefix(x, y)
      BY <1>2, <3>1 DEF Prefix
    <3> QED BY <1>2, <3>1, <3>2 DEF Ready
  <2> QED BY <2>3, <2>4
<1> QED BY <1>3, <1>4

\* Plan, locks, room and slots.
LEMMA BatchedSound ==
    ASSUME Setting, NEW x, Sound(x, {}), Starting(x), NEW y, y = Batched(x)
    PROVE  Outcome(x, y)
<1> DEFINE v == PrefillPlan(x)
           g == GiveBack(v)
           s == IF g.verdict = "go" THEN RoomIfDecoding(g) ELSE g
<1>1. y = IF s.verdict = "go" THEN Decode(s) ELSE s
  BY DEF Batched, Then
<1>2. v = PrefillPlan(x)
  OBVIOUS
<1>3. g = GiveBack(v)
  OBVIOUS
<1>4. s = IF g.verdict = "go" THEN RoomIfDecoding(g) ELSE g
  OBVIOUS
<1> HIDE DEF v, g, s
<1>5. Sound(v, v.restored) /\ PlanMade(x, v)
  <2>1. \A held : held = {} => Sound(x, held)
    OBVIOUS
  <2> QED BY <1>2, PrefillPlanSound
<1>6. Sound(g, {}) /\ Alike(v, g) /\ Avail(v) <= Avail(g)
  BY <1>3, <1>5, GiveBackSound
<1>7. g.verdict = v.verdict
  BY <1>6, AlikeIs
<1>8. Sound(s, {}) /\ (s.verdict = "go" => Ready(x, s))
  <2>1. CASE g.verdict # "go"
    BY <1>4, <1>6, <2>1
  <2>2. CASE g.verdict = "go"
    <3>1. s = RoomIfDecoding(g) /\ v.verdict = "go"
      BY <1>4, <1>7, <2>2
    <3> QED BY <1>5, <1>6, <3>1, RoomSound
  <2> QED BY <2>1, <2>2
<1>9. CASE s.verdict # "go"
  <2>1. y = s
    BY <1>1, <1>9
  <2> QED BY <1>8, <1>9, <2>1 DEF Sound, Outcome
<1>10. CASE s.verdict = "go"
  <2>1. y = Decode(s)
    BY <1>1, <1>10
  <2>2. Executes(s, y)
    BY <1>8, <1>10, <2>1, DecodeSound DEF Ready
  <2>3. /\ y.verdict = "go" /\ Pool(y.kv, y.cached, y.pins) /\ y.pins = s.pins
        /\ y.waiting = s.waiting /\ y.batch = s.batch /\ y.admitted = s.admitted
        /\ y.extend = s.extend /\ y.host = s.host /\ y.hostUsed = s.hostUsed
        /\ y.reserve = s.reserve /\ y.window = s.window
        /\ Computes(y.kv, y.cached, y.waiting, {}, y.reserve)
        /\ Filled(y.batch, y.kv) /\ Filled(y.admitted, y.kv)
    BY <2>2 DEF Executes, Owned, Copied
  <2>4. /\ Parted(y.waiting, y.batch, y.admitted)
        /\ y.reserve \subseteq y.waiting \cup y.admitted
        /\ Locked(y.pins, y.reserve, y.batch \cup y.admitted, {})
        /\ Copies(y.host, y.hostUsed, y.waiting \cup y.admitted)
        /\ Remembered(y.waiting, y.reserve, y.host) /\ Finds(y.admitted, y.extend)
        /\ Lined(y.window.cohort)
    BY <1>8, <2>3 DEF Sound
  <2>5. /\ Split(y.window) /\ Prefix(x, y)
        /\ y.batch \cup y.admitted \subseteq Range(y.window.cohort) /\ NobodyPast(y)
        /\ Range(order) # {} => y.batch \cup y.admitted # {}
        /\ y.reserve \cap y.admitted = {} /\ DOMAIN y.host \cap y.admitted = {}
    <3>1. Ready(x, s)
      BY <1>8, <1>10
    <3>2. Prefix(x, y) /\ NobodyPast(y)
      BY <2>3, <3>1 DEF Ready, Prefix, NobodyPast
    <3> QED BY <2>3, <3>1, <3>2 DEF Ready
  <2> QED BY <2>3, <2>4, <2>5 DEF Outcome
<1> QED BY <1>9, <1>10

-----------------------------------------------------------------------------
(* The window a pass begins with. *)

\* The calls of a cohort that are not finished are in the order of a list.
Follows(c, s) ==
    \A i, j \in DOMAIN c :
        (i < j /\ c[i] \in Range(s) /\ c[j] \in Range(s)) => Precedes(s, c[i], c[j])

\* A window of calls that are there, in the order that was given.
Opens(w, sorted) ==
    /\ Split(w) /\ Lined(w.cohort) /\ Agree(w.cohort, sorted)
    /\ w.active \cup w.reserve = Range(w.cohort) /\ Range(w.cohort) \subseteq Range(order)
    /\ \A i \in DOMAIN w.cohort :
            /\ w.cohort[i] \in w.active <=> i <= Capacity
            /\ w.cohort[i] \in w.reserve <=> i > Capacity
    /\ Range(order) # {} => 1 \in DOMAIN w.cohort

\* The keys of the calls are their places.
LEMMA KeyedIs ==
    ASSUME NEW s
    PROVE  PlacedIn(Keyed(s), s)
<1> SUFFICES ASSUME NEW r \in Range(s)
             PROVE  /\ Keyed(s)[r].queue = 0 /\ Keyed(s)[r].order \in DOMAIN s
                    /\ s[Keyed(s)[r].order] = r
  BY DEF PlacedIn, Keyed
<1>1. \E i \in DOMAIN s : s[i] = r
  BY DEF Range
<1>2. (CHOOSE i \in DOMAIN s : s[i] = r) \in DOMAIN s /\ s[CHOOSE i \in DOMAIN s : s[i] = r] = r
  BY <1>1
<1> QED BY <1>2 DEF Keyed

\* A plan of calls that are there opens a window.
LEMMA PlanOpens ==
    ASSUME Setting, NEW c, Lined(c), Range(c) \subseteq Range(order), Len(c) > 0,
           \A i \in DOMAIN c : i <= MaxRunning,
           NEW sorted, Agree(c, sorted), NEW rem \in Nat, NEW w, w = Plan(c, rem)
    PROVE  Opens(w, sorted)
<1>1. c \in Seq(Calls) /\ IsInjective(c)
  BY DEF Lined
<1>2. /\ w.remaining = rem /\ w.cohort = c /\ w.active \cup w.reserve = Range(c)
      /\ \A i \in DOMAIN c : c[i] \in w.reserve <=> i > Capacity
  BY <1>1, PlanIs
<1>3. Capacity \in Nat /\ Capacity > 0
  BY WindowAssumption
<1>4. w.active = Range(First(c, Capacity))
  BY DEF Plan
<1>5. \A i \in DOMAIN c : c[i] \in w.active <=> i <= Capacity
  <2>1. \A i \in DOMAIN c : c[i] \in Range(First(c, Capacity)) <=> i <= Capacity
    BY <1>1, <1>3, FirstOnce
  <2> QED BY <1>4, <2>1
<1>6. w = [remaining |-> w.remaining, cohort |-> w.cohort, active |-> w.active, reserve |-> w.reserve]
  BY DEF Plan
<1>7. Split(w)
  BY <1>2, <1>6 DEF Split
<1>8. 1 \in DOMAIN c
  BY <1>1
<1> QED BY <1>2, <1>5, <1>7, <1>8 DEF Opens

\* What is left of a cohort is in its order, and no longer.
LEMMA SurvivorsAre ==
    ASSUME Setting, NEW old, Split(old), Lined(old.cohort), Follows(old.cohort, order),
           NEW c, c = Among(old.cohort, Range(order))
    PROVE  /\ Lined(c) /\ Range(c) \subseteq Range(order) /\ Agree(c, order)
           /\ \A i \in DOMAIN c : i <= MaxRunning
<1> DEFINE b == old.cohort
           S == Range(order)
<1>1. b \in Seq(Calls) /\ IsInjective(b)
  BY DEF Lined
<1>2. /\ c \in Seq(Range(b) \cap S) /\ Range(c) = Range(b) \cap S /\ IsInjective(c)
      /\ \A p, q \in S : Precedes(b, p, q) => Precedes(c, p, q)
  <2>1. c = Among(b, S)
    OBVIOUS
  <2> HIDE DEF S, b
  <2>2. /\ Among(b, S) \in Seq(Range(b) \cap S) /\ Range(Among(b, S)) = Range(b) \cap S
        /\ IsInjective(b) => IsInjective(Among(b, S))
        /\ \A p, q \in S : Precedes(b, p, q) => Precedes(Among(b, S), p, q)
    BY <1>1, AmongIs
  <2> QED BY <1>1, <2>1, <2>2
<1>3. Range(b) \subseteq Calls
  BY <1>1 DEF Range
<1>4. Len(b) \in Nat /\ DOMAIN b = 1..Len(b) /\ Len(c) \in Nat /\ DOMAIN c = 1..Len(c)
  BY <1>1, <1>2
<1>5. Agree(c, order)
  <2> SUFFICES ASSUME NEW i \in DOMAIN c, NEW j \in DOMAIN c, i < j
               PROVE  Precedes(order, c[i], c[j])
    BY DEF Agree
  <2>1. c[i] \in Range(b) \cap S /\ c[j] \in Range(b) \cap S
    BY <1>2 DEF Range
  <2>2. PICK k \in DOMAIN b : b[k] = c[i]
    BY <2>1 DEF Range
  <2>3. PICK l \in DOMAIN b : b[l] = c[j]
    BY <2>1 DEF Range
  <2>4. k # l
    BY <1>2, <1>4, <2>2, <2>3 DEF IsInjective
  <2>5. ~(l < k)
    <3> SUFFICES ASSUME l < k PROVE FALSE
      OBVIOUS
    <3>1. Precedes(b, c[j], c[i])
      BY <2>2, <2>3 DEF Precedes
    <3>2. Precedes(c, c[j], c[i])
      BY <1>2, <2>1, <3>1
    <3>3. PICK e \in DOMAIN c, f \in DOMAIN c : e < f /\ c[e] = c[j] /\ c[f] = c[i]
      BY <3>2 DEF Precedes
    <3>4. e = j /\ f = i
      BY <1>2, <3>3 DEF IsInjective
    <3> QED BY <1>4, <3>3, <3>4
  <2>6. k < l
    BY <1>4, <2>4, <2>5
  <2> QED BY <2>1, <2>2, <2>3, <2>6 DEF Follows
<1>6. Len(c) <= Len(b)
  <2>1. IsFiniteSet(Range(b)) /\ Cardinality(Range(b)) <= Len(b)
    BY <1>1, RangeSize
  <2>2. c \in Seq(Range(b))
    BY <1>2
  <2>3. Len(c) <= Cardinality(Range(b))
    BY <1>2, <2>1, <2>2, LenIs
  <2>4. Cardinality(Range(b)) \in Nat
    BY <2>1, FS_CardinalityType
  <2> QED BY <1>4, <2>1, <2>3, <2>4
<1>7. \A i \in DOMAIN c : i <= MaxRunning
  <2> SUFFICES ASSUME NEW i \in DOMAIN c PROVE i <= MaxRunning
    OBVIOUS
  <2>1. i \in DOMAIN b
    BY <1>4, <1>6
  <2> QED BY <2>1 DEF Split
<1>8. c \in Seq(Calls)
  BY <1>2, <1>3
<1> QED BY <1>2, <1>5, <1>7, <1>8 DEF Lined

\* select: the window of a pass.
LEMMA SelectOpens ==
    ASSUME Setting, NEW sorted \in SetToSeqs(Range(order)),
           NEW old, Split(old), Lined(old.cohort), Follows(old.cohort, order),
           sorted = order \/ AtBoundary(old, Range(order)),
           NEW w, w = Select(old, Keyed(sorted), Range(order))
    PROVE  Opens(w, sorted)
<1> DEFINE S == Range(order)
<1>1. S \subseteq Calls
  BY DEF Setting, Range
<1>2. IsFiniteSet(S)
  BY <1>1, FS_Subset DEF Setting
<1>3. PlacedIn(Keyed(sorted), sorted)
  BY KeyedIs
<1>4. old.cohort \in Seq(Calls) /\ IsInjective(old.cohort) /\ old.remaining \in Nat
  BY DEF Lined, Split
<1>5. CASE S = {}
  <2>1. w = EmptyWindow
    BY <1>5 DEF Select
  <2>2. /\ w.cohort = << >> /\ w.active = {} /\ w.reserve = {} /\ w.remaining = 0
        /\ w = [remaining |-> w.remaining, cohort |-> w.cohort, active |-> w.active,
                reserve |-> w.reserve]
    BY <2>1 DEF EmptyWindow
  <2>3. << >> \in Seq(Calls) /\ DOMAIN << >> = {} /\ Len(<< >>) = 0
    OBVIOUS
  <2>4. Split(w)
    BY <2>2, <2>3 DEF Split
  <2>5. Lined(w.cohort) /\ Agree(w.cohort, sorted)
    BY <2>2, <2>3 DEF Lined, IsInjective, Agree
  <2>6. Range(w.cohort) = {}
    BY <2>2, <2>3 DEF Range
  <2> QED BY <1>5, <2>2, <2>3, <2>4, <2>5, <2>6 DEF Opens
<1>6. CASE S # {}
  <2> DEFINE c == w.cohort
  <2>1. /\ w = Plan(c, w.remaining) /\ w.remaining \in Nat \ {0}
        /\ c \in Seq(S) /\ IsInjective(c) /\ Len(c) > 0
        /\ ~AtBoundary(old, S) => c = Among(old.cohort, S)
    <3> HIDE DEF S
    <3>1. sorted \in SetToSeqs(S) /\ w = Select(old, Keyed(sorted), S)
      BY DEF S
    <3>2. /\ w = Plan(w.cohort, w.remaining) /\ w.remaining \in Nat \ {0}
          /\ w.cohort \in Seq(S) /\ IsInjective(w.cohort) /\ Len(w.cohort) > 0
          /\ ~AtBoundary(old, S) =>
                 w.remaining = old.remaining /\ w.cohort = Among(old.cohort, S)
      <4>1. S # {} /\ IsFiniteSet(S) /\ PlacedIn(Keyed(sorted), sorted)
        BY <1>2, <1>3, <1>6
      <4> DEFINE cs == Keyed(sorted)
      <4>2. PlacedIn(cs, sorted) /\ w = Select(old, cs, S)
        BY <3>1, <4>1
      <4> HIDE DEF cs
      <4> QED BY <1>4, <3>1, <4>1, <4>2, SelectIs
    <3> QED BY <3>2
  <2>2. Agree(c, sorted) /\ \A i \in DOMAIN c : i <= MaxRunning
    <3>1. CASE AtBoundary(old, S)
      <4> HIDE DEF S
      <4>1. sorted \in SetToSeqs(S) /\ w = Select(old, Keyed(sorted), S)
        BY DEF S
      <4>2. Agree(w.cohort, sorted) /\ \A i \in DOMAIN w.cohort : i <= Capacity + Over
        BY <1>2, <1>3, <1>6, <3>1, <4>1, SelectFirst
      <4> QED BY <4>2 DEF MaxRunning
    <3>2. CASE ~AtBoundary(old, S)
      <4>1. sorted = order /\ c = Among(old.cohort, S)
        BY <2>1, <3>2
      <4> QED BY <4>1, SurvivorsAre
    <3> QED BY <3>1, <3>2
  <2>3. Lined(c) /\ Range(c) \subseteq Range(order)
    <3>1. c \in Seq(Calls)
      BY <1>1, <2>1
    <3> QED BY <2>1, <3>1 DEF Lined, Range
  <2> HIDE DEF c
  <2> QED BY <2>1, <2>2, <2>3, PlanOpens
<1> QED BY <1>5, <1>6

-----------------------------------------------------------------------------
(* What holds between the steps of the event loop. *)

\* Who computes: until a batch is executed, its calls still have all but a token.
Owing == IF phase = "run" THEN {} ELSE batch

\* The window that the next pass begins with.
Windowed == Split(window) /\ Lined(window.cohort) /\ Follows(window.cohort, order)

\* Locks, copies and KV belong to the calls that are there.
Books ==
    /\ Setting /\ began \subseteq Calls
    /\ Pool(kv, cached, pins) /\ Parted(waiting, batch, admitted)
    /\ reserve \subseteq waiting \cup admitted
    /\ Locked(pins, reserve, batch \cup admitted, {})
    /\ Copies(host, hostUsed, waiting \cup admitted)
    /\ Computes(kv, cached, waiting, Owing, reserve)
    /\ Remembered(waiting, reserve, host)
    /\ Finds(admitted, extend) /\ Filled(admitted, kv)

\* Where the loop is.
Turn ==
    /\ phase \in {"loop", "run", "idle"} /\ verdict # "broken"
    /\ verdict # "go" => phase = "loop"
    /\ verdict = "go" => Windowed
    /\ (verdict = "go" /\ phase # "run") => admitted = {}
    /\ phase = "run" => Filled(batch, kv) /\ reserve \cup DOMAIN host \subseteq waiting
    /\ phase = "idle" => Range(order) = {}

IInv == Books /\ Turn /\ NoneRunsPast

\* The empty scheduler.
LEMMA InitIInv == Init => IInv
<1> SUFFICES ASSUME Init PROVE IInv
  OBVIOUS
<1>1. /\ order = << >> /\ window = EmptyWindow
      /\ waiting = {} /\ batch = {} /\ admitted = {} /\ reserve = {}
      /\ tok = << >> /\ kv = << >> /\ cached = << >> /\ pins = << >>
      /\ host = << >> /\ hostUsed = 0 /\ extend = << >> /\ began = {}
      /\ phase = "loop" /\ verdict = "go"
  BY DEF Init
<1>2. DOMAIN << >> = {} /\ Range(<< >>) = {} /\ << >> \in Seq({}) /\ IsInjective(<< >>)
  <2>1. DOMAIN << >> = {} /\ << >> \in Seq({})
    OBVIOUS
  <2> QED BY <2>1 DEF Range, IsInjective
<1>3. Calls = {}
  BY <1>1, <1>2 DEF Calls
<1>4. \A S : << >> \in [{} -> S]
  OBVIOUS
<1>5. Setting
  BY <1>1, <1>2, <1>3, <1>4, FS_EmptySet DEF Setting
<1>6. Pool(kv, cached, pins)
  BY <1>1, <1>3, <1>4 DEF Pool
<1>7. Parted(waiting, batch, admitted)
  BY <1>1, <1>2 DEF Parted
<1>8. Locked(pins, reserve, batch \cup admitted, {}) /\ Filled(admitted, kv)
  BY <1>1, <1>3 DEF Locked, Filled
<1>9. Copies(host, hostUsed, waiting \cup admitted)
  <2>1. Total(host, DOMAIN host) = 0
    BY <1>1, <1>2, TotalEmpty
  <2> QED BY <1>1, <1>2, <2>1, PoolAssumption DEF Copies
<1>10. Computes(kv, cached, waiting, Owing, reserve)
  BY <1>1, <1>3 DEF Computes, Owing
<1>11. Remembered(waiting, reserve, host) /\ Finds(admitted, extend)
  BY <1>1 DEF Remembered, Finds
<1>12. Books
  BY <1>1, <1>5, <1>6, <1>7, <1>8, <1>9, <1>10, <1>11 DEF Books
<1>13. Windowed
  <2>1. /\ window.cohort = << >> /\ window.remaining = 0
        /\ window = [remaining |-> window.remaining, cohort |-> window.cohort,
                     active |-> window.active, reserve |-> window.reserve]
    BY <1>1 DEF EmptyWindow
  <2>2. Split(window)
    BY <1>2, <2>1 DEF Split
  <2>3. Lined(window.cohort)
    BY <1>2, <1>3, <2>1 DEF Lined
  <2>4. Follows(window.cohort, order)
    BY <1>2, <2>1 DEF Follows
  <2> QED BY <2>2, <2>3, <2>4 DEF Windowed
<1>14. Turn
  BY <1>1, <1>2, <1>13 DEF Turn
<1>15. NoneRunsPast
  BY <1>1 DEF NoneRunsPast
<1> QED BY <1>12, <1>14, <1>15 DEF IInv

\* Who is there.
LEMMA HoldersAre ==
    ASSUME Books
    PROVE  /\ Range(order) \subseteq Calls /\ waiting \subseteq Range(order)
           /\ batch \subseteq Range(order) /\ admitted \subseteq Range(order)
           /\ reserve \subseteq Range(order) /\ DOMAIN host \subseteq Range(order)
           /\ DOMAIN pins = Calls /\ DOMAIN kv = Calls /\ DOMAIN cached = Calls
<1>1. Range(order) \subseteq Calls
  BY DEF Books, Setting, Range
<1>2. waiting \subseteq Range(order) /\ batch \subseteq Range(order) /\ admitted \subseteq Range(order)
  BY DEF Books, Parted
<1>3. reserve \subseteq Range(order) /\ DOMAIN host \subseteq Range(order)
  BY <1>2 DEF Books, Copies
<1> QED BY <1>1, <1>2, <1>3 DEF Books, Pool

\* _add_request_to_queue.
LEMMA AddKeeps ==
    ASSUME IInv, NEW r, NEW prompt \in Prompts, NEW at \in 1..(Len(order) + 1), Add(r, prompt, at)
    PROVE  IInv'
<1>1. /\ verdict = "go" /\ phase = "loop" /\ r \notin Calls
      /\ order' = InsertAt(order, at, r) /\ waiting' = waiting \cup {r}
      /\ tok' = Put(tok, r, prompt)
      /\ kv' = Put(kv, r, 0) /\ cached' = Put(cached, r, 0) /\ pins' = Put(pins, r, 0)
      /\ window' = window /\ batch' = batch /\ reserve' = reserve /\ host' = host
      /\ hostUsed' = hostUsed /\ admitted' = admitted /\ extend' = extend /\ began' = began
      /\ phase' = phase /\ verdict' = verdict
  BY DEF Add, Alive, Calls
<1>2. Books /\ Turn
  BY DEF IInv
<1>3. /\ Range(order) \subseteq Calls /\ waiting \subseteq Range(order)
      /\ batch \subseteq Range(order) /\ admitted \subseteq Range(order)
      /\ reserve \subseteq Range(order) /\ DOMAIN host \subseteq Range(order)
      /\ DOMAIN pins = Calls /\ DOMAIN kv = Calls /\ DOMAIN cached = Calls
  BY <1>2, HoldersAre
<1>4. order \in Seq(Calls) /\ IsInjective(order) /\ IsFiniteSet(Calls) /\ tok \in [Calls -> Nat \ {0}]
  BY <1>2 DEF Books, Setting
<1>5. prompt \in Nat \ {0}
  BY PoolAssumption
<1>6. /\ Calls' = Calls \cup {r} /\ tok' \in [Calls' -> Nat \ {0}]
      /\ \A q \in Calls : tok'[q] = tok[q]
  BY <1>1, <1>4, <1>5 DEF Put, Calls
<1>7. /\ DOMAIN kv' = Calls' /\ DOMAIN cached' = Calls' /\ DOMAIN pins' = Calls'
      /\ kv'[r] = 0 /\ cached'[r] = 0 /\ pins'[r] = 0
      /\ \A q \in Calls : kv'[q] = kv[q] /\ cached'[q] = cached[q] /\ pins'[q] = pins[q]
      /\ kv' = [q \in Calls' |-> kv'[q]] /\ cached' = [q \in Calls' |-> cached'[q]]
      /\ pins' = [q \in Calls' |-> pins'[q]]
  BY <1>1, <1>3, <1>6 DEF Put
<1>8. order' \in Seq(Calls') /\ Range(order') = Range(order) \cup {r}
  <2>1. InsertAt(order, at, r) \in Seq(Calls \cup {r})
        /\ Range(InsertAt(order, at, r)) = Range(order) \cup {r}
    <3>1. \A S : \A s \in Seq(S) : \A k \in 1..(Len(s) + 1) :
              /\ InsertAt(s, k, r) \in Seq(S \cup {r})
              /\ Range(InsertAt(s, k, r)) = Range(s) \cup {r}
      BY InsertIs
    <3> QED BY <1>4, <3>1
  <2> QED BY <1>1, <1>6, <2>1
<1>9. IsInjective(order') /\ \A p, q \in Range(order) : Precedes(order, p, q) => Precedes(order', p, q)
  <2>1. r \notin Range(order)
    BY <1>1, <1>3
  <2> QED BY <1>1, <1>4, <2>1, InsertOnce
<1>10. Setting'
  BY <1>4, <1>6, <1>8, <1>9, FS_AddElement DEF Setting
<1>11. Pool(kv, cached, pins)'
  <2>1. /\ kv \in [Calls -> Nat] /\ cached \in [Calls -> Nat] /\ pins \in [Calls -> Int]
        /\ \A q \in Calls : cached[q] <= kv[q]
    BY <1>2 DEF Books, Pool
  <2>2. \A q \in Calls' : /\ kv'[q] \in Nat /\ cached'[q] \in Nat /\ pins'[q] \in Int
                          /\ cached'[q] <= kv'[q]
    BY <1>6, <1>7, <2>1
  <2>3. kv' \in [Calls' -> Nat] /\ cached' \in [Calls' -> Nat] /\ pins' \in [Calls' -> Int]
    BY <1>7, <2>2
  <2> QED BY <2>2, <2>3 DEF Pool
<1>12. Parted(waiting, batch, admitted)'
  <2>1. r \notin Range(order)
    BY <1>1, <1>3
  <2>2. Parted(waiting, batch, admitted)
    BY <1>2 DEF Books
  <2> QED BY <1>1, <1>3, <1>8, <2>1, <2>2 DEF Parted
<1>13. Locked(pins, reserve, batch \cup admitted, {})'
  <2>1. Locked(pins, reserve, batch \cup admitted, {})
    BY <1>2 DEF Books
  <2>2. r \notin reserve /\ r \notin batch \cup admitted
    BY <1>1, <1>3
  <2>3. pins'[r] = One(r, reserve) + One(r, batch \cup admitted) + One(r, {})
    BY <1>7, <2>2 DEF One
  <2>4. \A q \in Calls' : pins'[q] = One(q, reserve) + One(q, batch \cup admitted) + One(q, {})
    BY <1>6, <1>7, <2>1, <2>3 DEF Locked
  <2> QED BY <1>1, <2>4 DEF Locked, One
<1>14. Copies(host, hostUsed, waiting \cup admitted)'
  <2>1. Copies(host, hostUsed, waiting \cup admitted)
    BY <1>2 DEF Books
  <2>2. \A q \in DOMAIN host : Computed(q)' = Computed(q)
    BY <1>3, <1>6 DEF Computed
  <2> QED BY <1>1, <2>1, <2>2 DEF Copies
<1>15. Computes(kv, cached, waiting, Owing, reserve)'
  <2>1. Computes(kv, cached, waiting, Owing, reserve)
    BY <1>2 DEF Books
  <2>2. \A q \in Range(order) : Computed(q)' = Computed(q)
    BY <1>3, <1>6 DEF Computed
  <2>3. Computed(r)' \in Nat
    <3>1. tok'[r] = prompt
      BY <1>1 DEF Put
    <3> QED BY <1>5, <3>1 DEF Computed
  <2>4. Owing' = Owing /\ Owing \subseteq Range(order)
    BY <1>1, <1>3 DEF Owing
  <2>5. \A q \in waiting' : kv'[q] = cached'[q] /\ cached'[q] <= Computed(q)'
    <3> SUFFICES ASSUME NEW q \in waiting' PROVE kv'[q] = cached'[q] /\ cached'[q] <= Computed(q)'
      OBVIOUS
    <3>1. CASE q = r
      BY <1>7, <2>3, <3>1
    <3>2. CASE q # r
      <4>1. q \in waiting /\ q \in Range(order) /\ q \in Calls
        BY <1>1, <1>3, <3>2
      <4> QED BY <1>7, <2>1, <2>2, <4>1 DEF Computes
    <3> QED BY <3>1, <3>2
  <2>6. \A q \in Owing' : kv'[q] = Computed(q)'
    <3> SUFFICES ASSUME NEW q \in Owing PROVE kv'[q] = Computed(q)'
      BY <2>4
    <3>1. q \in Range(order) /\ q \in Calls
      BY <1>3, <2>4
    <3> QED BY <1>7, <2>1, <2>2, <3>1 DEF Computes
  <2>7. \A q \in reserve' : cached'[q] = Computed(q)'
    <3> SUFFICES ASSUME NEW q \in reserve PROVE cached'[q] = Computed(q)'
      BY <1>1
    <3>1. q \in Range(order) /\ q \in Calls
      BY <1>3
    <3> QED BY <1>7, <2>1, <2>2, <3>1 DEF Computes
  <2>8. \A q \in Calls' \ Range(order') : kv'[q] = 0 /\ cached'[q] = 0
    <3> SUFFICES ASSUME NEW q \in Calls' \ Range(order') PROVE kv'[q] = 0 /\ cached'[q] = 0
      OBVIOUS
    <3>1. q \in Calls \ Range(order)
      BY <1>6, <1>8
    <3> QED BY <1>7, <2>1, <3>1 DEF Computes
  <2> QED BY <2>5, <2>6, <2>7, <2>8 DEF Computes
<1>16. Remembered(waiting, reserve, host)' /\ Finds(admitted, extend)'
  <2>1. Remembered(waiting, reserve, host) /\ Finds(admitted, extend) /\ r \notin began
    BY <1>1, <1>2 DEF Books
  <2> QED BY <1>1, <2>1 DEF Remembered, Finds
<1>17. admitted' = {} /\ Filled(admitted, kv)'
  BY <1>1, <1>2 DEF Turn, Filled
<1>18. Books'
  <2>1. began' \subseteq Calls' /\ (reserve \subseteq waiting \cup admitted)'
    BY <1>1, <1>2, <1>6 DEF Books
  <2> QED BY <1>10, <1>11, <1>12, <1>13, <1>14, <1>15, <1>16, <1>17, <2>1 DEF Books
<1>19. Windowed'
  <2>1. Split(window) /\ Lined(window.cohort) /\ Follows(window.cohort, order)
    BY <1>1, <1>2 DEF Turn, Windowed
  <2>2. window.cohort \in Seq(Calls) /\ IsInjective(window.cohort)
    BY <2>1 DEF Lined
  <2>3. \A i \in DOMAIN window.cohort : window.cohort[i] \in Calls
    BY <2>2
  <2>4. Lined(window.cohort)'
    BY <1>1, <1>6, <2>2 DEF Lined
  <2>5. Follows(window.cohort, order')
    <3> SUFFICES ASSUME NEW i \in DOMAIN window.cohort, NEW j \in DOMAIN window.cohort, i < j,
                        window.cohort[i] \in Range(order'), window.cohort[j] \in Range(order')
                 PROVE  Precedes(order', window.cohort[i], window.cohort[j])
      BY DEF Follows
    <3>1. window.cohort[i] \in Range(order) /\ window.cohort[j] \in Range(order)
      BY <1>1, <1>8, <2>3
    <3>2. Precedes(order, window.cohort[i], window.cohort[j])
      BY <2>1, <3>1 DEF Follows
    <3> QED BY <1>9, <3>1, <3>2
  <2>6. Follows(window.cohort, order)' /\ Split(window)'
    BY <1>1, <2>1, <2>5
  <2> QED BY <2>4, <2>6 DEF Windowed
<1>20. Turn'
  BY <1>1, <1>17, <1>19 DEF Turn
<1>21. NoneRunsPast'
  BY <1>1 DEF NoneRunsPast
<1> QED BY <1>18, <1>20, <1>21 DEF IInv

\* abort_request.
LEMMA AbortKeeps ==
    ASSUME IInv, NEW r, Abort(r)
    PROVE  IInv'
<1>1. /\ verdict = "go" /\ phase = "loop" /\ r \in waiting
      /\ host' = Drop(host, r)
      /\ hostUsed' = hostUsed - Had(host, r)
      /\ reserve' = reserve \ {r}
      /\ pins' = IF r \in reserve THEN [pins EXCEPT ![r] = @ - 1] ELSE pins
      /\ waiting' = waiting \ {r}
      /\ order' = Among(order, Range(order) \ {r})
      /\ kv' = [kv EXCEPT ![r] = 0] /\ cached' = [cached EXCEPT ![r] = 0]
      /\ window' = window /\ batch' = batch /\ tok' = tok /\ admitted' = admitted
      /\ extend' = extend /\ began' = began /\ phase' = phase /\ verdict' = verdict
  BY DEF Abort, Alive, DropQueued, Had
<1>2. Books /\ Turn
  BY DEF IInv
<1>3. /\ Range(order) \subseteq Calls /\ waiting \subseteq Range(order)
      /\ batch \subseteq Range(order) /\ admitted \subseteq Range(order)
      /\ reserve \subseteq Range(order) /\ DOMAIN host \subseteq Range(order)
      /\ DOMAIN pins = Calls /\ DOMAIN kv = Calls /\ DOMAIN cached = Calls
  BY <1>2, HoldersAre
<1>4. /\ Setting /\ order \in Seq(Calls) /\ IsInjective(order) /\ IsFiniteSet(Calls)
      /\ tok \in [Calls -> Nat \ {0}]
  BY <1>2 DEF Books, Setting
<1>5. r \in Range(order) /\ r \in Calls /\ r \notin batch /\ r \notin admitted /\ admitted = {}
  BY <1>1, <1>2, <1>3 DEF Books, Parted, Turn
<1>6. Calls' = Calls /\ \A q : Computed(q)' = Computed(q)
  BY <1>1 DEF Calls, Computed
<1>7. /\ kv'[r] = 0 /\ cached'[r] = 0
      /\ \A q \in Calls : q # r => kv'[q] = kv[q] /\ cached'[q] = cached[q]
      /\ kv' = [q \in Calls |-> kv'[q]] /\ cached' = [q \in Calls |-> cached'[q]]
  BY <1>1, <1>3, <1>5
<1>8. /\ pins' = [q \in Calls |-> pins'[q]]
      /\ \A q \in Calls : pins'[q] = IF q = r /\ q \in reserve THEN pins[q] - 1 ELSE pins[q]
  <2>1. pins = [q \in Calls |-> pins[q]]
    BY <1>2 DEF Books, Pool
  <2>2. CASE r \in reserve
    BY <1>1, <1>3, <1>5, <2>2
  <2>3. CASE r \notin reserve
    BY <1>1, <2>1, <2>3
  <2> QED BY <2>2, <2>3
<1>9. /\ order' \in Seq(Calls) /\ Range(order') = Range(order) \ {r} /\ IsInjective(order')
      /\ \A p, q \in Range(order) \ {r} : Precedes(order, p, q) => Precedes(order', p, q)
  <2> DEFINE T == Range(order) \ {r}
  <2>1. order' = Among(order, T) /\ Range(order) \cap T = T /\ T \subseteq Calls
    BY <1>1, <1>3
  <2> HIDE DEF T
  <2>2. /\ Among(order, T) \in Seq(Range(order) \cap T) /\ IsInjective(Among(order, T))
        /\ Range(Among(order, T)) = Range(order) \cap T
        /\ \A p, q \in T : Precedes(order, p, q) => Precedes(Among(order, T), p, q)
    BY <1>4, AmongIs
  <2>3. order' \in Seq(T) /\ IsInjective(order') /\ Range(order') = T
        /\ \A p, q \in T : Precedes(order, p, q) => Precedes(order', p, q)
    BY <2>1, <2>2
  <2>4. order' \in Seq(Calls)
    BY <2>1, <2>3
  <2> QED BY <2>3, <2>4 DEF T
<1>10. Setting'
  BY <1>1, <1>4, <1>6, <1>9 DEF Setting
<1>11. Pool(kv, cached, pins)'
  <2>1. /\ kv \in [Calls -> Nat] /\ cached \in [Calls -> Nat] /\ pins \in [Calls -> Int]
        /\ \A q \in Calls : cached[q] <= kv[q]
    BY <1>2 DEF Books, Pool
  <2>2. \A q \in Calls : kv'[q] \in Nat /\ cached'[q] \in Nat /\ cached'[q] <= kv'[q]
    BY <1>7, <2>1
  <2>3. \A q \in Calls : pins'[q] \in Int
    BY <1>8, <2>1
  <2>4. kv' \in [Calls -> Nat] /\ cached' \in [Calls -> Nat] /\ pins' \in [Calls -> Int]
    BY <1>7, <1>8, <2>2, <2>3
  <2> QED BY <1>6, <2>2, <2>4 DEF Pool
<1>12. Parted(waiting, batch, admitted)'
  <2>1. Parted(waiting, batch, admitted)
    BY <1>2 DEF Books
  <2> QED BY <1>1, <1>5, <1>9, <2>1 DEF Parted
<1>13. Locked(pins, reserve, batch \cup admitted, {})'
  <2>1. Locked(pins, reserve, batch \cup admitted, {})
    BY <1>2 DEF Books
  <2>2. ASSUME NEW q \in Calls
        PROVE  pins'[q] = One(q, reserve \ {r}) + One(q, batch \cup admitted) + One(q, {})
    <3>1. pins[q] = One(q, reserve) + One(q, batch \cup admitted) + One(q, {})
      BY <2>1 DEF Locked
    <3>2. One(q, batch \cup admitted) \in {0, 1} /\ One(q, {}) = 0 /\ One(q, reserve) \in {0, 1}
      BY DEF One
    <3>3. CASE q = r /\ q \in reserve
      <4>1. One(q, reserve) = 1 /\ One(q, reserve \ {r}) = 0 /\ pins'[q] = pins[q] - 1
        BY <1>8, <3>3 DEF One
      <4> QED BY <3>1, <3>2, <4>1
    <3>4. CASE ~(q = r /\ q \in reserve)
      <4>1. One(q, reserve \ {r}) = One(q, reserve) /\ pins'[q] = pins[q]
        BY <1>8, <3>4 DEF One
      <4> QED BY <3>1, <4>1
    <3> QED BY <3>3, <3>4
  <2> QED BY <1>1, <1>6, <2>2 DEF Locked, One
<1>14. Copies(host, hostUsed, waiting \cup admitted)'
  <2>1. Copies(host, hostUsed, waiting \cup admitted)
    BY <1>2 DEF Books
  <2>2. Counts(host, DOMAIN host)
    <3>1. IsFiniteSet(DOMAIN host)
      BY <1>3, <1>4, FS_Subset
    <3>2. \A q \in DOMAIN host : host[q] \in Nat
      BY <1>3, <1>4, <2>1, ComputedIs DEF Copies
    <3> QED BY <3>1, <3>2 DEF Counts
  <2>3. /\ DOMAIN host' = DOMAIN host \ {r} /\ \A q \in DOMAIN host' : host'[q] = host[q]
        /\ Total(host', DOMAIN host') = Total(host, DOMAIN host) - Had(host, r)
        /\ Total(host', DOMAIN host') <= Total(host, DOMAIN host)
    <3>1. \A f, g : Counts(f, DOMAIN f) /\ g = Drop(f, r) =>
              /\ DOMAIN g = DOMAIN f \ {r} /\ \A q \in DOMAIN g : g[q] = f[q]
              /\ Total(g, DOMAIN g) = Total(f, DOMAIN f) - Had(f, r)
              /\ Total(g, DOMAIN g) <= Total(f, DOMAIN f)
      BY TotalDrop
    <3> QED BY <1>1, <2>2, <3>1
  <2>4. Total(host, DOMAIN host) \in Nat /\ Total(host', DOMAIN host') \in Int
    <3>1. Total(host, DOMAIN host) \in Nat
      BY <2>2, TotalType
    <3>2. Had(host, r) \in Nat
      BY <2>2 DEF Had, Counts
    <3> QED BY <2>3, <3>1, <3>2
  <2>5. hostUsed' = Total(host', DOMAIN host') /\ hostUsed' <= HostLimit
    BY <1>1, <2>1, <2>3, <2>4, PoolAssumption DEF Copies
  <2> QED BY <1>1, <1>5, <1>6, <2>1, <2>3, <2>5 DEF Copies
<1>15. Computes(kv, cached, waiting, Owing, reserve)'
  <2>1. Computes(kv, cached, waiting, Owing, reserve)
    BY <1>2 DEF Books
  <2>2. Owing' = Owing /\ r \notin Owing /\ Owing \subseteq Calls
    BY <1>1, <1>3, <1>5 DEF Owing
  <2>3. \A q \in waiting' : kv'[q] = cached'[q] /\ cached'[q] <= Computed(q)'
    <3> SUFFICES ASSUME NEW q \in waiting' PROVE kv'[q] = cached'[q] /\ cached'[q] <= Computed(q)
      BY <1>6
    <3>1. q \in waiting /\ q # r /\ q \in Calls
      BY <1>1, <1>3
    <3> QED BY <1>7, <2>1, <3>1 DEF Computes
  <2>4. \A q \in Owing' : kv'[q] = Computed(q)'
    BY <1>6, <1>7, <2>1, <2>2 DEF Computes
  <2>5. \A q \in reserve' : cached'[q] = Computed(q)'
    <3> SUFFICES ASSUME NEW q \in reserve' PROVE cached'[q] = Computed(q)
      BY <1>6
    <3>1. q \in reserve /\ q # r /\ q \in Calls
      BY <1>1, <1>3
    <3> QED BY <1>7, <2>1, <3>1 DEF Computes
  <2>6. \A q \in Calls' \ Range(order') : kv'[q] = 0 /\ cached'[q] = 0
    <3> SUFFICES ASSUME NEW q \in Calls \ Range(order') PROVE kv'[q] = 0 /\ cached'[q] = 0
      BY <1>6
    <3>1. CASE q = r
      BY <1>7, <3>1
    <3>2. CASE q # r
      <4>1. q \in Calls \ Range(order)
        BY <1>9, <3>2
      <4> QED BY <1>7, <2>1, <3>2, <4>1 DEF Computes
    <3> QED BY <3>1, <3>2
  <2> QED BY <2>3, <2>4, <2>5, <2>6 DEF Computes
<1>16. Remembered(waiting, reserve, host)' /\ Finds(admitted, extend)'
  <2>1. Remembered(waiting, reserve, host) /\ Finds(admitted, extend)
    BY <1>2 DEF Books
  <2>2. DOMAIN host' = DOMAIN host \ {r}
    BY <1>1 DEF Drop, Restrict
  <2> QED BY <1>1, <2>1, <2>2 DEF Remembered, Finds
<1>17. Filled(admitted, kv)' /\ (reserve \subseteq waiting \cup admitted)'
  BY <1>1, <1>2, <1>5 DEF Books, Filled
<1>18. Books'
  <2>1. began' \subseteq Calls'
    BY <1>1, <1>2, <1>6 DEF Books
  <2> QED BY <1>10, <1>11, <1>12, <1>13, <1>14, <1>15, <1>16, <1>17, <2>1 DEF Books
<1>19. Windowed'
  <2>1. Split(window) /\ Lined(window.cohort) /\ Follows(window.cohort, order)
    BY <1>1, <1>2 DEF Turn, Windowed
  <2>2. Follows(window.cohort, order')
    <3> SUFFICES ASSUME NEW i \in DOMAIN window.cohort, NEW j \in DOMAIN window.cohort, i < j,
                        window.cohort[i] \in Range(order'), window.cohort[j] \in Range(order')
                 PROVE  Precedes(order', window.cohort[i], window.cohort[j])
      BY DEF Follows
    <3>1. window.cohort[i] \in Range(order) \ {r} /\ window.cohort[j] \in Range(order) \ {r}
      BY <1>9
    <3>2. Precedes(order, window.cohort[i], window.cohort[j])
      BY <2>1, <3>1 DEF Follows
    <3> QED BY <1>9, <3>1, <3>2
  <2>3. Lined(window.cohort)'
    BY <1>1, <1>6, <2>1 DEF Lined
  <2>4. Follows(window.cohort, order)' /\ Split(window)'
    BY <1>1, <2>1, <2>2
  <2> QED BY <2>3, <2>4 DEF Windowed
<1>20. Turn'
  BY <1>1, <1>5, <1>19 DEF Turn
<1>21. NoneRunsPast'
  BY <1>1 DEF NoneRunsPast
<1> QED BY <1>18, <1>20, <1>21 DEF IInv

\* run_batch and process_batch_result.
LEMMA RunKeeps ==
    ASSUME IInv, NEW done \in SUBSET (batch \cup admitted), Run(done)
    PROVE  IInv'
<1> DEFINE all == batch \cup admitted
<1>1. /\ phase = "run" /\ done \subseteq all
      /\ tok' = [r \in DOMAIN tok |-> IF r \in all THEN tok[r] + 1 ELSE tok[r]]
      /\ cached' = [r \in DOMAIN cached' |-> cached'[r]]
      /\ kv' = [r \in DOMAIN kv |-> IF r \in done THEN 0 ELSE kv[r]]
      /\ pins' = [r \in DOMAIN pins |-> IF r \in done THEN 0 ELSE pins[r]]
      /\ batch' = all \ done /\ order' = Among(order, Range(order) \ done)
      /\ window' = WindowExecuted(window, batch = {})
      /\ admitted' = {} /\ extend' = << >> /\ began' = began \cup all /\ phase' = "loop"
      /\ waiting' = waiting /\ reserve' = reserve /\ host' = host /\ hostUsed' = hostUsed
      /\ verdict' = verdict
  BY DEF Run
<1>2. /\ DOMAIN cached' = DOMAIN kv
      /\ \A r \in DOMAIN kv : cached'[r] = IF r \in done THEN 0
                                           ELSE IF r \in admitted THEN kv[r] ELSE cached[r]
  BY DEF Run
<1>3. Books /\ Turn /\ verdict = "go" /\ Windowed
  BY <1>1 DEF IInv, Turn
<1>4. /\ Range(order) \subseteq Calls /\ waiting \subseteq Range(order)
      /\ batch \subseteq Range(order) /\ admitted \subseteq Range(order)
      /\ reserve \subseteq Range(order) /\ DOMAIN host \subseteq Range(order)
      /\ DOMAIN pins = Calls /\ DOMAIN kv = Calls /\ DOMAIN cached = Calls
  BY <1>3, HoldersAre
<1>5. /\ Setting /\ order \in Seq(Calls) /\ IsInjective(order) /\ IsFiniteSet(Calls)
      /\ tok \in [Calls -> Nat \ {0}]
  BY <1>3 DEF Books, Setting
<1>6. /\ Parted(waiting, batch, admitted) /\ waiting \cap all = {} /\ waiting \cup all = Range(order)
      /\ reserve \subseteq waiting /\ DOMAIN host \subseteq waiting /\ all \subseteq Calls
  BY <1>1, <1>3, <1>4 DEF Books, Parted, Turn
<1> HIDE DEF all
<1>7. /\ Calls' = Calls /\ tok' \in [Calls -> Nat \ {0}]
      /\ \A r \in Calls : r \notin all => Computed(r)' = Computed(r)
      /\ \A r \in all : Computed(r)' = tok[r]
  <2>1. DOMAIN tok' = DOMAIN tok /\ Calls = DOMAIN tok
    BY <1>1 DEF Calls
  <2>2. \A r \in Calls : tok[r] \in Nat \ {0} /\ tok'[r] = IF r \in all THEN tok[r] + 1 ELSE tok[r]
    BY <1>1, <1>5, <2>1
  <2>3. \A r \in Calls : tok'[r] \in Nat \ {0}
    BY <2>2
  <2>4. tok' \in [Calls -> Nat \ {0}]
    BY <1>1, <2>1, <2>3
  <2>5. \A r \in all : tok'[r] - 1 = tok[r]
    BY <1>6, <2>2
  <2> QED BY <1>6, <2>1, <2>2, <2>4, <2>5 DEF Computed, Calls
<1>8. /\ order' \in Seq(Calls) /\ Range(order') = Range(order) \ done /\ IsInjective(order')
      /\ \A p, q \in Range(order) \ done : Precedes(order, p, q) => Precedes(order', p, q)
  <2> DEFINE T == Range(order) \ done
  <2>1. order' = Among(order, T) /\ Range(order) \cap T = T /\ T \subseteq Calls
    BY <1>1, <1>4
  <2> HIDE DEF T
  <2>2. /\ Among(order, T) \in Seq(Range(order) \cap T) /\ IsInjective(Among(order, T))
        /\ Range(Among(order, T)) = Range(order) \cap T
        /\ \A p, q \in T : Precedes(order, p, q) => Precedes(Among(order, T), p, q)
    BY <1>5, AmongIs
  <2>3. order' \in Seq(T) /\ IsInjective(order') /\ Range(order') = T
        /\ \A p, q \in T : Precedes(order, p, q) => Precedes(order', p, q)
    BY <2>1, <2>2
  <2>4. order' \in Seq(Calls)
    BY <2>1, <2>3
  <2> QED BY <2>3, <2>4 DEF T
<1>9. Setting'
  BY <1>5, <1>7, <1>8 DEF Setting
<1>10. Pool(kv, cached, pins)'
  <2>1. /\ kv \in [Calls -> Nat] /\ cached \in [Calls -> Nat] /\ pins \in [Calls -> Int]
        /\ \A r \in Calls : cached[r] <= kv[r]
    BY <1>3 DEF Books, Pool
  <2>2. \A r \in Calls : /\ kv'[r] = IF r \in done THEN 0 ELSE kv[r]
                         /\ pins'[r] = IF r \in done THEN 0 ELSE pins[r]
    BY <1>1, <1>4
  <2>3. \A r \in Calls : /\ kv'[r] \in Nat /\ cached'[r] \in Nat /\ pins'[r] \in Int
                         /\ cached'[r] <= kv'[r]
    BY <1>2, <1>4, <2>1, <2>2
  <2>4. kv' \in [Calls -> Nat] /\ pins' \in [Calls -> Int]
    BY <1>1, <1>4, <2>3
  <2>5. cached' \in [Calls -> Nat]
    BY <1>1, <1>2, <1>4, <2>3
  <2> QED BY <1>7, <2>3, <2>4, <2>5 DEF Pool
<1>11. Parted(waiting, batch, admitted)'
  BY <1>1, <1>6, <1>8 DEF Parted
<1>12. Locked(pins, reserve, batch \cup admitted, {})'
  <2>1. Locked(pins, reserve, all, {})
    BY <1>3 DEF Books, all
  <2>2. ASSUME NEW r \in Calls
        PROVE  pins'[r] = One(r, reserve) + One(r, all \ done) + One(r, {})
    <3>1. pins[r] = One(r, reserve) + One(r, all) + One(r, {})
      BY <2>1 DEF Locked
    <3>2. pins'[r] = IF r \in done THEN 0 ELSE pins[r]
      BY <1>1, <1>4
    <3>3. CASE r \in done
      <4>1. r \notin reserve /\ r \notin all \ done /\ r \notin {}
        BY <1>1, <1>6, <3>3
      <4>2. One(r, reserve) = 0 /\ One(r, all \ done) = 0 /\ One(r, {}) = 0
        BY <4>1 DEF One
      <4> QED BY <3>2, <3>3, <4>2
    <3>4. CASE r \notin done
      <4>1. One(r, all \ done) = One(r, all)
        BY <3>4 DEF One
      <4> QED BY <3>1, <3>2, <3>4, <4>1
    <3> QED BY <3>3, <3>4
  <2>3. batch' \cup admitted' = all \ done
    BY <1>1
  <2>4. \A r \in Calls : pins'[r] = One(r, reserve') + One(r, batch' \cup admitted') + One(r, {})
    BY <1>1, <2>2, <2>3
  <2> QED BY <1>7, <2>4 DEF Locked, One
<1>13. Copies(host, hostUsed, waiting \cup admitted)'
  <2>1. Copies(host, hostUsed, waiting \cup admitted)
    BY <1>3 DEF Books
  <2>2. \A r \in DOMAIN host : Computed(r)' = Computed(r)
    BY <1>4, <1>6, <1>7
  <2> QED BY <1>1, <1>6, <2>1, <2>2 DEF Copies
<1>14. Computes(kv, cached, waiting, Owing, reserve)'
  <2>1. Computes(kv, cached, waiting, {}, reserve)
    BY <1>1, <1>3 DEF Books, Owing
  <2>2. Owing' = all \ done
    BY <1>1 DEF Owing
  <2>3. \A r \in Calls : kv'[r] = IF r \in done THEN 0 ELSE kv[r]
    BY <1>1, <1>4
  <2>4. Filled(batch, kv) /\ Filled(admitted, kv)
    BY <1>1, <1>3 DEF Books, Turn
  <2>5. \A r \in waiting' : kv'[r] = cached'[r] /\ cached'[r] <= Computed(r)'
    <3> SUFFICES ASSUME NEW r \in waiting PROVE kv'[r] = cached'[r] /\ cached'[r] <= Computed(r)'
      BY <1>1
    <3>1. r \in Calls /\ r \notin all /\ r \notin done /\ r \notin admitted
      BY <1>1, <1>4, <1>6 DEF all
    <3>2. kv'[r] = kv[r] /\ cached'[r] = cached[r] /\ Computed(r)' = Computed(r)
      BY <1>2, <1>4, <1>7, <2>3, <3>1
    <3> QED BY <2>1, <3>2 DEF Computes
  <2>6. \A r \in Owing' : kv'[r] = Computed(r)'
    <3> SUFFICES ASSUME NEW r \in all, r \notin done PROVE kv'[r] = Computed(r)'
      BY <2>2
    <3>1. r \in Calls /\ kv'[r] = kv[r] /\ Computed(r)' = tok[r]
      BY <1>6, <1>7, <2>3
    <3>2. kv[r] = tok[r]
      BY <2>4 DEF Filled, all
    <3> QED BY <3>1, <3>2
  <2>7. \A r \in reserve' : cached'[r] = Computed(r)'
    <3> SUFFICES ASSUME NEW r \in reserve PROVE cached'[r] = Computed(r)'
      BY <1>1
    <3>1. r \in Calls /\ r \notin all /\ r \notin done /\ r \notin admitted
      BY <1>1, <1>4, <1>6 DEF all
    <3>2. cached'[r] = cached[r] /\ Computed(r)' = Computed(r)
      BY <1>2, <1>4, <1>7, <3>1
    <3> QED BY <2>1, <3>2 DEF Computes
  <2>8. \A r \in Calls' \ Range(order') : kv'[r] = 0 /\ cached'[r] = 0
    <3> SUFFICES ASSUME NEW r \in Calls \ Range(order') PROVE kv'[r] = 0 /\ cached'[r] = 0
      BY <1>7
    <3>1. CASE r \in done
      BY <1>2, <1>4, <2>3, <3>1
    <3>2. CASE r \notin done
      <4>1. r \in Calls \ Range(order) /\ r \notin admitted
        BY <1>4, <1>8, <3>2
      <4> QED BY <1>2, <1>4, <2>1, <2>3, <3>2, <4>1 DEF Computes
    <3> QED BY <3>1, <3>2
  <2> QED BY <2>5, <2>6, <2>7, <2>8 DEF Computes
<1>15. Remembered(waiting, reserve, host)' /\ Finds(admitted, extend)'
  <2>1. Remembered(waiting, reserve, host)
    BY <1>3 DEF Books
  <2> QED BY <1>1, <1>6, <2>1 DEF Remembered, Finds
<1>16. Filled(admitted, kv)' /\ (reserve \subseteq waiting \cup admitted)'
       /\ began' \subseteq Calls'
  BY <1>1, <1>3, <1>6, <1>7 DEF Books, Filled
<1>17. Books'
  BY <1>9, <1>10, <1>11, <1>12, <1>13, <1>14, <1>15, <1>16 DEF Books
<1>18. Windowed'
  <2>1. Split(window) /\ Lined(window.cohort) /\ Follows(window.cohort, order)
    BY <1>3 DEF Windowed
  <2>2. window'.cohort = window.cohort /\ Split(window')
    <3>1. window = [remaining |-> window.remaining, cohort |-> window.cohort,
                    active |-> window.active, reserve |-> window.reserve]
          /\ window.remaining \in Nat
      BY <2>1 DEF Split
    <3>2. CASE batch = {} \/ window.remaining = 0
      <4>1. window' = window
        BY <1>1, <3>2 DEF WindowExecuted
      <4> QED BY <2>1, <4>1
    <3>3. CASE ~(batch = {} \/ window.remaining = 0)
      <4>1. window' = [window EXCEPT !.remaining = window.remaining - 1]
        BY <1>1, <3>3 DEF WindowExecuted
      <4>2. window.remaining - 1 \in Nat
        BY <3>1, <3>3
      <4> DEFINE n == window.remaining - 1
      <4> HIDE DEF n
      <4>3. window' = [remaining |-> n, cohort |-> window.cohort,
                       active |-> window.active, reserve |-> window.reserve]
        BY <3>1, <4>1 DEF n
      <4>4. /\ window'.remaining = n /\ window'.cohort = window.cohort
            /\ window'.active = window.active /\ window'.reserve = window.reserve
        BY <4>3
      <4> QED BY <2>1, <4>2, <4>3, <4>4 DEF Split, n
    <3> QED BY <3>2, <3>3
  <2>3. Follows(window.cohort, order')
    <3> SUFFICES ASSUME NEW i \in DOMAIN window.cohort, NEW j \in DOMAIN window.cohort, i < j,
                        window.cohort[i] \in Range(order'), window.cohort[j] \in Range(order')
                 PROVE  Precedes(order', window.cohort[i], window.cohort[j])
      BY DEF Follows
    <3>1. window.cohort[i] \in Range(order) \ done /\ window.cohort[j] \in Range(order) \ done
      BY <1>8
    <3>2. Precedes(order, window.cohort[i], window.cohort[j])
      BY <2>1, <3>1 DEF Follows
    <3> QED BY <1>8, <3>1, <3>2
  <2>4. Lined(window.cohort)'
    BY <1>7, <2>1, <2>2 DEF Lined
  <2>5. Follows(window.cohort, order)'
    BY <2>2, <2>3
  <2> QED BY <2>2, <2>4, <2>5 DEF Windowed
<1>19. Turn'
  <2>1. verdict # "broken"
    BY <1>3
  <2> QED BY <1>1, <1>18, <2>1 DEF Turn
<1>20. NoneRunsPast'
  BY <1>1 DEF NoneRunsPast
<1> QED BY <1>17, <1>19, <1>20 DEF IInv

\* check_memory: there is no call left that it could give up.
LEMMA CheckMemoryKeeps ==
    ASSUME IInv, CheckMemory
    PROVE  IInv'
<1>1. /\ phase = "idle" /\ reserve' = {} /\ phase' = "loop"
      /\ pins' = [r \in DOMAIN pins |-> IF r \in reserve THEN pins[r] - 1 ELSE pins[r]]
      /\ order' = order /\ window' = window /\ waiting' = waiting /\ batch' = batch
      /\ tok' = tok /\ kv' = kv /\ cached' = cached /\ host' = host /\ hostUsed' = hostUsed
      /\ admitted' = admitted /\ extend' = extend /\ began' = began /\ verdict' = verdict
  BY DEF CheckMemory
<1>2. Books /\ Turn
  BY DEF IInv
<1>3. Range(order) = {} /\ verdict = "go" /\ Windowed /\ admitted = {}
  BY <1>1, <1>2 DEF Turn
<1>4. waiting = {} /\ batch = {} /\ reserve = {}
  BY <1>2, <1>3, HoldersAre
<1>5. pins' = pins
  <2>1. pins = [r \in DOMAIN pins |-> pins[r]]
    BY <1>2 DEF Books, Pool
  <2> QED BY <1>1, <1>4, <2>1
<1>6. reserve' = reserve /\ Owing' = Owing /\ Calls' = Calls
  BY <1>1, <1>4 DEF Owing, Calls
<1>7. Books'
  <2>1. /\ Setting' /\ began' \subseteq Calls'
        /\ Pool(kv, cached, pins)' /\ Parted(waiting, batch, admitted)'
    BY <1>1, <1>2, <1>5, <1>6 DEF Books, Setting, Pool, Parted
  <2>2. (reserve \subseteq waiting \cup admitted)' /\ Locked(pins, reserve, batch \cup admitted, {})'
    BY <1>1, <1>2, <1>5, <1>6 DEF Books, Locked, One
  <2>3. Copies(host, hostUsed, waiting \cup admitted)'
    BY <1>1, <1>2 DEF Books, Copies, Computed
  <2>4. Computes(kv, cached, waiting, Owing, reserve)'
    BY <1>1, <1>2, <1>6 DEF Books, Computes, Computed
  <2>5. Remembered(waiting, reserve, host)' /\ Finds(admitted, extend)' /\ Filled(admitted, kv)'
    BY <1>1, <1>2, <1>6 DEF Books, Remembered, Finds, Filled
  <2> QED BY <2>1, <2>2, <2>3, <2>4, <2>5 DEF Books
<1>8. Windowed'
  BY <1>1, <1>3, <1>6 DEF Windowed, Split, Lined, Follows
<1>9. Turn'
  BY <1>1, <1>2, <1>3, <1>8 DEF Turn
<1>10. NoneRunsPast'
  BY <1>1 DEF NoneRunsPast
<1> QED BY <1>7, <1>9, <1>10 DEF IInv

-----------------------------------------------------------------------------
(* get_new_batch_prefill and update_running_batch, as a step. *)

\* What the pass is given.
Given(w, sorted, lru) ==
    [kv |-> kv, cached |-> cached, pins |-> pins, reserve |-> reserve,
     host |-> host, hostUsed |-> hostUsed, window |-> w,
     waiting |-> waiting, batch |-> batch, admitted |-> {}, extend |-> << >>,
     selected |-> Chosen(w, batch \cup reserve), sorted |-> sorted,
     remainingBefore |-> window.remaining, lru |-> lru,
     ready |-> << >>, blocked |-> {}, restored |-> {}, full |-> FALSE,
     verdict |-> "go"]

\* It begins as a pass must.
LEMMA GivenStarts ==
    ASSUME IInv, phase = "loop", verdict = "go",
           NEW sorted, sorted \in Seq(Calls), IsInjective(sorted), Range(sorted) = Range(order),
           NEW lru \in Seq(Calls), NEW w, Opens(w, sorted), NEW x, x = Given(w, sorted, lru)
    PROVE  Sound(x, {}) /\ Starting(x)
<1>1. Books /\ admitted = {}
  BY DEF IInv, Turn
<1>2. /\ x.kv = kv /\ x.cached = cached /\ x.pins = pins /\ x.reserve = reserve
      /\ x.host = host /\ x.hostUsed = hostUsed /\ x.window = w
      /\ x.waiting = waiting /\ x.batch = batch /\ x.admitted = {} /\ x.extend = << >>
      /\ x.selected = Chosen(w, batch \cup reserve) /\ x.sorted = sorted
      /\ x.lru = lru /\ x.blocked = {} /\ x.restored = {} /\ x.verdict = "go"
  BY DEF Given
<1>3. Fields(x)
  BY DEF Given, Fields
<1>4. Owing = batch
  BY DEF Owing
<1>5. /\ Pool(x.kv, x.cached, x.pins) /\ Parted(x.waiting, x.batch, x.admitted)
      /\ x.reserve \subseteq x.waiting \cup x.admitted
      /\ Locked(x.pins, x.reserve, x.batch \cup x.admitted, {})
      /\ Copies(x.host, x.hostUsed, x.waiting \cup x.admitted)
      /\ Computes(x.kv, x.cached, x.waiting, x.batch, x.reserve)
      /\ Remembered(x.waiting, x.reserve, x.host)
  BY <1>1, <1>2, <1>4 DEF Books
<1>6. Finds(x.admitted, x.extend) /\ Filled(x.admitted, x.kv)
  BY <1>2 DEF Finds, Filled
<1>7. /\ Split(w) /\ Lined(w.cohort) /\ Agree(w.cohort, sorted)
      /\ w.active \cup w.reserve = Range(w.cohort) /\ Range(w.cohort) \subseteq Range(order)
      /\ \A i \in DOMAIN w.cohort :
            /\ w.cohort[i] \in w.active <=> i <= Capacity
            /\ w.cohort[i] \in w.reserve <=> i > Capacity
      /\ Range(order) # {} => 1 \in DOMAIN w.cohort
  BY DEF Opens
<1>8. Sound(x, {})
  BY <1>2, <1>3, <1>5, <1>6, <1>7 DEF Sound
<1>9. Starting(x)
  BY <1>2, <1>7 DEF Starting
<1> QED BY <1>8, <1>9

\* What a step makes of it.
Results(y, sorted) ==
    /\ order' = sorted
    /\ window' = y.window /\ waiting' = y.waiting /\ batch' = y.batch
    /\ kv' = y.kv /\ cached' = y.cached /\ pins' = y.pins
    /\ reserve' = y.reserve /\ host' = y.host /\ hostUsed' = y.hostUsed
    /\ admitted' = y.admitted /\ extend' = y.extend /\ verdict' = y.verdict
    /\ phase' = IF y.verdict # "go" THEN "loop"
                ELSE IF y.admitted \cup y.batch = {} THEN "idle" ELSE "run"
    /\ tok' = tok /\ began' = began

\* The outcome of a pass is a state between steps.
LEMMA OutcomeKeeps ==
    ASSUME IInv, NEW x, NEW y, Outcome(x, y), NEW sorted, sorted \in Seq(Calls),
           IsInjective(sorted), Range(sorted) = Range(order), Lined(x.window.cohort),
           Agree(x.window.cohort, sorted), Range(x.window.cohort) \subseteq Range(order),
           Results(y, sorted)
    PROVE  IInv'
<1>1. Books
  BY DEF IInv
<1>2. /\ order' = sorted /\ Range(order') = Range(order) /\ tok' = tok /\ began' = began
      /\ window' = y.window /\ waiting' = y.waiting /\ batch' = y.batch
      /\ kv' = y.kv /\ cached' = y.cached /\ pins' = y.pins
      /\ reserve' = y.reserve /\ host' = y.host /\ hostUsed' = y.hostUsed
      /\ admitted' = y.admitted /\ extend' = y.extend /\ verdict' = y.verdict
  BY DEF Results
<1>3. phase' = IF y.verdict # "go" THEN "loop"
               ELSE IF y.admitted \cup y.batch = {} THEN "idle" ELSE "run"
  BY DEF Results
<1>4. Calls' = Calls /\ \A r : Computed(r)' = Computed(r)
  BY <1>2 DEF Calls, Computed
<1>5. Setting' /\ began' \subseteq Calls'
  BY <1>1, <1>2, <1>4 DEF Books, Setting
<1>6. /\ Pool(y.kv, y.cached, y.pins) /\ Parted(y.waiting, y.batch, y.admitted)
      /\ y.reserve \subseteq y.waiting \cup y.admitted
      /\ Locked(y.pins, y.reserve, y.batch \cup y.admitted, {})
      /\ Copies(y.host, y.hostUsed, y.waiting \cup y.admitted)
      /\ Remembered(y.waiting, y.reserve, y.host)
      /\ Finds(y.admitted, y.extend) /\ Filled(y.admitted, y.kv) /\ y.verdict # "broken"
  BY DEF Outcome
<1>7. y.verdict # "go" => Computes(y.kv, y.cached, y.waiting, y.batch, y.reserve)
  BY DEF Outcome
<1>8. y.verdict = "go" =>
          /\ Computes(y.kv, y.cached, y.waiting, {}, y.reserve) /\ Filled(y.batch, y.kv)
          /\ Split(y.window) /\ Lined(y.window.cohort) /\ Prefix(x, y)
          /\ y.batch \cup y.admitted \subseteq Range(y.window.cohort) /\ NobodyPast(y)
          /\ Range(order) # {} => y.batch \cup y.admitted # {}
          /\ y.reserve \cap y.admitted = {} /\ DOMAIN y.host \cap y.admitted = {}
  BY DEF Outcome
<1>9. Pool(kv, cached, pins)' /\ Parted(waiting, batch, admitted)'
      /\ (reserve \subseteq waiting \cup admitted)'
  BY <1>2, <1>4, <1>6 DEF Pool, Parted
<1>10. Locked(pins, reserve, batch \cup admitted, {})'
  BY <1>2, <1>4, <1>6 DEF Locked, One
<1>11. Copies(host, hostUsed, waiting \cup admitted)'
  BY <1>2, <1>4, <1>6 DEF Copies
<1>12. Remembered(waiting, reserve, host)' /\ Finds(admitted, extend)' /\ Filled(admitted, kv)'
  BY <1>2, <1>6 DEF Remembered, Finds, Filled
<1>13. Computes(kv, cached, waiting, Owing, reserve)'
  <2>1. CASE y.verdict # "go"
    <3>1. Owing' = y.batch
      BY <1>2, <1>3, <2>1 DEF Owing
    <3> QED BY <1>2, <1>4, <1>7, <2>1, <3>1 DEF Computes
  <2>2. CASE y.verdict = "go"
    <3>1. Owing' = {}
      <4>1. phase' = "run" \/ (phase' = "idle" /\ y.batch = {})
        BY <1>3, <2>2
      <4> QED BY <1>2, <4>1 DEF Owing
    <3> QED BY <1>2, <1>4, <1>8, <2>2, <3>1 DEF Computes
  <2> QED BY <2>1, <2>2
<1>14. Books'
  BY <1>5, <1>9, <1>10, <1>11, <1>12, <1>13 DEF Books
<1>15. ASSUME y.verdict = "go" PROVE Windowed'
  <2>1. Split(y.window) /\ Lined(y.window.cohort) /\ Prefix(x, y)
    BY <1>8, <1>15
  <2>2. Lined(window.cohort)' /\ Split(window)'
    BY <1>2, <1>4, <2>1 DEF Lined
  <2>3. Follows(y.window.cohort, sorted)
    BY <2>1 DEF Follows, Agree, Prefix
  <2>4. Follows(window.cohort, order)'
    BY <1>2, <2>3
  <2> QED BY <2>2, <2>4 DEF Windowed
<1>16. Turn'
  <2>1. CASE y.verdict # "go"
    BY <1>2, <1>3, <1>6, <2>1 DEF Turn
  <2>2. CASE y.verdict = "go" /\ y.admitted \cup y.batch = {}
    <3>1. phase' = "idle" /\ admitted' = {} /\ Range(order') = {} /\ verdict' = "go"
      BY <1>2, <1>3, <1>8, <2>2
    <3> QED BY <1>15, <2>2, <3>1 DEF Turn
  <2>3. CASE y.verdict = "go" /\ y.admitted \cup y.batch # {}
    <3>1. phase' = "run" /\ verdict' = "go"
      BY <1>2, <1>3, <2>3
    <3>2. Filled(batch, kv)'
      BY <1>2, <1>8, <2>3 DEF Filled
    <3>3. (reserve \cup DOMAIN host \subseteq waiting)'
      BY <1>2, <1>6, <1>8, <2>3 DEF Copies
    <3> QED BY <1>15, <2>3, <3>1, <3>2, <3>3 DEF Turn
  <2> QED BY <2>1, <2>2, <2>3
<1>17. NoneRunsPast'
  <2>1. CASE y.verdict # "go"
    BY <1>3, <2>1 DEF NoneRunsPast
  <2>2. CASE y.verdict = "go"
    <3>1. y.batch \cup y.admitted \subseteq Range(y.window.cohort) /\ NobodyPast(y)
      BY <1>8, <2>2
    <3> QED BY <1>2, <3>1 DEF NoneRunsPast, NobodyPast, Parked
  <2> QED BY <2>1, <2>2
<1> QED BY <1>14, <1>16, <1>17 DEF IInv

\* A pass, from select to the batch that is executed.
LEMMA NextBatchKeeps ==
    ASSUME IInv, NEW sorted \in SetToSeqs(Range(order)),
           NEW lru \in SetToSeqs({r \in waiting : kv[r] > 0 /\ pins[r] = 0}), NextBatch(sorted, lru)
    PROVE  IInv'
<1> DEFINE w == Select(window, Keyed(sorted), Range(order))
           x == Given(w, sorted, lru)
           y == Batched(x)
<1>1. Books /\ Turn /\ Setting
  BY DEF IInv, Books
<1>2. verdict = "go" /\ phase = "loop"
  BY DEF NextBatch, Alive
<1>3. Windowed /\ admitted = {} /\ batch \cup waiting = Range(order)
  BY <1>1, <1>2 DEF Turn, Books, Parted
<1>4. Results(y, sorted)
  BY ZenonT(40), <1>3 DEF NextBatch, Planned, Given, Results
<1>5. sorted = order \/ AtBoundary(window, Range(order))
  BY <1>3 DEF NextBatch
<1>6. Range(order) \subseteq Calls /\ waiting \subseteq Calls /\ IsFiniteSet(Calls)
  BY <1>1, HoldersAre DEF Setting
<1>7. sorted \in Seq(Calls) /\ IsInjective(sorted) /\ Range(sorted) = Range(order)
  <2>1. \A S : IsFiniteSet(S) => \A s \in SetToSeqs(S) : s \in Seq(S) /\ Range(s) = S /\ IsInjective(s)
    BY SortedIs
  <2>2. IsFiniteSet(Range(order))
    BY <1>6, FS_Subset
  <2>3. sorted \in Seq(Range(order)) /\ Range(sorted) = Range(order) /\ IsInjective(sorted)
    BY <2>1, <2>2
  <2> QED BY <1>6, <2>3
<1>8. lru \in Seq(Calls)
  <2> DEFINE T == {r \in waiting : kv[r] > 0 /\ pins[r] = 0}
  <2>1. \A S : IsFiniteSet(S) => \A s \in SetToSeqs(S) : s \in Seq(S)
    BY SortedIs
  <2>2. T \subseteq Calls /\ lru \in SetToSeqs(T)
    BY <1>6
  <2> HIDE DEF T
  <2>3. IsFiniteSet(T)
    BY <1>6, <2>2, FS_Subset
  <2>4. lru \in Seq(T)
    BY <2>1, <2>2, <2>3
  <2> QED BY <2>2, <2>4
<1>9. Split(window) /\ Lined(window.cohort) /\ Follows(window.cohort, order)
  BY <1>3 DEF Windowed
<1>10. w = Select(window, Keyed(sorted), Range(order))
  OBVIOUS
<1> HIDE DEF w
<1>11. Opens(w, sorted)
  BY <1>1, <1>5, <1>9, <1>10, SelectOpens
<1>12. x = Given(w, sorted, lru) /\ y = Batched(x)
  OBVIOUS
<1>13. x.window = w
  BY DEF Given
<1> HIDE DEF x, y
<1>14. Sound(x, {}) /\ Starting(x)
  BY <1>2, <1>7, <1>8, <1>11, <1>12, GivenStarts
<1>15. Outcome(x, y)
  BY <1>1, <1>12, <1>14, BatchedSound
<1>16. /\ Lined(x.window.cohort) /\ Agree(x.window.cohort, sorted)
       /\ Range(x.window.cohort) \subseteq Range(order)
  BY <1>11, <1>13 DEF Opens
<1> QED BY <1>4, <1>7, <1>15, <1>16, OutcomeKeeps

-----------------------------------------------------------------------------
(* What is shown of the hooks. *)

\* Every step keeps the invariant.
LEMMA NextKeeps == IInv /\ [Next]_vars => IInv'
<1> SUFFICES ASSUME IInv, [Next]_vars PROVE IInv'
  OBVIOUS
<1>1. CASE \E r \in Rid, prompt \in Prompts, at \in 1..(Len(order) + 1) : Add(r, prompt, at)
  BY <1>1, AddKeeps
<1>2. CASE \E r \in Rid : Abort(r)
  BY <1>2, AbortKeeps
<1>3. CASE \E sorted \in SetToSeqs(Range(order)) :
              \E lru \in SetToSeqs({r \in waiting : kv[r] > 0 /\ pins[r] = 0}) :
                  NextBatch(sorted, lru)
  BY <1>3, NextBatchKeeps
<1>4. CASE \E done \in SUBSET (batch \cup admitted) : Run(done)
  BY <1>4, RunKeeps
<1>5. CASE CheckMemory
  BY <1>5, CheckMemoryKeeps
<1>6. CASE UNCHANGED vars
  <2>1. /\ order' = order /\ window' = window /\ waiting' = waiting /\ batch' = batch
        /\ tok' = tok /\ kv' = kv /\ cached' = cached /\ pins' = pins /\ reserve' = reserve
        /\ host' = host /\ hostUsed' = hostUsed /\ admitted' = admitted /\ extend' = extend
        /\ began' = began /\ phase' = phase /\ verdict' = verdict
    BY <1>6 DEF vars
  <2>2. Books /\ Turn /\ NoneRunsPast
    BY DEF IInv
  <2>3. Calls' = Calls /\ Owing' = Owing /\ \A r : Computed(r)' = Computed(r)
    BY <2>1 DEF Calls, Owing, Computed
  <2>4. /\ Setting' /\ began' \subseteq Calls' /\ (reserve \subseteq waiting \cup admitted)'
        /\ Pool(kv, cached, pins)' /\ Parted(waiting, batch, admitted)'
    BY <2>1, <2>2, <2>3 DEF Books, Setting, Pool, Parted
  <2>5. Locked(pins, reserve, batch \cup admitted, {})'
    BY <2>1, <2>2, <2>3 DEF Books, Locked, One
  <2>6. Copies(host, hostUsed, waiting \cup admitted)'
    BY <2>1, <2>2, <2>3 DEF Books, Copies
  <2>7. Computes(kv, cached, waiting, Owing, reserve)'
    BY <2>1, <2>2, <2>3 DEF Books, Computes
  <2>8. Remembered(waiting, reserve, host)' /\ Finds(admitted, extend)' /\ Filled(admitted, kv)'
    BY <2>1, <2>2 DEF Books, Remembered, Finds, Filled
  <2>9. Books'
    BY <2>4, <2>5, <2>6, <2>7, <2>8 DEF Books
  <2>10. Windowed => Windowed'
    BY <2>1, <2>3 DEF Windowed, Split, Lined, Follows
  <2>11. Turn'
    BY <2>1, <2>2, <2>10 DEF Turn, Filled
  <2>12. NoneRunsPast'
    BY <2>1, <2>2 DEF NoneRunsPast, Parked
  <2> QED BY <2>9, <2>11, <2>12 DEF IInv
<1> QED BY <1>1, <1>2, <1>3, <1>4, <1>5, <1>6 DEF Next

\* The invariant of the hooks holds in every reachable state, also after a plan that raised.
THEOREM HooksInvariant == Spec => []IInv
BY InitIInv, NextKeeps, PTL DEF Spec

\* NothingLeaks: every lock on the radix cache is owed by exactly one owner, and the host
\* budget counts each copy once and is never exceeded.
THEOREM NoLockLeaks == Spec => []NothingLeaks
<1>1. IInv => NothingLeaks
  <2> SUFFICES ASSUME IInv PROVE NothingLeaks
    OBVIOUS
  <2>1. /\ DOMAIN pins = Calls /\ Parted(waiting, batch, admitted)
        /\ Locked(pins, reserve, batch \cup admitted, {})
        /\ Copies(host, hostUsed, waiting \cup admitted)
    BY DEF IInv, Books, Pool
  <2>2. ASSUME NEW r \in DOMAIN pins
        PROVE  IF verdict = "go" THEN pins[r] = Owners(r)
               ELSE r \in waiting => pins[r] = (IF r \in reserve THEN 1 ELSE 0)
    <3>1. pins[r] = One(r, reserve) + One(r, batch \cup admitted) + One(r, {})
      BY <2>1 DEF Locked
    <3>2. One(r, {}) = 0 /\ One(r, reserve) \in {0, 1} /\ One(r, batch \cup admitted) \in {0, 1}
      BY DEF One
    <3>3. Owners(r) = One(r, reserve) + One(r, batch \cup admitted)
      BY DEF Owners, One
    <3>4. pins[r] = Owners(r)
      BY <3>1, <3>2, <3>3
    <3>5. ASSUME r \in waiting PROVE pins[r] = (IF r \in reserve THEN 1 ELSE 0)
      <4>1. One(r, batch \cup admitted) = 0
        BY <2>1, <3>5 DEF Parted, One
      <4>2. pins[r] = One(r, reserve)
        BY <3>1, <3>2, <4>1
      <4> QED BY <4>2 DEF One
    <3> QED BY <3>4, <3>5
  <2>3. hostUsed = MapThenSumSet(LAMBDA r : host[r], DOMAIN host) /\ hostUsed <= HostLimit
    BY <2>1 DEF Copies, Total
  <2> QED BY <2>2, <2>3 DEF NothingLeaks
<1> QED BY <1>1, HooksInvariant, PTL

\* NothingRecomputed: a call that waits after it ran has all that was computed of it, on the
\* device or on the host, and only its last token is computed when it enters.
THEOREM NoTokenTwice == Spec => []NothingRecomputed
<1>1. IInv => NothingRecomputed
  <2> SUFFICES ASSUME IInv PROVE NothingRecomputed
    OBVIOUS
  <2>1. /\ Copies(host, hostUsed, waiting \cup admitted)
        /\ Computes(kv, cached, waiting, Owing, reserve)
        /\ Remembered(waiting, reserve, host) /\ Finds(admitted, extend)
    BY DEF IInv, Books
  <2>2. ASSUME NEW r \in waiting \cap began
        PROVE  \/ r \in reserve /\ cached[r] = Computed(r)
               \/ r \in DOMAIN host /\ host[r] = Computed(r)
    BY <2>1 DEF Copies, Computes, Remembered
  <2>3. \A r \in admitted \cap began : extend[r] = 1
    BY <2>1 DEF Finds
  <2> QED BY <2>2, <2>3 DEF NothingRecomputed
<1> QED BY <1>1, HooksInvariant, PTL

\* WorkGoesOn: but for the refusals of capacity and budget no check of the hooks and no
\* allocation fails, and the loop is idle only without calls.
THEOREM LoopGoesOn == Spec => []WorkGoesOn
<1>1. IInv => WorkGoesOn
  <2> SUFFICES ASSUME IInv PROVE WorkGoesOn
    OBVIOUS
  <2>1. verdict # "broken"
    BY DEF IInv, Turn
  <2>2. ASSUME phase = "idle" PROVE waiting = {} /\ reserve = {}
    <3>1. Books /\ Range(order) = {}
      BY <2>2 DEF IInv, Turn
    <3> QED BY <3>1, HoldersAre
  <2> QED BY <2>1, <2>2 DEF WorkGoesOn
<1> QED BY <1>1, HooksInvariant, PTL

\* NoneRunsPast: before a call that executes, the window has only calls that execute too,
\* are kept as reserves, or, with more than one reserve, wait on the host for their turn.
THEOREM NobodyRunsPast == Spec => []NoneRunsPast
<1>1. IInv => NoneRunsPast
  BY DEF IInv
<1> QED BY <1>1, HooksInvariant, PTL

=============================================================================
