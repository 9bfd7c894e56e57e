------------------------- MODULE SharedTable_proofs -------------------------
(***************************************************************************)
(* The program table stays consistent under any number of engine processes *)
(* and programs, for every policy.  The inductive invariant adds to the    *)
(* properties that the count of active requests is exact (TableInv): with  *)
(* the types alone a finish could take `active' below zero, and an ended   *)
(* program could never be recognised as drained.  Under ATLAS the service  *)
(* of a program is moreover its critical path (PathInv).                   *)
(***************************************************************************)
EXTENDS SharedTable, Common_proofs

IInv == TypeOK /\ TableInv(table)

\* The initial table is empty.
LEMMA InitInv == Init => IInv
BY EmptyTableInv DEF Init, IInv, TypeOK, TableInv, EmptyTable

\* Every transaction of every process keeps the invariant.
LEMMA NextInv == IInv /\ [Next]_vars => IInv'
<1> SUFFICES ASSUME IInv, [Next]_vars
             PROVE  IInv'
  OBVIOUS
<1> USE DEF IInv
<1>1. ASSUME NEW p \in Pid, Open(p)
      PROVE  IInv'
  <2>1. TableInv(table')
    BY <1>1, OpenKeepsInv DEF Open
  <2>2. table'.requests = table.requests
    BY <1>1 DEF Open, OpenIn
  <2> QED
    BY <1>1, <2>1, <2>2 DEF Open, TypeOK, TableInv
<1>2. ASSUME NEW p \in Pid, End(p)
      PROVE  IInv'
  <2>1. TableInv(table')
    BY <1>2, EndKeepsInv DEF End
  <2>2. Shrinks(table, table')
    BY <1>2, EndShrinks DEF End
  <2> QED
    BY <1>2, <2>1, <2>2 DEF End, TypeOK, TableInv, Shrinks
<1>3. ASSUME NEW p \in Pid, NEW r \in Rid, Admit(p, r)
      PROVE  IInv'
  <2>1. TableInv(table')
    BY <1>3, AdmitKeepsInv DEF Admit
  <2>2. table'.requests = Put(table.requests, r, p)
    BY <1>3 DEF Admit, AdmitTo
  <2>3. Inherited(table, p) \in Nat
    BY <1>3 DEF Admit, CanAdmit, Inherited, TableInv, TableType, Program
  <2>4. /\ owner' \in [DOMAIN owner' -> Pid]
        /\ DOMAIN owner' \subseteq Rid
        /\ DOMAIN table'.requests \subseteq DOMAIN owner'
        /\ \A x \in DOMAIN table'.requests : table'.requests[x] = owner'[x]
    BY <1>3, <2>2 DEF Admit, TypeOK, Put
  <2>5. /\ DOMAIN held' \subseteq DOMAIN owner'
        /\ \A x \in DOMAIN held' : held'[x].inherited \in Nat
    BY <1>3, <2>3 DEF Admit, TypeOK, Put
  <2> QED
    BY <2>1, <2>4, <2>5 DEF TypeOK, TableInv
<1>4. ASSUME NEW r \in Rid, Reclaim(r)
      PROVE  IInv'
  <2>1. owner[r] \in Pid
    BY <1>4 DEF Reclaim, TypeOK
  <2>2. TableInv(table')
    BY <1>4, <2>1, FinishKeepsInv DEF Reclaim
  <2>3. Shrinks(table, table')
    BY <1>4, FinishShrinks DEF Reclaim
  <2> QED
    BY <1>4, <2>2, <2>3 DEF Reclaim, TypeOK, TableInv, Shrinks
<1>5. ASSUME NEW r \in Rid, Die(r)
      PROVE  IInv'
  BY <1>5 DEF Die, TypeOK, Drop, Restrict
<1>6. ASSUME NEW r \in Rid, NEW e \in Seconds, NEW w \in Seconds, Finish(r, e, w)
      PROVE  IInv'
  <2>1. owner[r] \in Pid /\ held[r].inherited \in Nat
    BY <1>6 DEF Finish, TypeOK
  <2>2. TableInv(table')
    BY <1>6, <2>1, FinishKeepsInv, SecondsAssumption DEF Finish
  <2>3. Shrinks(table, table')
    BY <1>6, FinishShrinks DEF Finish
  <2> QED
    BY <1>6, <2>2, <2>3 DEF Finish, TypeOK, TableInv, Shrinks, Drop, Restrict
<1>7. CASE UNCHANGED vars
  BY <1>7 DEF vars, TypeOK
<1> QED
  BY <1>1, <1>2, <1>3, <1>4, <1>5, <1>6, <1>7 DEF Next

\* Types and agreement of the rows, in every reachable state.
THEOREM Invariance == Spec => []IInv
BY InitInv, NextInv, PTL DEF Spec

\* The table and the calls held against it keep their types.
THEOREM TypeCorrect == Spec => []TypeOK
BY Invariance, PTL DEF IInv

\* However the two finishes of a request race, `active' counts its rows.
THEOREM ActiveCounts == Spec => []ActiveCountsRows
<1>1. IInv => ActiveCountsRows
  BY DEF IInv, TableInv, ActiveCountsRows
<1> QED
  BY <1>1, Invariance, PTL

\* No ended program is left behind without a request that will delete it.
THEOREM EndedDrains == Spec => []EndedProgramDrains
<1>1. IInv => EndedProgramDrains
  <2> SUFFICES ASSUME IInv, NEW p \in DOMAIN table.programs,
                      table.programs[p].closing, RowsOf(table, p) = {}
               PROVE  FALSE
    BY DEF EndedProgramDrains
  <2>1. table.programs[p].active = 0
    BY FS_EmptySet DEF IInv, TableInv, ActiveIsRows
  <2> QED
    BY <2>1 DEF IInv, TableInv, NoDrainedRow
<1> QED
  BY <1>1, Invariance, PTL

\* An ended program admits nothing and is never reopened while its row exists.
THEOREM EndedStays == Spec => EndedStaysEnded
<1> DEFINE A == \A p \in DOMAIN table.programs \cap DOMAIN table'.programs :
                    table.programs[p].closing =>
                        /\ table'.programs[p].closing
                        /\ RowsOf(table', p) \subseteq RowsOf(table, p)
<1>1. ASSUME IInv, [Next]_vars
      PROVE  A
  <2> SUFFICES ASSUME NEW q \in DOMAIN table.programs, q \in DOMAIN table'.programs,
                      table.programs[q].closing
               PROVE  table'.programs[q].closing /\ RowsOf(table', q) \subseteq RowsOf(table, q)
    OBVIOUS
  <2>1. ASSUME Shrinks(table, table')
        PROVE  table'.programs[q].closing /\ RowsOf(table', q) \subseteq RowsOf(table, q)
    BY <2>1 DEF Shrinks, RowsOf
  <2>2. ASSUME NEW p \in Pid, Open(p)
        PROVE  table'.programs[q].closing /\ RowsOf(table', q) \subseteq RowsOf(table, q)
    BY <2>2 DEF Open, CanOpen, OpenIn, Put, RowsOf
  <2>3. ASSUME NEW p \in Pid, End(p)
        PROVE  Shrinks(table, table')
    BY <1>1, <2>3, EndShrinks DEF End, IInv
  <2>4. ASSUME NEW p \in Pid, NEW r \in Rid, Admit(p, r)
        PROVE  table'.programs[q].closing /\ RowsOf(table', q) \subseteq RowsOf(table, q)
    BY <1>1, <2>4 DEF Admit, CanAdmit, AdmitTo, Put, RowsOf, IInv, TableInv, TableType, Program
  <2>5. ASSUME NEW r \in Rid, Reclaim(r)
        PROVE  Shrinks(table, table')
    BY <1>1, <2>5, FinishShrinks DEF Reclaim, IInv
  <2>6. ASSUME NEW r \in Rid, NEW e \in Seconds, NEW w \in Seconds, Finish(r, e, w)
        PROVE  Shrinks(table, table')
    BY <1>1, <2>6, FinishShrinks DEF Finish, IInv
  <2>7. CASE table' = table
    BY <2>7
  <2> QED
    BY <1>1, <2>1, <2>2, <2>3, <2>4, <2>5, <2>6, <2>7 DEF Next, Die, vars
<1> QED
  <2>1. IInv /\ [Next]_vars => [A]_vars
    BY <1>1
  <2> QED
    BY <2>1, Invariance, PTL DEF Spec, EndedStaysEnded

-----------------------------------------------------------------------------
(* Largest members, and chains of calls.                                   *)

\* Max0 is an upper bound that is reached, or 0.
LEMMA Max0Is ==
    ASSUME NEW S \in SUBSET Nat, IsFiniteSet(S)
    PROVE  /\ Max0(S) \in S \cup {0} /\ Max0(S) \in Nat
           /\ \A x \in S : x <= Max0(S)
<1> DEFINE T == S \cup {0}
           Bounded(n, f) == \E m \in T : \A i \in 1..n : f[i] <= m
<1>1. PICK n \in Nat : ExistsSurjection(1..n, S)
  BY FS_NatSurjection
<1>2. PICK f \in [1..n -> S] : \A x \in S : \E i \in 1..n : f[i] = x
  BY <1>1 DEF ExistsSurjection, Surjection
<1>3. ASSUME NEW k \in Nat, k < n, Bounded(k, f)
      PROVE  Bounded(k + 1, f)
  <2>1. PICK m \in T : \A i \in 1..k : f[i] <= m
    BY <1>3
  <2>2. m \in Nat
    OBVIOUS
  <2> HIDE DEF Bounded
  <2>3. k + 1 \in 1..n /\ 1..k \subseteq 1..n
    BY <1>3
  <2>4. f[k + 1] \in S /\ f[k + 1] \in Nat
    BY <1>2, <2>3
  <2>5. \A i \in 1..k : f[i] \in Nat
    BY <1>2, <2>3
  <2> USE DEF Bounded
  <2>6. CASE f[k + 1] <= m
    <3>1. \A i \in 1..(k + 1) : f[i] <= m
      BY <2>1, <2>6, <1>3
    <3> QED BY <3>1
  <2>7. CASE m < f[k + 1]
    <3>1. \A i \in 1..(k + 1) : f[i] <= f[k + 1]
      BY <2>1, <2>2, <2>4, <2>5, <2>7, <1>3
    <3> QED BY <2>4, <3>1
  <2> QED BY <2>2, <2>4, <2>6, <2>7
<1>4. Bounded(0, f)
  OBVIOUS
<1>5. Bounded(n, f)
  <2> HIDE DEF Bounded
  <2> DEFINE Bad == {k \in 0..n : ~Bounded(k, f)}
  <2>1. SUFFICES ASSUME Bad # {} PROVE FALSE
    BY <1>1
  <2>2. Bad \subseteq Nat
    OBVIOUS
  <2>3. PICK k \in Bad : \A j \in Bad : k <= j
    <3> HIDE DEF Bad
    <3> QED BY <2>1, <2>2, LeastNat
  <2>4. k # 0
    BY <1>4
  <2>5. k - 1 \in Nat /\ k - 1 < n /\ k - 1 \in 0..n /\ (k - 1) + 1 = k
    BY <2>4
  <2>6. Bounded(k - 1, f)
    BY <2>3, <2>5
  <2> QED BY <1>3, <2>5, <2>6
<1>6. \E x \in T : \A y \in T : x >= y
  <2>1. PICK m \in T : \A i \in 1..n : f[i] <= m
    BY <1>5
  <2>2. \A y \in S : y <= m
    BY <1>2, <2>1
  <2> QED BY <2>1, <2>2
<1>7. Max0(S) \in T /\ \A y \in T : Max0(S) >= y
  BY <1>6 DEF Max0, Max
<1>8. T \subseteq Nat
  OBVIOUS
<1>9. Max0(S) \in Nat
  BY <1>7, <1>8
<1>10. \A x \in S : x <= Max0(S)
  BY <1>7, <1>9
<1> QED BY <1>7, <1>9, <1>10

\* One number more.
LEMMA Max0Add ==
    ASSUME NEW S \in SUBSET Nat, IsFiniteSet(S), NEW n \in Nat
    PROVE  Max0(S \cup {n}) = Larger(Max0(S), n)
<1>1. IsFiniteSet(S \cup {n}) /\ S \cup {n} \in SUBSET Nat
  BY FS_AddElement
<1>2. /\ Max0(S \cup {n}) \in S \cup {n, 0} /\ Max0(S \cup {n}) \in Nat
      /\ \A x \in S \cup {n} : x <= Max0(S \cup {n})
  BY <1>1, Max0Is
<1>3. /\ Max0(S) \in S \cup {0} /\ Max0(S) \in Nat
      /\ \A x \in S : x <= Max0(S)
  BY Max0Is
<1> QED BY <1>2, <1>3 DEF Larger

\* The longest chain that ends with each call of a history, as LongestPath has it.
Reach(h) ==
    LET reach[r \in DOMAIN h] == h[r].ran + Max0({reach[q] : q \in h[r].before})
    IN  reach
Longest(h, S) == Max0({Reach(h)[q] : q \in S})

\* A history is finite and a call follows only calls that are in it.
HistoryOK(h) ==
    /\ IsFiniteSet(DOMAIN h)
    /\ \A r \in DOMAIN h : h[r].ran \in Nat /\ h[r].before \subseteq DOMAIN h
    /\ Reach(h) \in [DOMAIN h -> Nat]

\* One function and no other satisfies the recursion.
Measures(f, h) == f = [r \in DOMAIN h |-> h[r].ran + Max0({f[q] : q \in h[r].before})]
Determined(h) == \E f : Measures(f, h) /\ \A g : Measures(g, h) => g = f

\* Then Reach is that function.
LEMMA ReachMeasures ==
    ASSUME NEW h, Determined(h)
    PROVE  Measures(Reach(h), h) /\ \A g : Measures(g, h) => g = Reach(h)
<1>1. PICK f : Measures(f, h) /\ \A g : Measures(g, h) => g = f
  BY DEF Determined
<1>2. Reach(h) = CHOOSE f1 : Measures(f1, h)
  BY DEF Reach, Measures
<1>3. Measures(Reach(h), h)
  BY <1>1, <1>2
<1> QED BY <1>1, <1>3

\* The chains of some calls of a history have a longest one.
LEMMA LongestIs ==
    ASSUME NEW h, HistoryOK(h), NEW S \in SUBSET DOMAIN h
    PROVE  /\ IsFiniteSet({Reach(h)[q] : q \in S})
           /\ {Reach(h)[q] : q \in S} \in SUBSET Nat
           /\ Longest(h, S) \in Nat
<1> DEFINE T == {Reach(h)[q] : q \in S}
           f == [q \in S |-> Reach(h)[q]]
<1>1. IsFiniteSet(S)
  BY FS_Subset DEF HistoryOK
<1>2. f \in Surjection(S, T)
  BY DEF Surjection
<1>3. IsFiniteSet(T)
  <2> HIDE DEF f, T
  <2> QED BY <1>1, <1>2, FS_Surjection
<1>4. T \in SUBSET Nat
  BY DEF HistoryOK
<1>5. Max0(T) \in Nat
  <2> HIDE DEF T
  <2> QED BY <1>3, <1>4, Max0Is
<1> QED BY <1>3, <1>4, <1>5 DEF Longest

\* A program that was just opened has no calls.
LEMMA EmptyHistory == HistoryOK(<< >>) /\ Determined(<< >>) /\ Longest(<< >>, {}) = 0
<1>1. Determined(<< >>)
  <2>1. Measures(<< >>, << >>) /\ \A g : Measures(g, << >>) => g = << >>
    BY DEF Measures
  <2> QED BY <2>1 DEF Determined
<1>2. Reach(<< >>) = << >>
  BY <1>1, ReachMeasures DEF Measures
<1>3. HistoryOK(<< >>)
  <2>1. DOMAIN << >> = {} /\ IsFiniteSet({})
    BY FS_EmptySet
  <2>2. << >> \in [{} -> Nat]
    OBVIOUS
  <2> QED BY <1>2, <2>1, <2>2 DEF HistoryOK
<1>4. Longest(<< >>, {}) = 0
  <2>1. Longest(<< >>, {}) = Max0({})
    BY DEF Longest
  <2>2. Max0({}) \in {} \cup {0}
    BY Max0Is, FS_EmptySet
  <2> QED BY <2>1, <2>2
<1> QED BY <1>1, <1>3, <1>4

\* A call that follows some of a history leaves the chains there were, and ends one that is
\* longer than theirs by its own run time.
LEMMA HistoryGrows ==
    ASSUME NEW h, HistoryOK(h), Determined(h), NEW r, r \notin DOMAIN h,
           NEW ran \in Nat, NEW before \in SUBSET DOMAIN h
    PROVE  LET k == Put(h, r, [ran |-> ran, before |-> before])
           IN  /\ HistoryOK(k) /\ Determined(k)
               /\ \A S \in SUBSET DOMAIN h : Longest(k, S) = Longest(h, S)
               /\ Longest(k, DOMAIN k)
                    = Larger(Longest(h, DOMAIN h), ran + Longest(h, before))
<1> DEFINE k == Put(h, r, [ran |-> ran, before |-> before])
           f == Reach(h)
           last == ran + Longest(h, before)
           e == [x \in DOMAIN k |-> IF x = r THEN last ELSE f[x]]
<1>1. /\ DOMAIN k = DOMAIN h \cup {r}
      /\ k[r].ran = ran /\ k[r].before = before
      /\ \A x \in DOMAIN h : k[x] = h[x]
  BY DEF Put
<1>2. f = [x \in DOMAIN h |-> h[x].ran + Max0({f[q] : q \in h[x].before})]
  BY ReachMeasures DEF Measures
<1>3. \A x \in DOMAIN h : h[x].before \subseteq DOMAIN h
  BY DEF HistoryOK
<1> HIDE DEF k, f
<1>4. \A S \in SUBSET DOMAIN h : {e[q] : q \in S} = {f[q] : q \in S}
  BY <1>1
<1>5. Measures(e, k)
  <2>1. ASSUME NEW x \in DOMAIN h
        PROVE  e[x] = k[x].ran + Max0({e[q] : q \in k[x].before})
    <3>1. {e[q] : q \in h[x].before} = {f[q] : q \in h[x].before}
      BY <1>3, <1>4
    <3>2. e[x] = f[x]
      BY <1>1
    <3>3. f[x] = h[x].ran + Max0({f[q] : q \in h[x].before})
      BY <1>2
    <3> HIDE DEF e
    <3> QED BY <1>1, <3>1, <3>2, <3>3
  <2>2. e[r] = k[r].ran + Max0({e[q] : q \in k[r].before})
    <3>1. {e[q] : q \in before} = {f[q] : q \in before}
      BY <1>4
    <3>2. e[r] = ran + Max0({f[q] : q \in before})
      BY <1>1 DEF Longest, f
    <3> HIDE DEF e
    <3> QED BY <1>1, <3>1, <3>2
  <2>3. \A x \in DOMAIN k : e[x] = k[x].ran + Max0({e[q] : q \in k[x].before})
    <3> HIDE DEF e
    <3> QED BY <1>1, <2>1, <2>2
  <2>4. e = [x \in DOMAIN k |-> e[x]]
    OBVIOUS
  <2> HIDE DEF e
  <2> QED BY <2>3, <2>4 DEF Measures
<1>6. ASSUME NEW g, Measures(g, k)
      PROVE  g = e
  <2> DEFINE g0 == [x \in DOMAIN h |-> g[x]]
  <2>1. g = [x \in DOMAIN k |-> k[x].ran + Max0({g[q] : q \in k[x].before})]
    BY <1>6 DEF Measures
  <2>2. \A S \in SUBSET DOMAIN h : {g[q] : q \in S} = {g0[q] : q \in S}
    OBVIOUS
  <2>3. ASSUME NEW x \in DOMAIN h
        PROVE  g0[x] = h[x].ran + Max0({g0[q] : q \in h[x].before})
    <3>1. g[x] = h[x].ran + Max0({g[q] : q \in h[x].before})
      BY <1>1, <2>1
    <3>2. {g[q] : q \in h[x].before} = {g0[q] : q \in h[x].before}
      BY <1>3, <2>2
    <3>3. g0[x] = g[x]
      OBVIOUS
    <3> HIDE DEF g0
    <3> QED BY <3>1, <3>2, <3>3
  <2>4. Measures(g0, h)
    <3>1. g0 = [x \in DOMAIN h |-> g0[x]]
      OBVIOUS
    <3> HIDE DEF g0
    <3> QED BY <2>3, <3>1 DEF Measures
  <2>5. g0 = f
    <3> HIDE DEF g0
    <3> QED BY <2>4, ReachMeasures DEF f
  <2>6. \A x \in DOMAIN h : g[x] = f[x]
    BY <2>5
  <2>7. g[r] = ran + Max0({g[q] : q \in before})
    BY <1>1, <2>1
  <2>8. {g[q] : q \in before} = {f[q] : q \in before}
    BY <2>6
  <2>9. g[r] = last
    BY <2>7, <2>8 DEF Longest, f
  <2>10. g = [x \in DOMAIN k |-> g[x]]
    BY <2>1
  <2>11. \A x \in DOMAIN k : g[x] = e[x]
    BY <1>1, <2>6, <2>9
  <2> HIDE DEF g0, last
  <2> QED BY <2>10, <2>11
<1>7. Determined(k)
  <2> HIDE DEF e
  <2> QED BY <1>5, <1>6 DEF Determined
<1>8. Reach(k) = e
  <2> HIDE DEF e
  <2> QED BY <1>5, <1>7, ReachMeasures
<1>9. last \in Nat
  <2>1. Longest(h, before) \in Nat
    BY LongestIs
  <2> QED BY <2>1
<1>10. HistoryOK(k)
  <2>1. IsFiniteSet(DOMAIN k)
    BY <1>1, FS_AddElement DEF HistoryOK
  <2>2. f \in [DOMAIN h -> Nat]
    BY DEF HistoryOK, f
  <2>3. e \in [DOMAIN k -> Nat]
    <3> HIDE DEF last
    <3> QED BY <1>1, <1>9, <2>2
  <2>4. \A x \in DOMAIN k : k[x].ran \in Nat /\ k[x].before \subseteq DOMAIN k
    BY <1>1 DEF HistoryOK
  <2> HIDE DEF e
  <2> QED BY <1>8, <2>1, <2>3, <2>4 DEF HistoryOK
<1>11. \A S \in SUBSET DOMAIN h : Longest(k, S) = Longest(h, S)
  <2> HIDE DEF e
  <2> QED BY <1>4, <1>8 DEF Longest, f
<1>12. Longest(k, DOMAIN k) = Larger(Longest(h, DOMAIN h), last)
  <2> DEFINE T == {f[q] : q \in DOMAIN h}
  <2>1. {e[q] : q \in DOMAIN k} = T \cup {last}
    <3>1. e[r] = last /\ \A q \in DOMAIN h : e[q] = f[q]
      BY <1>1
    <3> HIDE DEF e, last
    <3> QED BY <1>1, <3>1
  <2>2. IsFiniteSet(T) /\ T \in SUBSET Nat
    BY LongestIs DEF f
  <2>3. Max0(T \cup {last}) = Larger(Max0(T), last)
    <3> HIDE DEF T, last
    <3> QED BY <1>9, <2>2, Max0Add
  <2>4. Longest(h, DOMAIN h) = Max0(T)
    BY DEF Longest, f
  <2>5. Longest(k, DOMAIN k) = Max0(T \cup {last})
    <3> HIDE DEF e, T, last
    <3> QED BY <1>8, <2>1 DEF Longest
  <2> HIDE DEF T, last
  <2> QED BY <2>3, <2>4, <2>5
<1> QED BY <1>7, <1>10, <1>11, <1>12 DEF k
-----------------------------------------------------------------------------
(* The service of a program and its critical path.                         *)

\* The history of p is of calls that have left the table; the service of p is its longest
\* chain, and a call that runs inherited the longest of those it was admitted after.
Chains(p) ==
    /\ HistoryOK(past[p]) /\ Determined(past[p])
    /\ DOMAIN past[p] \subseteq DOMAIN owner \ DOMAIN table.requests
    /\ table.programs[p].service = Longest(past[p], DOMAIN past[p])
    /\ \A r \in DOMAIN held : r \in RowsOf(table, p) =>
          /\ held[r].before \subseteq DOMAIN past[p]
          /\ held[r].inherited = Longest(past[p], held[r].before)

PathInv ==
    /\ DOMAIN past = DOMAIN table.programs
    /\ \A p \in DOMAIN past : Chains(p)

\* Whatever happens to other programs and to calls that leave, a program keeps its chains.
LEMMA ChainsKept ==
    ASSUME NEW p, Chains(p),
           past'[p] = past[p],
           table'.programs[p].service = table.programs[p].service,
           DOMAIN owner \subseteq DOMAIN owner',
           DOMAIN past[p] \cap DOMAIN table'.requests = {},
           \A r \in DOMAIN held' : r \in RowsOf(table', p) =>
               r \in DOMAIN held /\ r \in RowsOf(table, p) /\ held'[r] = held[r]
    PROVE  Chains(p)'
BY DEF Chains

\* The row of a call is the only one a finish takes, and its program the only one it charges.
LEMMA FinishCharges ==
    ASSUME NEW t, NEW p, NEW r, NEW inherited, NEW executed, NEW waited,
           TableInv(t), r \in RowsOf(t, p)
    PROVE  LET u == FinishIn(t, p, r, inherited, executed, waited)
           IN  /\ DOMAIN u.requests = DOMAIN t.requests \ {r}
               /\ \A x \in DOMAIN u.requests : u.requests[x] = t.requests[x]
               /\ p \in DOMAIN t.programs
               /\ DOMAIN t.programs \ {p} \subseteq DOMAIN u.programs
               /\ DOMAIN u.programs \subseteq DOMAIN t.programs
               /\ \A q \in DOMAIN u.programs \ {p} : u.programs[q] = t.programs[q]
               /\ p \in DOMAIN u.programs =>
                     u.programs[p].service = Charge(t.programs[p].service, inherited, executed)
<1> DEFINE s == [programs |-> [t.programs EXCEPT
                     ![p].service = Charge(@, inherited, executed),
                     ![p].wait    = @ + waited,
                     ![p].active  = @ - 1],
                 requests |-> Drop(t.requests, r)]
           u == FinishIn(t, p, r, inherited, executed, waited)
<1>1. u = DropDrained(s, p)
  BY DEF FinishIn, RemovesRow
<1>2. p \in DOMAIN t.programs /\ t.programs \in [DOMAIN t.programs -> Program]
  BY DEF TableInv, TableType, ActiveIsRows, RowsOf
<1>3. /\ DOMAIN s.programs = DOMAIN t.programs
      /\ \A q \in DOMAIN t.programs \ {p} : s.programs[q] = t.programs[q]
      /\ s.programs[p].service = Charge(t.programs[p].service, inherited, executed)
  BY <1>2 DEF Program
<1>4. /\ DOMAIN s.requests = DOMAIN t.requests \ {r}
      /\ \A x \in DOMAIN s.requests : s.requests[x] = t.requests[x]
  BY DEF Drop, Restrict
<1> HIDE DEF s, u
<1>5. /\ u.requests = s.requests
      /\ DOMAIN u.programs \subseteq DOMAIN s.programs
      /\ DOMAIN s.programs \ {p} \subseteq DOMAIN u.programs
      /\ \A q \in DOMAIN u.programs : u.programs[q] = s.programs[q]
  BY <1>1 DEF DropDrained, Drop, Restrict
<1> QED BY <1>2, <1>3, <1>4, <1>5 DEF u

\* ProgramTable.finish under ATLAS, by the holder of a call or by the coordinator.
LEMMA FinishPaths ==
    ASSUME Policy = "atlas", IInv, PathInv, NEW r \in DOMAIN owner,
           NEW inherited \in Nat, NEW executed \in Nat, NEW waited \in Nat, NEW before,
           r \in RowsOf(table, owner[r]) =>
               /\ before \subseteq DOMAIN past[owner[r]]
               /\ inherited = Longest(past[owner[r]], before),
           table' = FinishIn(table, owner[r], r, inherited, executed, waited),
           Record(owner[r], r, [ran |-> executed, before |-> before]),
           owner' = owner,
           \A x \in DOMAIN held' : x \in DOMAIN held /\ held'[x] = held[x]
    PROVE  PathInv'
<1> DEFINE p == owner[r]
           call == [ran |-> executed, before |-> before]
<1>1. CASE r \notin RowsOf(table, p)
  <2>1. table' = table
    BY <1>1 DEF FinishIn, RemovesRow
  <2>2. DOMAIN past' = DOMAIN past /\ \A q \in DOMAIN past : past'[q] = past[q]
    BY <1>1, <2>1 DEF Record, PathInv, Drop, Restrict
  <2>3. ASSUME NEW q \in DOMAIN past
        PROVE  Chains(q)'
    <3>1. Chains(q) /\ DOMAIN past[q] \cap DOMAIN table'.requests = {}
      BY <2>1 DEF PathInv, Chains
    <3> QED BY <2>1, <2>2, <3>1, ChainsKept
  <2> QED BY <2>1, <2>2, <2>3 DEF PathInv
<1>2. CASE r \in RowsOf(table, p)
  <2>1. /\ DOMAIN table'.requests = DOMAIN table.requests \ {r}
        /\ \A x \in DOMAIN table'.requests : table'.requests[x] = table.requests[x]
        /\ p \in DOMAIN table.programs
        /\ DOMAIN table.programs \ {p} \subseteq DOMAIN table'.programs
        /\ DOMAIN table'.programs \subseteq DOMAIN table.programs
        /\ \A q \in DOMAIN table'.programs \ {p} : table'.programs[q] = table.programs[q]
        /\ p \in DOMAIN table'.programs =>
              table'.programs[p].service
                = Charge(table.programs[p].service, inherited, executed)
    BY <1>2, FinishCharges DEF IInv
  <2>2. DOMAIN past = DOMAIN table.programs /\ \A q \in DOMAIN past : Chains(q)
    BY DEF PathInv
  <2>3. /\ DOMAIN past' = DOMAIN table'.programs
        /\ \A q \in DOMAIN past' \ {p} : past'[q] = past[q]
        /\ p \in DOMAIN past' => past'[p] = Put(past[p], r, call)
    BY <1>2, <2>1, <2>2 DEF Record, Drop, Restrict
  <2>4. \A q, x : x \in RowsOf(table', q) => x # r /\ x \in RowsOf(table, q)
    BY <2>1 DEF RowsOf
  <2>5. ASSUME NEW q \in DOMAIN past', q # p
        PROVE  Chains(q)'
    <3>1. /\ Chains(q) /\ past'[q] = past[q]
          /\ table'.programs[q].service = table.programs[q].service
      BY <2>1, <2>2, <2>3, <2>5
    <3>2. DOMAIN past[q] \cap DOMAIN table'.requests = {}
      BY <2>1, <3>1 DEF Chains
    <3> QED BY <2>4, <3>1, <3>2, ChainsKept
  <2>6. ASSUME NEW q \in DOMAIN past', q = p
        PROVE  Chains(q)'
    <3> DEFINE h == past[q]
               k == Put(h, r, call)
    <3>1. Chains(q) /\ past'[q] = k
      BY <2>1, <2>2, <2>3, <2>6
    <3>2. HistoryOK(h) /\ Determined(h) /\ before \in SUBSET DOMAIN h /\ r \notin DOMAIN h
      BY <1>2, <2>6, <3>1 DEF Chains, RowsOf
    <3>3. /\ HistoryOK(k) /\ Determined(k)
          /\ \A S \in SUBSET DOMAIN h : Longest(k, S) = Longest(h, S)
          /\ Longest(k, DOMAIN k)
               = Larger(Longest(h, DOMAIN h), executed + Longest(h, before))
      BY <3>2, HistoryGrows
    <3>4. DOMAIN k = DOMAIN h \cup {r}
      BY DEF Put
    <3> HIDE DEF h, k
    <3>5. table'.programs[q].service = Longest(k, DOMAIN k)
      <4>1. table.programs[q].service = Longest(h, DOMAIN h)
        BY <3>1 DEF Chains, h
      <4>2. inherited = Longest(h, before)
        BY <1>2, <2>6 DEF h
      <4>3. table'.programs[q].service = Larger(Longest(h, DOMAIN h), inherited + executed)
        BY <2>1, <2>3, <2>6, <4>1 DEF Charge
      <4>4. inherited + executed = executed + inherited
        OBVIOUS
      <4> QED BY <3>3, <4>2, <4>3, <4>4
    <3>6. DOMAIN k \subseteq DOMAIN owner' \ DOMAIN table'.requests
      BY <2>1, <3>1, <3>4 DEF Chains, h
    <3>7. ASSUME NEW x \in DOMAIN held', x \in RowsOf(table', q)
          PROVE  /\ held'[x].before \subseteq DOMAIN k
                 /\ held'[x].inherited = Longest(k, held'[x].before)
      <4>1. x \in DOMAIN held /\ held'[x] = held[x] /\ x \in RowsOf(table, q)
        BY <2>4, <3>7
      <4>2. /\ held[x].before \subseteq DOMAIN h
            /\ held[x].inherited = Longest(h, held[x].before)
        BY <3>1, <4>1 DEF Chains, h
      <4> QED BY <3>3, <3>4, <4>1, <4>2
    <3> QED BY <3>1, <3>3, <3>5, <3>6, <3>7 DEF Chains
  <2> QED BY <2>3, <2>5, <2>6 DEF PathInv
<1> QED BY <1>1, <1>2

\* Every transaction keeps the chains, in every order.
LEMMA NextPaths ==
    ASSUME Policy = "atlas", IInv, PathInv, [Next]_vars
    PROVE  PathInv'
<1>1. ASSUME NEW p \in Pid, Open(p)
      PROVE  PathInv'
  <2>1. /\ p \notin DOMAIN table.programs /\ table'.requests = table.requests
        /\ DOMAIN table'.programs = DOMAIN table.programs \cup {p}
        /\ \A q \in DOMAIN table.programs : table'.programs[q] = table.programs[q]
        /\ table'.programs[p].service = 0
        /\ held' = held /\ owner' = owner
    BY <1>1 DEF Open, CanOpen, OpenIn, Put, NewProgram
  <2>2. /\ DOMAIN past' = DOMAIN past \cup {p}
        /\ \A q \in DOMAIN past : q # p => past'[q] = past[q]
        /\ past'[p] = << >>
    BY <1>1 DEF Open, Put
  <2>3. DOMAIN past = DOMAIN table.programs /\ \A q \in DOMAIN past : Chains(q)
    BY DEF PathInv
  <2>4. \A q : RowsOf(table', q) = RowsOf(table, q)
    BY <2>1 DEF RowsOf
  <2>5. ASSUME NEW q \in DOMAIN past
        PROVE  Chains(q)'
    <3>1. DOMAIN past[q] \cap DOMAIN table'.requests = {}
      BY <2>1, <2>3 DEF Chains
    <3> QED BY <2>1, <2>2, <2>3, <2>4, <3>1, ChainsKept
  <2>6. Chains(p)'
    <3>1. RowsOf(table', p) = {}
      BY <2>1, <2>4 DEF RowsOf, IInv, TableInv, ActiveIsRows
    <3>2. DOMAIN << >> = {}
      OBVIOUS
    <3> QED BY <2>1, <2>2, <3>1, <3>2, EmptyHistory DEF Chains
  <2> QED BY <2>1, <2>2, <2>3, <2>5, <2>6 DEF PathInv
<1>2. ASSUME NEW p \in Pid, End(p)
      PROVE  PathInv'
  <2>1. /\ table'.requests = table.requests
        /\ DOMAIN table'.programs \subseteq DOMAIN table.programs
        /\ \A q \in DOMAIN table'.programs :
              table'.programs[q].service = table.programs[q].service
        /\ held' = held /\ owner' = owner
    BY <1>2 DEF End, EndIn, DropDrained, Drop, Restrict, IInv, TableInv, TableType, Program
  <2>2. DOMAIN past = DOMAIN table.programs /\ \A q \in DOMAIN past : Chains(q)
    BY DEF PathInv
  <2>3. /\ DOMAIN past' = DOMAIN table'.programs
        /\ \A q \in DOMAIN past' : past'[q] = past[q]
    BY <1>2, <2>1, <2>2 DEF End, Restrict
  <2>4. ASSUME NEW q \in DOMAIN past'
        PROVE  Chains(q)'
    <3>1. Chains(q) /\ table'.programs[q].service = table.programs[q].service
      BY <2>1, <2>2, <2>3
    <3>2. DOMAIN past[q] \cap DOMAIN table'.requests = {}
      BY <2>1, <3>1 DEF Chains
    <3>3. RowsOf(table', q) = RowsOf(table, q)
      BY <2>1 DEF RowsOf
    <3> QED BY <2>1, <2>3, <3>1, <3>2, <3>3, ChainsKept
  <2> QED BY <2>3, <2>4 DEF PathInv
<1>3. ASSUME NEW p \in Pid, NEW r \in Rid, Admit(p, r)
      PROVE  PathInv'
  <2>1. /\ p \in DOMAIN table.programs /\ r \notin DOMAIN owner /\ past' = past
        /\ DOMAIN table'.programs = DOMAIN table.programs
        /\ \A q \in DOMAIN table.programs :
              table'.programs[q].service = table.programs[q].service
        /\ DOMAIN table'.requests = DOMAIN table.requests \cup {r}
        /\ table'.requests[r] = p
        /\ \A x \in DOMAIN table.requests : x # r => table'.requests[x] = table.requests[x]
    BY <1>3 DEF Admit, CanAdmit, AdmitTo, Put, IInv, TableInv, TableType, Program
  <2>2. /\ DOMAIN owner' = DOMAIN owner \cup {r}
        /\ DOMAIN held' = DOMAIN held \cup {r}
        /\ \A x \in DOMAIN held : x # r => held'[x] = held[x]
        /\ held'[r].inherited = table.programs[p].service
        /\ held'[r].before = DOMAIN past[p]
    BY <1>3 DEF Admit, Put, Inherited
  <2>3. DOMAIN past = DOMAIN table.programs /\ \A q \in DOMAIN past : Chains(q)
    BY DEF PathInv
  <2>4. ASSUME NEW q \in DOMAIN past
        PROVE  Chains(q)'
    <3>1. Chains(q) /\ table'.programs[q].service = table.programs[q].service
      BY <2>1, <2>3
    <3>2. DOMAIN past[q] \subseteq DOMAIN owner' \ DOMAIN table'.requests
      BY <2>1, <2>2, <3>1 DEF Chains
    <3>3. ASSUME NEW x \in DOMAIN held', x \in RowsOf(table', q)
          PROVE  /\ held'[x].before \subseteq DOMAIN past[q]
                 /\ held'[x].inherited = Longest(past[q], held'[x].before)
      <4>1. CASE x = r
        <5>1. q = p
          BY <2>1, <3>3, <4>1 DEF RowsOf
        <5> QED BY <2>2, <3>1, <4>1, <5>1 DEF Chains
      <4>2. CASE x # r
        <5>1. x \in DOMAIN held /\ held'[x] = held[x] /\ x \in RowsOf(table, q)
          BY <2>1, <2>2, <3>3, <4>2 DEF RowsOf
        <5> QED BY <3>1, <5>1 DEF Chains
      <4> QED BY <4>1, <4>2
    <3> QED BY <2>1, <3>1, <3>2, <3>3 DEF Chains
  <2> QED BY <2>1, <2>3, <2>4 DEF PathInv
<1>4. ASSUME NEW r \in Rid, Reclaim(r)
      PROVE  PathInv'
  <2>1. owner[r] \in DOMAIN past => Longest(past[owner[r]], {}) = 0
    <3> SUFFICES ASSUME owner[r] \in DOMAIN past PROVE Longest(past[owner[r]], {}) = 0
      OBVIOUS
    <3>1. Longest(past[owner[r]], {}) = Max0({})
      BY DEF Longest
    <3>2. Longest(<< >>, {}) = Max0({})
      BY DEF Longest
    <3> QED BY <3>1, <3>2, EmptyHistory
  <2>2. r \in RowsOf(table, owner[r]) => owner[r] \in DOMAIN past
    BY DEF RowsOf, PathInv, IInv, TableInv, ActiveIsRows
  <2>3. /\ r \in DOMAIN owner /\ owner' = owner /\ held' = held
        /\ table' = FinishIn(table, owner[r], r, 0, 0, 0)
        /\ Record(owner[r], r, [ran |-> 0, before |-> {}])
    BY <1>4 DEF Reclaim
  <2>4. {} \subseteq DOMAIN past[owner[r]] /\ 0 \in Nat
    OBVIOUS
  <2> QED BY <2>1, <2>2, <2>3, <2>4, FinishPaths
<1>5. ASSUME NEW r \in Rid, Die(r)
      PROVE  PathInv'
  <2>1. /\ table' = table /\ owner' = owner /\ past' = past
        /\ \A x \in DOMAIN held' : x \in DOMAIN held /\ held'[x] = held[x]
    BY <1>5 DEF Die, Drop, Restrict
  <2>2. ASSUME NEW q \in DOMAIN past
        PROVE  Chains(q)'
    <3>1. Chains(q) /\ DOMAIN past[q] \cap DOMAIN table'.requests = {}
      BY <2>1 DEF PathInv, Chains
    <3> QED BY <2>1, <3>1, ChainsKept
  <2> QED BY <2>1, <2>2 DEF PathInv
<1>6. ASSUME NEW r \in Rid, NEW e \in Seconds, NEW w \in Seconds, Finish(r, e, w)
      PROVE  PathInv'
  <2>1. /\ r \in DOMAIN held /\ owner' = owner
        /\ table' = FinishIn(table, owner[r], r, held[r].inherited, e, w)
        /\ Record(owner[r], r, [ran |-> e, before |-> held[r].before])
        /\ \A x \in DOMAIN held' : x \in DOMAIN held /\ held'[x] = held[x]
    BY <1>6 DEF Finish, Drop, Restrict
  <2>2. r \in DOMAIN owner /\ held[r].inherited \in Nat /\ e \in Nat /\ w \in Nat
    BY <2>1, SecondsAssumption DEF IInv, TypeOK
  <2>3. r \in RowsOf(table, owner[r]) => Chains(owner[r])
    BY DEF RowsOf, PathInv, IInv, TableInv, ActiveIsRows
  <2>4. r \in RowsOf(table, owner[r]) =>
            /\ held[r].before \subseteq DOMAIN past[owner[r]]
            /\ held[r].inherited = Longest(past[owner[r]], held[r].before)
    BY <2>1, <2>3 DEF Chains
  <2> QED BY <2>1, <2>2, <2>4, FinishPaths
<1>7. CASE UNCHANGED vars
  <2>1. ASSUME NEW q \in DOMAIN past
        PROVE  Chains(q)'
    <3>1. Chains(q) /\ DOMAIN past[q] \cap DOMAIN table'.requests = {}
      BY <1>7 DEF PathInv, Chains, vars
    <3> QED BY <1>7, <3>1, ChainsKept DEF vars
  <2> QED BY <1>7, <2>1 DEF PathInv, vars
<1> QED BY <1>1, <1>2, <1>3, <1>4, <1>5, <1>6, <1>7 DEF Next

\* The service ProgramTable.finish charges under ATLAS is the program's critical path, whatever
\* processes hold its calls, in whatever order they finish, die or are reclaimed.
THEOREM CriticalPathIsService ==
    ASSUME Policy = "atlas"
    PROVE  Spec => []ServiceIsCriticalPath
<1>1. Init => PathInv
  BY DEF Init, PathInv, EmptyTable
<1>2. IInv /\ PathInv /\ [Next]_vars => PathInv'
  BY NextPaths
<1>3. PathInv => ServiceIsCriticalPath
  <2>1. \A p : LongestPath(p) = Longest(past[p], DOMAIN past[p])
    BY DEF LongestPath, Longest, Reach
  <2> QED BY <2>1 DEF PathInv, Chains, ServiceIsCriticalPath
<1> QED BY <1>1, <1>2, <1>3, Invariance, PTL DEF Spec

=============================================================================
