--------------------------- MODULE Common_proofs ----------------------------
(***************************************************************************)
(* What several models are built from.  Every transaction of the program   *)
(* table keeps its two sets of rows in agreement (TableInv), for any       *)
(* identifiers and any policy; lists are sorted and filtered; sums are     *)
(* taken over sets; and the scheduling window selects its calls.           *)
(***************************************************************************)
EXTENDS SchedulingWindow, FiniteSetTheorems, SequenceTheorems, WellFoundedInduction, TLAPS

\* A non-empty set of numbers has a least one.
LEMMA LeastNat ==
    ASSUME NEW S, S \subseteq Nat, S # {}
    PROVE  \E m \in S : \A n \in S : m <= n
<1> DEFINE R == OpToRel(<, Nat)
<1>1. IsWellFoundedOn(R, Nat)
  BY NatLessThanWellFounded
<1>2. \A x \in Nat, y \in Nat : y < x => <<y, x>> \in R
  BY DEF OpToRel
<1> HIDE DEF R
<1>3. PICK x \in S : \A y \in S : ~ (<<y, x>> \in R)
  BY <1>1, WFMin
<1>4. ASSUME NEW y \in S PROVE x <= y
  <2>1. x \in Nat /\ y \in Nat /\ ~(y < x)
    BY <1>2, <1>3
  <2> QED BY <2>1
<1> QED BY <1>4

-----------------------------------------------------------------------------
(* The transactions. *)

\* The rows of a program are finitely many, as the table is.
LEMMA RowsFinite ==
    ASSUME NEW t, NEW p, TableType(t)
    PROVE  IsFiniteSet(RowsOf(t, p)) /\ Cardinality(RowsOf(t, p)) \in Nat
<1>1. RowsOf(t, p) \subseteq DOMAIN t.requests
  BY DEF RowsOf
<1>2. IsFiniteSet(RowsOf(t, p))
  BY <1>1, FS_Subset DEF TableType
<1> QED
  BY <1>2, FS_CardinalityType

\* The empty database.
LEMMA EmptyTableInv == TableInv(EmptyTable)
<1>1. TableType(EmptyTable)
  BY FS_EmptySet DEF TableType, EmptyTable
<1> QED
  BY <1>1 DEF TableInv, ActiveIsRows, NoDrainedRow, EmptyTable

\* ProgramTable.open: a new program has no request rows.
LEMMA OpenKeepsInv ==
    ASSUME NEW t, NEW p \in Pid, TableInv(t), CanOpen(t, p)
    PROVE  TableInv(OpenIn(t, p))
<1> DEFINE u == OpenIn(t, p)
<1>1. /\ u = [programs |-> Put(t.programs, p, NewProgram), requests |-> t.requests]
      /\ DOMAIN u.programs = DOMAIN t.programs \cup {p}
  BY DEF OpenIn, Put
<1>2. TableType(u)
  BY <1>1 DEF TableInv, TableType, Put, NewProgram, Program
<1>3. \A q : RowsOf(u, q) = RowsOf(t, q)
  BY <1>1 DEF RowsOf
<1>4. RowsOf(t, p) = {}
  BY DEF RowsOf, TableInv, ActiveIsRows, CanOpen
<1>5. ActiveIsRows(u)
  <2>1. \A r \in DOMAIN u.requests : u.requests[r] \in DOMAIN u.programs
    BY <1>1 DEF TableInv, ActiveIsRows
  <2>2. u.programs[p].active = Cardinality(RowsOf(u, p))
    <3>1. u.programs[p].active = 0
      BY <1>1 DEF Put, NewProgram
    <3>2. Cardinality(RowsOf(u, p)) = 0
      BY <1>3, <1>4, FS_EmptySet
    <3> QED
      BY <3>1, <3>2
  <2>3. ASSUME NEW q \in DOMAIN t.programs, q # p
        PROVE  u.programs[q].active = Cardinality(RowsOf(u, q))
    BY <1>1, <1>3, <2>3 DEF TableInv, ActiveIsRows, Put
  <2> QED
    BY <1>1, <2>1, <2>2, <2>3 DEF ActiveIsRows
<1>6. NoDrainedRow(u)
  BY <1>1 DEF TableInv, NoDrainedRow, Put, NewProgram
<1> QED
  BY <1>2, <1>5, <1>6 DEF TableInv

\* ProgramTable.admit: one more request row, one more active request.
LEMMA AdmitKeepsInv ==
    ASSUME NEW t, NEW p \in Pid, NEW r \in Rid, TableInv(t), CanAdmit(t, p, r)
    PROVE  TableInv(AdmitTo(t, p, r))
<1> DEFINE u == AdmitTo(t, p, r)
<1>1. /\ u = [programs |-> [t.programs EXCEPT ![p].active = @ + 1],
              requests |-> Put(t.requests, r, p)]
      /\ DOMAIN u.programs = DOMAIN t.programs
      /\ DOMAIN u.requests = DOMAIN t.requests \cup {r}
  BY DEF AdmitTo, Put
<1>2. TableType(u)
  <2>1. u.programs \in [DOMAIN u.programs -> Program]
    BY <1>1 DEF TableInv, TableType, Program, CanAdmit
  <2>2. IsFiniteSet(DOMAIN u.requests)
    BY <1>1, FS_AddElement DEF TableInv, TableType
  <2> QED
    BY <1>1, <2>1, <2>2 DEF TableInv, TableType, Put
<1>3. RowsOf(u, p) = RowsOf(t, p) \cup {r}
  BY <1>1 DEF RowsOf, Put
<1>4. \A q : q # p => RowsOf(u, q) = RowsOf(t, q)
  BY <1>1 DEF RowsOf, Put, CanAdmit
<1>5. Cardinality(RowsOf(u, p)) = Cardinality(RowsOf(t, p)) + 1
  <2>1. r \notin RowsOf(t, p)
    BY DEF RowsOf, CanAdmit
  <2> QED
    BY <1>3, <2>1, RowsFinite, FS_AddElement DEF TableInv
<1>6. /\ u.programs[p].active = t.programs[p].active + 1
      /\ u.programs[p].closing = t.programs[p].closing
      /\ \A q \in DOMAIN t.programs : q # p => u.programs[q] = t.programs[q]
  BY <1>1 DEF TableInv, TableType, CanAdmit, Program
<1>7. ActiveIsRows(u)
  <2>1. \A x \in DOMAIN u.requests : u.requests[x] \in DOMAIN u.programs
    BY <1>1 DEF TableInv, ActiveIsRows, Put, CanAdmit
  <2>2. u.programs[p].active = Cardinality(RowsOf(u, p))
    BY <1>5, <1>6 DEF TableInv, ActiveIsRows, CanAdmit
  <2>3. ASSUME NEW q \in DOMAIN t.programs, q # p
        PROVE  u.programs[q].active = Cardinality(RowsOf(u, q))
    BY <1>4, <1>6, <2>3 DEF TableInv, ActiveIsRows
  <2> QED
    BY <1>1, <2>1, <2>2, <2>3 DEF ActiveIsRows
<1>8. NoDrainedRow(u)
  BY <1>1, <1>6 DEF TableInv, NoDrainedRow, CanAdmit
<1> QED
  BY <1>2, <1>7, <1>8 DEF TableInv

\* The DELETE at the end of finish and end restores the invariant of a table in
\* which p alone may be closing without active requests.
LEMMA DropDrainedRestoresInv ==
    ASSUME NEW t, NEW p, TableType(t), ActiveIsRows(t), p \in DOMAIN t.programs,
           \A q \in DOMAIN t.programs \ {p} :
               ~(t.programs[q].closing /\ t.programs[q].active = 0)
    PROVE  TableInv(DropDrained(t, p))
<1> DEFINE u == DropDrained(t, p)
<1>1. CASE ~(t.programs[p].closing /\ t.programs[p].active = 0)
  BY <1>1 DEF DropDrained, TableInv, NoDrainedRow
<1>2. CASE t.programs[p].closing /\ t.programs[p].active = 0
  <2>1. /\ u = [programs |-> Drop(t.programs, p), requests |-> t.requests]
        /\ DOMAIN u.programs = DOMAIN t.programs \ {p}
        /\ \A q \in DOMAIN u.programs : u.programs[q] = t.programs[q]
    BY <1>2 DEF DropDrained, Drop, Restrict, TableType
  <2>2. RowsOf(t, p) = {}
    <3>1. Cardinality(RowsOf(t, p)) = 0
      BY <1>2 DEF ActiveIsRows
    <3>2. IsFiniteSet(RowsOf(t, p))
      BY RowsFinite
    <3> QED
      BY <3>1, <3>2, FS_EmptySet
  <2>3. \A q : RowsOf(u, q) = RowsOf(t, q)
    BY <2>1 DEF RowsOf
  <2>4. TableType(u)
    BY <2>1 DEF TableType, Drop, Restrict
  <2>5. ActiveIsRows(u)
    <3>1. \A x \in DOMAIN u.requests : u.requests[x] \in DOMAIN u.programs
      BY <2>1, <2>2 DEF ActiveIsRows, RowsOf
    <3>2. ASSUME NEW q \in DOMAIN u.programs
          PROVE  u.programs[q].active = Cardinality(RowsOf(u, q))
      <4>1. u.programs[q].active = t.programs[q].active /\ q \in DOMAIN t.programs
        BY <2>1
      <4> QED
        BY <2>3, <4>1 DEF ActiveIsRows
    <3> QED
      BY <3>1, <3>2 DEF ActiveIsRows
  <2>6. NoDrainedRow(u)
    BY <2>1 DEF NoDrainedRow
  <2> QED
    BY <2>4, <2>5, <2>6 DEF TableInv
<1> QED
  BY <1>1, <1>2

\* What a call charges is a time.
LEMMA ChargeType ==
    ASSUME NEW s \in Nat, NEW i \in Nat, NEW e \in Nat
    PROVE  Charge(s, i, e) \in Nat
BY DEF Charge, Larger

\* ProgramTable.finish: of all the finishes of one request only the one that
\* removes its row counts, and it counts once.
LEMMA FinishKeepsInv ==
    ASSUME NEW t, NEW p \in Pid, NEW r \in Rid, TableInv(t),
           NEW i \in Nat, NEW e \in Nat, NEW w \in Nat
    PROVE  TableInv(FinishIn(t, p, r, i, e, w))
<1>1. CASE ~RemovesRow(t, p, r)
  BY <1>1 DEF FinishIn
<1>2. CASE RemovesRow(t, p, r)
  <2> DEFINE row == t.programs[p]
             u == [programs |-> [t.programs EXCEPT
                       ![p].service = Charge(@, i, e),
                       ![p].wait    = @ + w,
                       ![p].active  = @ - 1],
                   requests |-> Drop(t.requests, r)]
  <2>1. r \in DOMAIN t.requests /\ t.requests[r] = p /\ p \in DOMAIN t.programs
    BY <1>2 DEF RemovesRow, RowsOf, TableInv, ActiveIsRows
  <2>2. /\ DOMAIN u.programs = DOMAIN t.programs
        /\ DOMAIN u.requests = DOMAIN t.requests \ {r}
        /\ \A q \in DOMAIN u.requests : u.requests[q] = t.requests[q]
    BY DEF Drop, Restrict
  <2>3. row \in Program
    BY <2>1 DEF TableInv, TableType
  <2>4. u.programs[p] = [service |-> Charge(row.service, i, e), wait |-> row.wait + w,
                         active |-> row.active - 1, closing |-> row.closing]
    BY <2>1, <2>3 DEF TableInv, TableType, Program
  <2>5. \A q \in DOMAIN t.programs : q # p => u.programs[q] = t.programs[q]
    BY DEF TableInv, TableType
  <2>6. RowsOf(u, p) = RowsOf(t, p) \ {r}
    BY <2>2 DEF RowsOf
  <2>7. \A q : q # p => RowsOf(u, q) = RowsOf(t, q)
    BY <2>1, <2>2 DEF RowsOf
  <2>8. /\ Cardinality(RowsOf(u, p)) = Cardinality(RowsOf(t, p)) - 1
        /\ Cardinality(RowsOf(u, p)) \in Nat
    <3>1. r \in RowsOf(t, p)
      BY <2>1 DEF RowsOf
    <3>2. IsFiniteSet(RowsOf(t, p) \ {r})
      BY RowsFinite, FS_RemoveElement DEF TableInv
    <3>3. IsFiniteSet(RowsOf(t, p))
      BY RowsFinite DEF TableInv
    <3>4. Cardinality(RowsOf(t, p) \ {r}) = Cardinality(RowsOf(t, p)) - 1
      BY <3>1, <3>3, FS_RemoveElement
    <3>5. Cardinality(RowsOf(t, p) \ {r}) \in Nat
      BY <3>2, FS_CardinalityType
    <3> QED
      BY <2>6, <3>4, <3>5
  <2>9. row.active - 1 \in Nat
    BY <2>1, <2>3, <2>8 DEF TableInv, ActiveIsRows, Program
  <2>10. u.programs[p] \in Program
    BY <2>3, <2>4, <2>9, ChargeType DEF Program
  <2>11. TableType(u)
    <3>1. u.programs \in [DOMAIN u.programs -> Program]
      BY <2>2, <2>5, <2>10 DEF TableInv, TableType
    <3>2. u.requests \in [DOMAIN u.requests -> Pid]
      BY <2>2 DEF TableInv, TableType, Drop, Restrict
    <3>3. IsFiniteSet(DOMAIN u.requests)
      BY <2>2, FS_RemoveElement DEF TableInv, TableType
    <3> QED
      BY <2>2, <3>1, <3>2, <3>3 DEF TableInv, TableType
  <2>12. ActiveIsRows(u)
    <3>1. \A x \in DOMAIN u.requests : u.requests[x] \in DOMAIN u.programs
      BY <2>2 DEF TableInv, ActiveIsRows
    <3>2. u.programs[p].active = Cardinality(RowsOf(u, p))
      BY <2>1, <2>4, <2>8 DEF TableInv, ActiveIsRows
    <3>3. ASSUME NEW q \in DOMAIN t.programs, q # p
          PROVE  u.programs[q].active = Cardinality(RowsOf(u, q))
      BY <2>5, <2>7, <3>3 DEF TableInv, ActiveIsRows
    <3> QED
      BY <2>2, <3>1, <3>2, <3>3 DEF ActiveIsRows
  <2>13. \A q \in DOMAIN u.programs \ {p} :
            ~(u.programs[q].closing /\ u.programs[q].active = 0)
    BY <2>2, <2>5 DEF TableInv, NoDrainedRow
  <2>14. TableInv(DropDrained(u, p))
    <3> HIDE DEF u
    <3> QED
      BY <2>1, <2>2, <2>11, <2>12, <2>13, DropDrainedRestoresInv
  <2> QED
    BY <1>2, <2>14 DEF FinishIn
<1> QED
  BY <1>1, <1>2

\* ProgramTable.end: marks the program, and deletes it when nothing is active.
LEMMA EndKeepsInv ==
    ASSUME NEW t, NEW p, TableInv(t)
    PROVE  TableInv(EndIn(t, p))
<1>1. CASE p \notin DOMAIN t.programs
  BY <1>1 DEF EndIn
<1>2. CASE p \in DOMAIN t.programs
  <2> DEFINE u == [programs |-> [t.programs EXCEPT ![p].closing = TRUE],
                   requests |-> t.requests]
  <2>1. /\ u = [programs |-> [t.programs EXCEPT ![p].closing = TRUE], requests |-> t.requests]
        /\ DOMAIN u.programs = DOMAIN t.programs
        /\ u.programs[p].active = t.programs[p].active
        /\ \A q \in DOMAIN t.programs : q # p => u.programs[q] = t.programs[q]
    BY <1>2 DEF TableInv, TableType, Program
  <2>2. \A q : RowsOf(u, q) = RowsOf(t, q)
    BY <2>1 DEF RowsOf
  <2>3. TableType(u)
    <3>1. u.programs \in [DOMAIN u.programs -> Program]
      BY <1>2 DEF TableInv, TableType, Program
    <3> QED
      BY <2>1, <3>1 DEF TableInv, TableType
  <2>4. ActiveIsRows(u)
    <3>1. \A x \in DOMAIN u.requests : u.requests[x] \in DOMAIN u.programs
      BY <2>1 DEF TableInv, ActiveIsRows
    <3>2. ASSUME NEW q \in DOMAIN u.programs
          PROVE  u.programs[q].active = Cardinality(RowsOf(u, q))
      <4>1. u.programs[q].active = t.programs[q].active
        BY <2>1
      <4> QED
        BY <2>1, <2>2, <4>1 DEF TableInv, ActiveIsRows
    <3> QED
      BY <3>1, <3>2 DEF ActiveIsRows
  <2>5. \A q \in DOMAIN u.programs \ {p} :
            ~(u.programs[q].closing /\ u.programs[q].active = 0)
    BY <2>1 DEF TableInv, NoDrainedRow
  <2>6. TableInv(DropDrained(u, p))
    <3> HIDE DEF u
    <3> QED
      BY <1>2, <2>1, <2>3, <2>4, <2>5, DropDrainedRestoresInv
  <2> QED
    BY <1>2, <2>6 DEF EndIn
<1> QED
  BY <1>1, <1>2

-----------------------------------------------------------------------------
(* finish and end never add a row, nor reopen a program. *)

Shrinks(t, u) ==
    /\ DOMAIN u.requests \subseteq DOMAIN t.requests
    /\ \A r \in DOMAIN u.requests : u.requests[r] = t.requests[r]
    /\ DOMAIN u.programs \subseteq DOMAIN t.programs
    /\ \A p \in DOMAIN u.programs : t.programs[p].closing => u.programs[p].closing

\* The DELETE at the end of finish and end.
LEMMA DropDrainedShrinks ==
    ASSUME NEW t, NEW p
    PROVE  Shrinks(t, DropDrained(t, p))
BY DEF Shrinks, DropDrained, Drop, Restrict

\* ProgramTable.finish.
LEMMA FinishShrinks ==
    ASSUME NEW t, NEW p, NEW r, NEW i, NEW e, NEW w, TableInv(t)
    PROVE  Shrinks(t, FinishIn(t, p, r, i, e, w))
<1> DEFINE u == [programs |-> [t.programs EXCEPT
                     ![p].service = Charge(@, i, e),
                     ![p].wait    = @ + w,
                     ![p].active  = @ - 1],
                 requests |-> Drop(t.requests, r)]
<1>1. \A q \in DOMAIN t.programs : u.programs[q].closing = t.programs[q].closing
  BY DEF TableInv, TableType, Program
<1>2. Shrinks(t, u)
  BY <1>1 DEF Shrinks, Drop, Restrict
<1>3. Shrinks(t, DropDrained(u, p))
  <2> HIDE DEF u
  <2> QED
    BY <1>2, DropDrainedShrinks DEF Shrinks
<1> QED
  BY <1>3 DEF FinishIn, Shrinks

\* ProgramTable.end.
LEMMA EndShrinks ==
    ASSUME NEW t, NEW p, TableInv(t)
    PROVE  Shrinks(t, EndIn(t, p))
<1> DEFINE u == [programs |-> [t.programs EXCEPT ![p].closing = TRUE],
                 requests |-> t.requests]
<1>1. \A q \in DOMAIN t.programs : t.programs[q].closing => u.programs[q].closing
  BY DEF TableInv, TableType, Program
<1>2. Shrinks(t, u)
  BY <1>1 DEF Shrinks
<1>3. Shrinks(t, DropDrained(u, p))
  <2> HIDE DEF u
  <2> QED
    BY <1>2, DropDrainedShrinks DEF Shrinks
<1> QED
  BY <1>3 DEF EndIn, Shrinks

-----------------------------------------------------------------------------
(* Sequences that are sorted or filtered. *)

\* Ranked puts every element of a finite set at its place: none is lost or repeated, and
\* one that stands before another does not come after it.
LEMMA RankedSorts ==
    ASSUME NEW f, IsFiniteSet(DOMAIN f),
           \A x \in DOMAIN f : x \in f[x] /\ f[x] \subseteq DOMAIN f,
           \A x, y \in DOMAIN f : x # y =>
               \/ y \notin f[x] /\ f[x] \subseteq f[y]
               \/ x \notin f[y] /\ f[y] \subseteq f[x]
    PROVE  /\ Ranked(f) \in [1..Cardinality(DOMAIN f) -> DOMAIN f]
           /\ Cardinality(DOMAIN f) \in Nat
           /\ \A x \in DOMAIN f : \E n \in 1..Cardinality(DOMAIN f) : Ranked(f)[n] = x
           /\ \A m, n \in 1..Cardinality(DOMAIN f) : m < n =>
                  Ranked(f)[m] \in f[Ranked(f)[n]] /\ Ranked(f)[n] \notin f[Ranked(f)[m]]
<1> DEFINE S == DOMAIN f
           N == Cardinality(S)
           rank == [x \in S |-> Cardinality(f[x])]
           s == Ranked(f)
<1>1. N \in Nat /\ IsFiniteSet(1..N) /\ Cardinality(1..N) = N
  <2>1. N \in Nat BY FS_CardinalityType
  <2> QED BY <2>1, FS_Interval
<1>2. ASSUME NEW x \in S PROVE IsFiniteSet(f[x]) /\ rank[x] \in 1..N
  <2>1. IsFiniteSet(f[x]) /\ Cardinality(f[x]) <= N
    BY FS_Subset
  <2>2. Cardinality(f[x]) \in Nat /\ Cardinality(f[x]) # 0
    BY <2>1, FS_CardinalityType, FS_EmptySet
  <2> QED BY <1>1, <2>1, <2>2
<1>3. ASSUME NEW x \in S, NEW y \in S, y \notin f[x], f[x] \subseteq f[y]
      PROVE  rank[x] < rank[y]
  <2>1. Cardinality(f[x]) <= Cardinality(f[y])
        /\ (Cardinality(f[x]) = Cardinality(f[y]) => f[x] = f[y])
    BY <1>2, <1>3, FS_Subset
  <2>2. f[x] # f[y]
    BY <1>3
  <2>3. rank[x] \in 1..N /\ rank[y] \in 1..N
    BY <1>2
  <2> QED BY <1>1, <2>1, <2>2, <2>3
<1>4. \A x, y \in S : rank[x] = rank[y] => x = y
  <2> SUFFICES ASSUME NEW x \in S, NEW y \in S, x # y PROVE rank[x] # rank[y]
    OBVIOUS
  <2>1. rank[x] \in 1..N /\ rank[y] \in 1..N
    BY <1>2
  <2>2. rank[x] < rank[y] \/ rank[y] < rank[x]
    BY <1>3
  <2> QED BY <1>1, <2>1, <2>2
<1>5. rank \in [S -> 1..N]
  BY <1>2
<1>6. \A n \in 1..N : \E x \in S : rank[x] = n
  <2> HIDE DEF rank
  <2>1. rank \in Injection(S, 1..N)
    BY <1>4, <1>5 DEF Injection, IsInjective
  <2>2. rank \in Surjection(S, 1..N)
    BY <1>1, <2>1, FS_Injection
  <2> QED BY <2>2 DEF Surjection
<1>7. s = [n \in 1..N |-> CHOOSE x \in S : Cardinality(f[x]) = n]
  BY DEF Ranked
<1>8. ASSUME NEW n \in 1..N PROVE s[n] \in S /\ rank[s[n]] = n
  <2>1. \E x \in S : Cardinality(f[x]) = n
    BY <1>6
  <2>2. s[n] = CHOOSE x \in S : Cardinality(f[x]) = n
    BY <1>7
  <2> HIDE DEF s
  <2> QED BY <2>1, <2>2
<1>9. s \in [1..N -> S]
  <2> HIDE DEF S, rank
  <2> QED BY <1>7, <1>8
<1>10. \A x \in S : \E n \in 1..N : s[n] = x
  <2> HIDE DEF S, N, rank, s
  <2> QED BY <1>4, <1>5, <1>8
<1>11. ASSUME NEW m \in 1..N, NEW n \in 1..N, m < n
       PROVE  s[m] \in f[s[n]] /\ s[n] \notin f[s[m]]
  <2>1. s[m] \in S /\ s[n] \in S /\ rank[s[m]] = m /\ rank[s[n]] = n
    BY <1>8
  <2> HIDE DEF rank, s
  <2>2. s[m] # s[n] /\ ~(rank[s[n]] < rank[s[m]])
    BY <1>1, <1>11, <2>1
  <2>3. s[n] \notin f[s[m]] /\ f[s[m]] \subseteq f[s[n]]
    BY <1>3, <2>1, <2>2
  <2> QED BY <2>1, <2>3
<1> QED BY <1>1, <1>9, <1>10, <1>11

\* Among takes what is in S, in the order of s.
LEMMA AmongView ==
    ASSUME NEW s, NEW n \in Nat, DOMAIN s = 1..n, NEW S
    PROVE  /\ \E m \in Nat : Among(s, S) \in [1..m -> Range(s) \cap S]
           /\ Range(Among(s, S)) = Range(s) \cap S
           /\ \A a, b \in DOMAIN s : (a < b /\ s[a] \in S /\ s[b] \in S) =>
                  \E c, d \in DOMAIN Among(s, S) :
                      c < d /\ Among(s, S)[c] = s[a] /\ Among(s, S)[d] = s[b]
           /\ IsInjective(s) => IsInjective(Among(s, S))
<1> DEFINE kept == {i \in DOMAIN s : s[i] \in S}
           f == [i \in kept |-> kept \cap 1..i]
           at == Ranked(f)
           t == [k \in DOMAIN at |-> s[at[k]]]
           N == Cardinality(kept)
<1>1. IsFiniteSet(kept) /\ kept \subseteq 1..n
  <2>1. \A k \in Nat : IsFiniteSet(1..k)
    BY FS_Interval
  <2> QED BY <2>1, FS_Subset
<1>2. DOMAIN f = kept
  OBVIOUS
<1>3. \A i \in kept : i \in DOMAIN s /\ s[i] \in S
  OBVIOUS
<1>4. \A i \in DOMAIN s : s[i] \in S => i \in kept
  OBVIOUS
<1> HIDE DEF kept
<1>5. \A x \in DOMAIN f : x \in f[x] /\ f[x] \subseteq DOMAIN f
  BY <1>1
<1>6. \A x, y \in DOMAIN f : x # y =>
          \/ y \notin f[x] /\ f[x] \subseteq f[y]
          \/ x \notin f[y] /\ f[y] \subseteq f[x]
  BY <1>1
<1>7. \A k \in kept : f[k] = kept \cap 1..k
  OBVIOUS
<1> HIDE DEF f
<1>8. /\ at \in [1..N -> kept] /\ N \in Nat
      /\ \A x \in kept : \E k \in 1..N : at[k] = x
      /\ \A j, k \in 1..N : j < k => at[j] \in f[at[k]] /\ at[k] \notin f[at[j]]
  BY <1>1, <1>2, <1>5, <1>6, RankedSorts
<1>9. Among(s, S) = t
  BY DEF Among, kept, f
<1> HIDE DEF at, N
<1>10. ASSUME NEW j \in 1..N, NEW k \in 1..N, j < k PROVE at[j] < at[k]
  <2>1. at[j] \in 1..n /\ at[k] \in 1..n /\ at[j] \in f[at[k]] /\ at[k] \notin f[at[j]]
    BY <1>1, <1>8, <1>10
  <2>2. at[j] # at[k] /\ at[j] \in 1..at[k]
    BY <1>8, <1>7, <2>1
  <2> QED BY <2>1, <2>2
<1>11. t \in [1..N -> Range(s) \cap S] /\ DOMAIN t = 1..N /\ \A k \in 1..N : t[k] = s[at[k]]
  BY <1>8, <1>3 DEF Range
<1> HIDE DEF t
<1>12. Range(t) = Range(s) \cap S
  <2>1. ASSUME NEW x \in Range(s) \cap S PROVE x \in Range(t)
    <3>1. PICK i \in DOMAIN s : s[i] = x
      BY DEF Range
    <3>2. PICK k \in 1..N : at[k] = i
      BY <1>8, <1>4, <3>1
    <3> QED BY <1>11, <3>1, <3>2 DEF Range
  <2> QED BY <1>11, <2>1 DEF Range
<1>13. ASSUME NEW a \in DOMAIN s, NEW b \in DOMAIN s, a < b, s[a] \in S, s[b] \in S
      PROVE  \E c, d \in DOMAIN t : c < d /\ t[c] = s[a] /\ t[d] = s[b]
  <2>1. PICK c \in 1..N : at[c] = a
    BY <1>8, <1>13, <1>4
  <2>2. PICK d \in 1..N : at[d] = b
    BY <1>8, <1>13, <1>4
  <2>3. c < d
    BY <1>1, <1>8, <1>10, <1>13, <2>1, <2>2
  <2> QED BY <1>11, <2>1, <2>2, <2>3
<1>14. ASSUME IsInjective(s) PROVE IsInjective(t)
  <2>1. ASSUME NEW j \in 1..N, NEW k \in 1..N, at[j] = at[k] PROVE j = k
    <3>1. ~(at[j] < at[k]) /\ ~(at[k] < at[j])
      <4>1. at[j] \in 1..n /\ at[k] \in 1..n
        BY <1>1, <1>8
      <4> QED BY <2>1, <4>1
    <3>2. ~(j < k) /\ ~(k < j)
      BY <1>10, <3>1
    <3> QED BY <3>2
  <2> QED BY <1>8, <1>11, <1>14, <1>3, <2>1 DEF IsInjective
<1>15. \E m \in Nat : t \in [1..m -> Range(s) \cap S]
  BY <1>8, <1>11
<1> HIDE DEF kept, f
<1> QED BY <1>9, <1>12, <1>13, <1>14, <1>15

-----------------------------------------------------------------------------
(* Sums. *)

\* The sum of a function over a finite set, and the units it counts.
Total(f, S) == MapThenSumSet(LAMBDA r : f[r], S)
Units(f, S) == {u \in S \X Nat : 1 <= u[2] /\ u[2] <= f[u[1]]}
Counts(f, S) == IsFiniteSet(S) /\ \A r \in S : f[r] \in Nat

\* A function has a bound on a finite set.
LEMMA HasBound ==
    ASSUME NEW f, NEW S, Counts(f, S)
    PROVE  \E m \in Nat : \A r \in S : f[r] <= m
<1> DEFINE Ok(T) == \E m \in Nat : \A r \in T : f[r] <= m
           Bad == {T \in SUBSET S : ~Ok(T)}
           Sizes == {Cardinality(T) : T \in Bad}
<1>1. \A T \in SUBSET S : IsFiniteSet(T) /\ Cardinality(T) \in Nat
  BY FS_Subset, FS_CardinalityType DEF Counts
<1>2. ASSUME Bad # {} PROVE FALSE
  <2>1. PICK n \in Sizes : \A k \in Sizes : n <= k
    <3>1. Sizes # {} /\ Sizes \subseteq Nat
      BY <1>1, <1>2
    <3> HIDE DEF Sizes
    <3> QED BY <3>1, LeastNat
  <2>2. PICK T \in Bad : Cardinality(T) = n
    OBVIOUS
  <2>3. T \in SUBSET S /\ ~Ok(T)
    OBVIOUS
  <2>4. PICK x \in T : TRUE
    <3>1. Ok({})
      OBVIOUS
    <3> HIDE DEF Ok
    <3> QED BY <2>3, <3>1
  <2>5. Cardinality(T \ {x}) < n /\ T \ {x} \in SUBSET S
    <3>1. Cardinality(T \ {x}) = Cardinality(T) - 1
      BY <1>1, <2>3, <2>4, FS_RemoveElement
    <3> QED BY <1>1, <2>2, <2>3, <3>1
  <2>6. Ok(T \ {x})
    <3>1. T \ {x} \notin Bad
      BY <1>1, <2>1, <2>2, <2>3, <2>5
    <3> HIDE DEF Ok
    <3> QED BY <2>5, <3>1
  <2>7. PICK m \in Nat : \A r \in T \ {x} : f[r] <= m
    BY <2>6
  <2>8. f[x] \in Nat /\ \A r \in T : f[r] \in Nat
    BY <2>3, <2>4 DEF Counts
  <2>9. CASE f[x] <= m
    BY <2>3, <2>7, <2>9
  <2>10. CASE ~(f[x] <= m)
    <3>1. \A r \in T : f[r] <= f[x]
      BY <2>7, <2>8, <2>10
    <3> QED BY <2>3, <2>8, <3>1
  <2> QED BY <2>9, <2>10
<1> QED BY <1>2

\* Units are finitely many; a set has those of its elements.
LEMMA UnitsOf ==
    ASSUME NEW f, NEW S, Counts(f, S)
    PROVE  /\ IsFiniteSet(Units(f, S)) /\ Cardinality(Units(f, S)) \in Nat
           /\ \A x \in S : Cardinality(Units(f, {x})) = f[x]
<1>1. PICK m \in Nat : \A r \in S : f[r] <= m
  BY HasBound
<1>2. IsFiniteSet(1..m)
  BY <1>1, FS_Interval
<1>3. IsFiniteSet(S \X (1..m))
  BY <1>2, FS_Product DEF Counts
<1>4. Units(f, S) \subseteq S \X (1..m)
  BY <1>1 DEF Units, Counts
<1>5. IsFiniteSet(Units(f, S)) /\ Cardinality(Units(f, S)) \in Nat
  BY <1>3, <1>4, FS_Subset, FS_CardinalityType
<1>6. ASSUME NEW x \in S PROVE Cardinality(Units(f, {x})) = f[x]
  <2> DEFINE n == f[x]
             g == [i \in 1..n |-> << x, i >>]
  <2>1. n \in Nat
    BY DEF Counts
  <2>2. IsFiniteSet(1..n) /\ Cardinality(1..n) = n
    <3>1. \A k \in Nat : IsFiniteSet(1..k) /\ Cardinality(1..k) = k
      BY FS_Interval
    <3> QED BY <2>1, <3>1
  <2>3. Units(f, {x}) = {u \in {x} \X Nat : 1 <= u[2] /\ u[2] <= n}
    BY DEF Units
  <2> HIDE DEF n
  <2>4. \A u \in Units(f, {x}) : u[2] \in 1..n /\ g[u[2]] = u
    BY <2>1, <2>3
  <2>5. ASSUME NEW i \in 1..n PROVE g[i] \in Units(f, {x})
    <3>1. g[i] = << x, i >> /\ i \in Nat /\ 1 <= i /\ i <= n
      BY <2>1
    <3>2. << x, i >> \in {x} \X Nat
      BY <3>1
    <3> QED BY <2>3, <3>1, <3>2
  <2>6. g \in Bijection(1..n, Units(f, {x}))
    BY <2>4, <2>5 DEF Bijection, Injection, Surjection, IsInjective
  <2>7. ExistsBijection(1..n, Units(f, {x}))
    BY <2>6 DEF ExistsBijection
  <2> QED BY <2>2, <2>7, FS_Bijection DEF n
<1> QED BY <1>5, <1>6

\* Two disjoint sets have together the units of both.
LEMMA UnitsAdd ==
    ASSUME NEW f, NEW S, Counts(f, S), NEW T \in SUBSET S
    PROVE  Cardinality(Units(f, S)) = Cardinality(Units(f, T)) + Cardinality(Units(f, S \ T))
<1> DEFINE A == Units(f, T)
           B == Units(f, S \ T)
<1>1. Units(f, S) = A \cup B /\ A \cap B = {}
  BY DEF Units
<1>2. Counts(f, T) /\ Counts(f, S \ T)
  BY FS_Subset DEF Counts
<1>3. IsFiniteSet(A) /\ IsFiniteSet(B) /\ Cardinality(A) \in Nat /\ Cardinality(B) \in Nat
  BY <1>2, UnitsOf
<1> HIDE DEF A, B
<1>4. Cardinality(A \cup B) = Cardinality(A) + Cardinality(B) - Cardinality(A \cap B)
  BY <1>3, FS_Union
<1>5. Cardinality(A \cap B) = 0
  BY <1>1, FS_EmptySet
<1>6. Cardinality(A \cup B) = Cardinality(A) + Cardinality(B)
  BY <1>3, <1>4, <1>5
<1> QED BY <1>1, <1>6 DEF A, B

\* The fold adds up to the number of units, in whatever order it takes the elements: that
\* number satisfies its recursion, which has no other solution.
LEMMA TotalIs ==
    ASSUME NEW f, NEW S, Counts(f, S)
    PROVE  Total(f, S) = Cardinality(Units(f, S))
<1> DEFINE m(s) == Cardinality(Units(f, s))
           pick(s) == CHOOSE x \in s : TRUE
           Folds(g) == g = [s \in SUBSET S |->
                               IF s = {} THEN 0 ELSE f[pick(s)] + g[s \ {pick(s)}]]
<1>1. Total(f, S) = (CHOOSE g : Folds(g))[S]
  BY DEF Total, MapThenSumSet, MapThenFoldSet
<1>2. \A s \in SUBSET S : IsFiniteSet(s) /\ Counts(f, s)
  BY FS_Subset DEF Counts
<1>3. m({}) = 0
  <2>1. Units(f, {}) = {}
    BY DEF Units
  <2> QED BY <2>1, FS_EmptySet
<1>4. ASSUME NEW s \in SUBSET S, s # {} PROVE pick(s) \in s
  BY <1>4
<1>5. ASSUME NEW s \in SUBSET S, NEW x \in s PROVE m(s) = f[x] + m(s \ {x})
  <2>1. Counts(f, s)
    BY <1>2
  <2>2. Cardinality(Units(f, s)) = Cardinality(Units(f, {x})) + Cardinality(Units(f, s \ {x}))
    BY <2>1, UnitsAdd
  <2>3. Cardinality(Units(f, {x})) = f[x]
    BY <2>1, UnitsOf
  <2> QED BY <2>2, <2>3
<1> HIDE DEF m, pick
<1>6. Folds([s \in SUBSET S |-> m(s)])
  BY <1>3, <1>4, <1>5
<1>7. ASSUME NEW g, Folds(g) PROVE g[S] = m(S)
  <2> DEFINE Bad == {s \in SUBSET S : g[s] # m(s)}
             Sizes == {Cardinality(s) : s \in Bad}
  <2>1. ASSUME Bad # {} PROVE FALSE
    <3>1. PICK n \in Sizes : \A k \in Sizes : n <= k
      <4>1. Sizes # {} /\ Sizes \subseteq Nat
        BY <1>2, <2>1, FS_CardinalityType
      <4> HIDE DEF Sizes
      <4> QED BY <4>1, LeastNat
    <3>2. PICK s \in Bad : Cardinality(s) = n
      OBVIOUS
    <3>3. g[s] = IF s = {} THEN 0 ELSE f[pick(s)] + g[s \ {pick(s)}]
      BY <1>7
    <3>4. s # {}
      BY <1>3, <3>3
    <3> DEFINE t == s \ {pick(s)}
    <3>5. pick(s) \in s /\ t \in SUBSET S
      BY <1>4, <3>4
    <3>6. Cardinality(t) < n
      <4>1. Cardinality(t) = Cardinality(s) - 1 /\ Cardinality(s) \in Nat
        BY <1>2, <3>5, FS_RemoveElement, FS_CardinalityType
      <4> QED BY <3>2, <4>1
    <3>7. t \notin Bad
      <4>1. n \in Nat /\ Cardinality(t) \in Nat
        BY <1>2, <3>2, <3>5, FS_CardinalityType
      <4> QED BY <3>1, <3>6, <4>1
    <3>8. g[t] = m(t)
      BY <3>5, <3>7
    <3> QED BY <1>5, <3>3, <3>4, <3>5, <3>8
  <2> QED BY <2>1
<1> HIDE DEF Folds
<1>8. Folds(CHOOSE g : Folds(g))
  BY <1>6
<1> QED BY <1>1, <1>7, <1>8 DEF m

\* A sum is a number.
LEMMA TotalType ==
    ASSUME NEW f, NEW S, Counts(f, S)
    PROVE  Total(f, S) \in Nat
  BY TotalIs, UnitsOf

\* A sum is the sum over a part and over the rest.
LEMMA TotalSplit ==
    ASSUME NEW f, NEW S, Counts(f, S), NEW T \in SUBSET S
    PROVE  Total(f, S) = Total(f, T) + Total(f, S \ T)
<1>1. Counts(f, T) /\ Counts(f, S \ T)
  BY FS_Subset DEF Counts
<1> QED BY <1>1, TotalIs, UnitsAdd

\* One element counts with its own value.
LEMMA TotalOne ==
    ASSUME NEW f, NEW S, Counts(f, S), NEW x \in S
    PROVE  Total(f, S) = f[x] + Total(f, S \ {x})
<1>1. Counts(f, {x})
  BY FS_Singleton DEF Counts
<1>2. Total(f, {x}) = f[x]
  BY <1>1, TotalIs, UnitsOf
<1> QED BY <1>2, TotalSplit

\* Nothing sums up to nothing.
LEMMA TotalEmpty == \A f : Total(f, {}) = 0
<1>1. ASSUME NEW f PROVE Total(f, {}) = 0
  <2>1. Counts(f, {}) /\ Units(f, {}) = {}
    BY FS_EmptySet DEF Counts, Units
  <2> QED BY <2>1, TotalIs, FS_EmptySet
<1> QED BY <1>1

\* A sum grows with what is summed.
LEMMA TotalGrows ==
    ASSUME NEW f, NEW g, NEW S, Counts(f, S), Counts(g, S), \A r \in S : f[r] <= g[r]
    PROVE  Total(f, S) <= Total(g, S)
<1>1. Units(f, S) \subseteq Units(g, S)
  <2> SUFFICES ASSUME NEW u \in Units(f, S) PROVE u \in Units(g, S)
    OBVIOUS
  <2>1. u \in S \X Nat /\ u[1] \in S /\ u[2] \in Nat /\ 1 <= u[2] /\ u[2] <= f[u[1]]
    BY DEF Units
  <2>2. f[u[1]] \in Nat /\ g[u[1]] \in Nat /\ f[u[1]] <= g[u[1]]
    BY <2>1 DEF Counts
  <2> QED BY <2>1, <2>2 DEF Units
<1>2. IsFiniteSet(Units(g, S))
  BY UnitsOf
<1>3. Cardinality(Units(f, S)) <= Cardinality(Units(g, S))
  BY <1>1, <1>2, FS_Subset
<1> QED BY <1>3, TotalIs

\* A sum depends only on the values of the elements.
LEMMA TotalSame ==
    ASSUME NEW f, NEW g, NEW S, Counts(f, S), \A r \in S : f[r] = g[r]
    PROVE  Counts(g, S) /\ Total(f, S) = Total(g, S)
<1>1. Counts(g, S)
  BY DEF Counts
<1>2. Total(f, S) <= Total(g, S) /\ Total(g, S) <= Total(f, S)
  BY <1>1, TotalGrows DEF Counts
<1>3. Total(f, S) \in Nat /\ Total(g, S) \in Nat
  BY <1>1, TotalType
<1> QED BY <1>1, <1>2, <1>3

-----------------------------------------------------------------------------
(* Sequences of calls. *)

Precedes(s, p, q) == \E i, j \in DOMAIN s : i < j /\ s[i] = p /\ s[j] = q

\* A list of what is left.
LEMMA AmongIs ==
    ASSUME NEW S, NEW s \in Seq(S), NEW T
    PROVE  /\ Among(s, T) \in Seq(Range(s) \cap T) /\ Range(Among(s, T)) = Range(s) \cap T
           /\ \A p, q \in T : Precedes(s, p, q) => Precedes(Among(s, T), p, q)
           /\ IsInjective(s) => IsInjective(Among(s, T))
<1>1. PICK n \in Nat : DOMAIN s = 1..n
  <2>1. Len(s) \in Nat /\ DOMAIN s = 1..Len(s)
    OBVIOUS
  <2> QED BY <2>1
<1> DEFINE t == Among(s, T)
<1>2. /\ \E m \in Nat : t \in [1..m -> Range(s) \cap T]
      /\ Range(t) = Range(s) \cap T
      /\ \A a, b \in DOMAIN s : (a < b /\ s[a] \in T /\ s[b] \in T) =>
             \E c, d \in DOMAIN t : c < d /\ t[c] = s[a] /\ t[d] = s[b]
      /\ IsInjective(s) => IsInjective(t)
  BY <1>1, AmongView
<1> HIDE DEF t
<1>3. t \in Seq(Range(s) \cap T)
  <2>1. PICK m \in Nat : t \in [1..m -> Range(s) \cap T]
    BY <1>2
  <2> QED BY <2>1
<1>4. \A p, q \in T : Precedes(s, p, q) => Precedes(t, p, q)
  BY <1>2 DEF Precedes
<1> QED BY <1>2, <1>3, <1>4 DEF t

\* t is s with r before its place `at'.
Inserted(t, s, at, r) ==
    /\ Len(t) = Len(s) + 1 /\ DOMAIN t = 1..(Len(s) + 1)
    /\ \A i \in 1..(at - 1) : t[i] = s[i]
    /\ t[at] = r
    /\ \A i \in (at + 1)..(Len(s) + 1) : t[i] = s[i - 1]

\* A call enters the order somewhere; the others move by one place, or none.
LEMMA InsertView ==
    ASSUME NEW S, NEW s \in Seq(S), NEW r, NEW at \in 1..(Len(s) + 1)
    PROVE  InsertAt(s, at, r) \in Seq(S \cup {r}) /\ Inserted(InsertAt(s, at, r), s, at, r)
<1> DEFINE p == SubSeq(s, 1, at - 1)
           q == SubSeq(s, at, Len(s))
           t == InsertAt(s, at, r)
           n == Len(s)
<1>1. n \in Nat /\ at \in Nat /\ DOMAIN s = 1..n /\ at - 1 \in 0..n
  OBVIOUS
<1>2. t = p \o << r >> \o q
  BY DEF InsertAt
<1>3. /\ p \in Seq(S) /\ Len(p) = at - 1 /\ \A i \in 1..(at - 1) : p[i] = s[i]
  BY <1>1
<1>4. /\ q \in Seq(S) /\ Len(q) = n - at + 1 /\ \A i \in 1..(n - at + 1) : q[i] = s[at + i - 1]
  BY <1>1
<1> HIDE DEF p, q, t, n
<1> DEFINE u == p \o << r >>
           R == S \cup {r}
<1>5. /\ u \in Seq(R) /\ Len(u) = at /\ u[at] = r
      /\ \A i \in 1..(at - 1) : u[i] = s[i]
  <2>1. p \in Seq(R) /\ << r >> \in Seq(R) /\ Len(<< r >>) = 1 /\ << r >>[1] = r
    BY <1>3
  <2>2. u \in Seq(R) /\ Len(u) = at
    BY <1>1, <1>3, <2>1
  <2>3. \A i \in 1..(at - 1) : u[i] = p[i]
    BY <1>1, <1>3, <2>1
  <2>4. u[at] = r
    BY <1>1, <1>3, <2>1
  <2> QED BY <1>3, <2>2, <2>3, <2>4
<1>6. /\ t \in Seq(R) /\ Len(t) = n + 1
      /\ \A i \in 1..(at - 1) : t[i] = s[i]
      /\ t[at] = r
      /\ \A i \in (at + 1)..(n + 1) : t[i] = s[i - 1]
  <2>1. q \in Seq(R) /\ t = u \o q
    BY <1>2, <1>4
  <2> HIDE DEF u, R
  <2>2. t \in Seq(R) /\ Len(t) = n + 1
    <3>1. t \in Seq(R)
      BY <1>5, <2>1
    <3>2. Len(t) = Len(u) + Len(q)
      <4>1. u \in Seq(R) /\ q \in Seq(R)
        BY <1>5, <2>1
      <4>2. Len(u \o q) = Len(u) + Len(q)
        BY <4>1, ConcatProperties
      <4> QED BY <2>1, <4>2
    <3> QED BY <1>1, <1>4, <1>5, <3>1, <3>2
  <2>3. \A i \in 1..at : t[i] = u[i]
    BY <1>1, <1>4, <1>5, <2>1
  <2>4. ASSUME NEW i \in (at + 1)..(n + 1) PROVE t[i] = s[i - 1]
    <3>1. i - at \in 1..(n - at + 1) /\ i \in Nat
      BY <1>1
    <3>2. t[i] = q[i - at]
      BY SMTT(30), <1>1, <1>4, <1>5, <2>1
    <3>3. at + (i - at) - 1 = i - 1
      BY <1>1, <3>1
    <3> QED BY <1>4, <3>1, <3>2, <3>3
  <2> QED BY <1>1, <1>5, <2>2, <2>3, <2>4
<1>7. DOMAIN t = 1..(n + 1)
  BY <1>6
<1> QED BY <1>6, <1>7 DEF Inserted, n, t

\* It is in the order then, as are those that were.
LEMMA InsertIs ==
    ASSUME NEW S, NEW s \in Seq(S), NEW r, NEW at \in 1..(Len(s) + 1)
    PROVE  /\ InsertAt(s, at, r) \in Seq(S \cup {r})
           /\ Range(InsertAt(s, at, r)) = Range(s) \cup {r}
<1> DEFINE t == InsertAt(s, at, r)
           n == Len(s)
           R == S \cup {r}
<1>1. n \in Nat /\ at \in Nat /\ DOMAIN s = 1..n /\ at - 1 \in 0..n
  OBVIOUS
<1>5. t \in Seq(S \cup {r}) /\ Inserted(t, s, at, r)
  BY InsertView
<1> HIDE DEF t
<1>6. /\ t \in Seq(R) /\ Len(t) = n + 1
      /\ \A i \in 1..(at - 1) : t[i] = s[i]
      /\ t[at] = r
      /\ \A i \in (at + 1)..(n + 1) : t[i] = s[i - 1]
  BY <1>5 DEF Inserted
<1> HIDE DEF n
<1>7. DOMAIN t = 1..(n + 1)
  BY <1>6
<1>8. ASSUME NEW x \in Range(t) PROVE x \in Range(s) \cup {r}
  <2>1. PICK i \in 1..(n + 1) : t[i] = x
    BY <1>7 DEF Range
  <2>2. CASE i < at
    <3>1. i \in 1..(at - 1) /\ i \in 1..n
      BY <1>1, <2>2
    <3> QED BY <1>1, <1>6, <2>1, <3>1 DEF Range
  <2>3. CASE i = at
    BY <1>6, <2>1, <2>3
  <2>4. CASE i > at
    <3>1. i - 1 \in 1..n /\ t[i] = s[i - 1]
      BY <1>1, <1>6, <2>4
    <3> QED BY <1>1, <2>1, <3>1 DEF Range
  <2> QED BY <1>1, <2>2, <2>3, <2>4
<1>9. ASSUME NEW x \in Range(s) \cup {r} PROVE x \in Range(t)
  <2>1. CASE x = r
    BY <1>1, <1>6, <1>7, <2>1 DEF Range
  <2>2. CASE x \in Range(s)
    <3>1. PICK i \in 1..n : s[i] = x
      BY <1>1, <2>2 DEF Range
    <3>2. CASE i < at
      <4>1. i \in 1..(at - 1) /\ i \in 1..(n + 1)
        BY <1>1, <3>2
      <4> QED BY <1>6, <1>7, <3>1, <4>1 DEF Range
    <3>3. CASE ~(i < at)
      <4>1. i + 1 \in (at + 1)..(n + 1) /\ i + 1 \in 1..(n + 1) /\ (i + 1) - 1 = i
        BY <1>1, <3>3
      <4>2. t[i + 1] = x
        BY <1>6, <3>1, <4>1
      <4> QED BY <1>7, <4>1, <4>2 DEF Range
    <3> QED BY <3>2, <3>3
  <2> QED BY <2>1, <2>2
<1> QED BY <1>6, <1>8, <1>9 DEF t

\* A new one is there once, and the others keep their order.
LEMMA InsertOnce ==
    ASSUME NEW S, NEW s \in Seq(S), IsInjective(s), NEW r, r \notin Range(s),
           NEW at \in 1..(Len(s) + 1), NEW t, t = InsertAt(s, at, r)
    PROVE  /\ IsInjective(t)
           /\ \A p, q \in Range(s) : Precedes(s, p, q) => Precedes(t, p, q)
<1> DEFINE n == Len(s)
           back(i) == IF i < at THEN i ELSE i - 1
           move(i) == IF i < at THEN i ELSE i + 1
<1>1. n \in Nat /\ at \in 1..(n + 1) /\ DOMAIN s = 1..n
  OBVIOUS
<1>2. Inserted(t, s, at, r)
  BY InsertView
<1>3. /\ DOMAIN t = 1..(n + 1) /\ t[at] = r
      /\ \A i \in 1..(at - 1) : t[i] = s[i]
      /\ \A i \in (at + 1)..(n + 1) : t[i] = s[i - 1]
  BY <1>2 DEF Inserted
<1>4. \A i \in 1..n : s[i] # r
  BY <1>1 DEF Range
<1> HIDE DEF n
<1>5. ASSUME NEW i \in 1..(n + 1), i # at
      PROVE  back(i) \in 1..n /\ t[i] = s[back(i)]
  <2>1. CASE i < at
    <3>1. i \in 1..(at - 1) /\ i \in 1..n
      BY <1>1, <2>1
    <3> QED BY <1>3, <2>1, <3>1
  <2>2. CASE i > at
    <3>1. i \in (at + 1)..(n + 1) /\ i - 1 \in 1..n /\ ~(i < at)
      BY <1>1, <2>2
    <3> QED BY <1>3, <3>1
  <2> QED BY <1>1, <1>5, <2>1, <2>2
<1>6. ASSUME NEW i \in 1..(n + 1), NEW j \in 1..(n + 1), t[i] = t[j] PROVE i = j
  <2>1. CASE i = at \/ j = at
    <3>1. t[i] = r /\ t[j] = r
      BY <1>3, <1>6, <2>1
    <3> QED BY <1>4, <1>5, <3>1
  <2>2. CASE i # at /\ j # at
    <3>1. /\ back(i) \in 1..n /\ t[i] = s[back(i)]
          /\ back(j) \in 1..n /\ t[j] = s[back(j)]
      BY <1>5, <2>2
    <3>2. back(i) = back(j)
      BY <1>1, <1>6, <3>1 DEF IsInjective
    <3> QED BY <1>1, <2>2, <3>2
  <2> QED BY <2>1, <2>2
<1>7. IsInjective(t)
  BY <1>3, <1>6 DEF IsInjective
<1>8. ASSUME NEW i \in 1..n PROVE move(i) \in 1..(n + 1) /\ t[move(i)] = s[i]
  <2>1. CASE i < at
    <3>1. i \in 1..(at - 1) /\ i \in 1..(n + 1)
      BY <1>1, <2>1
    <3> QED BY <1>3, <2>1, <3>1
  <2>2. CASE ~(i < at)
    <3>1. i + 1 \in (at + 1)..(n + 1) /\ i + 1 \in 1..(n + 1) /\ (i + 1) - 1 = i
      BY <1>1, <2>2
    <3>2. t[i + 1] = s[(i + 1) - 1]
      BY <1>3, <3>1
    <3> QED BY <2>2, <3>1, <3>2
  <2> QED BY <2>1, <2>2
<1>9. ASSUME NEW p, NEW q, Precedes(s, p, q) PROVE Precedes(t, p, q)
  <2>1. PICK i \in 1..n, j \in 1..n : i < j /\ s[i] = p /\ s[j] = q
    BY <1>1, <1>9 DEF Precedes
  <2>2. move(i) < move(j)
    BY <1>1, <2>1
  <2>3. /\ move(i) \in DOMAIN t /\ t[move(i)] = p
        /\ move(j) \in DOMAIN t /\ t[move(j)] = q
    BY <1>3, <1>8, <2>1
  <2> HIDE DEF move
  <2> QED BY <2>2, <2>3 DEF Precedes
<1> QED BY <1>7, <1>9

\* A sequence that has every element of a finite set once.
LEMMA SortedIs ==
    ASSUME NEW S, IsFiniteSet(S), NEW s \in SetToSeqs(S)
    PROVE  /\ Cardinality(S) \in Nat /\ s \in [1..Cardinality(S) -> S]
           /\ s \in Seq(S) /\ Range(s) = S /\ IsInjective(s)
<1> DEFINE n == Cardinality(S)
           D == 1..n
<1>1. n \in Nat
  BY FS_CardinalityType
<1>2. s \in [D -> S] /\ \A i, j \in D : i # j => s[i] # s[j]
  BY DEF SetToSeqs
<1>3. IsInjective(s)
  BY <1>2 DEF IsInjective
<1>4. IsFiniteSet(D) /\ Cardinality(D) = n
  BY <1>1, FS_Interval
<1> HIDE DEF D, n
<1>5. s \in Injection(D, S)
  BY <1>2, <1>3 DEF Injection
<1>6. s \in Surjection(D, S)
  BY <1>4, <1>5, FS_Injection DEF n
<1>7. Range(s) = S
  BY <1>2, <1>6 DEF Surjection, Range
<1>8. s \in Seq(S)
  BY <1>1, <1>2 DEF D
<1> QED BY <1>1, <1>2, <1>3, <1>7, <1>8 DEF D, n

-----------------------------------------------------------------------------
(* The window. *)

\* The first k calls of a sequence.
LEMMA FirstIs ==
    ASSUME NEW S, NEW c \in Seq(S), NEW k \in Nat
    PROVE  /\ First(c, k) \in Seq(S)
           /\ DOMAIN First(c, k) = {i \in DOMAIN c : i <= k}
           /\ \A i \in DOMAIN First(c, k) : First(c, k)[i] = c[i]
           /\ Len(c) > 0 /\ k > 0 => Len(First(c, k)) > 0
<1> DEFINE m == IF k < Len(c) THEN k ELSE Len(c)
<1>1. m \in Nat /\ m <= Len(c) /\ Len(c) \in Nat /\ First(c, k) = SubSeq(c, 1, m)
  BY DEF First
<1>2. \A i \in 1..Len(c) : i \in 1..m <=> i <= k
  BY <1>1
<1>3. Len(c) > 0 /\ k > 0 => m > 0
  BY <1>1
<1> HIDE DEF m
<1>4. SubSeq(c, 1, m) \in Seq(S) /\ Len(SubSeq(c, 1, m)) = m
      /\ \A i \in 1..m : SubSeq(c, 1, m)[i] = c[i]
  BY <1>1
<1>5. DOMAIN SubSeq(c, 1, m) = 1..m /\ DOMAIN c = 1..Len(c)
  BY <1>4
<1>6. 1..m = {i \in 1..Len(c) : i <= k}
  BY <1>1, <1>2
<1> QED BY <1>1, <1>3, <1>4, <1>5, <1>6

\* A first part of a sequence has each call once as well.
LEMMA FirstOnce ==
    ASSUME NEW S, NEW c \in Seq(S), NEW k \in Nat, IsInjective(c)
    PROVE  /\ First(c, k) \in Seq(S) /\ IsInjective(First(c, k))
           /\ DOMAIN First(c, k) = {i \in DOMAIN c : i <= k}
           /\ \A i \in DOMAIN First(c, k) : First(c, k)[i] = c[i]
           /\ \A i \in DOMAIN c : c[i] \in Range(First(c, k)) <=> i <= k
<1>1. /\ First(c, k) \in Seq(S)
      /\ DOMAIN First(c, k) = {i \in DOMAIN c : i <= k}
      /\ \A i \in DOMAIN First(c, k) : First(c, k)[i] = c[i]
  BY FirstIs
<1>2. IsInjective(First(c, k))
  BY <1>1 DEF IsInjective
<1>3. \A i \in DOMAIN c : c[i] \in Range(First(c, k)) <=> i <= k
  BY <1>1 DEF IsInjective, Range
<1> QED BY <1>1, <1>2, <1>3

\* The calls after the first k.
LEMMA AfterIs ==
    ASSUME NEW S, NEW c \in Seq(S), NEW k \in Nat
    PROVE  /\ After(c, k) \in Seq(S)
           /\ \A i \in DOMAIN After(c, k) : i + k \in DOMAIN c /\ After(c, k)[i] = c[i + k]
           /\ \A i \in DOMAIN c : i > k => i - k \in DOMAIN After(c, k)
           /\ IsInjective(c) => IsInjective(After(c, k))
<1> DEFINE p == After(c, k)
<1>1. Len(c) \in Nat /\ p = SubSeq(c, k + 1, Len(c))
  BY DEF After
<1>2. p \in Seq(S) /\ Len(p) = (IF k + 1 <= Len(c) THEN Len(c) - k ELSE 0)
      /\ \A i \in 1..Len(p) : p[i] = c[i + k]
  BY <1>1
<1> HIDE DEF p
<1>3. DOMAIN p = 1..Len(p) /\ DOMAIN c = 1..Len(c)
  BY <1>2
<1>4. \A i \in DOMAIN p : i + k \in DOMAIN c /\ p[i] = c[i + k]
  <2>1. \A i \in 1..Len(p) : i + k \in 1..Len(c)
    BY <1>1, <1>2
  <2> QED BY <1>2, <1>3, <2>1
<1>5. \A i \in DOMAIN c : i > k => i - k \in DOMAIN p
  <2> SUFFICES ASSUME NEW i \in 1..Len(c), i > k PROVE i - k \in 1..Len(p)
    BY <1>3
  <2>1. k + 1 <= Len(c)
    BY <1>1
  <2>2. Len(p) = Len(c) - k
    BY <1>2, <2>1
  <2> QED BY <1>1, <2>2
<1>6. ASSUME IsInjective(c) PROVE IsInjective(p)
  <2> SUFFICES ASSUME NEW i \in DOMAIN p, NEW j \in DOMAIN p, p[i] = p[j] PROVE i = j
    BY DEF IsInjective
  <2>1. i + k = j + k
    BY <1>4, <1>6 DEF IsInjective
  <2>2. Len(p) \in Nat
    BY <1>2
  <2>3. i \in Nat /\ j \in Nat
    BY <1>3, <2>2
  <2> QED BY <2>1, <2>3
<1> QED BY <1>2, <1>4, <1>5, <1>6 DEF p

\* A plan's calls are those of its first Capacity and the rest; the first call decodes.
LEMMA PlanIs ==
    ASSUME NEW S, NEW c \in Seq(S), IsInjective(c), Len(c) > 0, NEW rem, NEW w, w = Plan(c, rem)
    PROVE  /\ w.remaining = rem /\ w.cohort = c
           /\ w.active \cup w.reserve = Range(c)
           /\ c[1] \in w.active /\ c[1] \notin w.reserve
           /\ \A i \in DOMAIN c : c[i] \in w.reserve <=> i > Capacity
<1>1. /\ w.remaining = rem /\ w.cohort = c
      /\ w.active = Range(First(c, Capacity)) /\ w.reserve = Range(After(c, Capacity))
  BY DEF Plan
<1>2. Capacity \in Nat \ {0}
  BY WindowAssumption
<1> DEFINE p == First(c, Capacity)
           q == After(c, Capacity)
<1>3. DOMAIN p = {i \in DOMAIN c : i <= Capacity} /\ \A i \in DOMAIN p : p[i] = c[i]
  BY <1>2, FirstIs
<1>4. /\ \A i \in DOMAIN q : i + Capacity \in DOMAIN c /\ q[i] = c[i + Capacity]
      /\ \A i \in DOMAIN c : i > Capacity => i - Capacity \in DOMAIN q
      /\ q \in Seq(S)
  BY <1>2, AfterIs
<1>5. 1 \in DOMAIN c /\ \A i \in DOMAIN c : i \in Nat
  OBVIOUS
<1> HIDE DEF p, q
<1>6. \A i \in DOMAIN q : i \in Nat \ {0}
  BY <1>4
<1>7. ASSUME NEW i \in DOMAIN c PROVE c[i] \in Range(q) <=> i > Capacity
  <2>1. ASSUME c[i] \in Range(q) PROVE i > Capacity
    <3>1. PICK j \in DOMAIN q : q[j] = c[i]
      BY <2>1 DEF Range
    <3>2. j + Capacity = i
      BY <1>4, <3>1 DEF IsInjective
    <3> QED BY <1>2, <1>6, <3>2
  <2>2. ASSUME i > Capacity PROVE c[i] \in Range(q)
    <3>1. i - Capacity \in DOMAIN q /\ (i - Capacity) + Capacity = i
      BY <1>2, <1>4, <1>5, <2>2
    <3>2. q[i - Capacity] = c[i]
      BY <1>4, <3>1
    <3> QED BY <3>1, <3>2 DEF Range
  <2> QED BY <2>1, <2>2
<1>8. c[1] \in Range(p) /\ ~(1 > Capacity)
  BY <1>2, <1>3, <1>5 DEF Range
<1>9. Range(p) \cup Range(q) = Range(c)
  <2>1. ASSUME NEW x \in Range(c) PROVE x \in Range(p) \cup Range(q)
    <3>1. PICK i \in DOMAIN c : c[i] = x
      BY DEF Range
    <3>2. CASE i > Capacity
      BY <1>7, <3>1, <3>2
    <3>3. CASE ~(i > Capacity)
      BY <1>2, <1>3, <1>5, <3>1, <3>3 DEF Range
    <3> QED BY <3>2, <3>3
  <2>2. Range(p) \subseteq Range(c) /\ Range(q) \subseteq Range(c)
    BY <1>3, <1>4 DEF Range
  <2> QED BY <2>1, <2>2
<1> QED BY <1>1, <1>5, <1>7, <1>8, <1>9 DEF p, q

\* cs gives every call its place in s as its number.
PlacedIn(cs, s) ==
    /\ DOMAIN cs = Range(s)
    /\ \A r \in Range(s) : cs[r].queue = 0 /\ cs[r].order \in DOMAIN s /\ s[cs[r].order] = r

\* The calls of c are in the order of s.
Agree(c, s) == \A i, j \in DOMAIN c : i < j => Precedes(s, c[i], c[j])

\* The order of a sequence that has each call once, taken for the calls of S.
LEMMA ByPriorityIs ==
    ASSUME NEW n \in Nat, NEW S, S # {}, NEW s \in [1..n -> S], Range(s) = S, IsInjective(s),
           NEW cs, PlacedIn(cs, s)
    PROVE  /\ ByPriority(cs, S) \in Seq(S) /\ IsInjective(ByPriority(cs, S))
           /\ Len(ByPriority(cs, S)) > 0 /\ Agree(ByPriority(cs, S), s)
<1> DEFINE f == [r \in S |-> UpTo(cs, r) \cap S]
           b == Ranked(f)
           N == Cardinality(S)
<1>1. \A r \in S : cs[r].queue = 0 /\ cs[r].order \in 1..n /\ s[cs[r].order] = r
  BY DEF PlacedIn
<1>2. DOMAIN cs = S
  BY DEF PlacedIn
<1>3. \A x, y \in S : x # y => cs[x].order # cs[y].order
  BY <1>1
<1>4. \A x, y \in S : y \in UpTo(cs, x) <=> cs[y].order <= cs[x].order
  BY <1>1, <1>2 DEF UpTo, KeyLess
<1>5. /\ DOMAIN f = S
      /\ \A x, y \in S : y \in f[x] <=> cs[y].order <= cs[x].order
      /\ \A x \in S : f[x] \subseteq S
  BY <1>4
<1> HIDE DEF f
<1>6. \A x \in DOMAIN f : x \in f[x] /\ f[x] \subseteq DOMAIN f
  BY <1>1, <1>5
<1>7. \A x, y \in DOMAIN f : x # y =>
          \/ y \notin f[x] /\ f[x] \subseteq f[y]
          \/ x \notin f[y] /\ f[y] \subseteq f[x]
  <2> SUFFICES ASSUME NEW x \in S, NEW y \in S, x # y
               PROVE  \/ y \notin f[x] /\ f[x] \subseteq f[y]
                      \/ x \notin f[y] /\ f[y] \subseteq f[x]
    BY <1>5
  <2>1. cs[x].order < cs[y].order \/ cs[y].order < cs[x].order
    BY <1>1, <1>3
  <2>2. CASE cs[x].order < cs[y].order
    BY <1>1, <1>5, <2>2
  <2>3. CASE cs[y].order < cs[x].order
    BY <1>1, <1>5, <2>3
  <2> QED BY <2>1, <2>2, <2>3
<1>8. IsFiniteSet(S)
  <2>1. \A m \in Nat : IsFiniteSet(1..m)
    BY FS_Interval
  <2>2. s \in Surjection(1..n, S)
    <3>1. \A x \in S : \E i \in 1..n : s[i] = x
      BY DEF Range
    <3> QED BY <3>1 DEF Surjection
  <2> QED BY <2>1, <2>2, FS_Surjection
<1>9. /\ b \in [1..N -> S] /\ N \in Nat
      /\ \A x \in S : \E m \in 1..N : b[m] = x
      /\ \A i, j \in 1..N : i < j => b[i] \in f[b[j]] /\ b[j] \notin f[b[i]]
  BY <1>5, <1>6, <1>7, <1>8, RankedSorts
<1>10. ByPriority(cs, S) = b
  BY DEF ByPriority, f
<1> HIDE DEF b, N
<1>11. b \in Seq(S) /\ DOMAIN b = 1..N /\ Len(b) = N
  BY <1>9
<1>12. IsInjective(b)
  <2> SUFFICES ASSUME NEW i \in 1..N, NEW j \in 1..N, b[i] = b[j] PROVE i = j
    BY <1>11 DEF IsInjective
  <2>1. ~(i < j) /\ ~(j < i)
    BY <1>6, <1>5, <1>9
  <2> QED BY <2>1
<1>13. N > 0
  <2>1. PICK x \in S : TRUE
    OBVIOUS
  <2>2. PICK m \in 1..N : b[m] = x
    BY <1>9
  <2> QED BY <1>9, <2>2
<1>14. Agree(b, s)
  <2> SUFFICES ASSUME NEW i \in 1..N, NEW j \in 1..N, i < j PROVE Precedes(s, b[i], b[j])
    BY <1>11 DEF Agree
  <2>1. b[i] \in f[b[j]] /\ b[j] \notin f[b[i]] /\ b[i] \in S /\ b[j] \in S
    BY <1>9
  <2>2. cs[b[i]].order <= cs[b[j]].order /\ ~(cs[b[j]].order <= cs[b[i]].order)
    BY <1>5, <2>1
  <2>3. /\ cs[b[i]].order \in 1..n /\ s[cs[b[i]].order] = b[i]
        /\ cs[b[j]].order \in 1..n /\ s[cs[b[j]].order] = b[j]
    BY <1>1, <2>1
  <2>4. cs[b[i]].order < cs[b[j]].order
    BY <2>2, <2>3
  <2> QED BY <2>3, <2>4 DEF Precedes
<1> QED BY <1>10, <1>11, <1>12, <1>13, <1>14

\* At a boundary the first calls are taken, in their order.
LEMMA SelectFirst ==
    ASSUME NEW S, IsFiniteSet(S), S # {}, NEW s \in SetToSeqs(S), NEW cs, PlacedIn(cs, s),
           NEW old, AtBoundary(old, S), NEW w, w = Select(old, cs, S)
    PROVE  Agree(w.cohort, s) /\ \A i \in DOMAIN w.cohort : i <= Capacity + Over
<1> DEFINE all == ByPriority(cs, S)
           c == First(all, Capacity + Over)
<1>1. /\ Cardinality(S) \in Nat /\ s \in [1..Cardinality(S) -> S]
      /\ Range(s) = S /\ IsInjective(s)
  BY SortedIs
<1>2. w.cohort = c
  BY DEF Select, Plan
<1>3. all \in Seq(S) /\ Agree(all, s)
  BY <1>1, ByPriorityIs
<1>4. Capacity + Over \in Nat
  BY WindowAssumption
<1> HIDE DEF all
<1>5. DOMAIN c = {i \in DOMAIN all : i <= Capacity + Over} /\ \A i \in DOMAIN c : c[i] = all[i]
  BY <1>3, <1>4, FirstIs
<1> HIDE DEF c
<1> QED BY <1>2, <1>3, <1>5 DEF Agree

\* select: a plan of calls that are there; within a window it is what is left of the old one.
LEMMA SelectIs ==
    ASSUME NEW S, IsFiniteSet(S), S # {}, NEW s \in SetToSeqs(S), NEW cs, PlacedIn(cs, s),
           NEW T, NEW old, old.cohort \in Seq(T), IsInjective(old.cohort), old.remaining \in Nat,
           NEW w, w = Select(old, cs, S)
    PROVE  /\ w = Plan(w.cohort, w.remaining) /\ w.remaining \in Nat \ {0}
           /\ w.cohort \in Seq(S) /\ IsInjective(w.cohort) /\ Len(w.cohort) > 0
           /\ ~AtBoundary(old, S) =>
                  w.remaining = old.remaining /\ w.cohort = Among(old.cohort, S)
<1>1. /\ Cardinality(S) \in Nat /\ s \in [1..Cardinality(S) -> S]
      /\ Range(s) = S /\ IsInjective(s)
  BY SortedIs
<1>2. CASE AtBoundary(old, S)
  <2> DEFINE all == ByPriority(cs, S)
             c == First(all, Capacity + Over)
  <2>1. w = Plan(c, Interval)
    BY <1>2 DEF Select
  <2>2. all \in Seq(S) /\ IsInjective(all) /\ Len(all) > 0
    BY <1>1, ByPriorityIs
  <2>3. Capacity + Over \in Nat /\ Capacity + Over > 0 /\ Interval \in Nat \ {0}
    BY WindowAssumption
  <2> HIDE DEF all
  <2>4. c \in Seq(S) /\ Len(c) > 0
    BY <2>2, <2>3, FirstIs
  <2>5. IsInjective(c)
    BY <2>2, <2>3, FirstOnce
  <2> HIDE DEF c
  <2>6. w.cohort = c /\ w.remaining = Interval
    BY <2>1 DEF Plan
  <2> QED BY <1>2, <2>1, <2>3, <2>4, <2>5, <2>6
<1>3. CASE ~AtBoundary(old, S)
  <2> DEFINE c == Among(old.cohort, S)
  <2>1. w = Plan(c, old.remaining)
    BY <1>3 DEF Select, Survivors
  <2>2. c \in Seq(Range(old.cohort) \cap S) /\ IsInjective(c)
    BY AmongIs
  <2>3. c # << >> /\ old.remaining # 0
    BY <1>3 DEF AtBoundary, Survivors
  <2> HIDE DEF c
  <2>4. c \in Seq(S) /\ Len(c) > 0
    BY <2>2, <2>3
  <2>5. w.cohort = c /\ w.remaining = old.remaining
    BY <2>1 DEF Plan
  <2> QED BY <2>1, <2>2, <2>3, <2>4, <2>5 DEF c
<1> QED BY <1>2, <1>3

=============================================================================
