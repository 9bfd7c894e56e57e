----------------------- MODULE CompatScheduler_proofs -----------------------
(***************************************************************************)
(* One replica under the windowed scheduler, for any calls, queues,        *)
(* quanta, window, policy and interleaving of commands and steps: first    *)
(* its time accounting, then the order of its calls, and what the window   *)
(* makes of it.                                                            *)
(***************************************************************************)
EXTENDS CompatScheduler, Common_proofs

-----------------------------------------------------------------------------
(* One call.                                                               *)

\* A RuntimeCall; nothing needs to be known of the service it inherited, in I,
\* or of its order number, in O.
CallSet(I, O) ==
    [pid : Pid, inherited : I, queue : 0..LastQueue, order : O, quantum : Int,
     last_update : Nat, executed : Nat, waited : Nat, run_window : Nat,
     wait_window : Nat, scheduled : BOOLEAN]

\* The part of NoTimeChargedTwice about a call admitted at time `since'.
Fair(c, since) ==
    /\ c.waited + c.executed <= c.last_update - since
    /\ c.wait_window <= c.waited /\ c.run_window <= c.executed

CallOK(c, since, time) ==
    c \in CallSet({c.inherited}, {c.order}) /\ Fair(c, since) /\ c.last_update <= time

\* What no step may take from a call.
Grows(c, d) ==
    /\ d.executed >= c.executed /\ d.waited >= c.waited /\ d.inherited = c.inherited

\* The types of the fields the arithmetic needs.
LEMMA FieldTypes ==
    ASSUME NEW c, NEW since, NEW time, CallOK(c, since, time)
    PROVE  /\ c.pid \in Pid /\ c.queue \in 0..LastQueue
           /\ c.quantum \in Int /\ c.last_update \in Nat /\ c.executed \in Nat
           /\ c.waited \in Nat /\ c.run_window \in Nat /\ c.wait_window \in Nat
           /\ c.scheduled \in BOOLEAN
  BY DEF CallOK, CallSet

\* Growth accumulates.
LEMMA GrowsOn ==
    ASSUME NEW b, NEW c, NEW d, NEW since, NEW time, NEW later,
           CallOK(b, since, time), CallOK(c, since, time), CallOK(d, since, later),
           Grows(b, c), Grows(c, d)
    PROVE  Grows(b, d)
<1>1. /\ b.executed \in Nat /\ c.executed \in Nat /\ d.executed \in Nat
      /\ b.waited \in Nat /\ c.waited \in Nat /\ d.waited \in Nat
  BY FieldTypes
<1> QED BY <1>1 DEF Grows

\* A quantum is positive, and every queue has one.
LEMMA QueueTypes ==
    /\ LastQueue \in Nat
    /\ \A service : QueueOf(service) \in 0..LastQueue
    /\ \A q \in 0..LastQueue : Quantum(q) \in Nat \ {0}
<1>1. LastQueue = Len(Inner) /\ Len(Inner) \in Nat
  BY ConfigAssumption DEF LastQueue
<1>2. ASSUME NEW service PROVE QueueOf(service) \in 0..LastQueue
  <2> DEFINE S == {i \in 1..Len(Inner) : Inner[i] <= service}
  <2>1. IsFiniteSet(1..Len(Inner)) /\ Cardinality(1..Len(Inner)) = Len(Inner)
    <3>1. ASSUME NEW n \in Nat PROVE IsFiniteSet(1..n) /\ Cardinality(1..n) = n
      BY FS_Interval
    <3> QED BY <1>1, <3>1
  <2>2. S \subseteq 1..Len(Inner) OBVIOUS
  <2>3. IsFiniteSet(S) /\ Cardinality(S) <= Len(Inner)
    BY <2>1, <2>2, FS_Subset
  <2>4. Cardinality(S) \in Nat BY <2>3, FS_CardinalityType
  <2> HIDE DEF S
  <2>5. Cardinality(S) \in 0..LastQueue BY <1>1, <2>3, <2>4
  <2> QED BY <2>5 DEF QueueOf, S
<1>3. ASSUME NEW q \in 0..LastQueue PROVE Quantum(q) \in Nat \ {0}
  BY <1>1, ConfigAssumption DEF Quantum
<1> QED BY <1>1, <1>2, <1>3

\* _wait_until charges each moment since the last update once.
LEMMA WaitUntilOK ==
    ASSUME NEW c, NEW since \in Nat, NEW time \in Nat, CallOK(c, since, time)
    PROVE  CallOK(WaitUntil(c, time), since, time) /\ Grows(c, WaitUntil(c, time))
<1> DEFINE I == {c.inherited}
           O == {c.order}
           delta == IF c.scheduled THEN 0 ELSE time - c.last_update
           x == c.waited + delta
           y == c.wait_window + delta
           d == [c EXCEPT !.waited = x, !.wait_window = y, !.last_update = time]
<1>1. WaitUntil(c, time) = d BY Zenon DEF WaitUntil
<1>2. c \in CallSet(I, O) BY DEF CallOK
<1>3. /\ c.waited \in Nat /\ c.executed \in Nat /\ c.last_update \in Nat
      /\ c.wait_window \in Nat /\ c.run_window \in Nat
  BY FieldTypes
<1>4. delta \in Nat /\ delta <= time - c.last_update BY <1>3 DEF CallOK
<1> HIDE DEF delta
<1>5. x \in Nat /\ y \in Nat BY <1>3, <1>4
<1>6. Fair(c, since) BY DEF CallOK
<1> HIDE DEF x, y, I, O
<1>7. d \in CallSet(I, O)
  <2>1. [c EXCEPT !.waited = x] \in CallSet(I, O) BY <1>2, <1>5 DEF CallSet
  <2>2. \A e \in CallSet(I, O) : [e EXCEPT !.wait_window = y] \in CallSet(I, O)
    BY <1>5 DEF CallSet
  <2>3. \A e \in CallSet(I, O) : [e EXCEPT !.last_update = time] \in CallSet(I, O)
    BY DEF CallSet
  <2> QED BY <2>1, <2>2, <2>3, Zenon
<1>8. /\ d.waited = x /\ d.wait_window = y /\ d.last_update = time
      /\ d.executed = c.executed /\ d.run_window = c.run_window
      /\ d.inherited = c.inherited /\ d.order = c.order
  BY <1>2, <1>5 DEF CallSet
<1> HIDE DEF d
<1>9. d \in CallSet({d.inherited}, {d.order}) BY <1>7, <1>8 DEF I, O
<1>10. Fair(d, since) /\ Grows(c, d)
  BY <1>3, <1>4, <1>6, <1>8 DEF Fair, Grows, x, y
<1> QED BY <1>1, <1>8, <1>9, <1>10 DEF CallOK

\* A demotion touches neither times nor history.
LEMMA DemotedOK ==
    ASSUME NEW c, NEW since \in Nat, NEW time \in Nat, CallOK(c, since, time)
    PROVE  CallOK(Demoted(c), since, time) /\ Grows(c, Demoted(c))
<1> DEFINE I == {c.inherited}
           O == {c.order}
           q == Lower(c.queue)
           n == Quantum(q)
           d == [c EXCEPT !.queue = q, !.quantum = n]
<1>1. Demoted(c) = IF Expired(c) THEN d ELSE c BY Zenon DEF Demoted
<1>2. c \in CallSet(I, O) BY DEF CallOK
<1>3. /\ c.waited \in Nat /\ c.executed \in Nat /\ c.queue \in 0..LastQueue
  BY FieldTypes
<1>4. Grows(c, c) BY <1>3 DEF Grows
<1>5. q \in 0..LastQueue BY <1>3, QueueTypes DEF Lower
<1>6. n \in Int BY <1>5, QueueTypes
<1> HIDE DEF q, n, I, O
<1>7. d \in CallSet(I, O)
  <2>1. [c EXCEPT !.queue = q] \in CallSet(I, O) BY <1>2, <1>5 DEF CallSet
  <2>2. \A e \in CallSet(I, O) : [e EXCEPT !.quantum = n] \in CallSet(I, O)
    BY <1>6 DEF CallSet
  <2> QED BY <2>1, <2>2, Zenon
<1>8. /\ d.last_update = c.last_update /\ d.waited = c.waited
      /\ d.wait_window = c.wait_window /\ d.executed = c.executed
      /\ d.run_window = c.run_window /\ d.inherited = c.inherited /\ d.order = c.order
  BY <1>2, <1>5, <1>6 DEF CallSet
<1> HIDE DEF d
<1>9. CallOK(d, since, time) /\ Grows(c, d)
  BY <1>4, <1>7, <1>8 DEF CallOK, Fair, Grows, I, O
<1> QED BY <1>1, <1>4, <1>9

\* A promotion empties the windows only.
LEMMA PromotedOK ==
    ASSUME NEW c, NEW since \in Nat, NEW time \in Nat, CallOK(c, since, time)
    PROVE  CallOK(Promoted(c), since, time) /\ Grows(c, Promoted(c))
<1> DEFINE I == {c.inherited}
           O == {c.order}
           n == Quantum(0)
           d == [c EXCEPT !.queue = 0, !.quantum = n, !.wait_window = 0, !.run_window = 0]
<1>1. Promoted(c) = d BY Zenon DEF Promoted
<1>2. c \in CallSet(I, O) BY DEF CallOK
<1>3. /\ c.waited \in Nat /\ c.executed \in Nat
  BY FieldTypes
<1>4. n \in Int /\ 0 \in 0..LastQueue BY QueueTypes
<1> HIDE DEF n, I, O
<1>5. d \in CallSet(I, O)
  <2>1. [c EXCEPT !.queue = 0] \in CallSet(I, O) BY <1>2, <1>4 DEF CallSet
  <2>2. \A e \in CallSet(I, O) : [e EXCEPT !.quantum = n] \in CallSet(I, O)
    BY <1>4 DEF CallSet
  <2>3. \A e \in CallSet(I, O) : [e EXCEPT !.wait_window = 0] \in CallSet(I, O)
    BY DEF CallSet
  <2>4. \A e \in CallSet(I, O) : [e EXCEPT !.run_window = 0] \in CallSet(I, O)
    BY DEF CallSet
  <2> QED BY <2>1, <2>2, <2>3, <2>4, Zenon
<1>6. /\ d.last_update = c.last_update /\ d.waited = c.waited
      /\ d.wait_window = 0 /\ d.executed = c.executed
      /\ d.run_window = 0 /\ d.inherited = c.inherited /\ d.order = c.order
  BY <1>2, <1>4 DEF CallSet
<1> HIDE DEF d
<1>7. CallOK(d, since, time) /\ Grows(c, d)
  BY <1>3, <1>5, <1>6 DEF CallOK, Fair, Grows, I, O
<1> QED BY <1>1, <1>7

\* So the loop body of refresh preserves the accounting, whatever it decides.
LEMMA RefreshedOK ==
    ASSUME NEW c, NEW since \in Nat, NEW time \in Nat, NEW totals, CallOK(c, since, time)
    PROVE  CallOK(Refreshed(c, totals, time), since, time) /\ Grows(c, Refreshed(c, totals, time))
<1> DEFINE w == WaitUntil(c, time)
           d == Demoted(w)
           p == Promoted(d)
<1>1. CallOK(w, since, time) /\ Grows(c, w) BY WaitUntilOK
<1>2. CallOK(d, since, time) /\ Grows(w, d) BY <1>1, DemotedOK
<1>3. CallOK(p, since, time) /\ Grows(d, p) BY <1>2, PromotedOK
<1>4. Refreshed(c, totals, time) = IF Starved(d, totals) THEN p ELSE d
  BY Zenon DEF Refreshed
<1> HIDE DEF w, d, p
<1>5. Grows(c, d) BY <1>1, <1>2, GrowsOn, Zenon
<1>6. Grows(c, p) BY <1>2, <1>3, <1>5, GrowsOn, Zenon
<1> QED BY <1>2, <1>3, <1>4, <1>5, <1>6

\* A new order number and the mark of the batch weigh nothing.
LEMMA MarkedOK ==
    ASSUME NEW c, NEW since \in Nat, NEW time \in Nat, CallOK(c, since, time),
           NEW n, NEW b \in BOOLEAN
    PROVE  /\ CallOK([c EXCEPT !.order = n], since, time) /\ Grows(c, [c EXCEPT !.order = n])
           /\ CallOK([c EXCEPT !.scheduled = b], since, time)
           /\ Grows(c, [c EXCEPT !.scheduled = b])
<1> DEFINE I == {c.inherited}
           O == {c.order}
           d == [c EXCEPT !.order = n]
           e == [c EXCEPT !.scheduled = b]
<1>1. c \in CallSet(I, O) BY DEF CallOK
<1>2. c.waited \in Nat /\ c.executed \in Nat BY FieldTypes
<1> HIDE DEF I, O
<1>3. /\ d \in CallSet(I, {n}) /\ d.order = n
      /\ d.last_update = c.last_update /\ d.waited = c.waited
      /\ d.wait_window = c.wait_window /\ d.executed = c.executed
      /\ d.run_window = c.run_window /\ d.inherited = c.inherited
  BY <1>1 DEF CallSet
<1>4. /\ e \in CallSet(I, O) /\ e.order = c.order
      /\ e.last_update = c.last_update /\ e.waited = c.waited
      /\ e.wait_window = c.wait_window /\ e.executed = c.executed
      /\ e.run_window = c.run_window /\ e.inherited = c.inherited
  BY <1>1 DEF CallSet
<1> HIDE DEF d, e
<1>5. CallOK(d, since, time) /\ Grows(c, d)
  BY <1>2, <1>3 DEF CallOK, Fair, Grows, I
<1>6. CallOK(e, since, time) /\ Grows(c, e)
  BY <1>2, <1>4 DEF CallOK, Fair, Grows, I, O
<1> QED BY <1>5, <1>6 DEF d, e

\* executed charges the measured time once: it fits between two updates.
LEMMA ChargedOK ==
    ASSUME NEW c, NEW since \in Nat, NEW time \in Nat, CallOK(c, since, time),
           NEW seconds \in Nat, NEW later \in Nat, later >= time + seconds
    PROVE  LET d == [c EXCEPT !.executed = @ + seconds, !.run_window = @ + seconds,
                              !.quantum = @ - seconds, !.scheduled = FALSE,
                              !.last_update = later]
           IN  CallOK(d, since, later) /\ Grows(c, d)
<1> DEFINE I == {c.inherited}
           O == {c.order}
           x == c.executed + seconds
           y == c.run_window + seconds
           n == c.quantum - seconds
           d == [c EXCEPT !.executed = x, !.run_window = y, !.quantum = n,
                          !.scheduled = FALSE, !.last_update = later]
<1>1. c \in CallSet(I, O) BY DEF CallOK
<1>2. /\ c.waited \in Nat /\ c.executed \in Nat /\ c.last_update \in Nat
      /\ c.wait_window \in Nat /\ c.run_window \in Nat /\ c.quantum \in Int
  BY FieldTypes
<1>3. x \in Nat /\ y \in Nat /\ n \in Int BY <1>2
<1>4. Fair(c, since) /\ c.last_update <= time BY DEF CallOK
<1> HIDE DEF I, O, x, y, n
<1>5. d \in CallSet(I, O)
  <2>1. [c EXCEPT !.executed = x] \in CallSet(I, O) BY <1>1, <1>3 DEF CallSet
  <2>2. \A e \in CallSet(I, O) : [e EXCEPT !.run_window = y] \in CallSet(I, O)
    BY <1>3 DEF CallSet
  <2>3. \A e \in CallSet(I, O) : [e EXCEPT !.quantum = n] \in CallSet(I, O)
    BY <1>3 DEF CallSet
  <2>4. \A e \in CallSet(I, O) : [e EXCEPT !.scheduled = FALSE] \in CallSet(I, O)
    BY DEF CallSet
  <2>5. \A e \in CallSet(I, O) : [e EXCEPT !.last_update = later] \in CallSet(I, O)
    BY DEF CallSet
  <2> QED BY <2>1, <2>2, <2>3, <2>4, <2>5, Zenon
<1>6. /\ d.waited = c.waited /\ d.wait_window = c.wait_window /\ d.last_update = later
      /\ d.executed = x /\ d.run_window = y
      /\ d.inherited = c.inherited /\ d.order = c.order
  BY <1>1, <1>3 DEF CallSet
<1> HIDE DEF d
<1>7. d \in CallSet({d.inherited}, {d.order}) BY <1>5, <1>6 DEF I, O
<1>8. Fair(d, since) /\ Grows(c, d)
  BY <1>2, <1>4, <1>6 DEF Fair, Grows, x, y
<1>9. CallOK(d, since, later) /\ Grows(c, d) BY <1>6, <1>7, <1>8 DEF CallOK
<1> QED BY <1>9 DEF d, x, y, n

\* A call that was admitted just now.
LEMMA NewCallOK ==
    ASSUME NEW p \in Pid, NEW i, NEW n, NEW time \in Nat
    PROVE  CallOK(NewCall(p, i, n, time), time, time)
<1> DEFINE q == QueueOf(i)
           m == Quantum(q)
<1>1. q \in 0..LastQueue /\ m \in Int BY QueueTypes
<1> HIDE DEF q, m
<1>2. NewCall(p, i, n, time) =
        [pid |-> p, inherited |-> i, queue |-> q, order |-> n, quantum |-> m,
         last_update |-> time, executed |-> 0, waited |-> 0, run_window |-> 0,
         wait_window |-> 0, scheduled |-> FALSE]
  BY DEF NewCall, q, m
<1> QED BY <1>1, <1>2 DEF CallOK, CallSet, Fair

\* Time that passes charges nothing by itself.
LEMMA LaterOK ==
    ASSUME NEW c, NEW since, NEW time \in Nat, NEW later \in Nat, time <= later,
           CallOK(c, since, time)
    PROVE  CallOK(c, since, later)
  BY FieldTypes DEF CallOK

-----------------------------------------------------------------------------
(* All calls.                                                              *)

AllOK(cs, since, time) ==
    \A r \in DOMAIN cs : since[r] \in Nat /\ CallOK(cs[r], since[r], time)
AllGrow(cs, ds) == DOMAIN ds = DOMAIN cs /\ \A r \in DOMAIN cs : Grows(cs[r], ds[r])

\* refresh preserves the accounting of every call, however numbers are drawn.
LEMMA RefreshOK ==
    ASSUME NEW cs, NEW since, NEW time \in Nat, NEW n, NEW totals, AllOK(cs, since, time)
    PROVE  AllOK(Refresh(cs, n, totals, time), since, time)
           /\ AllGrow(cs, Refresh(cs, n, totals, time))
<1> DEFINE ds == Refresh(cs, n, totals, time)
<1>1. DOMAIN ds = DOMAIN cs BY DEF Refresh
<1>2. ASSUME NEW r \in DOMAIN cs
      PROVE  CallOK(ds[r], since[r], time) /\ Grows(cs[r], ds[r])
  <2> DEFINE b == cs[r]
             s == since[r]
             c == Refreshed(b, totals, time)
             m == n + DrawsBy(cs, UpTo(cs, r), totals, time)
             d == [c EXCEPT !.order = m]
  <2>1. ds[r] = IF Draws(b, totals, time) = 0 THEN c ELSE d
    BY Zenon, <1>1 DEF Refresh
  <2>2. s \in Nat /\ CallOK(b, s, time) BY DEF AllOK
  <2> HIDE DEF b, s, m
  <2>3. CallOK(c, s, time) /\ Grows(b, c) BY <2>2, RefreshedOK
  <2> HIDE DEF c
  <2>4. CallOK(d, s, time) /\ Grows(c, d) BY <2>2, <2>3, MarkedOK
  <2> HIDE DEF d, ds
  <2>5. Grows(b, d) BY <2>2, <2>3, <2>4, GrowsOn, Zenon
  <2>6. CallOK(ds[r], s, time) /\ Grows(b, ds[r]) BY <2>1, <2>3, <2>4, <2>5
  <2> QED BY <2>6 DEF b, s
<1> QED BY <1>1, <1>2, Zenon DEF AllOK, AllGrow

\* begin preserves it.
LEMMA BeginOK ==
    ASSUME NEW cs, NEW since, NEW time \in Nat, NEW S, AllOK(cs, since, time)
    PROVE  AllOK(Begin(cs, S, time), since, time) /\ AllGrow(cs, Begin(cs, S, time))
<1> DEFINE ds == Begin(cs, S, time)
<1>1. DOMAIN ds = DOMAIN cs BY DEF Begin
<1>2. ASSUME NEW r \in DOMAIN cs
      PROVE  CallOK(ds[r], since[r], time) /\ Grows(cs[r], ds[r])
  <2> DEFINE b == cs[r]
             s == since[r]
             c == WaitUntil(b, time)
             m == r \in S
             d == [c EXCEPT !.scheduled = m]
  <2>1. ds[r] = d BY Zenon, <1>1 DEF Begin
  <2>2. s \in Nat /\ CallOK(b, s, time) BY DEF AllOK
  <2>3. m \in BOOLEAN OBVIOUS
  <2> HIDE DEF b, s, m
  <2>4. CallOK(c, s, time) /\ Grows(b, c) BY <2>2, WaitUntilOK
  <2> HIDE DEF c
  <2>5. CallOK(d, s, time) /\ Grows(c, d) BY <2>2, <2>3, <2>4, MarkedOK, Zenon
  <2> HIDE DEF d, ds
  <2>6. Grows(b, d) BY <2>2, <2>4, <2>5, GrowsOn, Zenon
  <2>7. CallOK(ds[r], s, time) /\ Grows(b, ds[r]) BY <2>1, <2>5, <2>6
  <2> QED BY <2>7 DEF b, s
<1> QED BY <1>1, <1>2, Zenon DEF AllOK, AllGrow

\* executed charges the time of the batch, which fits between two updates.
LEMMA ExecutedOK ==
    ASSUME NEW cs, NEW since, NEW time \in Nat, NEW S, NEW seconds \in Nat,
           NEW later \in Nat, later >= time + seconds, AllOK(cs, since, time)
    PROVE  AllOK(Executed(cs, S, seconds, later), since, later)
           /\ AllGrow(cs, Executed(cs, S, seconds, later))
<1> DEFINE ds == Executed(cs, S, seconds, later)
<1>1. DOMAIN ds = DOMAIN cs BY DEF Executed
<1>2. ASSUME NEW r \in DOMAIN cs
      PROVE  CallOK(ds[r], since[r], later) /\ Grows(cs[r], ds[r])
  <2> DEFINE c == cs[r]
             s == since[r]
             d == [c EXCEPT !.executed = @ + seconds, !.run_window = @ + seconds,
                            !.quantum = @ - seconds, !.scheduled = FALSE,
                            !.last_update = later]
  <2>1. ds[r] = IF r \notin S THEN c ELSE d BY Zenon, <1>1 DEF Executed
  <2>2. s \in Nat /\ CallOK(c, s, time) BY DEF AllOK
  <2> HIDE DEF c, s
  <2>3. CallOK(d, s, later) /\ Grows(c, d) BY <2>2, ChargedOK
  <2> HIDE DEF d, ds
  <2>4. CallOK(c, s, later) BY <2>2, LaterOK
  <2>5. c.executed \in Nat /\ c.waited \in Nat BY <2>2, FieldTypes
  <2>6. Grows(c, c) BY <2>5 DEF Grows
  <2>7. CallOK(ds[r], s, later) /\ Grows(c, ds[r]) BY <2>1, <2>3, <2>4, <2>6
  <2> QED BY <2>7 DEF c, s
<1> QED BY <1>1, <1>2, Zenon DEF AllOK, AllGrow

-----------------------------------------------------------------------------
(* The actions.                                                            *)

\* What the accounting rests on: every call has its time of admission, the clock
\* is the one its last update was read from, and no identifier comes back.
AccountInv ==
    /\ now \in Nat
    /\ DOMAIN calls \subseteq used
    /\ DOMAIN arrived = DOMAIN calls
    /\ AllOK(calls, arrived, now)

\* A scheduler starts without calls.
LEMMA InitAccount == Init => AccountInv
  BY DEF Init, AccountInv, AllOK

\* add: the new call starts at the clock of its admission.
LEMMA AddAccount ==
    ASSUME AccountInv, NEW p \in Pid, NEW r \in Rid, Add(p, r)
    PROVE  AccountInv'
<1> DEFINE c == NewCall(p, Inherited(table, p), counter', now)
<1>1. /\ calls' = Put(calls, r, c) /\ arrived' = Put(arrived, r, now)
      /\ now' = now /\ used' = used \cup {r}
  BY DEF Add
<1>2. now \in Nat /\ CallOK(c, now, now) BY NewCallOK DEF AccountInv
<1> HIDE DEF c
<1>3. /\ DOMAIN calls' = DOMAIN calls \cup {r}
      /\ \A d \in DOMAIN calls' : calls'[d] = IF d = r THEN c ELSE calls[d]
  BY <1>1 DEF Put
<1>4. /\ DOMAIN arrived' = DOMAIN arrived \cup {r}
      /\ \A d \in DOMAIN arrived' : arrived'[d] = IF d = r THEN now ELSE arrived[d]
  BY <1>1 DEF Put
<1> QED BY <1>1, <1>2, <1>3, <1>4 DEF AccountInv, AllOK

\* cancel: the call leaves with its time of admission.
LEMMA CancelAccount ==
    ASSUME AccountInv, NEW r \in Rid, Cancel(r)
    PROVE  AccountInv'
<1>1. calls' = Drop(calls, r) /\ arrived' = Drop(arrived, r)
      /\ now' = now /\ used' = used
  BY DEF Cancel, Leave
<1>2. /\ DOMAIN calls' = DOMAIN calls \ {r}
      /\ \A d \in DOMAIN calls' : calls'[d] = calls[d]
  BY <1>1 DEF Drop, Restrict
<1>3. /\ DOMAIN arrived' = DOMAIN arrived \ {r}
      /\ \A d \in DOMAIN arrived' : arrived'[d] = arrived[d]
  BY <1>1 DEF Drop, Restrict
<1> QED BY <1>1, <1>2, <1>3 DEF AccountInv, AllOK

\* Whatever a step chooses, it calls begin on what refresh left, or on the calls.
LEMMA ScheduleAccount ==
    ASSUME AccountInv, Schedule
    PROVE  AccountInv' /\ AllGrow(calls, calls')
<1> DEFINE fresh == IF AtBoundary(window, Available)
                    THEN Refresh(calls, counter, table.programs, now) ELSE calls
<1>1. PICK S : calls' = Begin(fresh, S, now)
  BY DEF Schedule, Barrier, Native, Execute
<1>2. UNCHANGED << now, arrived, used >> BY DEF Schedule
<1>3. now \in Nat /\ AllOK(calls, arrived, now) BY DEF AccountInv
<1>4. AllOK(fresh, arrived, now) /\ AllGrow(calls, fresh)
  <2>1. CASE AtBoundary(window, Available) BY <1>3, <2>1, RefreshOK
  <2>2. CASE ~AtBoundary(window, Available)
    <3>1. ASSUME NEW r \in DOMAIN calls PROVE Grows(calls[r], calls[r])
      <4>1. calls[r].executed \in Nat /\ calls[r].waited \in Nat
        BY <1>3, FieldTypes DEF AllOK
      <4> QED BY <4>1 DEF Grows
    <3> QED BY <1>3, <2>2, <3>1 DEF AllGrow
  <2> QED BY <2>1, <2>2
<1> HIDE DEF fresh
<1> DEFINE ds == Begin(fresh, S, now)
<1>5. AllOK(ds, arrived, now) /\ AllGrow(fresh, ds) BY <1>3, <1>4, BeginOK
<1> HIDE DEF ds
<1>6. DOMAIN ds = DOMAIN calls BY <1>4, <1>5 DEF AllGrow
<1>7. ASSUME NEW r \in DOMAIN calls PROVE Grows(calls[r], ds[r])
  <2>1. /\ CallOK(calls[r], arrived[r], now) /\ CallOK(fresh[r], arrived[r], now)
        /\ CallOK(ds[r], arrived[r], now)
    BY <1>3, <1>4, <1>5, <1>6 DEF AllOK, AllGrow
  <2>2. Grows(calls[r], fresh[r]) /\ Grows(fresh[r], ds[r])
    BY <1>4, <1>5 DEF AllGrow
  <2> QED BY <2>1, <2>2, GrowsOn, Zenon
<1>8. calls' = ds /\ arrived' = arrived /\ now' = now /\ used' = used
  BY <1>1, <1>2 DEF ds
<1> QED BY <1>3, <1>5, <1>6, <1>7, <1>8 DEF AccountInv, AllGrow

\* A batch that ran: each of its calls is charged once, the others only wait.
LEMMA RunAccount ==
    ASSUME AccountInv, NEW seconds \in Nat, NEW overhead \in Nat, NEW done,
           Run(seconds, overhead, done)
    PROVE  /\ AccountInv'
           /\ \A r \in DOMAIN calls' : r \in DOMAIN calls /\ Grows(calls[r], calls'[r])
<1> DEFINE ran == Executed(calls, batch, seconds, now')
           rest == DOMAIN calls \ done
<1>1. /\ now' = now + seconds + overhead
      /\ calls' = Restrict(ran, rest) /\ arrived' = Restrict(arrived, rest)
      /\ used' = used
  BY DEF Run
<1>2. now \in Nat /\ now' \in Nat /\ now' >= now + seconds BY <1>1 DEF AccountInv
<1>3. AllOK(ran, arrived, now') /\ AllGrow(calls, ran)
  BY <1>2, ExecutedOK DEF AccountInv
<1> HIDE DEF ran
<1>4. /\ DOMAIN calls' = rest /\ \A r \in rest : calls'[r] = ran[r]
      /\ DOMAIN arrived' = rest /\ \A r \in rest : arrived'[r] = arrived[r]
  BY <1>1 DEF Restrict
<1> QED BY <1>1, <1>2, <1>3, <1>4 DEF AccountInv, AllOK, AllGrow

\* Time passes between two steps of the loop; calls are charged at their next update.
LEMMA TickAccount ==
    ASSUME AccountInv, Tick
    PROVE  AccountInv'
<1>1. now \in Nat /\ now' \in Nat /\ now <= now' BY DEF AccountInv, Tick
<1>2. calls' = calls /\ arrived' = arrived /\ used' = used BY DEF Tick
<1>3. ASSUME NEW r \in DOMAIN calls
      PROVE  arrived[r] \in Nat /\ CallOK(calls[r], arrived[r], now')
  BY <1>1, LaterOK DEF AccountInv, AllOK
<1> QED BY <1>1, <1>2, <1>3 DEF AccountInv, AllOK

-----------------------------------------------------------------------------
(* The theorems.                                                           *)

\* Every step keeps the accounting and takes nothing from a call that stays.
LEMMA NextAccount ==
    ASSUME AccountInv, [Next]_vars
    PROVE  /\ AccountInv'
           /\ \A r \in DOMAIN calls \cap DOMAIN calls' : Grows(calls[r], calls'[r])
<1> DEFINE Same == \A r \in DOMAIN calls \cap DOMAIN calls' : Grows(calls[r], calls'[r])
<1>1. ASSUME NEW r \in DOMAIN calls PROVE Grows(calls[r], calls[r])
  <2>1. calls[r].executed \in Nat /\ calls[r].waited \in Nat
    BY FieldTypes DEF AccountInv, AllOK
  <2> QED BY <2>1 DEF Grows
<1>2. ASSUME NEW p \in Pid, NEW r \in Rid \ Foreign, Add(p, r) PROVE AccountInv' /\ Same
  <2>1. AccountInv' BY <1>2, AddAccount
  <2>2. r \notin DOMAIN calls BY <1>2 DEF Add, AccountInv
  <2> QED BY <1>1, <1>2, <2>1, <2>2 DEF Add, Put
<1>3. ASSUME NEW r \in Rid, Cancel(r) PROVE AccountInv' /\ Same
  <2>1. AccountInv' BY <1>3, CancelAccount
  <2> QED BY <1>1, <1>3, <2>1 DEF Cancel, Leave, Drop, Restrict
<1>4. CASE Schedule
  BY <1>4, ScheduleAccount DEF AllGrow
<1>5. ASSUME NEW seconds \in 1..2, NEW overhead \in 0..1, NEW done \in SUBSET batch,
             Run(seconds, overhead, done)
      PROVE  AccountInv' /\ Same
  BY <1>5, RunAccount
<1>6. CASE Tick
  BY <1>1, <1>6, TickAccount DEF Tick
<1>7. ASSUME NEW p \in Pid, NEW r \in Foreign, Elsewhere(p, r, 2, 2)
      PROVE  AccountInv' /\ Same
  BY <1>1, <1>7 DEF Elsewhere, AccountInv, AllOK
<1>8. CASE UNCHANGED vars
  BY <1>1, <1>8 DEF vars, AccountInv, AllOK
<1> QED BY <1>2, <1>3, <1>4, <1>5, <1>6, <1>7, <1>8 DEF Next

\* The accounting holds in every reachable state.
LEMMA AccountInvariant == Spec => []AccountInv
<1>1. AccountInv /\ [Next]_vars => AccountInv' BY NextAccount
<1> QED BY InitAccount, <1>1, PTL DEF Spec

\* Whatever calls arrive, leave, are demoted, promoted, swapped or cancelled, the
\* scheduler never charges a call more waiting and running than has passed since
\* its admission.
THEOREM AccountingSound == Spec => []NoTimeChargedTwice
<1>1. AccountInv => NoTimeChargedTwice
  BY DEF AccountInv, AllOK, CallOK, Fair, NoTimeChargedTwice
<1> QED BY AccountInvariant, <1>1, PTL

\* No step takes from a call what it has run or waited, or what it inherited: a
\* queue move resets the windows alone.
THEOREM StatisticsKept == Spec => LifetimeStatisticsKept
<1> DEFINE Kept ==
        \A r \in DOMAIN calls \cap DOMAIN calls' :
            /\ calls'[r].executed >= calls[r].executed
            /\ calls'[r].waited >= calls[r].waited
            /\ calls'[r].inherited = calls[r].inherited
<1>1. AccountInv /\ [Next]_vars => [Kept]_vars
  BY NextAccount DEF Grows
<1> QED BY AccountInvariant, <1>1, PTL DEF Spec, LifetimeStatisticsKept

-----------------------------------------------------------------------------
(* Sorting. *)

\* What is left of the cohort: calls of it that are available.
LEMMA SurvivorsView ==
    ASSUME NEW w, NEW R, w.cohort \in Seq(R), NEW available
    PROVE  Survivors(w, available) \in Seq(Range(w.cohort) \cap available)
<1>1. DOMAIN w.cohort = 1..Len(w.cohort) /\ Len(w.cohort) \in Nat
  OBVIOUS
<1>2. \E m \in Nat : Survivors(w, available) \in [1..m -> Range(w.cohort) \cap available]
  BY <1>1, AmongView DEF Survivors
<1> QED BY <1>2

\* (queue, order) is a total order of calls with order numbers of their own.
LEMMA KeysOrdered ==
    ASSUME NEW b, NEW c, NEW d,
           b.queue \in Nat, c.queue \in Nat, d.queue \in Nat,
           b.order \in Nat, c.order \in Nat, d.order \in Nat
    PROVE  /\ ~KeyLess(c, c)
           /\ KeyLess(c, d) => ~KeyLess(d, c)
           /\ c.order # d.order => KeyLess(c, d) \/ KeyLess(d, c)
           /\ KeyLess(b, c) /\ KeyLess(c, d) => KeyLess(b, d)
BY DEF KeyLess

\* The keys of calls: numbers, and no two orders alike.
Keyed(cs) ==
    /\ IsFiniteSet(DOMAIN cs)
    /\ \A r \in DOMAIN cs : cs[r].queue \in Nat /\ cs[r].order \in Nat
    /\ \A r, d \in DOMAIN cs : cs[r].order = cs[d].order => r = d

\* Of two calls one has the other before it, and all that come before that one.
LEMMA UpToOrdered ==
    ASSUME NEW cs, Keyed(cs), NEW r \in DOMAIN cs, NEW d \in DOMAIN cs, KeyLess(cs[r], cs[d])
    PROVE  /\ UpTo(cs, r) \subseteq UpTo(cs, d)
           /\ d \in UpTo(cs, d) /\ d \notin UpTo(cs, r)
<1>1. ASSUME NEW x \in UpTo(cs, r) PROVE x \in UpTo(cs, d)
  <2>1. x \in DOMAIN cs /\ ~KeyLess(cs[r], cs[x])
    BY DEF UpTo
  <2>2. ~KeyLess(cs[d], cs[x])
    BY <2>1, KeysOrdered DEF Keyed
  <2> QED BY <2>1, <2>2 DEF UpTo
<1>2. d \in UpTo(cs, d)
  BY KeysOrdered DEF UpTo, Keyed
<1> QED BY <1>1, <1>2 DEF UpTo

\* The order of the window: all of S, and none before one of a smaller key.
LEMMA ByPrioritySorts ==
    ASSUME NEW cs, Keyed(cs), NEW S \in SUBSET DOMAIN cs
    PROVE  /\ ByPriority(cs, S) \in Seq(S)
           /\ Range(ByPriority(cs, S)) = S
           /\ \A m, n \in DOMAIN ByPriority(cs, S) : m < n =>
                  KeyLess(cs[ByPriority(cs, S)[m]], cs[ByPriority(cs, S)[n]])
<1> DEFINE f == [r \in S |-> UpTo(cs, r) \cap S]
           s == Ranked(f)
           N == Cardinality(S)
<1>1. IsFiniteSet(S)
  BY FS_Subset DEF Keyed
<1>2. DOMAIN f = S
  OBVIOUS
<1>3. \A x \in DOMAIN f : x \in f[x] /\ f[x] \subseteq DOMAIN f
  BY KeysOrdered DEF UpTo, Keyed
<1>4. \A x, y \in DOMAIN f : x # y =>
          \/ y \notin f[x] /\ f[x] \subseteq f[y]
          \/ x \notin f[y] /\ f[y] \subseteq f[x]
  <2> SUFFICES ASSUME NEW x \in S, NEW y \in S, x # y
               PROVE  \/ y \notin f[x] /\ f[x] \subseteq f[y]
                      \/ x \notin f[y] /\ f[y] \subseteq f[x]
    OBVIOUS
  <2>1. KeyLess(cs[x], cs[y]) \/ KeyLess(cs[y], cs[x])
    BY KeysOrdered DEF Keyed
  <2> QED BY <2>1, UpToOrdered
<1>5. ByPriority(cs, S) = s
  BY DEF ByPriority
<1>6. \A x, y \in S : y \notin f[x] => KeyLess(cs[x], cs[y])
  BY DEF UpTo
<1> HIDE DEF f
<1>7. /\ s \in [1..N -> S] /\ N \in Nat
      /\ \A x \in S : \E n \in 1..N : s[n] = x
      /\ \A m, n \in 1..N : m < n => s[n] \notin f[s[m]]
  BY <1>1, <1>2, <1>3, <1>4, RankedSorts
<1> HIDE DEF s, N
<1>8. s \in Seq(S) /\ DOMAIN s = 1..N
  BY <1>7
<1>9. Range(s) = S
  BY <1>7 DEF Range
<1>10. \A m, n \in 1..N : m < n => KeyLess(cs[s[m]], cs[s[n]])
  BY <1>6, <1>7
<1> QED BY <1>5, <1>8, <1>9, <1>10

-----------------------------------------------------------------------------
(* Numbering: the draws of refresh. *)

\* The number of draws of a set of calls: one for each call that is demoted, and one for
\* each that is promoted.
Demotions(cs, S) == {r \in S : Expired(cs[r])}
Promotions(cs, S, totals, time) == {r \in S : Starved(Demoted(WaitUntil(cs[r], time)), totals)}
Moves(cs, S, totals, time) ==
    Cardinality(Demotions(cs, S)) + Cardinality(Promotions(cs, S, totals, time))

\* One call more adds its own draws.
LEMMA MovesAdd ==
    ASSUME NEW cs, NEW S, IsFiniteSet(S), NEW x \in S, NEW totals, NEW time
    PROVE  /\ Moves(cs, S, totals, time) \in Nat
           /\ Moves(cs, S \ {x}, totals, time) \in Nat
           /\ Moves(cs, S, totals, time) =
                  Draws(cs[x], totals, time) + Moves(cs, S \ {x}, totals, time)
<1> DEFINE D == Demotions(cs, S)
           P == Promotions(cs, S, totals, time)
<1>1. IsFiniteSet(D) /\ IsFiniteSet(P)
  BY FS_Subset DEF Demotions, Promotions
<1>2. Demotions(cs, S \ {x}) = D \ {x} /\ Promotions(cs, S \ {x}, totals, time) = P \ {x}
  BY DEF Demotions, Promotions
<1>3. /\ x \in D <=> Expired(cs[x])
      /\ x \in P <=> Starved(Demoted(WaitUntil(cs[x], time)), totals)
  BY DEF Demotions, Promotions
<1>4. Draws(cs[x], totals, time) = (IF x \in D THEN 1 ELSE 0) + (IF x \in P THEN 1 ELSE 0)
  BY <1>3 DEF Draws
<1> HIDE DEF D, P
<1>5. /\ Cardinality(D) \in Nat /\ Cardinality(P) \in Nat
      /\ Cardinality(D \ {x}) \in Nat /\ Cardinality(P \ {x}) \in Nat
      /\ Cardinality(D) = Cardinality(D \ {x}) + (IF x \in D THEN 1 ELSE 0)
      /\ Cardinality(P) = Cardinality(P \ {x}) + (IF x \in P THEN 1 ELSE 0)
  <2>1. \A T : IsFiniteSet(T) => Cardinality(T) \in Nat
    BY FS_CardinalityType
  <2>2. /\ IsFiniteSet(D \ {x})
        /\ Cardinality(D \ {x}) = IF x \in D THEN Cardinality(D) - 1 ELSE Cardinality(D)
    BY <1>1, FS_RemoveElement
  <2>3. /\ IsFiniteSet(P \ {x})
        /\ Cardinality(P \ {x}) = IF x \in P THEN Cardinality(P) - 1 ELSE Cardinality(P)
    BY <1>1, FS_RemoveElement
  <2> QED BY <1>1, <2>1, <2>2, <2>3
<1>6. /\ Moves(cs, S, totals, time) = Cardinality(D) + Cardinality(P)
      /\ Moves(cs, S \ {x}, totals, time) = Cardinality(D \ {x}) + Cardinality(P \ {x})
  BY <1>2 DEF Moves, D, P
<1> QED BY <1>4, <1>5, <1>6

\* So what the fold of refresh draws is that number: it satisfies the recursion, which has
\* no other solution.
LEMMA DrawsCounted ==
    ASSUME NEW cs, NEW S, IsFiniteSet(S), NEW totals, NEW time
    PROVE  DrawsBy(cs, S, totals, time) = Moves(cs, S, totals, time)
<1> DEFINE m(s) == Moves(cs, s, totals, time)
           d(x) == Draws(cs[x], totals, time)
           pick(s) == CHOOSE x \in s : TRUE
           Folds(g) == g = [s \in SUBSET S |->
                               IF s = {} THEN 0 ELSE d(pick(s)) + g[s \ {pick(s)}]]
<1>1. DrawsBy(cs, S, totals, time) = (CHOOSE g : Folds(g))[S]
  BY DEF DrawsBy, MapThenSumSet, MapThenFoldSet
<1>2. \A s \in SUBSET S : IsFiniteSet(s)
  BY FS_Subset
<1>3. m({}) = 0
  BY FS_EmptySet DEF Moves, Demotions, Promotions
<1>4. ASSUME NEW s \in SUBSET S, s # {} PROVE pick(s) \in s
  BY <1>4
<1>5. ASSUME NEW s \in SUBSET S, NEW x \in s PROVE m(s) = d(x) + m(s \ {x})
  <2>1. IsFiniteSet(s)
    BY <1>2
  <2>2. Moves(cs, s, totals, time) =
            Draws(cs[x], totals, time) + Moves(cs, s \ {x}, totals, time)
    BY <2>1, MovesAdd
  <2> QED BY <2>2
<1> HIDE DEF m, d, pick
<1>6. Folds([s \in SUBSET S |-> m(s)])
  BY <1>3, <1>4, <1>5
<1>7. ASSUME NEW g, Folds(g) PROVE g[S] = m(S)
  <2> DEFINE Bad == {s \in SUBSET S : g[s] # m(s)}
             Sizes == {Cardinality(s) : s \in Bad}
  <2>1. ASSUME Bad # {} PROVE FALSE
    <3>1. PICK n \in Sizes : \A k \in Sizes : n <= k
      <4>1. Sizes # {} /\ Sizes \subseteq Nat
        BY <1>2, <2>1, FS_CardinalityType
      <4> HIDE DEF Sizes
      <4> QED BY <4>1, LeastNat
    <3>2. PICK s \in Bad : Cardinality(s) = n
      OBVIOUS
    <3>3. g[s] = IF s = {} THEN 0 ELSE d(pick(s)) + g[s \ {pick(s)}]
      BY <1>7
    <3>4. s # {}
      BY <1>3, <3>3
    <3> DEFINE t == s \ {pick(s)}
    <3>5. pick(s) \in s /\ t \in SUBSET S
      BY <1>4, <3>4
    <3>6. Cardinality(t) < n
      <4>1. Cardinality(t) = Cardinality(s) - 1 /\ Cardinality(s) \in Nat
        BY <1>2, <3>5, FS_RemoveElement, FS_CardinalityType
      <4> QED BY <3>2, <4>1
    <3>7. t \notin Bad
      <4>1. n \in Nat /\ Cardinality(t) \in Nat
        BY <1>2, <3>2, <3>5, FS_CardinalityType
      <4> QED BY <3>1, <3>6, <4>1
    <3>8. g[t] = m(t)
      BY <3>5, <3>7
    <3> QED BY <1>5, <3>3, <3>4, <3>5, <3>8
  <2> QED BY <2>1
<1> HIDE DEF Folds
<1>8. Folds(CHOOSE g : Folds(g))
  BY <1>6
<1> QED BY <1>1, <1>7, <1>8 DEF m

\* More calls draw more numbers, and a call that moves draws one.
LEMMA DrawsGrow ==
    ASSUME NEW cs, NEW S, IsFiniteSet(S), NEW T \in SUBSET S, NEW totals, NEW time
    PROVE  /\ DrawsBy(cs, S, totals, time) \in Nat /\ DrawsBy(cs, T, totals, time) \in Nat
           /\ DrawsBy(cs, T, totals, time) <= DrawsBy(cs, S, totals, time)
           /\ \A x \in S \ T : Draws(cs[x], totals, time) # 0 =>
                  DrawsBy(cs, T, totals, time) < DrawsBy(cs, S, totals, time)
<1> DEFINE D == Demotions(cs, S)
           P == Promotions(cs, S, totals, time)
           E == Demotions(cs, T)
           Q == Promotions(cs, T, totals, time)
<1>1. IsFiniteSet(T)
  BY FS_Subset
<1>2. /\ DrawsBy(cs, S, totals, time) = Cardinality(D) + Cardinality(P)
      /\ DrawsBy(cs, T, totals, time) = Cardinality(E) + Cardinality(Q)
  BY <1>1, DrawsCounted DEF Moves
<1>3. IsFiniteSet(D) /\ IsFiniteSet(P) /\ E \subseteq D /\ Q \subseteq P
  BY FS_Subset DEF Demotions, Promotions
<1>4. ASSUME NEW x \in S \ T, Draws(cs[x], totals, time) # 0
      PROVE  E # D \/ Q # P
  <2>1. x \notin E /\ x \notin Q
    BY DEF Demotions, Promotions
  <2>2. x \in D \/ x \in P
    BY <1>4 DEF Draws, Demotions, Promotions
  <2> QED BY <2>1, <2>2
<1> HIDE DEF D, P, E, Q
<1>5. /\ IsFiniteSet(E) /\ Cardinality(E) <= Cardinality(D)
      /\ Cardinality(D) = Cardinality(E) => D = E
  BY <1>3, FS_Subset
<1>6. /\ IsFiniteSet(Q) /\ Cardinality(Q) <= Cardinality(P)
      /\ Cardinality(P) = Cardinality(Q) => P = Q
  BY <1>3, FS_Subset
<1>7. /\ Cardinality(D) \in Nat /\ Cardinality(P) \in Nat
      /\ Cardinality(E) \in Nat /\ Cardinality(Q) \in Nat
  BY <1>3, <1>5, <1>6, FS_CardinalityType
<1> QED BY <1>2, <1>4, <1>5, <1>6, <1>7

Moved(c, d) == d.queue # c.queue \/ d.quantum > c.quantum

\* A call that draws no number keeps its queue and quantum; one that draws moves, if only
\* by a new quantum in the last queue.
LEMMA RefreshedMoves ==
    ASSUME NEW c, NEW since \in Nat, NEW time \in Nat, NEW totals, CallOK(c, since, time)
    PROVE  LET e == Refreshed(c, totals, time)
           IN  /\ e.order = c.order
               /\ Draws(c, totals, time) \in Nat
               /\ Draws(c, totals, time) = 0 => e.queue = c.queue /\ e.quantum = c.quantum
               /\ Draws(c, totals, time) # 0 => Moved(c, e)
<1> DEFINE w == WaitUntil(c, time)
           d == Demoted(w)
           e == Refreshed(c, totals, time)
<1>1. CallOK(w, since, time) /\ CallOK(d, since, time)
  BY WaitUntilOK, DemotedOK
<1>2. c.queue \in 0..LastQueue /\ c.quantum \in Int
  BY FieldTypes
<1>3. w.queue = c.queue /\ w.quantum = c.quantum /\ w.order = c.order
  BY DEF WaitUntil, CallOK, CallSet
<1>4. d = IF Expired(c)
          THEN [w EXCEPT !.queue = Lower(w.queue), !.quantum = Quantum(Lower(w.queue))]
          ELSE w
  BY <1>3 DEF Demoted, Expired
<1>5. e = IF Starved(d, totals)
          THEN [d EXCEPT !.queue = 0, !.quantum = Quantum(0), !.wait_window = 0, !.run_window = 0]
          ELSE d
  BY DEF Refreshed, Promoted
<1>6. Draws(c, totals, time) =
        (IF Expired(c) THEN 1 ELSE 0) + (IF Starved(d, totals) THEN 1 ELSE 0)
  BY DEF Draws
<1>7. Starved(d, totals) => d.queue # 0
  BY DEF Starved
<1>8. Expired(c) => c.quantum <= 0
  BY DEF Expired
<1>9. Quantum(Lower(c.queue)) \in Nat \ {0} /\ Quantum(0) \in Nat \ {0}
  <2>1. Lower(c.queue) \in 0..LastQueue /\ 0 \in 0..LastQueue
    BY <1>2, QueueTypes DEF Lower
  <2> QED BY <2>1, QueueTypes
<1> HIDE DEF w, d, e
<1>10. /\ d.order = c.order
       /\ ~Expired(c) => d.queue = c.queue /\ d.quantum = c.quantum
       /\ Expired(c) => d.quantum = Quantum(Lower(c.queue))
  BY <1>1, <1>3, <1>4 DEF CallOK, CallSet
<1>11. /\ e.order = d.order
       /\ ~Starved(d, totals) => e.queue = d.queue /\ e.quantum = d.quantum
       /\ Starved(d, totals) => e.queue = 0 /\ e.quantum = Quantum(0)
  BY <1>1, <1>5 DEF CallOK, CallSet
<1>12. Draws(c, totals, time) = 0 => ~Expired(c) /\ ~Starved(d, totals)
  BY <1>6
<1>13. Draws(c, totals, time) # 0 => Moved(c, e)
  <2>1. CASE Expired(c)
    <3>1. e.quantum \in Nat \ {0}
      BY <1>9, <1>10, <1>11, <2>1
    <3> QED BY <1>2, <1>8, <2>1, <3>1 DEF Moved
  <2>2. CASE ~Expired(c) /\ Starved(d, totals)
    BY <1>7, <1>10, <1>11, <2>2 DEF Moved
  <2>3. CASE ~Expired(c) /\ ~Starved(d, totals)
    BY <1>6, <2>3
  <2> QED BY <2>1, <2>2, <2>3
<1> QED BY <1>6, <1>10, <1>11, <1>12, <1>13 DEF e

\* First-in first-out between one state of the calls and a later one.
Fifo(cs, ds) ==
    \A r, d \in DOMAIN cs \cap DOMAIN ds :
        (/\ r # d
         /\ ds[r].queue = ds[d].queue
         /\ IF Moved(cs[r], ds[r]) <=> Moved(cs[d], ds[d]) THEN KeyLess(cs[r], cs[d])
            ELSE Moved(cs[d], ds[d]))
        => KeyLess(ds[r], ds[d])

Numbered(cs, n) == Keyed(cs) /\ n \in Nat /\ \A r \in DOMAIN cs : cs[r].order <= n

\* refresh numbers the calls that move behind all others and in their order, so orders stay
\* distinct, whichever calls move together.
LEMMA RefreshOrders ==
    ASSUME NEW cs, NEW since, NEW time \in Nat, NEW n, NEW totals,
           AllOK(cs, since, time), Numbered(cs, n)
    PROVE  /\ Numbered(Refresh(cs, n, totals, time), CounterAfter(cs, n, totals, time))
           /\ Fifo(cs, Refresh(cs, n, totals, time))
<1> DEFINE ds == Refresh(cs, n, totals, time)
           draw(r) == Draws(cs[r], totals, time)
           by(S) == DrawsBy(cs, S, totals, time)
           last == CounterAfter(cs, n, totals, time)
<1>1. DOMAIN ds = DOMAIN cs
  BY DEF Refresh
<1>2. /\ IsFiniteSet(DOMAIN cs) /\ n \in Nat
      /\ \A r \in DOMAIN cs : cs[r].queue \in Nat /\ cs[r].order \in Nat /\ cs[r].order <= n
  BY DEF Numbered, Keyed
<1>3. ASSUME NEW r \in DOMAIN cs
      PROVE  /\ draw(r) \in Nat
             /\ draw(r) = 0 => /\ ds[r].order = cs[r].order /\ ds[r].queue = cs[r].queue
                               /\ ~Moved(cs[r], ds[r])
             /\ draw(r) # 0 => ds[r].order = n + by(UpTo(cs, r)) /\ Moved(cs[r], ds[r])
             /\ ds[r].queue \in Nat
  <2> DEFINE c == cs[r]
             e == Refreshed(c, totals, time)
             m == n + DrawsBy(cs, UpTo(cs, r), totals, time)
             d == [e EXCEPT !.order = m]
  <2>1. ds[r] = IF draw(r) = 0 THEN e ELSE d
    BY Zenon, <1>1 DEF Refresh
  <2>2. since[r] \in Nat /\ CallOK(c, since[r], time)
    BY DEF AllOK
  <2>3. c.queue \in 0..LastQueue /\ c.quantum \in Int
    BY <2>2, FieldTypes
  <2> HIDE DEF c
  <2>4. /\ e.order = c.order
        /\ Draws(c, totals, time) \in Nat
        /\ Draws(c, totals, time) = 0 => e.queue = c.queue /\ e.quantum = c.quantum
        /\ Draws(c, totals, time) # 0 => Moved(c, e)
    BY <2>2, RefreshedMoves
  <2>5. CallOK(e, since[r], time)
    BY <2>2, RefreshedOK
  <2> HIDE DEF e, m
  <2>6. e.queue \in 0..LastQueue
    BY <2>5, FieldTypes
  <2>7. d.order = m /\ d.queue = e.queue /\ d.quantum = e.quantum
    BY <2>5 DEF CallOK, CallSet
  <2>8. draw(r) = Draws(c, totals, time)
    BY DEF c
  <2> HIDE DEF d, ds, draw
  <2>9. 0..LastQueue \subseteq Nat
    OBVIOUS
  <2>10. CASE draw(r) = 0
    BY <2>1, <2>3, <2>4, <2>6, <2>8, <2>9, <2>10 DEF Moved, c
  <2>11. CASE draw(r) # 0
    BY <2>1, <2>4, <2>6, <2>7, <2>8, <2>9, <2>11 DEF Moved, c, m
  <2> QED BY <2>10, <2>11
<1>4. \A r \in DOMAIN cs : UpTo(cs, r) \in SUBSET DOMAIN cs /\ IsFiniteSet(UpTo(cs, r))
  BY <1>2, FS_Subset DEF UpTo
<1>5. ASSUME NEW r \in DOMAIN cs, draw(r) # 0
      PROVE  by(UpTo(cs, r)) \in Nat \ {0} /\ n + by(UpTo(cs, r)) <= last /\ last \in Nat
  <2>1. r \in UpTo(cs, r)
    BY <1>2, KeysOrdered DEF UpTo
  <2>2. by({}) \in Nat /\ by({}) < by(UpTo(cs, r)) /\ by(UpTo(cs, r)) \in Nat
    BY <1>4, <1>5, <2>1, DrawsGrow
  <2>3. by(DOMAIN cs) \in Nat /\ by(UpTo(cs, r)) <= by(DOMAIN cs)
    BY <1>2, <1>4, DrawsGrow
  <2>4. last = n + by(DOMAIN cs)
    BY DEF CounterAfter
  <2> HIDE DEF by, last
  <2> QED BY <1>2, <2>2, <2>3, <2>4
<1>6. last \in Nat /\ n <= last
  <2>1. by(DOMAIN cs) \in Nat
    BY <1>2, DrawsGrow
  <2>2. last = n + by(DOMAIN cs)
    BY DEF CounterAfter
  <2> HIDE DEF by, last
  <2> QED BY <1>2, <2>1, <2>2
<1>7. ASSUME NEW r \in DOMAIN cs, NEW d \in DOMAIN cs, draw(r) # 0, draw(d) # 0,
             KeyLess(cs[r], cs[d])
      PROVE  ds[r].order < ds[d].order
  <2>1. UpTo(cs, r) \subseteq UpTo(cs, d) /\ d \in UpTo(cs, d) \ UpTo(cs, r)
    BY <1>7, UpToOrdered DEF Numbered
  <2>2. by(UpTo(cs, r)) < by(UpTo(cs, d))
    BY <1>4, <1>7, <2>1, DrawsGrow
  <2>3. by(UpTo(cs, r)) \in Nat /\ by(UpTo(cs, d)) \in Nat
    BY <1>5, <1>7
  <2>4. ds[r].order = n + by(UpTo(cs, r)) /\ ds[d].order = n + by(UpTo(cs, d))
    BY <1>3, <1>7
  <2> HIDE DEF ds, by
  <2> QED BY <1>2, <2>2, <2>3, <2>4
<1>8. ASSUME NEW r \in DOMAIN cs, NEW d \in DOMAIN cs, draw(r) = 0, draw(d) # 0
      PROVE  ds[r].order < ds[d].order
  <2>1. ds[r].order = cs[r].order /\ ds[d].order = n + by(UpTo(cs, d))
    BY <1>3, <1>8
  <2>2. by(UpTo(cs, d)) \in Nat \ {0}
    BY <1>5, <1>8
  <2> HIDE DEF ds, by
  <2> QED BY <1>2, <2>1, <2>2
<1>9. ASSUME NEW r \in DOMAIN cs PROVE ds[r].order \in Nat /\ ds[r].order <= last
  <2>1. CASE draw(r) = 0
    <3>1. ds[r].order = cs[r].order
      BY <1>3, <2>1
    <3> HIDE DEF ds, last
    <3> QED BY <1>2, <1>6, <3>1
  <2>2. CASE draw(r) # 0
    <3>1. ds[r].order = n + by(UpTo(cs, r)) /\ by(UpTo(cs, r)) \in Nat
      BY <1>3, <1>5, <2>2
    <3>2. n + by(UpTo(cs, r)) <= last
      BY <1>5, <2>2
    <3> HIDE DEF ds, last, by
    <3> QED BY <1>2, <3>1, <3>2
  <2> QED BY <2>1, <2>2
<1>10. \A r, d \in DOMAIN cs : r # d => KeyLess(cs[r], cs[d]) \/ KeyLess(cs[d], cs[r])
  BY <1>2, KeysOrdered DEF Numbered, Keyed
<1>11. \A r \in DOMAIN cs : Moved(cs[r], ds[r]) <=> draw(r) # 0
  BY <1>3
<1>12. \A r \in DOMAIN cs :
           /\ ds[r].queue \in Nat
           /\ draw(r) = 0 => ds[r].order = cs[r].order /\ ds[r].queue = cs[r].queue
  BY <1>3
<1> HIDE DEF ds, draw, last
<1>13. \A r, d \in DOMAIN cs : ds[r].order = ds[d].order => r = d
  <2> SUFFICES ASSUME NEW r \in DOMAIN cs, NEW d \in DOMAIN cs, r # d
               PROVE  ds[r].order # ds[d].order
    OBVIOUS
  <2>1. ds[r].order \in Nat /\ ds[d].order \in Nat
    BY <1>9
  <2>2. CASE draw(r) = 0 /\ draw(d) = 0
    BY <1>12, <2>2 DEF Numbered, Keyed
  <2>3. CASE draw(r) # draw(d) \/ draw(r) # 0
    <3>1. ds[r].order < ds[d].order \/ ds[d].order < ds[r].order
      BY <1>7, <1>8, <1>10, <2>3
    <3> QED BY <2>1, <3>1
  <2> QED BY <2>2, <2>3
<1>14. Numbered(ds, last)
  BY <1>1, <1>2, <1>6, <1>9, <1>12, <1>13 DEF Numbered, Keyed
<1>15. Fifo(cs, ds)
  <2> SUFFICES ASSUME NEW r \in DOMAIN cs, NEW d \in DOMAIN cs, r # d, ds[r].queue = ds[d].queue,
                      IF Moved(cs[r], ds[r]) <=> Moved(cs[d], ds[d]) THEN KeyLess(cs[r], cs[d])
                      ELSE Moved(cs[d], ds[d])
               PROVE  KeyLess(ds[r], ds[d])
    BY <1>1 DEF Fifo
  <2>1. CASE draw(r) = 0 /\ draw(d) = 0
    BY <1>11, <1>12, <2>1 DEF KeyLess
  <2>2. CASE draw(r) # 0 /\ draw(d) # 0
    BY <1>7, <1>11, <2>2 DEF KeyLess
  <2>3. CASE draw(r) = 0 /\ draw(d) # 0
    BY <1>8, <2>3 DEF KeyLess
  <2>4. CASE draw(r) # 0 /\ draw(d) = 0
    BY <1>11, <2>4
  <2> QED BY <2>1, <2>2, <2>3, <2>4
<1> QED BY <1>14, <1>15 DEF ds, last

-----------------------------------------------------------------------------
(* Between two refreshes. *)

\* What neither time nor execution changes: the place in the order.
Unmoved(cs, ds) ==
    /\ DOMAIN ds \subseteq DOMAIN cs
    /\ \A r \in DOMAIN ds :
        ds[r].queue = cs[r].queue /\ ds[r].order = cs[r].order /\ ~(ds[r].quantum > cs[r].quantum)

\* So what is in order stays in order.
LEMMA UnmovedKeeps ==
    ASSUME NEW cs, NEW ds, Unmoved(cs, ds)
    PROVE  /\ Fifo(cs, ds)
           /\ \A n : Numbered(cs, n) => Numbered(ds, n)
<1>1. Fifo(cs, ds)
  BY DEF Unmoved, Fifo, Moved, KeyLess
<1>2. ASSUME NEW n, Numbered(cs, n) PROVE Numbered(ds, n)
  <2>1. IsFiniteSet(DOMAIN ds)
    BY <1>2, FS_Subset DEF Unmoved, Numbered, Keyed
  <2> QED BY <1>2, <2>1 DEF Unmoved, Numbered, Keyed
<1> QED BY <1>1, <1>2

\* begin leaves a call where it is.
SamePlace(c, d) ==
    d.queue = c.queue /\ d.order = c.order /\ d.quantum = c.quantum /\ c.quantum \in Int

\* begin changes times and the mark of the batch.
LEMMA BeginUnmoved ==
    ASSUME NEW cs, NEW since, NEW time \in Nat, NEW S, AllOK(cs, since, time)
    PROVE  /\ DOMAIN Begin(cs, S, time) = DOMAIN cs
           /\ \A r \in DOMAIN cs : SamePlace(cs[r], Begin(cs, S, time)[r])
<1> DEFINE ds == Begin(cs, S, time)
<1>1. DOMAIN ds = DOMAIN cs BY DEF Begin
<1>2. ASSUME NEW r \in DOMAIN cs
      PROVE  SamePlace(cs[r], ds[r])
  <2> DEFINE c == cs[r]
             w == WaitUntil(c, time)
             m == r \in S
             d == [w EXCEPT !.scheduled = m]
  <2>1. ds[r] = d BY Zenon, <1>1 DEF Begin
  <2>2. since[r] \in Nat /\ CallOK(c, since[r], time) BY DEF AllOK
  <2> HIDE DEF c, m
  <2>3. CallOK(w, since[r], time) BY <2>2, WaitUntilOK
  <2>4. w.queue = c.queue /\ w.quantum = c.quantum /\ w.order = c.order
    BY <2>2 DEF WaitUntil, CallOK, CallSet
  <2>5. c.quantum \in Int BY <2>2, FieldTypes
  <2> HIDE DEF w
  <2>6. d.queue = w.queue /\ d.quantum = w.quantum /\ d.order = w.order
    BY <2>3 DEF CallOK, CallSet
  <2> HIDE DEF d, ds
  <2>7. SamePlace(c, ds[r])
    BY <2>1, <2>4, <2>5, <2>6 DEF SamePlace
  <2> QED BY <2>7 DEF c
<1> QED BY <1>1, <1>2

\* executed takes from the quantum, which is looked at in the next refresh.
LEMMA ExecutedUnmoved ==
    ASSUME NEW cs, NEW since, NEW time \in Nat, NEW S, NEW seconds \in Nat, NEW later \in Nat,
           AllOK(cs, since, time)
    PROVE  Unmoved(cs, Executed(cs, S, seconds, later))
           /\ DOMAIN Executed(cs, S, seconds, later) = DOMAIN cs
<1> DEFINE ds == Executed(cs, S, seconds, later)
<1>1. DOMAIN ds = DOMAIN cs BY DEF Executed
<1>2. ASSUME NEW r \in DOMAIN cs
      PROVE  /\ ds[r].queue = cs[r].queue /\ ds[r].order = cs[r].order
             /\ ~(ds[r].quantum > cs[r].quantum)
  <2> DEFINE c == cs[r]
             d == [c EXCEPT !.executed = @ + seconds, !.run_window = @ + seconds,
                            !.quantum = @ - seconds, !.scheduled = FALSE,
                            !.last_update = later]
  <2>1. ds[r] = IF r \notin S THEN c ELSE d BY Zenon, <1>1 DEF Executed
  <2>2. CallOK(c, since[r], time) BY DEF AllOK
  <2> HIDE DEF c
  <2>3. c.quantum \in Int BY <2>2, FieldTypes
  <2>4. d.queue = c.queue /\ d.quantum = c.quantum - seconds /\ d.order = c.order
    BY <2>2 DEF CallOK, CallSet
  <2> HIDE DEF d, ds
  <2>5. ds[r].queue = c.queue /\ ds[r].order = c.order /\ ~(ds[r].quantum > c.quantum)
    BY <2>1, <2>3, <2>4
  <2> QED BY <2>5 DEF c
<1> QED BY <1>1, <1>2 DEF Unmoved

-----------------------------------------------------------------------------
(* The window. *)

\* The first n of a sequence are a prefix of it, and no more than n.
LEMMA FirstView ==
    ASSUME NEW R, NEW s \in Seq(R), NEW n \in Nat
    PROVE  /\ First(s, n) \in Seq(R) /\ Len(First(s, n)) <= n
           /\ Len(First(s, n)) <= Len(s)
           /\ \A i \in 1..Len(First(s, n)) : First(s, n)[i] = s[i]
           /\ Range(First(s, n)) \subseteq Range(s)
           /\ IsFiniteSet(Range(First(s, n))) /\ Cardinality(Range(First(s, n))) <= n
<1> DEFINE p == First(s, n)
           m == IF n < Len(s) THEN n ELSE Len(s)
<1>1. m \in Nat /\ m <= n /\ m <= Len(s) /\ Len(s) \in Nat
  OBVIOUS
<1>2. p = SubSeq(s, 1, m)
  BY DEF First
<1> HIDE DEF m
<1>3. p \in Seq(R) /\ Len(p) = m /\ \A i \in 1..m : p[i] = s[i]
  BY <1>1, <1>2
<1> HIDE DEF p
<1>4. DOMAIN p = 1..m /\ DOMAIN s = 1..Len(s)
  BY <1>3
<1>5. Range(p) \subseteq Range(s)
  BY <1>1, <1>3, <1>4 DEF Range
<1>6. IsFiniteSet(1..m) /\ Cardinality(1..m) = m
  <2>1. \A k \in Nat : IsFiniteSet(1..k) /\ Cardinality(1..k) = k
    BY FS_Interval
  <2> QED BY <1>1, <2>1
<1>7. p \in Surjection(1..m, Range(p))
  BY <1>3, <1>4 DEF Surjection, Range
<1>8. IsFiniteSet(Range(p)) /\ Cardinality(Range(p)) <= m
  BY <1>6, <1>7, FS_Surjection
<1>9. Cardinality(Range(p)) \in Nat
  BY <1>8, FS_CardinalityType
<1> QED BY <1>1, <1>3, <1>5, <1>8, <1>9 DEF p

\* The rest of a sequence is of its elements.
LEMMA AfterView ==
    ASSUME NEW R, NEW s \in Seq(R), NEW n \in Nat
    PROVE  Range(After(s, n)) \subseteq Range(s)
<1> DEFINE p == After(s, n)
<1>1. p = SubSeq(s, n + 1, Len(s)) /\ Len(s) \in Nat
  BY DEF After
<1>2. \A i \in DOMAIN p : i + n \in DOMAIN s /\ p[i] = s[i + n]
  BY <1>1
<1> HIDE DEF p
<1>3. Range(p) \subseteq Range(s)
  BY <1>2 DEF Range
<1> QED BY <1>3 DEF p

\* The calls of a prefix go before the others.
LEMMA PrefixGoesFirst ==
    ASSUME NEW R, NEW s \in Seq(R), NEW p \in Seq(R), Len(p) <= Len(s),
           \A i \in 1..Len(p) : p[i] = s[i],
           NEW x \in Range(p), NEW y \in Range(s) \ Range(p)
    PROVE  \E m, n \in DOMAIN s : m < n /\ s[m] = x /\ s[n] = y
<1>1. DOMAIN s = 1..Len(s) /\ DOMAIN p = 1..Len(p) /\ Len(s) \in Nat /\ Len(p) \in Nat
  OBVIOUS
<1>2. PICK m \in DOMAIN p : p[m] = x
  BY DEF Range
<1>3. PICK n \in DOMAIN s : s[n] = y
  BY DEF Range
<1>4. n \notin DOMAIN p
  BY <1>1, <1>3 DEF Range
<1>5. m \in DOMAIN s /\ s[m] = x /\ m < n
  BY <1>1, <1>2, <1>3, <1>4
<1> QED BY <1>3, <1>5

\* select: the plan holds available calls, at most Capacity of them to decode, taken by
\* priority at a boundary and from the old plan inside a window.
LEMMA SelectView ==
    ASSUME NEW w, w.cohort \in Seq(Range(w.cohort)), NEW cs, Keyed(cs),
           NEW available \in SUBSET DOMAIN cs, available # {},
           NEW v, v = Select(w, cs, available)
    PROVE  /\ v.cohort \in Seq(available)
           /\ v = Plan(v.cohort, v.remaining)
           /\ AtBoundary(w, available) =>
                  /\ v.remaining = Interval
                  /\ v.cohort = First(ByPriority(cs, available), Capacity + Over)
           /\ ~AtBoundary(w, available) =>
                  /\ v.remaining = w.remaining
                  /\ Range(v.cohort) \subseteq Range(w.cohort)
<1> DEFINE k == IF AtBoundary(w, available)
                THEN First(ByPriority(cs, available), Capacity + Over)
                ELSE Survivors(w, available)
           n == IF AtBoundary(w, available) THEN Interval ELSE w.remaining
<1>1. v = Plan(k, n)
  BY DEF Select
<1>2. v.cohort = k /\ v.remaining = n
  BY <1>1 DEF Plan
<1>3. Survivors(w, available) \in Seq(Range(w.cohort) \cap available)
  BY SurvivorsView
<1>4. Survivors(w, available) \in Seq(available)
      /\ Range(Survivors(w, available)) \subseteq Range(w.cohort)
  BY <1>3 DEF Range
<1>5. First(ByPriority(cs, available), Capacity + Over) \in Seq(available)
  <2>1. Capacity + Over \in Nat
    BY WindowAssumption
  <2> QED BY <2>1, ByPrioritySorts, FirstView
<1>6. k \in Seq(available)
  BY <1>4, <1>5
<1> QED BY <1>1, <1>2, <1>4, <1>6

\* Of a plan, what decodes and what is reserved is of the cohort.
LEMMA PlanView ==
    ASSUME NEW R, NEW k \in Seq(R), NEW n
    PROVE  /\ Plan(k, n).active \subseteq R /\ Plan(k, n).reserve \subseteq R
           /\ IsFiniteSet(Plan(k, n).active) /\ Cardinality(Plan(k, n).active) <= Capacity
<1>1. Capacity \in Nat
  BY WindowAssumption
<1>2. Range(k) \subseteq R
  BY DEF Range
<1>3. /\ Plan(k, n).active = Range(First(k, Capacity))
      /\ Plan(k, n).reserve = Range(After(k, Capacity))
  BY DEF Plan
<1> QED BY <1>1, <1>2, <1>3, FirstView, AfterView

-----------------------------------------------------------------------------
(* The actions, with the order and the window. *)

\* Calls have distinct keys, and the queues of vLLM hold exactly them.
PriorityInv ==
    /\ Numbered(calls, counter)
    /\ DOMAIN place = DOMAIN calls
    /\ \A r \in DOMAIN place : place[r] \in {"waiting", "running", "swapped"}

\* The window is counted down from Interval, and a batch that decodes is of its active calls.
WindowInv ==
    /\ window \in [remaining : 0..Interval, cohort : {window.cohort},
                   active : {window.active}, reserve : {window.reserve}]
    /\ window.cohort \in Seq(Range(window.cohort))
    /\ DecodeWithinCapacity

SchedulerInv == AccountInv /\ PriorityInv /\ WindowInv

\* The properties of steps.
StartsByPriority ==
    NewWindow =>
        \A r \in Range(window'.cohort), d \in DOMAIN calls' \ Range(window'.cohort) :
            KeyLess(calls'[r], calls'[d])
Frozen ==
    (window.remaining > 0 /\ Survivors(window, DOMAIN place') # << >>) =>
        /\ Range(window'.cohort) \subseteq Range(window.cohort)
        /\ \A r \in DOMAIN calls \cap DOMAIN calls' :
               calls'[r].queue = calls[r].queue /\ calls'[r].order = calls[r].order
StepOK == Fifo(calls, calls') /\ StartsByPriority /\ Frozen

\* An engine process starts without calls and without a plan.
LEMMA InitScheduler == Init => SchedulerInv
<1> SUFFICES ASSUME Init PROVE SchedulerInv
  OBVIOUS
<1>1. AccountInv
  BY InitAccount
<1>2. PriorityInv
  BY FS_EmptySet DEF Init, PriorityInv, Numbered, Keyed
<1>3. WindowInv
  BY WindowAssumption DEF Init, WindowInv, EmptyWindow, DecodeWithinCapacity, Range
<1> QED BY <1>1, <1>2, <1>3 DEF SchedulerInv

\* A step that leaves the window and the calls in their places.
LEMMA QuietStep ==
    ASSUME SchedulerInv, UNCHANGED window, Unmoved(calls, calls')
    PROVE  StepOK
<1>1. Fifo(calls, calls')
  BY UnmovedKeeps
<1> QED BY <1>1 DEF StepOK, StartsByPriority, NewWindow, Frozen, Unmoved

\* Calls that nobody touches stay where they are.
LEMMA CallsUnmoved ==
    ASSUME AccountInv
    PROVE  Unmoved(calls, calls)
<1>1. \A r \in DOMAIN calls : calls[r].quantum \in Int
  BY FieldTypes DEF AccountInv, AllOK
<1> QED BY <1>1 DEF Unmoved

\* VLLMBackend.add: the new call comes last in its queue and is not in the window.
LEMMA AddSteps ==
    ASSUME SchedulerInv, NEW p \in Pid, NEW r \in Rid, Add(p, r)
    PROVE  PriorityInv' /\ WindowInv' /\ StepOK
<1> DEFINE c == NewCall(p, Inherited(table, p), counter', now)
<1>1. /\ batch = {} /\ counter' = counter + 1 /\ r \notin DOMAIN calls
      /\ calls' = Put(calls, r, c) /\ place' = Put(place, r, "waiting")
      /\ UNCHANGED << window, batch, isPrefill >>
  BY DEF Add, SchedulerInv, AccountInv
<1>2. Numbered(calls, counter) /\ DOMAIN place = DOMAIN calls
  BY DEF SchedulerInv, PriorityInv
<1>3. c.queue \in Nat /\ c.order = counter + 1
  <2>1. QueueOf(Inherited(table, p)) \in 0..LastQueue
    BY QueueTypes
  <2> QED BY <1>1, <2>1 DEF NewCall
<1> HIDE DEF c
<1>4. /\ DOMAIN calls' = DOMAIN calls \cup {r}
      /\ \A d \in DOMAIN calls' : calls'[d] = IF d = r THEN c ELSE calls[d]
      /\ DOMAIN place' = DOMAIN place \cup {r}
      /\ \A d \in DOMAIN place' : place'[d] = IF d = r THEN "waiting" ELSE place[d]
  BY <1>1 DEF Put
<1>5. Numbered(calls', counter')
  <2>1. IsFiniteSet(DOMAIN calls')
    BY <1>2, <1>4, FS_AddElement DEF Numbered, Keyed
  <2>2. counter \in Nat
    BY <1>2 DEF Numbered
  <2>3. \A d \in DOMAIN calls' : calls'[d].queue \in Nat /\ calls'[d].order \in Nat
                                 /\ calls'[d].order <= counter'
    BY <1>1, <1>2, <1>3, <1>4, <2>2 DEF Numbered, Keyed
  <2>4. \A d \in DOMAIN calls : calls'[d] = calls[d] /\ calls[d].order < calls'[r].order
    BY <1>1, <1>2, <1>3, <1>4, <2>2 DEF Numbered, Keyed
  <2>5. \A d, e \in DOMAIN calls' : calls'[d].order = calls'[e].order => d = e
    BY <1>2, <1>4, <2>3, <2>4 DEF Numbered, Keyed
  <2> QED BY <1>1, <2>1, <2>2, <2>3, <2>5 DEF Numbered, Keyed
<1>6. PriorityInv'
  BY <1>2, <1>4, <1>5 DEF PriorityInv, SchedulerInv
<1>7. WindowInv'
  BY <1>1 DEF SchedulerInv, WindowInv, DecodeWithinCapacity
<1>8. Fifo(calls, calls')
  <2>1. \A d \in DOMAIN calls : calls[d].quantum \in Int
    BY FieldTypes DEF SchedulerInv, AccountInv, AllOK
  <2> QED BY <1>1, <1>4, <2>1 DEF Fifo, Moved
<1> QED BY <1>1, <1>4, <1>6, <1>7, <1>8 DEF StepOK, StartsByPriority, NewWindow, Frozen

\* VLLMBackend.cancel: what is left keeps its order.
LEMMA CancelSteps ==
    ASSUME SchedulerInv, NEW r \in Rid, Cancel(r)
    PROVE  PriorityInv' /\ WindowInv' /\ StepOK
<1>1. /\ batch = {} /\ calls' = Drop(calls, r) /\ place' = Drop(place, r)
      /\ UNCHANGED << window, batch, isPrefill, counter >>
  BY DEF Cancel, Leave
<1>2. /\ DOMAIN calls' = DOMAIN calls \ {r}
      /\ \A d \in DOMAIN calls' : calls'[d] = calls[d]
      /\ DOMAIN place' = DOMAIN place \ {r}
      /\ \A d \in DOMAIN place' : place'[d] = place[d]
  BY <1>1 DEF Drop, Restrict
<1>3. Unmoved(calls, calls')
  BY <1>2, CallsUnmoved DEF SchedulerInv, Unmoved
<1>4. Numbered(calls', counter)
  BY <1>3, UnmovedKeeps DEF SchedulerInv, PriorityInv
<1>5. PriorityInv'
  BY <1>1, <1>2, <1>4 DEF SchedulerInv, PriorityInv
<1>6. WindowInv'
  BY <1>1 DEF SchedulerInv, WindowInv, DecodeWithinCapacity
<1> QED BY <1>1, <1>3, <1>5, <1>6, QuietStep

\* The execution of a batch: the window counts down, the calls that go on stay in their order.
LEMMA RunSteps ==
    ASSUME SchedulerInv, NEW seconds \in Nat, NEW overhead \in Nat, NEW done,
           Run(seconds, overhead, done)
    PROVE  PriorityInv' /\ WindowInv' /\ StepOK
<1> DEFINE ran == Executed(calls, batch, seconds, now')
           rest == DOMAIN calls \ done
<1>1. /\ now' = now + seconds + overhead /\ window' = WindowExecuted(window, isPrefill)
      /\ calls' = Restrict(ran, rest) /\ place' = Restrict(place, rest)
      /\ counter' = counter /\ batch' = {}
  BY DEF Run
<1>2. now \in Nat /\ now' \in Nat /\ AllOK(calls, arrived, now)
  BY <1>1 DEF SchedulerInv, AccountInv
<1>3. Unmoved(calls, ran) /\ DOMAIN ran = DOMAIN calls
  BY <1>2, ExecutedUnmoved
<1> HIDE DEF ran
<1>4. /\ DOMAIN calls' = rest /\ \A r \in rest : calls'[r] = ran[r]
      /\ DOMAIN place' = rest /\ \A r \in rest : place'[r] = place[r]
  BY <1>1 DEF Restrict
<1>5. Unmoved(calls, calls')
  BY <1>3, <1>4 DEF Unmoved
<1>6. Numbered(calls', counter)
  BY <1>5, UnmovedKeeps DEF SchedulerInv, PriorityInv
<1>7. PriorityInv'
  BY <1>1, <1>4, <1>6 DEF SchedulerInv, PriorityInv
<1>8. /\ window.remaining \in 0..Interval /\ Interval \in Nat
      /\ window'.cohort = window.cohort
      /\ window' = window \/ window'.remaining = window.remaining - 1
      /\ window.remaining = 0 => window' = window
      /\ window' \in [remaining : 0..Interval, cohort : {window'.cohort},
                      active : {window'.active}, reserve : {window'.reserve}]
  <2>1. /\ window \in [remaining : 0..Interval, cohort : {window.cohort},
                       active : {window.active}, reserve : {window.reserve}]
        /\ Interval \in Nat
    BY WindowAssumption DEF SchedulerInv, WindowInv
  <2>2. CASE isPrefill \/ window.remaining = 0
    BY <1>1, <2>1, <2>2 DEF WindowExecuted
  <2>3. CASE ~(isPrefill \/ window.remaining = 0)
    <3>1. window' = [window EXCEPT !.remaining = window.remaining - 1]
      BY <1>1, <2>3 DEF WindowExecuted
    <3>2. window.remaining - 1 \in 0..Interval
      BY <2>1, <2>3
    <3> QED BY <2>1, <2>3, <3>1, <3>2
  <2> QED BY <2>2, <2>3
<1>9. WindowInv'
  BY <1>1, <1>8 DEF SchedulerInv, WindowInv, DecodeWithinCapacity
<1>10. StartsByPriority
  BY <1>8 DEF StartsByPriority, NewWindow
<1>11. Frozen
  BY <1>5, <1>8 DEF Frozen, Unmoved
<1> QED BY <1>5, <1>7, <1>9, <1>10, <1>11, UnmovedKeeps DEF StepOK

\* What a step of the scheduler does: it begins on the calls that the refresh of a boundary,
\* or the window, left, with the plan that select made of them.
Fresh == IF AtBoundary(window, Available)
         THEN Refresh(calls, counter, table.programs, now) ELSE calls
Selected == Select(window, Fresh, Available)

\* Wherever a step ends, its calls have the order that refresh or the window left.
LEMMA ScheduleFresh ==
    ASSUME SchedulerInv, Schedule
    PROVE  /\ Numbered(Fresh, counter') /\ DOMAIN Fresh = DOMAIN calls
           /\ DOMAIN calls' = DOMAIN calls
           /\ \A r \in DOMAIN calls : SamePlace(Fresh[r], calls'[r])
           /\ Numbered(calls', counter') /\ Fifo(calls, calls')
<1>1. PICK S : calls' = Begin(Fresh, S, now)
  BY DEF Schedule, Barrier, Native, Execute, Fresh
<1>2. now \in Nat /\ AllOK(calls, arrived, now) /\ Numbered(calls, counter)
  BY DEF SchedulerInv, AccountInv, PriorityInv
<1>3. Numbered(Fresh, counter') /\ Fifo(calls, Fresh) /\ AllOK(Fresh, arrived, now)
      /\ DOMAIN Fresh = DOMAIN calls
  <2>1. CASE AtBoundary(window, Available)
    <3>1. counter' = CounterAfter(calls, counter, table.programs, now)
      BY <2>1 DEF Schedule
    <3>2. Fresh = Refresh(calls, counter, table.programs, now)
      BY <2>1 DEF Fresh
    <3> QED BY <1>2, <3>1, <3>2, RefreshOrders, RefreshOK DEF AllGrow
  <2>2. CASE ~AtBoundary(window, Available)
    <3>1. counter' = counter /\ Fresh = calls
      BY <2>2 DEF Schedule, Fresh
    <3> QED BY <1>2, <3>1, CallsUnmoved, UnmovedKeeps DEF SchedulerInv
  <2> QED BY <2>1, <2>2
<1>4. DOMAIN calls' = DOMAIN calls /\ \A r \in DOMAIN calls : SamePlace(Fresh[r], calls'[r])
  BY <1>1, <1>2, <1>3, BeginUnmoved
<1>5. Unmoved(Fresh, calls')
  BY <1>3, <1>4 DEF Unmoved, SamePlace
<1>6. Numbered(calls', counter')
  BY <1>3, <1>5, UnmovedKeeps
<1>7. Fifo(calls, calls')
  BY <1>3, <1>4 DEF Fifo, Moved, KeyLess, SamePlace
<1> QED BY <1>3, <1>4, <1>6, <1>7

\* A batch that decodes is of the active calls: what vLLM may run besides is a reserve that
\* waits, runs or is swapped out, and none of these is offered for decoding.
LEMMA ActiveDecode ==
    ASSUME PriorityInv, NEW w, w.reserve \subseteq Available, NEW run,
           run \subseteq Eligible(w, In("running")) \ In("waiting")
    PROVE  run \subseteq w.active
BY DEF PriorityInv, Eligible, Chosen, In, Available

\* _schedule: the plan of a boundary is a prefix of the new order, that of a window a part of
\* the old plan, and only active calls decode.
LEMMA ScheduleSteps ==
    ASSUME SchedulerInv, Schedule
    PROVE  PriorityInv' /\ WindowInv' /\ StepOK
<1> DEFINE w == Selected
           P == {"waiting", "running", "swapped"}
<1>1. /\ Numbered(Fresh, counter') /\ DOMAIN Fresh = DOMAIN calls
      /\ DOMAIN calls' = DOMAIN calls
      /\ \A r \in DOMAIN calls : SamePlace(Fresh[r], calls'[r])
      /\ Numbered(calls', counter') /\ Fifo(calls, calls')
  BY ScheduleFresh
<1>2. /\ batch = {} /\ Available # {} /\ Available = DOMAIN calls
      /\ PriorityInv /\ WindowInv
  BY DEF Schedule, SchedulerInv, PriorityInv, Available
<1>3. /\ w.cohort \in Seq(Available)
      /\ w = Plan(w.cohort, w.remaining)
      /\ AtBoundary(window, Available) =>
             w.remaining = Interval
             /\ w.cohort = First(ByPriority(Fresh, Available), Capacity + Over)
      /\ ~AtBoundary(window, Available) =>
             w.remaining = window.remaining /\ Range(w.cohort) \subseteq Range(window.cohort)
  <2>1. Keyed(Fresh) /\ Available \in SUBSET DOMAIN Fresh
    BY <1>1, <1>2 DEF Numbered
  <2>2. window.cohort \in Seq(Range(window.cohort))
    BY <1>2 DEF WindowInv
  <2>3. w = Select(window, Fresh, Available)
    BY DEF Selected
  <2>4. Available # {}
    BY <1>2
  <2> HIDE DEF w
  <2>5. w.cohort \in Seq(Available) /\ w = Plan(w.cohort, w.remaining)
    BY <2>1, <2>2, <2>3, <2>4, SelectView
  <2>6. AtBoundary(window, Available) =>
            /\ w.remaining = Interval
            /\ w.cohort = First(ByPriority(Fresh, Available), Capacity + Over)
    BY <2>1, <2>2, <2>3, <2>4, SelectView
  <2>7. ~AtBoundary(window, Available) =>
            /\ w.remaining = window.remaining
            /\ Range(w.cohort) \subseteq Range(window.cohort)
    BY <2>1, <2>2, <2>3, <2>4, SelectView
  <2> QED BY <2>5, <2>6, <2>7
<1>4. \/ Barrier(Fresh, w, Evicted(w, In("running")), "swapped")
      \/ \E fit : Barrier(Fresh, w, fit, "running")
      \/ \E run : Execute(Fresh, w, run, TRUE, {})
      \/ \E run, preempted :
             /\ run \subseteq Eligible(w, In("running")) \ In("waiting")
             /\ Execute(Fresh, w, run, FALSE, preempted)
  BY DEF Schedule, Native, Fresh, Selected
<1> HIDE DEF w
<1>5. /\ w.active \subseteq Available /\ w.reserve \subseteq Available
      /\ IsFiniteSet(w.active) /\ Cardinality(w.active) <= Capacity
  BY <1>3, PlanView
<1>6. DOMAIN place' = Available /\ \A r \in DOMAIN place' : place'[r] \in P
  <2>1. \A r \in Available : place[r] \in P
    BY <1>2 DEF PriorityInv, Available
  <2>2. ASSUME NEW fresh, NEW moved, NEW to \in P, Barrier(fresh, w, moved, to)
        PROVE  DOMAIN place' = Available /\ \A r \in DOMAIN place' : place'[r] \in P
    BY <2>1, <2>2 DEF Barrier
  <2>3. ASSUME NEW fresh, NEW run, NEW prefill, NEW preempted,
               Execute(fresh, w, run, prefill, preempted)
        PROVE  DOMAIN place' = Available /\ \A r \in DOMAIN place' : place'[r] \in P
    BY <2>1, <2>3 DEF Execute
  <2> QED BY <1>4, <2>2, <2>3
<1>7. PriorityInv'
  BY <1>1, <1>2, <1>6 DEF PriorityInv
<1>8. window' = w \/ window' = DropReserve(w)
  BY <1>4 DEF Barrier, Execute
<1>9. w.remaining \in 0..Interval /\ Capacity \in Nat /\ Capacity + Over \in Nat
  BY <1>2, <1>3, WindowAssumption DEF WindowInv
<1>10. /\ window'.cohort = w.cohort \/ window'.cohort = First(w.cohort, Capacity)
       /\ window'.active = w.active /\ window'.remaining = w.remaining
       /\ window' \in [remaining : 0..Interval, cohort : {window'.cohort},
                       active : {window'.active}, reserve : {window'.reserve}]
  <2>1. w = [remaining |-> w.remaining, cohort |-> w.cohort,
             active |-> w.active, reserve |-> w.reserve]
    BY <1>3 DEF Plan
  <2>2. CASE window' = w
    BY <1>9, <2>1, <2>2
  <2>3. CASE window' = DropReserve(w)
    <3>1. window' = [remaining |-> w.remaining, cohort |-> First(w.cohort, Capacity),
                     active |-> w.active, reserve |-> {}]
      BY <2>1, <2>3 DEF DropReserve
    <3> QED BY <1>9, <3>1
  <2> QED BY <1>8, <2>2, <2>3
<1>11. window'.cohort \in Seq(Available) /\ Range(window'.cohort) \subseteq Range(w.cohort)
  BY <1>3, <1>9, <1>10, FirstView
<1>12. DecodeWithinCapacity'
  <2>1. batch' = {} \/ isPrefill' = TRUE
        \/ batch' \subseteq Eligible(w, In("running")) \ In("waiting")
    BY <1>2, <1>4 DEF Barrier, Execute
  <2>2. ASSUME batch' # {}, ~isPrefill' PROVE batch' \subseteq w.active
    BY <1>2, <1>5, <2>1, <2>2, ActiveDecode
  <2>3. ASSUME batch' # {}, ~isPrefill' PROVE Cardinality(batch') <= Capacity
    <3>1. IsFiniteSet(batch') /\ Cardinality(batch') <= Cardinality(w.active)
      BY <1>5, <2>2, <2>3, FS_Subset
    <3>2. Cardinality(batch') \in Nat /\ Cardinality(w.active) \in Nat
      BY <1>5, <3>1, FS_CardinalityType
    <3> QED BY <1>5, <1>9, <3>1, <3>2
  <2> QED BY <1>10, <2>2, <2>3 DEF DecodeWithinCapacity
<1>13. WindowInv'
  <2>1. window'.cohort \in Seq(Range(window'.cohort))
    BY <1>11 DEF Range
  <2> QED BY <1>10, <1>12, <2>1 DEF WindowInv
<1>14. StartsByPriority
  <2> SUFFICES ASSUME AtBoundary(window, Available), NEW r \in Range(window'.cohort),
                      NEW d \in DOMAIN calls' \ Range(window'.cohort)
               PROVE  KeyLess(calls'[r], calls'[d])
    BY DEF StartsByPriority, NewWindow
  <2> DEFINE s == ByPriority(Fresh, Available)
  <2>1. /\ s \in Seq(Available) /\ Range(s) = Available
        /\ \A m, n \in DOMAIN s : m < n => KeyLess(Fresh[s[m]], Fresh[s[n]])
    BY <1>1, <1>2, ByPrioritySorts DEF Numbered
  <2>2. w.cohort = First(s, Capacity + Over)
    BY <1>3
  <2> HIDE DEF s
  <2>3. /\ Len(window'.cohort) <= Len(s)
        /\ \A i \in 1..Len(window'.cohort) : window'.cohort[i] = s[i]
    <3>1. /\ Len(w.cohort) <= Len(s) /\ w.cohort \in Seq(Available)
          /\ \A i \in 1..Len(w.cohort) : w.cohort[i] = s[i]
      BY <1>3, <1>9, <2>1, <2>2, FirstView
    <3>2. CASE window'.cohort = w.cohort
      BY <3>1, <3>2
    <3>3. CASE window'.cohort = First(w.cohort, Capacity)
      <4>1. /\ Len(window'.cohort) <= Len(w.cohort)
            /\ \A i \in 1..Len(window'.cohort) : window'.cohort[i] = w.cohort[i]
        BY <1>9, <3>1, <3>3, FirstView
      <4>2. Len(window'.cohort) \in Nat /\ Len(w.cohort) \in Nat /\ Len(s) \in Nat
        BY <1>11, <2>1, <3>1
      <4> QED BY <3>1, <4>1, <4>2
    <3> QED BY <1>10, <3>2, <3>3
  <2>4. d \in Range(s) \ Range(window'.cohort)
    BY <1>1, <1>2, <2>1
  <2>5. PICK m, n \in DOMAIN s : m < n /\ s[m] = r /\ s[n] = d
    BY <1>11, <2>1, <2>3, <2>4, PrefixGoesFirst
  <2>6. KeyLess(Fresh[r], Fresh[d]) /\ r \in Available /\ d \in Available
    BY <2>1, <2>5
  <2> QED BY <1>1, <1>2, <2>6 DEF KeyLess, SamePlace
<1>15. Frozen
  <2> SUFFICES ASSUME window.remaining > 0, Survivors(window, DOMAIN place') # << >>
               PROVE  /\ Range(window'.cohort) \subseteq Range(window.cohort)
                      /\ \A r \in DOMAIN calls \cap DOMAIN calls' :
                             calls'[r].queue = calls[r].queue /\ calls'[r].order = calls[r].order
    BY DEF Frozen
  <2>1. ~AtBoundary(window, Available)
    BY <1>2, <1>6 DEF AtBoundary, WindowInv
  <2>2. Fresh = calls
    BY <2>1 DEF Fresh
  <2> QED BY <1>1, <1>3, <1>11, <2>1, <2>2 DEF SamePlace
<1> QED BY <1>1, <1>7, <1>13, <1>14, <1>15 DEF StepOK

\* All actions.
LEMMA NextScheduler ==
    ASSUME SchedulerInv, [Next]_vars
    PROVE  SchedulerInv' /\ StepOK
<1>1. AccountInv'
  BY NextAccount DEF SchedulerInv
<1>2. PriorityInv' /\ WindowInv' /\ StepOK
  <2>1. ASSUME UNCHANGED << calls, place, counter, window, batch, isPrefill >>
        PROVE  PriorityInv' /\ WindowInv' /\ StepOK
    <3>1. Unmoved(calls, calls')
      BY <2>1, CallsUnmoved DEF SchedulerInv
    <3>2. StepOK
      BY <2>1, <3>1, QuietStep
    <3> QED BY <2>1, <3>2 DEF SchedulerInv, PriorityInv, WindowInv, DecodeWithinCapacity
  <2>2. ASSUME NEW p \in Pid, NEW r \in Rid \ Foreign, Add(p, r)
        PROVE  PriorityInv' /\ WindowInv' /\ StepOK
    BY <2>2, AddSteps
  <2>3. ASSUME NEW r \in Rid, Cancel(r)
        PROVE  PriorityInv' /\ WindowInv' /\ StepOK
    BY <2>3, CancelSteps
  <2>4. CASE Schedule
    BY <2>4, ScheduleSteps
  <2>5. ASSUME NEW seconds \in 1..2, NEW overhead \in 0..1, NEW done \in SUBSET batch,
               Run(seconds, overhead, done)
        PROVE  PriorityInv' /\ WindowInv' /\ StepOK
    BY <2>5, RunSteps
  <2>6. CASE Tick
    BY <2>1, <2>6 DEF Tick
  <2>7. ASSUME NEW p \in Pid, NEW r \in Foreign, Elsewhere(p, r, 2, 2)
        PROVE  PriorityInv' /\ WindowInv' /\ StepOK
    BY <2>1, <2>7 DEF Elsewhere
  <2>8. CASE UNCHANGED vars
    BY <2>1, <2>8 DEF vars
  <2> QED BY <2>2, <2>3, <2>4, <2>5, <2>6, <2>7, <2>8 DEF Next
<1> QED BY <1>1, <1>2 DEF SchedulerInv

\* The invariant of accounting, order and window holds in every reachable state.
THEOREM SchedulerInvariant == Spec => []SchedulerInv
<1>1. SchedulerInv /\ [Next]_vars => SchedulerInv'
  BY NextScheduler
<1> QED BY InitScheduler, <1>1, PTL DEF Spec

\* DecodeWithinCapacity: a batch that decodes is of active calls and no more than Capacity,
\* whichever reserves are prepared, swapped or left meanwhile.
THEOREM DecodingFits == Spec => []DecodeWithinCapacity
<1>1. SchedulerInv => DecodeWithinCapacity
  BY DEF SchedulerInv, WindowInv
<1> QED BY <1>1, SchedulerInvariant, PTL

\* FifoWithinQueue: however many calls a refresh demotes and promotes at once, calls that meet
\* in a queue keep their order, and those that moved in stand behind the others.
THEOREM QueuesAreFifo == Spec => FifoWithinQueue
<1>1. SchedulerInv /\ [Next]_vars =>
      [\A r, d \in DOMAIN calls \cap DOMAIN calls' :
          LET moved(x) == \/ calls'[x].queue # calls[x].queue
                          \/ calls'[x].quantum > calls[x].quantum
          IN  /\ r # d
              /\ calls'[r].queue = calls'[d].queue
              /\ IF moved(r) = moved(d) THEN KeyLess(calls[r], calls[d]) ELSE moved(d)
              => KeyLess(calls'[r], calls'[d])]_vars
  BY NextScheduler DEF StepOK, Fifo, Moved
<1> QED BY <1>1, SchedulerInvariant, PTL DEF Spec, FifoWithinQueue

\* WindowStartsByPriority: no call outside a new window goes before one inside.
THEOREM WindowsStartByPriority == Spec => WindowStartsByPriority
<1>1. SchedulerInv /\ [Next]_vars => [StartsByPriority]_vars
  BY NextScheduler DEF StepOK
<1> QED BY <1>1, SchedulerInvariant, PTL DEF Spec, WindowStartsByPriority, StartsByPriority

\* PlanFrozen: until its boundary a window gains no call, and no call changes its queue.
THEOREM PlansAreFrozen == Spec => PlanFrozen
<1>1. SchedulerInv /\ [Next]_vars => [Frozen]_vars
  BY NextScheduler DEF StepOK
<1> QED BY <1>1, SchedulerInvariant, PTL DEF Spec, PlanFrozen, Frozen

=============================================================================
