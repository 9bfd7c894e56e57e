----------------------- MODULE InferenceEngine_proofs -----------------------
(***************************************************************************)
(* The coordinator keeps its promises for any number of replicas, sessions *)
(* and calls, whatever worker processes do: the invariants of              *)
(* InferenceEngine, by one inductive invariant, and the refinement of      *)
(* CallService that rests on it.                                           *)
(***************************************************************************)
EXTENDS InferenceEngine, Common_proofs

-----------------------------------------------------------------------------
(* The shape of the state. *)

Placement == [at : Replica, failed : SUBSET Replica]
Session == [closing : BOOLEAN, engine : Replica \cup {NoReplica}, placed : SUBSET Placement]
Call == [pid : Pid, engine : Replica]
Settling == [id : Rid, pid : Pid, engine : Replica,
             kind : {"result", "cancelled", "error", "tokenized"}, done : BOOLEAN]
Command ==
    [op : {"add", "cancel"}, id : Rid, pid : Pid] \cup
    [op : {"tokenize"}, id : Query, pid : {None}] \cup
    [op : {"shutdown"}, id : {None}, pid : {None}]
Event ==
    [kind : {"result", "cancelled", "error"}, id : Rid] \cup
    [kind : {"tokenized", "error"}, id : Query] \cup
    [kind : {"ready", "fatal", "stopped"}, id : {None}]

CoordinatorType ==
    /\ sessions \in [DOMAIN sessions -> Session] /\ DOMAIN sessions \subseteq Pid
    /\ pending \in [DOMAIN pending -> Call] /\ DOMAIN pending \subseteq Rid
    /\ IsFiniteSet(DOMAIN pending)
    /\ future \in [Rid -> {"none", "waiting", "result", "error", "cancelled"}]
    /\ loads = [i \in Replica |-> Cardinality(PendingOn({i}))]
    /\ failed \subseteq Replica
    /\ ready \in [Replica -> {"waiting", "ok", "error"}]
    /\ rpc \in [DOMAIN rpc -> Replica] /\ DOMAIN rpc \subseteq Query
    /\ answer \in [Query -> {"none", "waiting", "tokens", "error", "timeout"}]
    /\ resolving \in Settling \cup {None}

ProcessType ==
    /\ commands \in [Replica -> Seq(Command)]
    /\ events \in [Replica -> Seq(Event)]
    /\ worker \in [Replica -> {"starting", "serving", "failing", "closing", "exited"}]
    /\ calls = [i \in Replica |-> calls[i]]
    /\ \A i \in Replica : calls[i] \in [DOMAIN calls[i] -> Pid] /\ DOMAIN calls[i] \subseteq Rid

-----------------------------------------------------------------------------
(* The inductive invariant. *)

Asked(i) == Range(commands[i])
Told(i) == Range(events[i])

\* A worker past its loop is asked nothing; one that said goodbye, or was found failed,
\* is past its loop for good; and shutdown ends when all have exited.
Phases ==
    /\ \A i \in Replica : ~Reads(i) => commands[i] = << >>
    /\ \A i \in Replica :
        i \in failed \/ (\E e \in Told(i) : e.kind \in {"fatal", "stopped"})
            => worker[i] \in {"closing", "exited"}
    /\ stopping \in {"final", "done"} =>
        /\ failed = Replica
        /\ \A i \in Replica : worker[i] = "exited"
    /\ \A i \in failed : ready[i] # "waiting"
    /\ closed <=> stopping = "done"
    /\ closed => DOMAIN pending = {} /\ DOMAIN sessions = {} /\ resolving = None

\* A request is known at one replica only: the coordinator never moves it, and whatever is
\* said of it is said to or by that replica.
Knows(i, r) ==
    \/ r \in DOMAIN calls[i]
    \/ \E c \in Asked(i) : c.id = r
    \/ \E e \in Told(i) : e.id = r
    \/ r \in DOMAIN pending /\ pending[r].engine = i
    \/ r \in InHand /\ resolving.engine = i

OneReplica ==
    /\ \A r \in Rid, i, j \in Replica : Knows(i, r) /\ Knows(j, r) => i = j
    /\ \A r \in Rid, i \in Replica : future[r] = "none" => ~Knows(i, r)

\* submit: the call is pending and nothing was done about it while its command waits, which
\* is the first about the request.
AddFirst(s) ==
    \A m, n \in DOMAIN s : m < n /\ s[m].id = s[n].id => s[n].op # "add"
Dispatch ==
    \A i \in Replica :
        /\ AddFirst(commands[i])
        /\ \A c \in Asked(i) : c.op = "add" =>
            /\ c.id \in DOMAIN pending /\ pending[c.id].pid = c.pid
            /\ c.id \notin DOMAIN calls[i]
            /\ \A e \in Told(i) : e.id # c.id

\* What a worker says of a request it says when it has let it go.
Answered ==
    \A i \in Replica : \A e \in Told(i) :
        e.id \notin DOMAIN calls[i] /\ e.id \notin DOMAIN table.requests

\* A call that runs and is not resolved has its row, and is not resolved before it ended
\* unless its replica failed.  The row outlives the process only while it is pending.
Running ==
    \A i \in Replica : \A r \in DOMAIN calls[i] :
        /\ r \in DOMAIN pending =>
               r \in RowsOf(table, pending[r].pid) /\ calls[i][r] = pending[r].pid
        /\ i \notin failed => r \in DOMAIN pending
Rows ==
    \A r \in DOMAIN table.requests :
        /\ r \in DOMAIN pending /\ table.requests[r] = pending[r].pid
        /\ \/ r \in DOMAIN calls[pending[r].engine]
           \/ worker[pending[r].engine] = "exited"

\* contexts and activity, the sessions and their programs.
Records ==
    /\ contexts \subseteq DOMAIN pending
    /\ activity = DOMAIN pending \cup InHand
Programs ==
    /\ DOMAIN sessions = DOMAIN table.programs
    /\ \A p \in DOMAIN table.programs : ~table.programs[p].closing
    /\ \A r \in DOMAIN pending : pending[r].pid \in DOMAIN sessions
    /\ \A p \in DOMAIN sessions :
        sessions[p].closing =>
            \/ \E r \in DOMAIN pending : pending[r].pid = p
            \/ resolving # None /\ resolving.pid = p

\* What is left to settle.
Settlement ==
    /\ InHand \cap DOMAIN pending = {}
    /\ resolving # None /\ resolving.done => future[resolving.id] # "waiting"
    /\ PendingOn(failed) = failing

EngineInv ==
    /\ CoordinatorType /\ ProcessType /\ TableInv(table)
    /\ Phases /\ OneReplica /\ Dispatch /\ Answered /\ Running /\ Rows
    /\ Records /\ Programs /\ Settlement /\ NoFutureForgotten

-----------------------------------------------------------------------------
(* Queues. *)

\* Putting on a queue adds one element.
LEMMA AppendView ==
    ASSUME NEW S, NEW s \in Seq(S), NEW e \in S
    PROVE  /\ Append(s, e) \in Seq(S)
           /\ Range(Append(s, e)) = Range(s) \cup {e}
<1>1. Append(s, e) \in Seq(S)
  OBVIOUS
<1>2. DOMAIN Append(s, e) = 1 .. Len(s) + 1 /\ DOMAIN s = 1 .. Len(s) /\ Len(s) \in Nat
  OBVIOUS
<1>3. Append(s, e)[Len(s) + 1] = e /\ \A n \in 1 .. Len(s) : Append(s, e)[n] = s[n]
  OBVIOUS
<1>4. Range(Append(s, e)) \subseteq Range(s) \cup {e}
  BY DEF Range
<1>5. Range(s) \cup {e} \subseteq Range(Append(s, e))
  BY <1>2, <1>3 DEF Range
<1> QED BY <1>1, <1>4, <1>5

\* Getting from a queue gives one of its elements and leaves the others.
LEMMA TailView ==
    ASSUME NEW S, NEW s \in Seq(S), s # << >>
    PROVE  /\ Tail(s) \in Seq(S) /\ Head(s) \in Range(s)
           /\ Range(Tail(s)) \subseteq Range(s)
<1>1. 1 \in DOMAIN s /\ Head(s) = s[1]
  OBVIOUS
<1>2. \A n \in DOMAIN Tail(s) : n + 1 \in DOMAIN s /\ Tail(s)[n] = s[n + 1]
  OBVIOUS
<1> QED BY <1>1, <1>2 DEF Range

\* A process that dies leaves a prefix of what it put.
LEMMA PrefixView ==
    ASSUME NEW S, NEW s \in Seq(S), NEW n \in 0..Len(s)
    PROVE  /\ SubSeq(s, 1, n) \in Seq(S)
           /\ Range(SubSeq(s, 1, n)) \subseteq Range(s)
<1>1. \A m \in DOMAIN SubSeq(s, 1, n) : m \in DOMAIN s /\ SubSeq(s, 1, n)[m] = s[m]
  OBVIOUS
<1> QED BY <1>1 DEF Range

\* What a typed queue holds.
LEMMA RangeType ==
    ASSUME NEW S, NEW s \in Seq(S)
    PROVE  Range(s) \subseteq S
BY DEF Range

\* An `add' may be put as long as nothing was said of its request.
LEMMA AddFirstAppend ==
    ASSUME NEW S, NEW s \in Seq(S), NEW e \in S, AddFirst(s),
           e.op = "add" => \A c \in Range(s) : c.id # e.id
    PROVE  AddFirst(Append(s, e))
BY DEF AddFirst, Range

\* Once the first command about a request is taken, no `add' of it follows.
LEMMA AddFirstTail ==
    ASSUME NEW S, NEW s \in Seq(S), s # << >>, AddFirst(s)
    PROVE  /\ AddFirst(Tail(s))
           /\ \A c \in Range(Tail(s)) : c.op = "add" => c.id # Head(s).id
<1>1. 1 \in DOMAIN s /\ Head(s) = s[1]
  OBVIOUS
<1>2. \A n \in DOMAIN Tail(s) : n \in Nat /\ n >= 1 /\ n + 1 \in DOMAIN s /\ Tail(s)[n] = s[n + 1]
  OBVIOUS
<1>3. AddFirst(Tail(s))
  BY <1>2 DEF AddFirst
<1>4. \A c \in Range(Tail(s)) : c.op = "add" => c.id # Head(s).id
  BY <1>1, <1>2 DEF AddFirst, Range
<1> QED BY <1>3, <1>4

-----------------------------------------------------------------------------
(* The least loaded replica. *)

\* _least_loaded chooses a replica in service, if there is one.
LEMMA LeastLoadedHealthy ==
    ASSUME CoordinatorType, Healthy # {}
    PROVE  LeastLoaded \in Healthy
<1>1. Healthy \subseteq Nat /\ \A i \in Healthy : loads[i] \in Nat
  <2>1. \A i \in Replica : IsFiniteSet(PendingOn({i}))
    BY FS_Subset DEF PendingOn, CoordinatorType
  <2>2. \A i \in Replica : loads[i] \in Nat
    BY <2>1, FS_CardinalityType DEF CoordinatorType
  <2> QED BY <2>2, ReplicaAssumption DEF Healthy
<1>2. PICK i \in Healthy : \A j \in Healthy : loads[i] <= loads[j]
  <2> DEFINE L == {loads[i] : i \in Healthy}
  <2>1. PICK m \in L : \A n \in L : m <= n
    <3>1. L \subseteq Nat /\ L # {}
      BY <1>1
    <3> HIDE DEF L
    <3> QED BY <3>1, LeastNat
  <2> QED BY <2>1
<1>3. PICK k \in Healthy : loads[k] = loads[i] /\ \A j \in Healthy : loads[j] = loads[i] => k <= j
  <2> DEFINE B == {j \in Healthy : loads[j] = loads[i]}
  <2>1. PICK m \in B : \A n \in B : m <= n
    <3>1. B \subseteq Nat /\ B # {}
      BY <1>1
    <3> HIDE DEF B
    <3> QED BY <3>1, LeastNat
  <2> QED BY <2>1
<1>4. \A j \in Healthy : loads[k] < loads[j] \/ (loads[k] = loads[j] /\ k <= j)
  BY <1>1, <1>2, <1>3
<1> QED BY <1>4 DEF LeastLoaded

-----------------------------------------------------------------------------
(* The table's transactions, on a table without closing programs. *)

NoneClosing(t) == \A p \in DOMAIN t.programs : ~t.programs[p].closing

\* open: one more program, which is not closing.
LEMMA OpenView ==
    ASSUME NEW t, NEW p \in Pid, TableInv(t), NoneClosing(t), CanOpen(t, p)
    PROVE  /\ TableInv(OpenIn(t, p)) /\ NoneClosing(OpenIn(t, p))
           /\ DOMAIN OpenIn(t, p).programs = DOMAIN t.programs \cup {p}
           /\ OpenIn(t, p).requests = t.requests
<1>1. TableInv(OpenIn(t, p))
  BY OpenKeepsInv
<1> QED BY <1>1 DEF OpenIn, Put, NewProgram, NoneClosing

\* admit: one more row, the others as they were.
LEMMA AdmitView ==
    ASSUME NEW t, NEW p \in Pid, NEW r \in Rid, TableInv(t), NoneClosing(t), CanAdmit(t, p, r)
    PROVE  /\ TableInv(AdmitTo(t, p, r)) /\ NoneClosing(AdmitTo(t, p, r))
           /\ DOMAIN AdmitTo(t, p, r).programs = DOMAIN t.programs
           /\ DOMAIN AdmitTo(t, p, r).requests = DOMAIN t.requests \cup {r}
           /\ AdmitTo(t, p, r).requests[r] = p
           /\ \A s \in DOMAIN t.requests : AdmitTo(t, p, r).requests[s] = t.requests[s]
<1>1. TableInv(AdmitTo(t, p, r))
  BY AdmitKeepsInv
<1>2. \A q \in DOMAIN t.programs : t.programs[q] \in Program
  BY DEF TableInv, TableType
<1> QED BY <1>1, <1>2 DEF AdmitTo, Put, NoneClosing, CanAdmit, Program

\* A finish removes the row it is for and no program.
LEMMA ReleaseView ==
    ASSUME NEW t, NEW p \in Pid, NEW r \in Rid, TableInv(t), NoneClosing(t)
    PROVE  /\ TableInv(Release(t, p, r)) /\ NoneClosing(Release(t, p, r))
           /\ DOMAIN Release(t, p, r).programs = DOMAIN t.programs
           /\ DOMAIN Release(t, p, r).requests =
                  IF r \in RowsOf(t, p) THEN DOMAIN t.requests \ {r} ELSE DOMAIN t.requests
           /\ \A s \in DOMAIN Release(t, p, r).requests :
                  Release(t, p, r).requests[s] = t.requests[s]
<1>1. TableInv(Release(t, p, r))
  BY FinishKeepsInv DEF Release
<1>2. CASE r \notin RowsOf(t, p)
  BY <1>1, <1>2 DEF Release, FinishIn, RemovesRow
<1>3. CASE r \in RowsOf(t, p)
  <2> DEFINE u == [programs |-> [t.programs EXCEPT
                      ![p].service = Charge(@, 0, 0),
                      ![p].wait    = @ + 0,
                      ![p].active  = @ - 1],
                   requests |-> Drop(t.requests, r)]
  <2>1. p \in DOMAIN t.programs /\ t.programs[p] \in Program
    BY <1>3 DEF RowsOf, TableInv, TableType, ActiveIsRows
  <2>2. ~u.programs[p].closing /\ DOMAIN u.programs = DOMAIN t.programs /\ NoneClosing(u)
    BY <2>1 DEF NoneClosing, Program
  <2>3. u.requests = [s \in DOMAIN t.requests \ {r} |-> t.requests[s]]
    BY DEF Drop, Restrict
  <2>4. Release(t, p, r) = u
    <3> HIDE DEF u
    <3>1. DropDrained(u, p) = u
      BY <2>2 DEF DropDrained
    <3> QED BY <3>1, <1>3 DEF Release, FinishIn, RemovesRow, u
  <2> QED BY <1>1, <1>3, <2>2, <2>3, <2>4
<1> QED BY <1>2, <1>3

\* A program without rows leaves at once when it is ended.
LEMMA EndView ==
    ASSUME NEW t, NEW p \in DOMAIN t.programs, TableInv(t), NoneClosing(t), RowsOf(t, p) = {}
    PROVE  /\ TableInv(EndIn(t, p)) /\ NoneClosing(EndIn(t, p))
           /\ DOMAIN EndIn(t, p).programs = DOMAIN t.programs \ {p}
           /\ EndIn(t, p).requests = t.requests
<1> DEFINE u == [programs |-> [t.programs EXCEPT ![p].closing = TRUE],
                 requests |-> t.requests]
<1>1. TableInv(EndIn(t, p))
  BY EndKeepsInv
<1>2. t.programs[p] \in Program /\ t.programs[p].active = 0
  BY FS_EmptySet DEF TableInv, TableType, ActiveIsRows
<1>3. u.programs[p].closing /\ u.programs[p].active = 0
      /\ DOMAIN u.programs = DOMAIN t.programs
      /\ \A q \in DOMAIN t.programs \ {p} : u.programs[q] = t.programs[q]
  BY <1>2 DEF Program
<1>4. EndIn(t, p) = [programs |-> Drop(u.programs, p), requests |-> t.requests]
  BY <1>3 DEF EndIn, DropDrained
<1> HIDE DEF u
<1> QED BY <1>1, <1>3, <1>4 DEF Drop, Restrict, NoneClosing

-----------------------------------------------------------------------------
(* The queues of the replicas. *)

\* A command reaches the replica it is for, if that still reads.
LEMMA SendView ==
    ASSUME ProcessType, NEW i \in Replica, NEW op, NEW id, NEW p,
           [op |-> op, id |-> id, pid |-> p] \in Command
    PROVE  /\ Send(i, op, id, p) \in [Replica -> Seq(Command)]
           /\ \A j \in Replica : \A c \in Range(Send(i, op, id, p)[j]) :
                  \/ c \in Asked(j)
                  \/ j = i /\ Reads(i) /\ c = [op |-> op, id |-> id, pid |-> p]
           /\ \A j \in Replica : ~Reads(j) => Send(i, op, id, p)[j] = commands[j]
<1> DEFINE c == [op |-> op, id |-> id, pid |-> p]
<1>1. Append(commands[i], c) \in Seq(Command)
      /\ Range(Append(commands[i], c)) = Range(commands[i]) \cup {c}
  BY AppendView DEF ProcessType
<1> HIDE DEF c
<1>3. Send(i, op, id, p) = IF Reads(i) THEN [commands EXCEPT ![i] = Append(commands[i], c)]
                           ELSE commands
  BY DEF Send, c
<1> QED BY <1>1, <1>3 DEF ProcessType, Asked, c

\* A command about a request that its replica was not asked about keeps AddFirst.
LEMMA SendAdds ==
    ASSUME ProcessType, NEW i \in Replica, NEW op, NEW id, NEW p,
           [op |-> op, id |-> id, pid |-> p] \in Command,
           \A j \in Replica : AddFirst(commands[j]),
           op = "add" => \A c \in Asked(i) : c.id # id
    PROVE  \A j \in Replica : AddFirst(Send(i, op, id, p)[j])
<1> DEFINE c == [op |-> op, id |-> id, pid |-> p]
<1>1. AddFirst(Append(commands[i], c))
  BY AddFirstAppend DEF ProcessType, Asked
<1> HIDE DEF c
<1>2. Send(i, op, id, p) = IF Reads(i) THEN [commands EXCEPT ![i] = Append(commands[i], c)]
                           ELSE commands
  BY DEF Send, c
<1> QED BY <1>1, <1>2 DEF ProcessType

\* An event is put last by the worker that reports it.
LEMMA ReportView ==
    ASSUME ProcessType, NEW i \in Replica, NEW kind, NEW id, [kind |-> kind, id |-> id] \in Event
    PROVE  /\ Report(i, kind, id) \in [Replica -> Seq(Event)]
           /\ \A j \in Replica : \A e \in Range(Report(i, kind, id)[j]) :
                  \/ e \in Told(j)
                  \/ j = i /\ e = [kind |-> kind, id |-> id]
<1> DEFINE e == [kind |-> kind, id |-> id]
<1>1. Append(events[i], e) \in Seq(Event)
      /\ Range(Append(events[i], e)) = Range(events[i]) \cup {e}
  BY AppendView DEF ProcessType
<1> HIDE DEF e
<1>2. Report(i, kind, id) = [events EXCEPT ![i] = Append(events[i], e)]
  BY DEF Report, e
<1> QED BY <1>1, <1>2 DEF ProcessType, Told, e

-----------------------------------------------------------------------------
(* Client threads. *)

\* submit: nothing was known of the new request, and the command is its first.
LEMMA SubmitKeepsInv ==
    ASSUME EngineInv, NEW p \in Pid, NEW r \in Rid, NEW long \in BOOLEAN, Submit(p, r, long)
    PROVE  EngineInv'
<1> DEFINE i == Index(p, long)
           call == [pid |-> p, engine |-> i]
<1> USE DEF EngineInv
<1>1. i \in Healthy /\ i \in Replica
  BY LeastLoadedHealthy DEF Submit, Index, Healthy
<1>2. resolving = None /\ failing = {} /\ InHand = {} /\ InHand' = {} /\ stopping # "done"
  BY DEF Submit, LockFree, InHand, Phases, holder
<1>3. \A j \in Replica : ~Knows(j, r)
  BY DEF Submit, OneReplica
<1>4. r \notin DOMAIN pending
  BY <1>3 DEF Knows, CoordinatorType, Call
<1>5. /\ pending' = Put(pending, r, call) /\ commands' = Send(i, "add", r, p)
      /\ loads' = [loads EXCEPT ![i] = @ + 1]
      /\ contexts' = contexts \cup {r} /\ activity' = activity \cup {r}
      /\ future' = [future EXCEPT ![r] = "waiting"]
      /\ sessions' = IF long
                     THEN [sessions EXCEPT ![p].engine = i,
                               ![p].placed = @ \cup {[at |-> i, failed |-> failed]}]
                     ELSE sessions
      /\ p \in DOMAIN sessions /\ ~sessions[p].closing /\ future[r] = "none"
      /\ ~closed /\ stopping # "final"
      /\ UNCHANGED << failed, ready, closed, rpc, answer, failing, resolving, stopping,
                      events, worker, calls, table >>
  BY DEF Submit, holder, LockFree
<1> HIDE DEF i
<1>6. /\ DOMAIN pending' = DOMAIN pending \cup {r} /\ pending'[r] = call
      /\ \A s \in DOMAIN pending : s # r /\ pending'[s] = pending[s]
  BY <1>4, <1>5 DEF Put
<1>7. /\ commands' \in [Replica -> Seq(Command)]
      /\ \A j \in Replica : \A c \in Asked(j)' :
             \/ c \in Asked(j)
             \/ j = i /\ c = [op |-> "add", id |-> r, pid |-> p]
      /\ \A j \in Replica : ~Reads(j) => commands'[j] = commands[j]
  <2>1. [op |-> "add", id |-> r, pid |-> p] \in Command
    BY DEF Command
  <2> QED BY <1>1, <1>5, <2>1, SendView DEF Asked
<1>8. DOMAIN sessions' = DOMAIN sessions
      /\ \A q \in DOMAIN sessions : sessions'[q].closing = sessions[q].closing
      /\ sessions' \in [DOMAIN sessions -> Session]
  <2>1. [at |-> i, failed |-> failed] \in Placement
    BY <1>1 DEF Placement, CoordinatorType
  <2> QED BY <1>1, <1>5, <2>1 DEF CoordinatorType, Session
<1>11. CoordinatorType'
  <2>1. \A j \in Replica :
          PendingOn({j})' = IF j = i THEN PendingOn({j}) \cup {r} ELSE PendingOn({j})
    BY <1>6 DEF PendingOn
  <2>2. \A j \in Replica : IsFiniteSet(PendingOn({j})) /\ r \notin PendingOn({j})
    BY <1>4, FS_Subset DEF PendingOn, CoordinatorType
  <2>3. Cardinality(PendingOn({i}) \cup {r}) = Cardinality(PendingOn({i})) + 1
    BY <1>1, <2>2, FS_AddElement
  <2>4. loads' = [j \in Replica |-> Cardinality(PendingOn({j}))']
    BY <1>1, <1>5, <2>1, <2>3 DEF CoordinatorType
  <2>5. pending' \in [DOMAIN pending' -> Call] /\ DOMAIN pending' \subseteq Rid
    BY <1>1, <1>6, <1>5 DEF CoordinatorType, Call, Put
  <2>6. IsFiniteSet(DOMAIN pending')
    BY <1>6, FS_AddElement DEF CoordinatorType
  <2> QED BY <1>5, <1>8, <2>4, <2>5, <2>6 DEF CoordinatorType
<1>12. ProcessType'
  BY <1>5, <1>7 DEF ProcessType
<1>13. TableInv(table)'
  BY <1>5
<1>14. Phases'
  BY <1>5, <1>7, <1>2 DEF Phases, Reads, Told
<1>15. OneReplica'
  <2>1. \A s \in Rid, j \in Replica : Knows(j, s)' => Knows(j, s) \/ (s = r /\ j = i)
    BY <1>5, <1>6, <1>7, <1>2 DEF Knows, Told
  <2>2. \A s \in Rid : future'[s] = "none" => future[s] = "none" /\ s # r
    BY <1>5 DEF CoordinatorType
  <2> QED BY <1>3, <2>1, <2>2 DEF OneReplica
<1>16. Dispatch'
  <2>1. \A c \in Asked(i) : c.id # r
    BY <1>1, <1>3 DEF Knows
  <2>2. \A j \in Replica : AddFirst(commands'[j])
    <3>1. [op |-> "add", id |-> r, pid |-> p] \in Command
      BY DEF Command
    <3> QED BY <1>1, <1>5, <2>1, <3>1, SendAdds DEF Dispatch
  <2>3. r \notin DOMAIN calls[i] /\ \A e \in Told(i) : e.id # r
    BY <1>1, <1>3 DEF Knows
  <2> QED BY <1>5, <1>6, <1>7, <2>2, <2>3 DEF Dispatch, Told
<1>17. Answered' /\ Running' /\ Rows'
  <2>1. r \notin DOMAIN table.requests /\ \A j \in Replica : r \notin DOMAIN calls[j]
    BY <1>4, <1>3 DEF Rows, Knows
  <2>2. Answered'
    BY <1>5 DEF Answered, Told
  <2>3. Running'
    BY <1>5, <1>6, <2>1 DEF Running
  <2>4. Rows'
    BY <1>5, <1>6, <2>1 DEF Rows
  <2> QED BY <2>2, <2>3, <2>4
<1>18. Records'
  BY <1>5, <1>6, <1>2 DEF Records
<1>19. Programs'
  BY <1>5, <1>6, <1>8 DEF Programs
<1>20. Settlement'
  BY <1>1, <1>2, <1>5, <1>6 DEF Settlement, PendingOn, Healthy
<1>21. NoFutureForgotten'
  BY <1>2, <1>5, <1>6 DEF NoFutureForgotten, Healthy, CoordinatorType
<1> QED BY <1>11, <1>12, <1>13, <1>14, <1>15, <1>16, <1>17, <1>18, <1>19, <1>20, <1>21

\* _cleanup_session drops a session that was ended when its last call is resolved, and then
\* no row keeps its program.
LEMMA CleanupView ==
    ASSUME EngineInv, NEW p, NEW s, DOMAIN s = DOMAIN sessions, s \in [DOMAIN s -> Session],
           Cleanup(table, s, p, DOMAIN pending)
    PROVE  /\ DOMAIN sessions' =
                  {q \in DOMAIN s : q = p /\ s[q].closing =>
                                        \E r \in DOMAIN pending : pending[r].pid = q}
           /\ sessions' \in [DOMAIN sessions' -> Session]
           /\ \A q \in DOMAIN sessions' : sessions'[q] = s[q]
           /\ TableInv(table') /\ NoneClosing(table')
           /\ DOMAIN table'.programs = DOMAIN sessions'
           /\ table'.requests = table.requests
<1>1. TableInv(table) /\ NoneClosing(table) /\ DOMAIN table.programs = DOMAIN s
  BY DEF EngineInv, Programs, NoneClosing
<1>2. CASE p \in DOMAIN s /\ s[p].closing /\ ~\E r \in DOMAIN pending : pending[r].pid = p
  <2>1. RowsOf(table, p) = {}
    BY <1>2 DEF RowsOf, EngineInv, Rows
  <2>2. sessions' = Drop(s, p) /\ table' = EndIn(table, p)
    BY <1>2 DEF Cleanup
  <2>3. TableInv(table') /\ NoneClosing(table') /\ table'.requests = table.requests
        /\ DOMAIN table'.programs = DOMAIN table.programs \ {p}
    BY <1>1, <1>2, <2>1, <2>2, EndView
  <2> QED BY <1>1, <1>2, <2>2, <2>3 DEF Drop, Restrict
<1>3. CASE ~(p \in DOMAIN s /\ s[p].closing /\ ~\E r \in DOMAIN pending : pending[r].pid = p)
  BY <1>1, <1>3 DEF Cleanup
<1> QED BY <1>2, <1>3

\* start_session: the program row is as new as the session.
LEMMA StartSessionKeepsInv ==
    ASSUME EngineInv, NEW p \in Pid, StartSession(p)
    PROVE  EngineInv'
<1> USE DEF EngineInv
<1>1. /\ ~closed /\ CanOpen(table, p) /\ table' = OpenIn(table, p)
      /\ sessions' = Put(sessions, p, [closing |-> FALSE, engine |-> NoReplica, placed |-> {}])
      /\ UNCHANGED << pending, future, loads, failed, ready, closed, rpc, answer, failing,
                      resolving, stopping, commands, events, worker, calls, contexts, activity >>
  BY DEF StartSession, holder, processes
<1>2. TableInv(table)' /\ NoneClosing(table)' /\ table'.requests = table.requests
      /\ DOMAIN table'.programs = DOMAIN table.programs \cup {p}
  BY <1>1, OpenView DEF NoneClosing, Programs
<1>3. DOMAIN sessions' = DOMAIN sessions \cup {p} /\ ~sessions'[p].closing
      /\ \A q \in DOMAIN sessions : q # p /\ sessions'[q] = sessions[q]
  BY <1>1 DEF Put, CanOpen, Programs
<1>4. CoordinatorType'
  <2>1. sessions' \in [DOMAIN sessions' -> Session] /\ DOMAIN sessions' \subseteq Pid
    BY <1>1 DEF Put, CoordinatorType, Session
  <2> QED BY <1>1, <2>1 DEF CoordinatorType, PendingOn
<1>5. ProcessType' /\ Phases'
  BY <1>1 DEF ProcessType, Phases, Reads, Told
<1>6. OneReplica'
  BY <1>1 DEF OneReplica, Knows, Asked, Told, InHand
<1>7. Dispatch' /\ Records' /\ Settlement' /\ NoFutureForgotten'
  BY <1>1 DEF Dispatch, Records, Settlement, NoFutureForgotten, Asked, Told, InHand, PendingOn,
                Healthy
<1>8. Answered' /\ Running' /\ Rows'
  BY <1>1, <1>2 DEF Answered, Running, Rows, RowsOf, Told
<1>9. Programs'
  BY <1>1, <1>2, <1>3 DEF Programs, NoneClosing
<1> QED BY <1>2, <1>4, <1>5, <1>6, <1>7, <1>8, <1>9

\* What end_session, _cleanup_session and the final shutdown do to a session.
LEMMA EndingKeepsInv ==
    ASSUME EngineInv, NEW p \in DOMAIN sessions, resolving = None,
           Cleanup(table, [sessions EXCEPT ![p].closing = TRUE], p, DOMAIN pending),
           UNCHANGED << pending, future, loads, failed, ready, closed, rpc, answer, holder,
                        processes, contexts, activity >>
    PROVE  EngineInv'
<1> DEFINE s == [sessions EXCEPT ![p].closing = TRUE]
<1> USE DEF EngineInv
<1>1. DOMAIN s = DOMAIN sessions /\ s \in [DOMAIN s -> Session] /\ s[p].closing
      /\ \A q \in DOMAIN sessions \ {p} : s[q] = sessions[q]
  BY DEF CoordinatorType, Session
<1> HIDE DEF s
<1>2. Cleanup(table, s, p, DOMAIN pending)
  BY DEF s
<1>3. /\ DOMAIN sessions' =
             {q \in DOMAIN s : q = p /\ s[q].closing =>
                                    \E r \in DOMAIN pending : pending[r].pid = q}
      /\ sessions' \in [DOMAIN sessions' -> Session]
      /\ \A q \in DOMAIN sessions' : sessions'[q] = s[q]
      /\ TableInv(table)' /\ NoneClosing(table)'
      /\ DOMAIN table'.programs = DOMAIN sessions'
      /\ table'.requests = table.requests
  BY <1>1, <1>2, CleanupView
<1>4. UNCHANGED << pending, future, loads, failed, ready, closed, rpc, answer, failing,
                   resolving, stopping, commands, events, worker, calls, contexts, activity >>
  BY DEF holder, processes
<1>5. CoordinatorType'
  BY <1>1, <1>3, <1>4 DEF CoordinatorType, PendingOn
<1>6. ProcessType' /\ Phases'
  BY <1>1, <1>3, <1>4 DEF ProcessType, Phases, Reads, Told
<1>7. OneReplica'
  BY <1>4 DEF OneReplica, Knows, Asked, Told, InHand
<1>8. Dispatch' /\ Records' /\ Settlement' /\ NoFutureForgotten'
  BY <1>4 DEF Dispatch, Records, Settlement, NoFutureForgotten, Asked, Told, InHand, PendingOn,
                Healthy
<1>9. Answered' /\ Running' /\ Rows'
  BY <1>3, <1>4 DEF Answered, Running, Rows, RowsOf, Told
<1>10. Programs'
  BY <1>1, <1>3, <1>4 DEF Programs, NoneClosing
<1> QED BY <1>3, <1>5, <1>6, <1>7, <1>8, <1>9, <1>10

\* end_session, by a client.
LEMMA EndSessionKeepsInv ==
    ASSUME EngineInv, NEW p \in Pid, EndSession(p)
    PROVE  EngineInv'
BY EndingKeepsInv DEF EndSession, LockFree

\* end_session, by shutdown.
LEMMA ShutdownSessionKeepsInv ==
    ASSUME EngineInv, NEW p \in Pid, ShutdownSession(p)
    PROVE  EngineInv'
BY EndingKeepsInv DEF ShutdownSession, Released

\* Future.cancel tells the replica that knows the request.
LEMMA CancelFutureKeepsInv ==
    ASSUME EngineInv, NEW r \in Rid, CancelFuture(r)
    PROVE  EngineInv'
<1> DEFINE item == IF r \in DOMAIN pending THEN pending[r] ELSE resolving
           i == item.engine
           p == item.pid
<1> USE DEF EngineInv
<1>1. i \in Replica /\ p \in Pid /\ Knows(i, r)
  BY DEF CancelFuture, NoFutureForgotten, CoordinatorType, Call, Settling, Knows, InHand
<1>2. /\ future[r] = "waiting" /\ future' = [future EXCEPT ![r] = "cancelled"]
      /\ commands' = Send(i, "cancel", r, p)
      /\ UNCHANGED << sessions, pending, loads, failed, ready, closed, rpc, answer, failing,
                      resolving, stopping, events, worker, calls, table, contexts, activity >>
  BY DEF CancelFuture, holder, database
<1> HIDE DEF item, i, p
<1>3. [op |-> "cancel", id |-> r, pid |-> p] \in Command
  BY <1>1 DEF Command
<1>4. /\ commands' \in [Replica -> Seq(Command)]
      /\ \A j \in Replica : \A c \in Asked(j)' :
             \/ c \in Asked(j)
             \/ j = i /\ c = [op |-> "cancel", id |-> r, pid |-> p]
      /\ \A j \in Replica : ~Reads(j) => commands'[j] = commands[j]
      /\ \A j \in Replica : AddFirst(commands'[j])
  <2>1. \A j \in Replica : AddFirst(Send(i, "cancel", r, p)[j])
    BY <1>1, <1>3, SendAdds DEF Dispatch
  <2> QED BY <1>1, <1>2, <1>3, <2>1, SendView DEF Asked
<1>5. CoordinatorType'
  BY <1>2 DEF CoordinatorType, PendingOn
<1>6. ProcessType' /\ Phases'
  BY <1>2, <1>4 DEF ProcessType, Phases, Reads, Told
<1>7. OneReplica'
  <2>1. \A s \in Rid, j \in Replica : Knows(j, s)' => Knows(j, s)
    BY <1>1, <1>2, <1>4 DEF Knows, Told, InHand
  <2> QED BY <1>2, <2>1 DEF OneReplica, CoordinatorType
<1>8. Dispatch'
  BY <1>2, <1>4 DEF Dispatch, Told
<1>9. (Answered /\ Running /\ Rows /\ Records /\ Programs)'
  BY <1>2 DEF Answered, Running, Rows, RowsOf, Records, Programs, InHand, Told
<1>10. Settlement' /\ NoFutureForgotten'
  BY <1>2 DEF Settlement, NoFutureForgotten, InHand, PendingOn, Healthy, CoordinatorType, Settling
<1> QED BY <1>2, <1>5, <1>6, <1>7, <1>8, <1>9, <1>10

\* tokenize: it asks a replica in service.
LEMMA TokenizeKeepsInv ==
    ASSUME EngineInv, NEW q \in Query, Tokenize(q)
    PROVE  EngineInv'
<1> DEFINE i == LeastLoaded
<1> USE DEF EngineInv
<1>1. /\ i \in Healthy /\ i \in Replica
  BY LeastLoadedHealthy DEF Tokenize, Healthy
<1>2. /\ rpc' = Put(rpc, q, i) /\ answer' = [answer EXCEPT ![q] = "waiting"]
      /\ commands' = Send(i, "tokenize", q, None)
      /\ UNCHANGED << sessions, pending, future, loads, failed, ready, closed, failing,
                      resolving, stopping, events, worker, calls, table, contexts, activity >>
  BY DEF Tokenize, holder, database
<1> HIDE DEF i
<1>3. [op |-> "tokenize", id |-> q, pid |-> None] \in Command /\ q \notin Rid
  BY QueryAssumption DEF Command
<1>4. /\ commands' \in [Replica -> Seq(Command)]
      /\ \A j \in Replica : \A c \in Asked(j)' :
             \/ c \in Asked(j)
             \/ j = i /\ c = [op |-> "tokenize", id |-> q, pid |-> None]
      /\ \A j \in Replica : ~Reads(j) => commands'[j] = commands[j]
      /\ \A j \in Replica : AddFirst(commands'[j])
  <2>1. \A j \in Replica : AddFirst(Send(i, "tokenize", q, None)[j])
    BY <1>1, <1>3, SendAdds DEF Dispatch
  <2> QED BY <1>1, <1>2, <1>3, <2>1, SendView DEF Asked
<1>5. CoordinatorType'
  BY <1>1, <1>2 DEF CoordinatorType, PendingOn, Put
<1>6. ProcessType' /\ Phases'
  BY <1>2, <1>4 DEF ProcessType, Phases, Reads, Told
<1>7. OneReplica'
  <2>1. \A s \in Rid, j \in Replica : Knows(j, s)' => Knows(j, s)
    BY <1>2, <1>3, <1>4 DEF Knows, Told, InHand
  <2> QED BY <1>2, <2>1 DEF OneReplica
<1>8. Dispatch'
  BY <1>2, <1>4 DEF Dispatch, Told
<1>9. (Answered /\ Running /\ Rows /\ Records /\ Programs)'
  BY <1>2 DEF Answered, Running, Rows, RowsOf, Records, Programs, InHand, Told
<1>10. Settlement' /\ NoFutureForgotten'
  BY <1>1, <1>2 DEF Settlement, NoFutureForgotten, InHand, PendingOn, Healthy, CoordinatorType, Put
<1> QED BY <1>2, <1>5, <1>6, <1>7, <1>8, <1>9, <1>10

\* tokenize: the caller stops waiting.
LEMMA TokenizeTimeoutKeepsInv ==
    ASSUME EngineInv, NEW q \in Query, TokenizeTimeout(q)
    PROVE  EngineInv'
<1> USE DEF EngineInv
<1>1. /\ rpc' = Drop(rpc, q) /\ answer' = [answer EXCEPT ![q] = "timeout"]
      /\ UNCHANGED << sessions, pending, future, loads, failed, ready, closed, failing,
                      resolving, stopping, commands, events, worker, calls, table, contexts,
                      activity >>
  BY DEF TokenizeTimeout, holder, processes, database
<1>2. CoordinatorType'
  BY <1>1 DEF CoordinatorType, PendingOn, Drop, Restrict
<1>3. ProcessType' /\ Phases'
  BY <1>1 DEF ProcessType, Phases, Reads, Told
<1>4. OneReplica'
  BY <1>1 DEF OneReplica, Knows, Asked, Told, InHand
<1>5. (Dispatch /\ Answered /\ Running /\ Rows)'
  BY <1>1 DEF Dispatch, Answered, Running, Rows, RowsOf, Asked, Told
<1>6. (Records /\ Programs /\ Settlement)'
  BY <1>1 DEF Records, Programs, Settlement, InHand, PendingOn
<1>7. NoFutureForgotten'
  BY <1>1 DEF NoFutureForgotten, InHand, Healthy, Drop, Restrict, CoordinatorType
<1> QED BY <1>1, <1>2, <1>3, <1>4, <1>5, <1>6, <1>7

\* shutdown, first part: every worker is told to stop.
LEMMA ShutdownKeepsInv ==
    ASSUME EngineInv, Shutdown
    PROVE  EngineInv'
<1> USE DEF EngineInv
<1>1. /\ ~closed /\ stopping' = "join"
      /\ commands' = [i \in Replica |-> Send(i, "shutdown", None, None)[i]]
      /\ UNCHANGED << sessions, pending, future, loads, failed, ready, closed, rpc, answer,
                      failing, resolving, events, worker, calls, table, contexts, activity >>
  BY DEF Shutdown, coordinator, database
<1>2. [op |-> "shutdown", id |-> None, pid |-> None] \in Command
  BY DEF Command
<1>3. ASSUME NEW j \in Replica
      PROVE  /\ commands'[j] \in Seq(Command)
             /\ \A c \in Asked(j)' : c \in Asked(j) \/ c = [op |-> "shutdown", id |-> None, pid |-> None]
             /\ ~Reads(j) => commands'[j] = commands[j]
             /\ AddFirst(commands'[j])
  <2>1. commands'[j] = Send(j, "shutdown", None, None)[j]
    BY <1>1
  <2>2. \A k \in Replica : AddFirst(Send(j, "shutdown", None, None)[k])
    BY <1>2, SendAdds DEF Dispatch
  <2> QED BY <1>2, <2>1, <2>2, SendView DEF Asked
<1>4. commands' \in [Replica -> Seq(Command)]
  BY <1>1, <1>3
<1>5. CoordinatorType'
  BY <1>1 DEF CoordinatorType, PendingOn
<1>6. ProcessType' /\ Phases'
  BY <1>1, <1>3, <1>4 DEF ProcessType, Phases, Reads, Told
<1>7. OneReplica'
  <2>1. \A s \in Rid, j \in Replica : Knows(j, s)' => Knows(j, s)
    BY <1>1, <1>3, NullAssumption DEF Knows, Told, InHand
  <2> QED BY <1>1, <2>1 DEF OneReplica
<1>8. Dispatch'
  BY <1>1, <1>3 DEF Dispatch, Told
<1>9. (Answered /\ Running /\ Rows /\ Records /\ Programs)'
  BY <1>1 DEF Answered, Running, Rows, RowsOf, Records, Programs, InHand, Told
<1>10. Settlement' /\ NoFutureForgotten'
  BY <1>1 DEF Settlement, NoFutureForgotten, InHand, PendingOn, Healthy
<1> QED BY <1>1, <1>5, <1>6, <1>7, <1>8, <1>9, <1>10

-----------------------------------------------------------------------------
(* Worker processes. *)

\* A step of a worker leaves the coordinator alone.
CoordinatorRests ==
    UNCHANGED << sessions, pending, future, loads, failed, ready, closed, rpc, answer, failing,
                 resolving, stopping, activity >>

\* What only speaks of the coordinator holds after a worker's step.
LEMMA CoordinatorRestsView ==
    ASSUME EngineInv, CoordinatorRests
    PROVE  CoordinatorType' /\ Settlement' /\ NoFutureForgotten' /\ InHand' = InHand
BY DEF EngineInv, CoordinatorRests, CoordinatorType, Settlement, NoFutureForgotten, InHand,
    PendingOn, Healthy

\* controller.finish: the call goes from the backend with its row, or was not there.
LEMMA FinishHeldView ==
    ASSUME EngineInv, NEW i \in Replica, NEW r \in Rid, FinishHeld(i, r), CoordinatorRests,
           UNCHANGED << worker, contexts >>
    PROVE  /\ calls' = [j \in Replica |-> calls'[j]]
           /\ \A j \in Replica : /\ calls'[j] \in [DOMAIN calls'[j] -> Pid]
                                 /\ DOMAIN calls'[j] \subseteq DOMAIN calls[j]
           /\ r \notin DOMAIN calls'[i]
           /\ DOMAIN table'.requests \subseteq DOMAIN table.requests
           /\ r \in DOMAIN calls[i] => r \notin DOMAIN table'.requests
           /\ TableInv(table)' /\ Running' /\ Rows' /\ Programs' /\ Records'
<1> USE DEF EngineInv
<1>1. calls = [j \in Replica |-> calls[j]]
      /\ \A j \in Replica : calls[j] \in [DOMAIN calls[j] -> Pid] /\ DOMAIN calls[j] \subseteq Rid
  BY DEF ProcessType
<1>2. /\ InHand' = InHand
      /\ UNCHANGED << sessions, pending, failed, resolving, activity, worker, contexts >>
  BY CoordinatorRestsView DEF CoordinatorRests
<1>3. CASE r \notin DOMAIN calls[i]
  <2>1. UNCHANGED << table, calls >>
    BY <1>3 DEF FinishHeld
  <2> QED BY <1>1, <1>2, <1>3, <2>1 DEF Running, Rows, RowsOf, Programs, Records
<1>4. CASE r \in DOMAIN calls[i]
  <2> DEFINE p == calls[i][r]
  <2>1. table' = Release(table, p, r) /\ calls' = [calls EXCEPT ![i] = Drop(@, r)] /\ p \in Pid
    BY <1>1, <1>4 DEF FinishHeld
  <2>2. /\ DOMAIN calls'[i] = DOMAIN calls[i] \ {r}
        /\ \A s \in DOMAIN calls'[i] : calls'[i][s] = calls[i][s]
        /\ \A j \in Replica \ {i} : calls'[j] = calls[j]
        /\ calls' = [j \in Replica |-> calls'[j]]
        /\ calls'[i] \in [DOMAIN calls'[i] -> Pid]
    BY <1>1, <2>1 DEF Drop, Restrict
  <2> HIDE DEF p
  <2>3. TableInv(table) /\ NoneClosing(table)
    BY DEF Programs, NoneClosing
  <2>4. r \in DOMAIN table.requests => r \in RowsOf(table, p)
    BY <1>4 DEF Rows, Running, RowsOf, p
  <2>5. /\ TableInv(table') /\ NoneClosing(table')
        /\ DOMAIN table'.programs = DOMAIN table.programs
        /\ DOMAIN table'.requests = DOMAIN table.requests \ {r}
        /\ \A s \in DOMAIN table'.requests : table'.requests[s] = table.requests[s]
    <3> DEFINE u == Release(table, p, r)
    <3>1. /\ TableInv(u) /\ NoneClosing(u)
          /\ DOMAIN u.programs = DOMAIN table.programs
          /\ \A s \in DOMAIN u.requests : u.requests[s] = table.requests[s]
      BY <2>1, <2>3, ReleaseView
    <3>2. DOMAIN u.requests =
             IF r \in RowsOf(table, p) THEN DOMAIN table.requests \ {r}
             ELSE DOMAIN table.requests
      BY <2>1, <2>3, ReleaseView
    <3>3. table' = u
      BY <2>1
    <3> HIDE DEF u
    <3> QED BY <2>4, <3>1, <3>2, <3>3
  <2>6. \A j \in Replica \ {i} : r \notin DOMAIN calls[j]
    BY <1>4 DEF OneReplica, Knows
  <2>7. Running'
    BY <1>2, <2>2, <2>5, <2>6 DEF Running, RowsOf
  <2>8. Rows'
    BY <1>2, <2>2, <2>5 DEF Rows, CoordinatorType, Call
  <2>9. Programs' /\ Records'
    BY <1>2, <2>5 DEF Programs, Records, NoneClosing
  <2> QED BY <1>1, <2>2, <2>5, <2>7, <2>8, <2>9
<1> QED BY <1>3, <1>4

\* A finished call: its row goes before its result is reported.
LEMMA CompleteKeepsInv ==
    ASSUME EngineInv, NEW i \in Replica, NEW r \in Rid, Complete(i, r)
    PROVE  EngineInv'
<1> USE DEF EngineInv
<1>1. /\ FinishHeld(i, r) /\ CoordinatorRests /\ UNCHANGED << worker, contexts, commands >>
      /\ r \in DOMAIN calls[i] /\ events' = Report(i, "result", r)
  BY DEF Complete, CoordinatorRests, coordinator, holder
<1>2. /\ calls' = [j \in Replica |-> calls'[j]]
      /\ \A j \in Replica : /\ calls'[j] \in [DOMAIN calls'[j] -> Pid]
                            /\ DOMAIN calls'[j] \subseteq DOMAIN calls[j]
      /\ r \notin DOMAIN calls'[i]
      /\ DOMAIN table'.requests \subseteq DOMAIN table.requests
      /\ r \notin DOMAIN table'.requests
      /\ TableInv(table)' /\ Running' /\ Rows' /\ Programs' /\ Records'
  BY <1>1, FinishHeldView
<1>3. CoordinatorType' /\ Settlement' /\ NoFutureForgotten' /\ InHand' = InHand
  BY <1>1, CoordinatorRestsView
<1>4. /\ events' \in [Replica -> Seq(Event)]
      /\ \A j \in Replica : \A e \in Told(j)' :
             \/ e \in Told(j)
             \/ j = i /\ e = [kind |-> "result", id |-> r]
  <2>1. [kind |-> "result", id |-> r] \in Event
    BY DEF Event
  <2> QED BY <1>1, <2>1, ReportView DEF Told
<1>5. ProcessType'
  BY <1>1, <1>2, <1>4 DEF ProcessType
<1>6. Phases'
  BY <1>1, <1>4 DEF Phases, Reads, CoordinatorRests
<1>7. OneReplica'
  <2>1. \A s \in Rid, j \in Replica : Knows(j, s)' => Knows(j, s)
    BY <1>1, <1>2, <1>3, <1>4 DEF Knows, Asked, CoordinatorRests
  <2> QED BY <1>1, <2>1 DEF OneReplica, CoordinatorRests
<1>8. Dispatch'
  BY <1>1, <1>2, <1>4 DEF Dispatch, Asked, CoordinatorRests
<1>9. Answered'
  BY <1>2, <1>4 DEF Answered
<1> QED BY <1>2, <1>3, <1>5, <1>6, <1>7, <1>8, <1>9

\* fail_all and close: the rows go with the calls.
LEMMA AbandonKeepsInv ==
    ASSUME EngineInv, NEW i \in Replica, NEW r \in Rid, Abandon(i, r)
    PROVE  EngineInv'
<1> USE DEF EngineInv
<1>1. /\ FinishHeld(i, r) /\ CoordinatorRests /\ UNCHANGED << worker, contexts, commands, events >>
  BY DEF Abandon, CoordinatorRests, coordinator, holder
<1>2. /\ calls' = [j \in Replica |-> calls'[j]]
      /\ \A j \in Replica : /\ calls'[j] \in [DOMAIN calls'[j] -> Pid]
                            /\ DOMAIN calls'[j] \subseteq DOMAIN calls[j]
      /\ DOMAIN table'.requests \subseteq DOMAIN table.requests
      /\ TableInv(table)' /\ Running' /\ Rows' /\ Programs' /\ Records'
  BY <1>1, FinishHeldView
<1>3. CoordinatorType' /\ Settlement' /\ NoFutureForgotten' /\ InHand' = InHand
  BY <1>1, CoordinatorRestsView
<1>4. ProcessType'
  BY <1>1, <1>2 DEF ProcessType
<1>5. Phases'
  BY <1>1 DEF Phases, Reads, CoordinatorRests, Told
<1>6. OneReplica'
  <2>1. \A s \in Rid, j \in Replica : Knows(j, s)' => Knows(j, s)
    BY <1>1, <1>2, <1>3 DEF Knows, Asked, Told, CoordinatorRests
  <2> QED BY <1>1, <2>1 DEF OneReplica, CoordinatorRests
<1>7. Dispatch' /\ Answered'
  BY <1>1, <1>2 DEF Dispatch, Answered, Asked, Told, CoordinatorRests
<1> QED BY <1>2, <1>3, <1>4, <1>5, <1>6, <1>7

\* The command that a worker takes is the first of its queue; no add of its request follows.
LEMMA NextCommand ==
    ASSUME EngineInv, NEW i \in Replica, commands[i] # << >>,
           commands' = IF Head(commands[i]).op = "shutdown" THEN Deaf(i)
                       ELSE [commands EXCEPT ![i] = Tail(@)]
    PROVE  /\ Head(commands[i]) \in Asked(i) /\ Head(commands[i]) \in Command
           /\ commands' \in [Replica -> Seq(Command)]
           /\ \A j \in Replica : Asked(j)' \subseteq Asked(j) /\ AddFirst(commands'[j])
           /\ \A j \in Replica : commands[j] = << >> => commands'[j] = << >>
           /\ \A c \in Asked(i)' : c.op = "add" => c.id # Head(commands[i]).id
           /\ Head(commands[i]).op = "shutdown" => commands'[i] = << >>
<1>1. commands[i] \in Seq(Command) /\ AddFirst(commands[i])
  BY DEF EngineInv, ProcessType, Dispatch
<1>2. /\ Head(commands[i]) \in Range(commands[i]) /\ Tail(commands[i]) \in Seq(Command)
      /\ Range(Tail(commands[i])) \subseteq Range(commands[i])
      /\ AddFirst(Tail(commands[i]))
      /\ \A c \in Range(Tail(commands[i])) : c.op = "add" => c.id # Head(commands[i]).id
  BY <1>1, TailView, AddFirstTail
<1>3. Head(commands[i]) \in Command
  BY <1>1, <1>2, RangeType
<1>4. << >> \in Seq(Command) /\ Range(<< >>) = {} /\ AddFirst(<< >>)
  BY DEF Range, AddFirst
<1>5. commands \in [Replica -> Seq(Command)] /\ \A j \in Replica : AddFirst(commands[j])
  BY DEF EngineInv, ProcessType, Dispatch
<1> DEFINE s == Tail(commands[i])
           c == Head(commands[i])
<1>6. CASE c.op = "shutdown"
  <2>1. commands' = [commands EXCEPT ![i] = << >>]
    BY <1>6 DEF Deaf
  <2> QED BY <1>2, <1>3, <1>4, <1>5, <2>1 DEF Asked
<1>7. CASE c.op # "shutdown"
  <2>1. commands' = [commands EXCEPT ![i] = s]
    BY <1>7
  <2> HIDE DEF s, c
  <2>2. c \in Range(commands[i]) /\ s \in Seq(Command) /\ Range(s) \subseteq Range(commands[i])
        /\ AddFirst(s) /\ \A d \in Range(s) : d.op = "add" => d.id # c.id
    BY <1>2 DEF s, c
  <2>3. /\ commands' \in [Replica -> Seq(Command)]
        /\ \A j \in Replica : Asked(j)' \subseteq Asked(j) /\ AddFirst(commands'[j])
        /\ \A j \in Replica : commands[j] = << >> => commands'[j] = << >>
        /\ \A d \in Asked(i)' : d.op = "add" => d.id # c.id
    BY <1>5, <2>1, <2>2 DEF Asked
  <2> QED BY <1>2, <1>3, <1>7, <2>3 DEF c, Asked
<1> QED BY <1>6, <1>7

\* The last command: the loop is left, and the rest of the queue with it.
LEMMA ServeShutdownKeepsInv ==
    ASSUME EngineInv, NEW i \in Replica, Serve(i), Head(commands[i]).op = "shutdown"
    PROVE  EngineInv'
<1> USE DEF EngineInv
<1>1. /\ CoordinatorRests /\ worker[i] = "serving"
      /\ worker' = [worker EXCEPT ![i] = "closing"] /\ events' = Report(i, "stopped", None)
      /\ UNCHANGED << calls, table, contexts >>
  BY DEF Serve, Obey, CoordinatorRests, coordinator, holder
<1>2. /\ commands' \in [Replica -> Seq(Command)]
      /\ \A j \in Replica : Asked(j)' \subseteq Asked(j) /\ AddFirst(commands'[j])
      /\ \A j \in Replica : commands[j] = << >> => commands'[j] = << >>
      /\ commands'[i] = << >>
  BY NextCommand DEF Serve
<1>3. /\ events' \in [Replica -> Seq(Event)]
      /\ \A j \in Replica : \A e \in Told(j)' :
             \/ e \in Told(j)
             \/ j = i /\ e = [kind |-> "stopped", id |-> None]
  <2>1. [kind |-> "stopped", id |-> None] \in Event
    BY DEF Event
  <2> QED BY <1>1, <2>1, ReportView DEF Told
<1>4. CoordinatorType' /\ Settlement' /\ NoFutureForgotten' /\ InHand' = InHand
  BY <1>1, CoordinatorRestsView
<1>5. ProcessType'
  BY <1>1, <1>2, <1>3 DEF ProcessType
<1>6. Phases'
  BY <1>1, <1>2, <1>3 DEF Phases, Reads, CoordinatorRests, ProcessType
<1>7. OneReplica'
  <2>1. \A s \in Rid, j \in Replica : Knows(j, s)' => Knows(j, s)
    BY <1>1, <1>2, <1>3, <1>4, NullAssumption DEF Knows, CoordinatorRests
  <2> QED BY <1>1, <2>1 DEF OneReplica, CoordinatorRests
<1>8. Dispatch'
  BY <1>1, <1>2, <1>3, NullAssumption DEF Dispatch, CoordinatorRests, CoordinatorType
<1>9. Answered'
  BY <1>1, <1>3, NullAssumption DEF Answered, ProcessType, TableInv, TableType
<1>10. (TableInv(table) /\ Running /\ Records /\ Programs)'
  BY <1>1, <1>4 DEF Running, RowsOf, Records, Programs, CoordinatorRests
<1>11. Rows'
  <2>1. \A j \in Replica : worker[j] = "exited" => worker'[j] = "exited"
    BY <1>1 DEF ProcessType
  <2> QED BY <1>1, <2>1 DEF Rows, CoordinatorRests, CoordinatorType, Call
<1> QED BY <1>4, <1>5, <1>6, <1>7, <1>8, <1>9, <1>10, <1>11

\* A tokenize command: answered at once, whatever the text.
LEMMA ServeTokenizeKeepsInv ==
    ASSUME EngineInv, NEW i \in Replica, Serve(i), Head(commands[i]).op = "tokenize"
    PROVE  EngineInv'
<1> DEFINE q == Head(commands[i]).id
<1> USE DEF EngineInv
<1>1. PICK kind \in {"tokenized", "error"} : events' = Report(i, kind, q)
  BY DEF Serve, Obey
<1>2. CoordinatorRests /\ UNCHANGED << worker, calls, table, contexts >>
  BY DEF Serve, Obey, CoordinatorRests, coordinator, holder
<1>3. /\ commands' \in [Replica -> Seq(Command)] /\ Head(commands[i]) \in Command
      /\ \A j \in Replica : Asked(j)' \subseteq Asked(j) /\ AddFirst(commands'[j])
      /\ \A j \in Replica : commands[j] = << >> => commands'[j] = << >>
  BY NextCommand DEF Serve
<1>4. q \in Query /\ q \notin Rid
  BY <1>3, QueryAssumption DEF Command
<1> HIDE DEF q
<1>5. /\ events' \in [Replica -> Seq(Event)]
      /\ \A j \in Replica : \A e \in Told(j)' :
             \/ e \in Told(j)
             \/ j = i /\ e = [kind |-> kind, id |-> q]
  <2>1. [kind |-> kind, id |-> q] \in Event
    BY <1>4 DEF Event
  <2> QED BY <1>1, <2>1, ReportView DEF Told
<1>6. CoordinatorType' /\ Settlement' /\ NoFutureForgotten' /\ InHand' = InHand
  BY <1>2, CoordinatorRestsView
<1>7. ProcessType'
  BY <1>2, <1>3, <1>5 DEF ProcessType
<1>8. Phases'
  BY <1>2, <1>3, <1>5 DEF Phases, Reads, CoordinatorRests
<1>9. OneReplica'
  <2>1. \A s \in Rid, j \in Replica : Knows(j, s)' => Knows(j, s)
    BY <1>2, <1>3, <1>4, <1>5, <1>6 DEF Knows, CoordinatorRests
  <2> QED BY <1>2, <2>1 DEF OneReplica, CoordinatorRests
<1>10. Dispatch'
  BY <1>2, <1>3, <1>4, <1>5 DEF Dispatch, CoordinatorRests, CoordinatorType
<1>11. Answered'
  BY <1>2, <1>4, <1>5 DEF Answered, ProcessType, TableInv, TableType
<1>12. (TableInv(table) /\ Running /\ Rows /\ Records /\ Programs)'
  BY <1>2, <1>6 DEF Running, Rows, RowsOf, Records, Programs, CoordinatorRests
<1> QED BY <1>6, <1>7, <1>8, <1>9, <1>10, <1>11, <1>12

\* A cancel command: the call is let go, if it is held, before an event says so.
LEMMA ServeCancelKeepsInv ==
    ASSUME EngineInv, NEW i \in Replica, Serve(i), Head(commands[i]).op = "cancel"
    PROVE  EngineInv'
<1> DEFINE r == Head(commands[i]).id
<1> USE DEF EngineInv
<1>0. PICK kind \in {"cancelled", "error"} : events' = Report(i, kind, r)
  BY DEF Serve, Obey, ServeCancel
<1>1. /\ CoordinatorRests /\ worker[i] = "serving" /\ UNCHANGED << worker, contexts >>
      /\ FinishHeld(i, r) /\ events' = Report(i, kind, r)
  BY <1>0 DEF Serve, Obey, ServeCancel, CoordinatorRests, coordinator, holder
<1>2. /\ Head(commands[i]) \in Asked(i) /\ Head(commands[i]) \in Command
      /\ commands' \in [Replica -> Seq(Command)]
      /\ \A j \in Replica : Asked(j)' \subseteq Asked(j) /\ AddFirst(commands'[j])
      /\ \A j \in Replica : commands[j] = << >> => commands'[j] = << >>
      /\ \A c \in Asked(i)' : c.op = "add" => c.id # r
  BY NextCommand DEF Serve
<1>3. r \in Rid /\ Knows(i, r)
  BY <1>2 DEF Command, Knows
<1> HIDE DEF r
<1>4. /\ calls' = [j \in Replica |-> calls'[j]]
      /\ \A j \in Replica : /\ calls'[j] \in [DOMAIN calls'[j] -> Pid]
                            /\ DOMAIN calls'[j] \subseteq DOMAIN calls[j]
      /\ r \notin DOMAIN calls'[i]
      /\ DOMAIN table'.requests \subseteq DOMAIN table.requests
      /\ r \in DOMAIN calls[i] => r \notin DOMAIN table'.requests
      /\ TableInv(table)' /\ Running' /\ Rows' /\ Programs' /\ Records'
  BY <1>1, <1>3, FinishHeldView
<1>5. r \notin DOMAIN table'.requests
  <2>1. r \in DOMAIN table.requests => r \in DOMAIN calls[i]
    BY <1>1, <1>3 DEF Rows, OneReplica, Knows, CoordinatorType, Call
  <2> QED BY <1>4, <2>1
<1>6. CoordinatorType' /\ Settlement' /\ NoFutureForgotten' /\ InHand' = InHand
  BY <1>1, CoordinatorRestsView
<1>7. /\ events' \in [Replica -> Seq(Event)]
      /\ \A j \in Replica : \A e \in Told(j)' :
             \/ e \in Told(j)
             \/ j = i /\ e = [kind |-> kind, id |-> r]
  <2>1. [kind |-> kind, id |-> r] \in Event
    BY <1>3 DEF Event
  <2> QED BY <1>1, <2>1, ReportView DEF Told
<1>8. ProcessType'
  BY <1>1, <1>2, <1>4, <1>7 DEF ProcessType
<1>9. Phases'
  BY <1>1, <1>2, <1>7 DEF Phases, Reads, CoordinatorRests
<1>10. OneReplica'
  <2>1. \A s \in Rid, j \in Replica : Knows(j, s)' => Knows(j, s)
    BY <1>1, <1>2, <1>3, <1>4, <1>6, <1>7 DEF Knows, CoordinatorRests
  <2> QED BY <1>1, <2>1 DEF OneReplica, CoordinatorRests
<1>11. Dispatch'
  BY <1>1, <1>2, <1>4, <1>7 DEF Dispatch, CoordinatorRests
<1>12. Answered'
  <2>1. r \notin DOMAIN calls'[i] /\ r \notin DOMAIN table'.requests
    BY <1>4, <1>5
  <2>2. ASSUME NEW j \in Replica, NEW e \in Told(j)
        PROVE  e.id \notin DOMAIN calls'[j] /\ e.id \notin DOMAIN table'.requests
    BY <1>4, <2>2 DEF Answered
  <2>3. ASSUME NEW j \in Replica, NEW e \in Told(j)'
        PROVE  e.id \notin DOMAIN calls'[j] /\ e.id \notin DOMAIN table'.requests
    BY <1>7, <2>1, <2>2, <2>3
  <2> QED BY <2>3 DEF Answered
<1> QED BY <1>4, <1>6, <1>8, <1>9, <1>10, <1>11, <1>12

\* backend.add: of the request nothing was known but the command.
LEMMA ServeAddKeepsInv ==
    ASSUME EngineInv, NEW i \in Replica, Serve(i), Head(commands[i]).op = "add"
    PROVE  EngineInv'
<1> DEFINE r == Head(commands[i]).id
           p == Head(commands[i]).pid
<1> USE DEF EngineInv
<1>1. /\ CoordinatorRests /\ worker[i] = "serving" /\ UNCHANGED worker
      /\ ServeAdd(i, r, p)
  BY DEF Serve, Obey, CoordinatorRests, coordinator, holder
<1>2. /\ Head(commands[i]) \in Asked(i) /\ Head(commands[i]) \in Command
      /\ commands' \in [Replica -> Seq(Command)]
      /\ \A j \in Replica : Asked(j)' \subseteq Asked(j) /\ AddFirst(commands'[j])
      /\ \A j \in Replica : commands[j] = << >> => commands'[j] = << >>
      /\ \A c \in Asked(i)' : c.op = "add" => c.id # r
  BY NextCommand DEF Serve
<1>3. /\ r \in Rid /\ p \in Pid /\ Knows(i, r)
      /\ r \in DOMAIN pending /\ pending[r].pid = p /\ pending[r].engine = i
      /\ r \notin DOMAIN calls[i] /\ \A e \in Told(i) : e.id # r
  <2>1. r \in Rid /\ p \in Pid /\ Knows(i, r)
    BY <1>2 DEF Command, Knows
  <2>2. r \in DOMAIN pending /\ pending[r].pid = p /\ r \notin DOMAIN calls[i]
        /\ \A e \in Told(i) : e.id # r
    BY <1>2 DEF Dispatch
  <2>3. pending[r].engine = i
    BY <2>1, <2>2 DEF OneReplica, Knows, CoordinatorType, Call
  <2> QED BY <2>1, <2>2, <2>3
<1>4. CoordinatorType' /\ Settlement' /\ NoFutureForgotten' /\ InHand' = InHand
  BY <1>1, CoordinatorRestsView
<1>5. TableInv(table) /\ NoneClosing(table) /\ r \notin DOMAIN table.requests
  BY <1>1, <1>3 DEF Programs, NoneClosing, Rows
<1> HIDE DEF r, p
\* Either the call is taken by the backend with its row, or the table is as before.
<1> DEFINE Taken == /\ calls' = [calls EXCEPT ![i] = Put(@, r, p)] /\ events' = events
                    /\ DOMAIN table'.requests = DOMAIN table.requests \cup {r}
                    /\ table'.requests[r] = p
           Refused == /\ calls' = calls /\ events' = Report(i, "error", r)
                      /\ DOMAIN table'.requests = DOMAIN table.requests
           Kept == /\ contexts' \subseteq contexts /\ contexts \ {r} \subseteq contexts'
                   /\ TableInv(table') /\ NoneClosing(table')
                   /\ DOMAIN table'.programs = DOMAIN table.programs
                   /\ \A s \in DOMAIN table.requests :
                          s \in DOMAIN table'.requests /\ table'.requests[s] = table.requests[s]
<1>6. Kept /\ (Taken \/ Refused)
  <2>1. CASE UNCHANGED << calls, table, contexts >> /\ events' = Report(i, "error", r)
    BY <1>5, <2>1
  <2>2. ASSUME NEW accepted \in BOOLEAN,
               contexts' = contexts \ {r},
               table' = IF CanAdmit(table, p, r) /\ accepted THEN AdmitTo(table, p, r)
                        ELSE IF CanAdmit(table, p, r) THEN Release(AdmitTo(table, p, r), p, r)
                        ELSE table,
               calls' = IF CanAdmit(table, p, r) /\ accepted
                        THEN [calls EXCEPT ![i] = Put(@, r, p)] ELSE calls,
               events' = IF CanAdmit(table, p, r) /\ accepted THEN events ELSE Report(i, "error", r)
        PROVE  Kept /\ (Taken \/ Refused)
    <3> DEFINE row == AdmitTo(table, p, r)
    <3>1. CASE ~CanAdmit(table, p, r)
      BY <1>5, <2>2, <3>1
    <3>2. CASE CanAdmit(table, p, r)
      <4>1. /\ TableInv(row) /\ NoneClosing(row)
            /\ DOMAIN row.programs = DOMAIN table.programs
            /\ DOMAIN row.requests = DOMAIN table.requests \cup {r} /\ row.requests[r] = p
            /\ \A s \in DOMAIN table.requests : row.requests[s] = table.requests[s]
        BY <1>3, <1>5, <3>2, AdmitView
      <4> HIDE DEF row
      <4>2. CASE accepted
        BY <2>2, <3>2, <4>1, <4>2 DEF row
      <4>3. CASE ~accepted
        <5>1. table' = Release(row, p, r) /\ calls' = calls /\ events' = Report(i, "error", r)
          BY <2>2, <3>2, <4>3 DEF row
        <5>2. r \in RowsOf(row, p)
          BY <4>1 DEF RowsOf
        <5>3. /\ TableInv(table') /\ NoneClosing(table')
              /\ DOMAIN table'.programs = DOMAIN row.programs
              /\ DOMAIN table'.requests = DOMAIN row.requests \ {r}
              /\ \A s \in DOMAIN table'.requests : table'.requests[s] = row.requests[s]
          BY <1>3, <4>1, <5>1, <5>2, ReleaseView
        <5> QED BY <1>5, <2>2, <4>1, <5>1, <5>3
      <4> QED BY <4>2, <4>3
    <3> QED BY <3>1, <3>2
  <2> QED BY <1>1, <2>1, <2>2 DEF ServeAdd
<1>7. /\ calls' = [j \in Replica |-> calls'[j]]
      /\ \A j \in Replica : /\ calls'[j] \in [DOMAIN calls'[j] -> Pid]
                            /\ DOMAIN calls'[j] \subseteq Rid
                            /\ \A s \in DOMAIN calls'[j] :
                                   IF s \in DOMAIN calls[j] THEN calls'[j][s] = calls[j][s]
                                   ELSE s = r /\ j = i /\ calls'[j][s] = p
      /\ \A j \in Replica : DOMAIN calls[j] \subseteq DOMAIN calls'[j]
      /\ Taken => calls'[i][r] = p
      /\ Refused => r \notin DOMAIN calls'[i]
  <2>1. calls = [j \in Replica |-> calls[j]]
        /\ \A j \in Replica : calls[j] \in [DOMAIN calls[j] -> Pid] /\ DOMAIN calls[j] \subseteq Rid
    BY DEF ProcessType
  <2>2. CASE Taken
    BY <1>3, <2>1, <2>2 DEF Put
  <2>3. CASE Refused
    BY <1>3, <1>5, <2>1, <2>3
  <2> QED BY <1>6, <2>2, <2>3
<1>8. /\ events' \in [Replica -> Seq(Event)]
      /\ \A j \in Replica : \A e \in Told(j)' :
             \/ e \in Told(j)
             \/ j = i /\ e = [kind |-> "error", id |-> r] /\ Refused
  <2>1. [kind |-> "error", id |-> r] \in Event
    BY <1>3 DEF Event
  <2>2. CASE Taken
    BY <2>2 DEF Told, ProcessType
  <2>3. CASE Refused
    BY <2>1, <2>3, ReportView DEF Told
  <2> QED BY <1>6, <2>2, <2>3
<1>9. ProcessType'
  BY <1>1, <1>2, <1>7, <1>8 DEF ProcessType
<1>10. Phases'
  BY <1>1, <1>2, <1>8 DEF Phases, Reads, CoordinatorRests
<1>11. OneReplica'
  <2>1. \A s \in Rid, j \in Replica : Knows(j, s)' => Knows(j, s)
    BY <1>1, <1>2, <1>3, <1>4, <1>7, <1>8 DEF Knows, CoordinatorRests
  <2> QED BY <1>1, <2>1 DEF OneReplica, CoordinatorRests
<1>12. Dispatch'
  <2>1. ASSUME NEW j \in Replica, NEW c \in Asked(j)', c.op = "add"
        PROVE  /\ c \in Asked(j) /\ c.id # r
    <3>1. c \in Asked(j)
      BY <1>2, <2>1
    <3>2. CASE j = i
      BY <1>2, <2>1, <3>1, <3>2
    <3>3. CASE j # i
      BY <1>3, <3>1, <3>3 DEF OneReplica, Knows
    <3> QED BY <3>1, <3>2, <3>3
  <2>2. ASSUME NEW j \in Replica, NEW c \in Asked(j)', c.op = "add"
        PROVE  /\ c.id \in DOMAIN pending /\ pending[c.id].pid = c.pid
               /\ c.id \notin DOMAIN calls'[j]
               /\ \A e \in Told(j)' : e.id # c.id
    <3>1. /\ c.id \in DOMAIN pending /\ pending[c.id].pid = c.pid
          /\ c.id \notin DOMAIN calls[j] /\ \A e \in Told(j) : e.id # c.id
      BY <2>1, <2>2 DEF Dispatch
    <3> QED BY <1>7, <1>8, <2>1, <2>2, <3>1
  <2> QED BY <1>1, <1>2, <2>2 DEF Dispatch, CoordinatorRests
<1>13. Answered'
  <2>1. \A j \in Replica : \A e \in Told(j) : e.id # r
    BY <1>3 DEF OneReplica, Knows
  <2> QED BY <1>5, <1>6, <1>7, <1>8, <2>1 DEF Answered
<1>14. Running'
  BY <1>1, <1>3, <1>6, <1>7 DEF Running, RowsOf, CoordinatorRests
<1>15. Rows'
  <2>1. \A s \in DOMAIN table'.requests :
          \/ s \in DOMAIN table.requests /\ table'.requests[s] = table.requests[s]
          \/ s = r /\ table'.requests[s] = p /\ r \in DOMAIN calls'[i]
    BY <1>6, <1>3 DEF Put, ProcessType
  <2> QED BY <1>1, <1>3, <1>7, <2>1 DEF Rows, CoordinatorRests, CoordinatorType, Call
<1>16. Records' /\ Programs'
  BY <1>1, <1>4, <1>6 DEF Records, Programs, NoneClosing, CoordinatorRests
<1> QED BY <1>4, <1>6, <1>9, <1>10, <1>11, <1>12, <1>13, <1>14, <1>15, <1>16

\* A worker that ends its loop, or loads: it holds what it held, and what it did not read
\* is lost.
LEMMA PhaseKeepsInv ==
    ASSUME EngineInv, NEW i \in Replica, CoordinatorRests, UNCHANGED << calls, table, contexts >>,
           NEW phase \in {"serving", "failing", "closing", "exited"},
           worker' = [worker EXCEPT ![i] = phase], worker[i] # "exited",
           worker[i] = "closing" => phase = "exited",
           \/ UNCHANGED events
           \/ phase = "serving" /\ events' = Report(i, "ready", None)
           \/ phase = "closing" /\ events' = Report(i, "fatal", None),
           \/ commands' = Deaf(i)
           \/ UNCHANGED commands /\ (phase = "serving" \/ ~Reads(i))
    PROVE  EngineInv'
<1> USE DEF EngineInv
<1>1. << >> \in Seq(Command) /\ Range(<< >>) = {} /\ AddFirst(<< >>)
  BY DEF Range, AddFirst
<1>2. /\ commands' \in [Replica -> Seq(Command)]
      /\ \A j \in Replica : Asked(j)' \subseteq Asked(j) /\ AddFirst(commands'[j])
      /\ \A j \in Replica : commands[j] = << >> => commands'[j] = << >>
      /\ phase # "serving" => commands'[i] = << >>
  <2>1. CASE commands' = Deaf(i)
    BY <1>1, <2>1 DEF Deaf, Asked, ProcessType, Dispatch
  <2>2. CASE UNCHANGED commands /\ (phase = "serving" \/ ~Reads(i))
    BY <2>2 DEF Asked, ProcessType, Dispatch, Phases
  <2> QED BY <2>1, <2>2
<1>3. /\ events' \in [Replica -> Seq(Event)]
      /\ \A j \in Replica : \A e \in Told(j)' :
             \/ e \in Told(j)
             \/ j = i /\ e.id = None /\ (e.kind = "ready" \/ phase = "closing")
  <2>1. \A kind \in {"ready", "fatal"} : [kind |-> kind, id |-> None] \in Event
    BY DEF Event
  <2>2. CASE UNCHANGED events
    BY <2>2 DEF Told, ProcessType
  <2>3. CASE phase = "serving" /\ events' = Report(i, "ready", None)
    BY <2>1, <2>3, ReportView DEF Told
  <2>4. CASE phase = "closing" /\ events' = Report(i, "fatal", None)
    BY <2>1, <2>4, ReportView DEF Told
  <2> QED BY <2>2, <2>3, <2>4
<1>4. CoordinatorType' /\ Settlement' /\ NoFutureForgotten' /\ InHand' = InHand
  BY CoordinatorRestsView
<1>5. ProcessType'
  BY <1>2, <1>3 DEF ProcessType
<1>6. Phases'
  <2>1. \A j \in Replica :
          /\ worker'[j] \in {"closing", "exited"} \/ worker'[j] = worker[j] \/ j = i
          /\ worker[j] = "exited" => worker'[j] = "exited"
          /\ worker[j] = "closing" => worker'[j] = "exited" \/ j # i
    BY DEF ProcessType
  <2>2. \A j \in Replica : ~Reads(j)' => commands'[j] = << >>
    BY <1>2 DEF Phases, Reads, ProcessType
  <2>3. ASSUME NEW j \in Replica,
               j \in failed \/ \E e \in Told(j)' : e.kind \in {"fatal", "stopped"}
        PROVE  worker'[j] \in {"closing", "exited"}
    BY <1>3, <2>3 DEF Phases, ProcessType, CoordinatorRests
  <2> QED BY <2>1, <2>2, <2>3 DEF Phases, CoordinatorRests
<1>7. OneReplica'
  <2>1. \A s \in Rid, j \in Replica : Knows(j, s)' => Knows(j, s)
    BY <1>2, <1>3, <1>4, NullAssumption DEF Knows, CoordinatorRests
  <2> QED BY <2>1 DEF OneReplica, CoordinatorRests
<1>8. Dispatch'
  BY <1>2, <1>3, NullAssumption DEF Dispatch, CoordinatorRests, CoordinatorType
<1>9. Answered'
  BY <1>3, NullAssumption DEF Answered, ProcessType, TableInv, TableType
<1>10. (TableInv(table) /\ Running /\ Records /\ Programs)'
  BY <1>4 DEF Running, RowsOf, Records, Programs, CoordinatorRests
<1>11. Rows'
  <2>1. \A j \in Replica : worker[j] = "exited" => worker'[j] = "exited"
    BY DEF ProcessType
  <2> QED BY <2>1 DEF Rows, CoordinatorRests, CoordinatorType, Call
<1> QED BY <1>4, <1>5, <1>6, <1>7, <1>8, <1>9, <1>10, <1>11

\* The backend is built, or cannot be.
LEMMA LoadKeepsInv ==
    ASSUME EngineInv, NEW i \in Replica, Load(i)
    PROVE  EngineInv'
<1>1. CoordinatorRests /\ UNCHANGED << calls, table, contexts >> /\ worker[i] = "starting"
  BY DEF Load, CoordinatorRests, coordinator, holder, database
<1>2. CASE worker' = [worker EXCEPT ![i] = "serving"] /\ events' = Report(i, "ready", None)
           /\ UNCHANGED commands
  BY <1>1, <1>2, PhaseKeepsInv
<1>3. CASE worker' = [worker EXCEPT ![i] = "closing"] /\ events' = Report(i, "fatal", None)
           /\ commands' = Deaf(i)
  BY <1>1, <1>3, PhaseKeepsInv
<1> QED BY <1>2, <1>3 DEF Load

\* A step that raises leaves the loop.
LEMMA FailKeepsInv ==
    ASSUME EngineInv, NEW i \in Replica, Fail(i)
    PROVE  EngineInv'
<1>1. CoordinatorRests /\ UNCHANGED << calls, table, contexts, events >>
  BY DEF Fail, CoordinatorRests, coordinator, holder, database
<1> QED BY <1>1, PhaseKeepsInv DEF Fail

\* The fatal event comes when every call was given up.
LEMMA ReportFatalKeepsInv ==
    ASSUME EngineInv, NEW i \in Replica, ReportFatal(i)
    PROVE  EngineInv'
<1>1. CoordinatorRests /\ UNCHANGED << calls, table, contexts, commands >>
  BY DEF ReportFatal, CoordinatorRests, coordinator, holder, database
<1> QED BY <1>1, PhaseKeepsInv DEF ReportFatal, Reads

\* The process ends when every call was given up.
LEMMA ExitKeepsInv ==
    ASSUME EngineInv, NEW i \in Replica, Exit(i)
    PROVE  EngineInv'
<1>1. CoordinatorRests /\ UNCHANGED << calls, table, contexts, commands, events >>
  BY DEF Exit, CoordinatorRests, coordinator, holder, database
<1> QED BY <1>1, PhaseKeepsInv DEF Exit, Reads

\* A process that dies takes its calls and its last events with it; their rows stay.
LEMMA DiesKeepsInv ==
    ASSUME EngineInv, NEW i \in Replica, Dies(i)
    PROVE  EngineInv'
<1> USE DEF EngineInv
<1>1. /\ CoordinatorRests /\ UNCHANGED << table, contexts >>
      /\ worker' = [worker EXCEPT ![i] = "exited"] /\ calls' = [calls EXCEPT ![i] = << >>]
      /\ commands' = [commands EXCEPT ![i] = << >>]
  BY DEF Dies, Deaf, CoordinatorRests, coordinator, holder, database
<1>2. << >> \in Seq(Command) /\ Range(<< >>) = {} /\ AddFirst(<< >>)
  BY DEF Range, AddFirst
<1>3. /\ commands' \in [Replica -> Seq(Command)] /\ commands'[i] = << >>
      /\ \A j \in Replica : Asked(j)' \subseteq Asked(j) /\ AddFirst(commands'[j])
      /\ \A j \in Replica \ {i} : commands'[j] = commands[j]
  BY <1>1, <1>2 DEF Asked, ProcessType, Dispatch
<1>4. /\ events' \in [Replica -> Seq(Event)]
      /\ \A j \in Replica : Told(j)' \subseteq Told(j)
  <2>1. PICK n \in 0 .. Len(events[i]) : events' = [events EXCEPT ![i] = SubSeq(@, 1, n)]
    BY DEF Dies
  <2> DEFINE s == SubSeq(events[i], 1, n)
  <2>2. s \in Seq(Event) /\ Range(s) \subseteq Range(events[i])
    BY PrefixView DEF ProcessType
  <2>3. events' = [events EXCEPT ![i] = s]
    BY <2>1
  <2> HIDE DEF s
  <2> QED BY <2>2, <2>3 DEF Told, ProcessType
<1>5. /\ calls' = [j \in Replica |-> calls'[j]] /\ DOMAIN calls'[i] = {}
      /\ \A j \in Replica \ {i} : calls'[j] = calls[j]
      /\ calls'[i] \in [DOMAIN calls'[i] -> Pid]
  BY <1>1 DEF ProcessType
<1>6. /\ worker' \in [Replica -> {"starting", "serving", "failing", "closing", "exited"}]
      /\ worker'[i] = "exited" /\ \A j \in Replica \ {i} : worker'[j] = worker[j]
  BY <1>1 DEF ProcessType
<1>7. CoordinatorType' /\ Settlement' /\ NoFutureForgotten' /\ InHand' = InHand
  BY <1>1, CoordinatorRestsView
<1>8. ProcessType'
  BY <1>3, <1>4, <1>5, <1>6 DEF ProcessType
<1>9. Phases'
  BY <1>1, <1>3, <1>4, <1>6 DEF Phases, Reads, CoordinatorRests
<1>10. OneReplica'
  <2>1. \A s \in Rid, j \in Replica : Knows(j, s)' => Knows(j, s)
    BY <1>1, <1>3, <1>4, <1>5, <1>7 DEF Knows, CoordinatorRests
  <2> QED BY <1>1, <2>1 DEF OneReplica, CoordinatorRests
<1>11. Dispatch'
  BY <1>1, <1>3, <1>4, <1>5 DEF Dispatch, CoordinatorRests
<1>12. Answered'
  BY <1>1, <1>4, <1>5 DEF Answered
<1>13. Running'
  BY <1>1, <1>5 DEF Running, RowsOf, CoordinatorRests
<1>14. Rows'
  BY <1>1, <1>5, <1>6 DEF Rows, CoordinatorRests, CoordinatorType, Call
<1>15. (TableInv(table) /\ Records /\ Programs)'
  BY <1>1, <1>7 DEF Records, Programs, CoordinatorRests
<1> QED BY <1>7, <1>8, <1>9, <1>10, <1>11, <1>12, <1>13, <1>14, <1>15

-----------------------------------------------------------------------------
(* The holder of the lock. *)

\* _resolve, first half: the request goes from `pending' into the holder's hand, with its
\* row, unless it already went with the worker's answer.
LEMMA TakeKeepsInv ==
    ASSUME EngineInv, NEW r \in DOMAIN pending,
           NEW kind \in {"result", "cancelled", "error", "tokenized"},
           Take(r, kind), resolving = None,
           kind = "result" => r \notin DOMAIN table.requests,
           \A j \in Replica : r \in DOMAIN calls[j] => j \in failed,
           \A j \in Replica : \A c \in Asked(j) : c.id = r => c.op # "add",
           failing' = failing \ {r},
           UNCHANGED << sessions, future, failed, ready, closed, rpc, answer, stopping,
                        commands, worker, calls, activity >>,
           events' \in [Replica -> Seq(Event)],
           \A j \in Replica : Told(j)' \subseteq Told(j)
    PROVE  EngineInv'
<1> DEFINE p == pending[r].pid
           i == pending[r].engine
           done == future[r] # "waiting"
           item == [id |-> r, pid |-> p, engine |-> i, kind |-> kind, done |-> done]
<1> USE DEF EngineInv
<1>1. /\ resolving' = item /\ pending' = Drop(pending, r) /\ contexts' = contexts \ {r}
      /\ loads' = [loads EXCEPT ![i] = @ - 1]
      /\ table' = IF kind = "result" THEN table ELSE Release(table, p, r)
  BY DEF Take
<1>2. p \in Pid /\ i \in Replica /\ r \in Rid /\ item \in Settling /\ item # None
  <2>1. p \in Pid /\ i \in Replica /\ r \in Rid /\ done \in BOOLEAN
    BY DEF CoordinatorType, Call
  <2> HIDE DEF p, i, done
  <2>2. item \in Settling
    BY <2>1 DEF Settling
  <2> QED BY <2>1, <2>2, NullAssumption DEF Settling
<1>3. InHand = {} /\ InHand' = {r} /\ resolving'.id = r /\ resolving'.pid = p
      /\ resolving'.engine = i /\ (resolving'.done => future[r] # "waiting")
      /\ pending[r].pid = p /\ pending[r].engine = i /\ resolving' # None
  BY <1>1, <1>2 DEF InHand
<1> HIDE DEF item, p, i
<1>4. /\ DOMAIN pending' = DOMAIN pending \ {r}
      /\ \A s \in DOMAIN pending' : pending'[s] = pending[s]
  BY <1>1 DEF Drop, Restrict
<1>5. /\ TableInv(table') /\ NoneClosing(table')
      /\ DOMAIN table'.programs = DOMAIN table.programs
      /\ DOMAIN table'.requests = DOMAIN table.requests \ {r}
      /\ \A s \in DOMAIN table'.requests : table'.requests[s] = table.requests[s]
  <2>1. TableInv(table) /\ NoneClosing(table)
    BY DEF Programs, NoneClosing
  <2>2. CASE kind = "result"
    BY <1>1, <2>1, <2>2
  <2>3. CASE kind # "result"
    <3>1. /\ TableInv(table') /\ NoneClosing(table')
          /\ DOMAIN table'.programs = DOMAIN table.programs
          /\ DOMAIN table'.requests =
                 IF r \in RowsOf(table, p) THEN DOMAIN table.requests \ {r}
                  ELSE DOMAIN table.requests
          /\ \A s \in DOMAIN table'.requests : table'.requests[s] = table.requests[s]
      <4>1. table' = Release(table, p, r)
        BY <1>1, <2>3
      <4>2. /\ TableInv(Release(table, p, r)) /\ NoneClosing(Release(table, p, r))
            /\ DOMAIN Release(table, p, r).programs = DOMAIN table.programs
            /\ DOMAIN Release(table, p, r).requests =
                   IF r \in RowsOf(table, p) THEN DOMAIN table.requests \ {r}
                   ELSE DOMAIN table.requests
            /\ \A s \in DOMAIN Release(table, p, r).requests :
                   Release(table, p, r).requests[s] = table.requests[s]
        BY <1>2, <2>1, ReleaseView
      <4> QED BY <4>1, <4>2
    <3>2. r \in DOMAIN table.requests => r \in RowsOf(table, p)
      BY <1>3 DEF Rows, RowsOf
    <3> QED BY <3>1, <3>2
  <2> QED BY <2>2, <2>3
<1>6. CoordinatorType'
  <2>1. \A j \in Replica :
          PendingOn({j})' = IF j = i THEN PendingOn({j}) \ {r} ELSE PendingOn({j})
    BY <1>3, <1>4 DEF PendingOn
  <2>2. \A j \in Replica : IsFiniteSet(PendingOn({j}))
    BY FS_Subset DEF PendingOn, CoordinatorType
  <2>3. Cardinality(PendingOn({i}) \ {r}) = Cardinality(PendingOn({i})) - 1
    <3>1. r \in PendingOn({i})
      BY <1>3 DEF PendingOn
    <3> QED BY <1>2, <2>2, <3>1, FS_RemoveElement
  <2>4. loads' = [j \in Replica |-> Cardinality(PendingOn({j}))']
    BY <1>1, <1>2, <2>1, <2>3 DEF CoordinatorType
  <2>5. pending' \in [DOMAIN pending' -> Call] /\ DOMAIN pending' \subseteq Rid
    BY <1>1, <1>4 DEF CoordinatorType, Drop, Restrict
  <2>6. IsFiniteSet(DOMAIN pending')
    BY <1>4, FS_Subset DEF CoordinatorType
  <2> QED BY <1>1, <1>2, <2>4, <2>5, <2>6 DEF CoordinatorType
<1>7. ProcessType'
  BY DEF ProcessType
<1>8. Phases'
  BY <1>4 DEF Phases, Reads
<1>9. OneReplica'
  <2>1. \A s \in Rid, j \in Replica : Knows(j, s)' => Knows(j, s)
    BY <1>3, <1>4 DEF Knows, Asked
  <2> QED BY <2>1 DEF OneReplica
<1>10. Dispatch'
  BY <1>4 DEF Dispatch, Asked
<1>11. Answered'
  BY <1>5 DEF Answered
<1>12. Running'
  BY <1>4, <1>5 DEF Running, RowsOf
<1>13. Rows'
  BY <1>4, <1>5 DEF Rows
<1>14. Records'
  BY <1>1, <1>3, <1>4 DEF Records
<1>15. Programs'
  BY <1>1, <1>3, <1>4, <1>5 DEF Programs, NoneClosing
<1>16. Settlement'
  BY <1>3, <1>4 DEF Settlement, PendingOn
<1>17. NoFutureForgotten'
  BY <1>3, <1>4 DEF NoFutureForgotten, Healthy
<1> QED BY <1>5, <1>6, <1>7, <1>8, <1>9, <1>10, <1>11, <1>12, <1>13, <1>14, <1>15, <1>16, <1>17

\* _resolve, second half.
LEMMA SettleKeepsInv ==
    ASSUME EngineInv, Settle
    PROVE  EngineInv'
<1> DEFINE r == resolving.id
           i == resolving.engine
           p == resolving.pid
<1> USE DEF EngineInv
<1>1. /\ resolving # None /\ resolving' = None /\ activity' = activity \ {r}
      /\ future' = [future EXCEPT ![r] = SettleAs(r)]
      /\ commands' = Send(i, "cancel", r, p) \/ commands' = commands
      /\ Cleanup(table, sessions, p, DOMAIN pending)
      /\ UNCHANGED << pending, loads, failed, ready, closed, rpc, answer, failing, stopping,
                      events, worker, calls, contexts >>
  BY DEF Settle
<1>2. r \in Rid /\ p \in Pid /\ i \in Replica /\ InHand = {r} /\ InHand' = {} /\ Knows(i, r)
      /\ r \notin DOMAIN pending
  BY <1>1 DEF CoordinatorType, Settling, InHand, Knows, Settlement
<1>3. /\ future' \in [Rid -> {"none", "waiting", "result", "error", "cancelled"}]
      /\ \A s \in Rid : s # r => future'[s] = future[s]
      /\ future'[r] # "waiting" /\ future'[r] # "none"
  <2>1. SettleAs(r) \in {"result", "error", "cancelled"}
        \/ (SettleAs(r) = future[r] /\ future[r] # "waiting")
    BY <1>1 DEF SettleAs, Outcome, Settlement
  <2>2. future[r] # "none"
    BY <1>2 DEF OneReplica
  <2> QED BY <1>1, <1>2, <2>1, <2>2 DEF CoordinatorType
<1>4. /\ DOMAIN sessions' =
             {q \in DOMAIN sessions :
                  q = p /\ sessions[q].closing => \E s \in DOMAIN pending : pending[s].pid = q}
      /\ sessions' \in [DOMAIN sessions' -> Session]
      /\ \A q \in DOMAIN sessions' : sessions'[q] = sessions[q]
      /\ TableInv(table') /\ NoneClosing(table')
      /\ DOMAIN table'.programs = DOMAIN sessions'
      /\ table'.requests = table.requests
  <2>1. sessions \in [DOMAIN sessions -> Session]
    BY DEF CoordinatorType
  <2> QED BY <1>1, <2>1, CleanupView
<1> HIDE DEF r, i, p
<1>5. /\ commands' \in [Replica -> Seq(Command)]
      /\ \A j \in Replica : \A c \in Asked(j)' :
             \/ c \in Asked(j)
             \/ j = i /\ c = [op |-> "cancel", id |-> r, pid |-> p]
      /\ \A j \in Replica : ~Reads(j) => commands'[j] = commands[j]
      /\ \A j \in Replica : AddFirst(commands'[j])
  <2>1. [op |-> "cancel", id |-> r, pid |-> p] \in Command
    BY <1>2 DEF Command
  <2>2. \A j \in Replica : AddFirst(Send(i, "cancel", r, p)[j])
    BY <1>2, <2>1, SendAdds DEF Dispatch
  <2>3. CASE commands' = Send(i, "cancel", r, p)
    BY <1>2, <2>1, <2>2, <2>3, SendView DEF Asked
  <2>4. CASE commands' = commands
    BY <2>4 DEF Asked, ProcessType, Dispatch
  <2> QED BY <1>1, <2>3, <2>4
<1>6. CoordinatorType'
  BY <1>1, <1>3, <1>4 DEF CoordinatorType, PendingOn
<1>7. ProcessType' /\ Phases'
  BY <1>1, <1>4, <1>5 DEF ProcessType, Phases, Reads, Told
<1>8. OneReplica'
  <2>1. \A s \in Rid, j \in Replica : Knows(j, s)' => Knows(j, s)
    BY <1>1, <1>2, <1>5 DEF Knows, Told
  <2>2. ASSUME NEW s \in Rid, future'[s] = "none" PROVE future[s] = "none"
    <3>1. s # r
      BY <1>3, <2>2
    <3> QED BY <1>3, <2>2, <3>1
  <2> QED BY <2>1, <2>2 DEF OneReplica
<1>9. Dispatch'
  BY <1>1, <1>5 DEF Dispatch, Told
<1>10. (Answered /\ Running /\ Rows)'
  BY <1>1, <1>4 DEF Answered, Running, Rows, RowsOf, Told
<1>11. Records'
  BY <1>1, <1>2 DEF Records
<1>12. Programs'
  BY <1>1, <1>4 DEF Programs, NoneClosing, r, i, p
<1>13. Settlement'
  BY <1>1, <1>2 DEF Settlement, PendingOn
<1>14. NoFutureForgotten'
  <2>1. ASSUME NEW s \in Rid, future'[s] = "waiting" PROVE future[s] = "waiting" /\ s # r
    <3>1. s # r
      BY <1>3, <2>1
    <3> QED BY <1>3, <2>1, <3>1
  <2> QED BY <1>1, <1>2, <2>1 DEF NoFutureForgotten, Healthy
<1> QED BY <1>4, <1>6, <1>7, <1>8, <1>9, <1>10, <1>11, <1>12, <1>13, <1>14

-----------------------------------------------------------------------------
(* The listener thread and shutdown. *)

\* _fail_replica, up to its loop: only replicas past their loop are given up, so no command
\* waits there, and their requests are all to be resolved.
LEMMA FailReplicasKeepsInv ==
    ASSUME EngineInv, NEW S \in SUBSET Replica, FailReplicas(S), failing = {},
           \A i \in S : worker[i] \in {"closing", "exited"},
           UNCHANGED << sessions, pending, future, loads, closed, resolving, commands, worker,
                        calls, database >>,
           events' \in [Replica -> Seq(Event)],
           \A j \in Replica : Told(j)' \subseteq Told(j),
           \/ UNCHANGED stopping
           \/ /\ stopping' = "final" /\ stopping = "join" /\ S = Replica
              /\ \A i \in Replica : worker[i] = "exited"
    PROVE  EngineInv'
<1> DEFINE new == S \ failed
           asked == {q \in DOMAIN rpc : rpc[q] \in new}
<1> USE DEF EngineInv
<1>1. /\ failed' = failed \cup new /\ failing' = PendingOn(new)
      /\ ready' = [i \in Replica |-> IF i \in new /\ ready[i] = "waiting" THEN "error"
                                     ELSE ready[i]]
      /\ answer' = [q \in Query |-> IF q \in asked THEN "error" ELSE answer[q]]
      /\ rpc' = Restrict(rpc, DOMAIN rpc \ asked)
      /\ UNCHANGED << table, contexts, activity >>
  BY DEF FailReplicas, database
<1>2. failed' = failed \cup S /\ failed' \subseteq Replica /\ InHand' = InHand
  BY <1>1 DEF CoordinatorType, InHand
<1>3. CoordinatorType'
  <2>1. rpc' \in [DOMAIN rpc' -> Replica] /\ DOMAIN rpc' \subseteq Query
    BY <1>1 DEF CoordinatorType, Restrict
  <2>2. ready' \in [Replica -> {"waiting", "ok", "error"}]
        /\ answer' \in [Query -> {"none", "waiting", "tokens", "error", "timeout"}]
    BY <1>1 DEF CoordinatorType
  <2> QED BY <1>1, <1>2, <2>1, <2>2 DEF CoordinatorType, PendingOn
<1>4. ProcessType'
  BY DEF ProcessType
<1>5. Phases'
  <2>1. \A j \in Replica : ~Reads(j)' => commands'[j] = << >>
    BY DEF Phases, Reads
  <2>2. \A j \in Replica :
          j \in failed' \/ (\E e \in Told(j)' : e.kind \in {"fatal", "stopped"})
              => worker'[j] \in {"closing", "exited"}
    BY <1>2 DEF Phases
  <2>3. stopping' \in {"final", "done"} =>
          /\ failed' = Replica
          /\ \A j \in Replica : worker'[j] = "exited"
    BY <1>1, <1>2 DEF Phases, CoordinatorType
  <2>4. \A j \in failed' : ready'[j] # "waiting"
    BY <1>1, <1>2 DEF Phases, CoordinatorType
  <2>5. /\ closed' <=> stopping' = "done"
        /\ closed' => DOMAIN pending' = {} /\ DOMAIN sessions' = {} /\ resolving' = None
    BY DEF Phases
  <2> QED BY <2>1, <2>2, <2>3, <2>4, <2>5 DEF Phases
<1>6. OneReplica'
  <2>1. \A s \in Rid, j \in Replica : Knows(j, s)' => Knows(j, s)
    BY <1>2 DEF Knows, Asked
  <2> QED BY <2>1 DEF OneReplica
<1>7. Dispatch' /\ Answered' /\ Running' /\ Rows'
  BY <1>1, <1>2 DEF Dispatch, Answered, Running, Rows, RowsOf, Asked
<1>8. (TableInv(table) /\ Records /\ Programs)'
  BY <1>1, <1>2 DEF Records, Programs
<1>9. Settlement'
  BY <1>1, <1>2 DEF Settlement, PendingOn
<1>10. NoFutureForgotten'
  <2>1. \A q \in Query :
          answer'[q] = "waiting" => q \in DOMAIN rpc' /\ rpc'[q] \in Replica \ failed'
    BY <1>1, <1>2 DEF NoFutureForgotten, Healthy, Restrict
  <2> QED BY <1>2, <2>1 DEF NoFutureForgotten, Healthy
<1> QED BY <1>3, <1>4, <1>5, <1>6, <1>7, <1>8, <1>9, <1>10

\* One turn of _fail_replica's loop: the call's replica is past its loop, so nothing
\* waits there that could still bring the row back.
LEMMA ResolveFailedKeepsInv ==
    ASSUME EngineInv, NEW r \in Rid, ResolveFailed(r)
    PROVE  EngineInv'
<1> USE DEF EngineInv
<1>1. r \in DOMAIN pending /\ pending[r].engine \in failed /\ pending[r].engine \in Replica
  BY DEF ResolveFailed, Settlement, PendingOn, CoordinatorType
<1>2. /\ Take(r, "error") /\ resolving = None /\ failing' = failing \ {r}
      /\ UNCHANGED << sessions, future, failed, ready, closed, rpc, answer, stopping,
                      commands, events, worker, calls, activity >>
  BY DEF ResolveFailed, processes
<1>3. \A j \in Replica : r \in DOMAIN calls[j] => j \in failed
  BY <1>1 DEF OneReplica, Knows
<1>4. ASSUME NEW j \in Replica, NEW c \in Asked(j), c.id = r PROVE c.op # "add"
  <2>1. j = pending[r].engine
    BY <1>1, <1>4 DEF OneReplica, Knows
  <2>2. commands[j] = << >>
    BY <1>1, <2>1 DEF Phases, Reads
  <2> QED BY <1>4, <2>2 DEF Asked, Range
<1>5. events' \in [Replica -> Seq(Event)] /\ \A j \in Replica : Told(j)' \subseteq Told(j)
  BY <1>2 DEF ProcessType, Told
<1> QED BY <1>1, <1>2, <1>3, <1>4, <1>5, TakeKeepsInv

\* The next event of a replica, in the order it was put.
LEMMA NextEvent ==
    ASSUME EngineInv, NEW i \in Replica, events[i] # << >>,
           events' = [events EXCEPT ![i] = Tail(@)]
    PROVE  /\ Head(events[i]) \in Told(i) /\ Head(events[i]) \in Event
           /\ events' \in [Replica -> Seq(Event)]
           /\ \A j \in Replica : Told(j)' \subseteq Told(j)
<1> DEFINE s == Tail(events[i])
<1>1. events \in [Replica -> Seq(Event)]
  BY DEF EngineInv, ProcessType
<1>2. /\ Head(events[i]) \in Range(events[i]) /\ s \in Seq(Event)
      /\ Range(s) \subseteq Range(events[i])
  BY <1>1, TailView
<1>3. Head(events[i]) \in Event
  BY <1>1, <1>2, RangeType
<1>4. events' = [events EXCEPT ![i] = s]
  OBVIOUS
<1> HIDE DEF s
<1> QED BY <1>1, <1>2, <1>3, <1>4 DEF Told

\* An answer to a tokenize call, a late event, a replica that is ready, or a timer: at most
\* the answers, `ready' and the listener's place change.
LEMMA NoticeKeepsInv ==
    ASSUME EngineInv,
           UNCHANGED << sessions, pending, future, loads, failed, closed, failing, resolving,
                        stopping, commands, worker, calls, table, contexts, activity >>,
           events' \in [Replica -> Seq(Event)],
           \A j \in Replica : Told(j)' \subseteq Told(j),
           ready' \in [Replica -> {"waiting", "ok", "error"}],
           \A j \in Replica : ready'[j] = "waiting" => ready[j] = "waiting",
           rpc' \in [DOMAIN rpc' -> Replica], DOMAIN rpc' \subseteq DOMAIN rpc,
           answer' \in [Query -> {"none", "waiting", "tokens", "error", "timeout"}],
           \A q \in Query : answer'[q] = "waiting" =>
               answer[q] = "waiting" /\ (q \in DOMAIN rpc => q \in DOMAIN rpc' /\ rpc'[q] = rpc[q])
    PROVE  EngineInv'
<1> USE DEF EngineInv
<1>1. CoordinatorType' /\ ProcessType' /\ InHand' = InHand
  BY DEF CoordinatorType, ProcessType, PendingOn, InHand
<1>2. Phases'
  BY DEF Phases, Reads, CoordinatorType
<1>3. OneReplica'
  <2>1. \A s \in Rid, j \in Replica : Knows(j, s)' => Knows(j, s)
    BY <1>1 DEF Knows, Asked
  <2> QED BY <2>1 DEF OneReplica
<1>4. Dispatch' /\ Answered' /\ Running' /\ Rows'
  BY DEF Dispatch, Answered, Running, Rows, RowsOf, Asked
<1>5. (TableInv(table) /\ Records /\ Programs /\ Settlement)'
  BY <1>1 DEF Records, Programs, Settlement, PendingOn
<1>6. NoFutureForgotten'
  BY <1>1 DEF NoFutureForgotten, Healthy
<1> QED BY <1>1, <1>2, <1>3, <1>4, <1>5, <1>6

\* An event is taken: a readiness, a failure, or the answer to a call or to tokenize.
LEMMA ListenKeepsInv ==
    ASSUME EngineInv, NEW i \in Replica, Listen(i)
    PROVE  EngineInv'
<1> DEFINE e == Head(events[i])
<1> USE DEF EngineInv
<1>1. /\ LockFree /\ events[i] # << >> /\ events' = [events EXCEPT ![i] = Tail(@)]
      /\ UNCHANGED << sessions, future, closed, stopping, commands, worker, calls, activity >>
  BY DEF Listen
<1>2. /\ e \in Told(i) /\ e \in Event
      /\ events' \in [Replica -> Seq(Event)]
      /\ \A j \in Replica : Told(j)' \subseteq Told(j)
  BY <1>1, NextEvent
<1>3. failing = {} /\ resolving = None
  BY <1>1 DEF LockFree
<1>4. CASE e.kind = "ready"
  <2>1. /\ ready' = [ready EXCEPT ![i] = IF @ = "waiting" THEN "ok" ELSE @]
        /\ UNCHANGED << pending, loads, failed, rpc, answer, failing, resolving, table, contexts >>
    BY <1>4 DEF Listen
  <2>2. /\ ready' \in [Replica -> {"waiting", "ok", "error"}]
        /\ \A j \in Replica : ready'[j] = "waiting" => ready[j] = "waiting"
    BY <2>1 DEF CoordinatorType
  <2> QED BY <1>1, <1>2, <2>1, <2>2, NoticeKeepsInv DEF CoordinatorType
<1>5. CASE e.kind \in {"fatal", "stopped"}
  <2>1. /\ FailReplicas({i})
        /\ UNCHANGED << pending, loads, resolving, table, contexts >>
    BY <1>5 DEF Listen
  <2>2. worker[i] \in {"closing", "exited"}
    BY <1>2, <1>5 DEF Phases
  <2> QED BY <1>1, <1>2, <1>3, <2>1, <2>2, FailReplicasKeepsInv DEF database
<1>6. CASE e.kind \notin {"ready", "fatal", "stopped"}
  <2>1. Resolve(e.id, e.kind) /\ UNCHANGED << failed, ready, failing >>
    BY <1>6 DEF Listen
  <2>2. \/ e.id \in Rid /\ e.kind \in {"result", "cancelled", "error"}
        \/ e.id \in Query /\ e.id \notin Rid
    BY <1>2, <1>6, QueryAssumption DEF Event
  <2> HIDE DEF e
  <2>3. CASE e.id \in DOMAIN rpc
    <3>1. /\ answer' = [answer EXCEPT ![e.id] = IF e.kind = "tokenized" THEN "tokens" ELSE "error"]
          /\ rpc' = Drop(rpc, e.id)
          /\ UNCHANGED << pending, loads, contexts, table, resolving >>
      BY <2>1, <2>3 DEF Resolve
    <3>2. /\ rpc' \in [DOMAIN rpc' -> Replica] /\ DOMAIN rpc' \subseteq DOMAIN rpc
          /\ \A q \in DOMAIN rpc : q # e.id => q \in DOMAIN rpc' /\ rpc'[q] = rpc[q]
      BY <3>1 DEF Drop, Restrict, CoordinatorType
    <3>3. /\ answer' \in [Query -> {"none", "waiting", "tokens", "error", "timeout"}]
          /\ \A q \in Query : answer'[q] = "waiting" => answer[q] = "waiting" /\ q # e.id
      BY <3>1, <2>3 DEF CoordinatorType
    <3> QED BY <1>1, <1>2, <2>1, <3>1, <3>2, <3>3, NoticeKeepsInv DEF CoordinatorType
  <2>4. CASE e.id \notin DOMAIN rpc /\ e.id \in DOMAIN pending
    <3>1. Take(e.id, e.kind) /\ UNCHANGED << answer, rpc >>
      BY <2>1, <2>4 DEF Resolve
    <3>2. e.id \in Rid /\ e.kind \in {"result", "cancelled", "error"}
      BY <2>2, <2>4 DEF CoordinatorType
    <3>3. e.id \notin DOMAIN table.requests
      BY <1>2 DEF Answered
    <3>4. Knows(i, e.id)
      BY <1>2 DEF Knows
    <3>5. \A j \in Replica : e.id \notin DOMAIN calls[j]
      BY <1>2, <3>2, <3>4 DEF Answered, OneReplica, Knows
    <3>6. ASSUME NEW j \in Replica, NEW c \in Asked(j), c.id = e.id PROVE c.op # "add"
      <4>1. j = i
        BY <3>2, <3>4, <3>6 DEF OneReplica, Knows
      <4> QED BY <1>2, <3>6, <4>1 DEF Dispatch
    <3>7. failing' = failing \ {e.id}
      BY <1>3, <2>1
    <3> QED BY <1>1, <1>2, <1>3, <2>1, <2>4, <3>1, <3>2, <3>3, <3>5, <3>6, <3>7, TakeKeepsInv
  <2>5. CASE e.id \notin DOMAIN rpc /\ e.id \notin DOMAIN pending
    <3>1. UNCHANGED << pending, loads, contexts, table, resolving, answer, rpc >>
      BY <2>1, <2>5 DEF Resolve
    <3> QED BY <1>1, <1>2, <2>1, <3>1, NoticeKeepsInv DEF CoordinatorType
  <2> QED BY <2>3, <2>4, <2>5
<1> QED BY <1>4, <1>5, <1>6

\* No event came for a while.
LEMMA ListenTimeoutKeepsInv ==
    ASSUME EngineInv, ListenTimeout
    PROVE  EngineInv'
<1>1. UNCHANGED << coordinator, failing, resolving, stopping, processes, database >>
  BY DEF ListenTimeout
<1> QED BY <1>1, NoticeKeepsInv
    DEF coordinator, processes, database, EngineInv, CoordinatorType, ProcessType, Told

\* The exit codes: a replica that exited is past its loop.
LEMMA ListenExitedKeepsInv ==
    ASSUME EngineInv, ListenExited
    PROVE  EngineInv'
<1> DEFINE S == {i \in Replica : worker[i] = "exited"}
<1>1. /\ FailReplicas(S) /\ failing = {}
      /\ \A i \in S : worker[i] = "exited"
      /\ UNCHANGED << sessions, pending, future, loads, closed, resolving, stopping,
                      processes, database >>
  BY DEF ListenExited, LockFree
<1> HIDE DEF S
<1>2. S \in SUBSET Replica
  BY DEF S
<1>3. events' \in [Replica -> Seq(Event)] /\ \A j \in Replica : Told(j)' \subseteq Told(j)
  BY <1>1 DEF processes, Told, EngineInv, ProcessType
<1> QED BY <1>1, <1>2, <1>3, FailReplicasKeepsInv DEF processes

\* shutdown, second part: every process was joined, so every replica is failed.
LEMMA ShutdownFailKeepsInv ==
    ASSUME EngineInv, ShutdownFail
    PROVE  EngineInv'
<1>1. /\ FailReplicas(Replica) /\ failing = {} /\ stopping = "join" /\ stopping' = "final"
      /\ \A i \in Replica : worker[i] = "exited"
      /\ UNCHANGED << sessions, pending, future, loads, closed, resolving, processes, database >>
  BY DEF ShutdownFail, LockFree
<1>2. events' \in [Replica -> Seq(Event)] /\ \A j \in Replica : Told(j)' \subseteq Told(j)
  BY <1>1 DEF processes, Told, EngineInv, ProcessType
<1> QED BY <1>1, <1>2, FailReplicasKeepsInv DEF processes

\* Everything was failed and resolved, and every session ended: nothing is left.
LEMMA NothingLeft ==
    ASSUME EngineInv, stopping = "final", failing = {}, resolving = None,
           \A p \in DOMAIN sessions : sessions[p].closing
    PROVE  DOMAIN pending = {} /\ DOMAIN sessions = {}
<1>1. DOMAIN pending = {}
  BY DEF EngineInv, Settlement, PendingOn, Phases, CoordinatorType, Call
<1> QED BY <1>1 DEF EngineInv, Programs

\* shutdown, last part: closed.
LEMMA ShutdownCloseKeepsInv ==
    ASSUME EngineInv, ShutdownClose
    PROVE  EngineInv'
<1> USE DEF EngineInv
<1>1. /\ stopping = "final" /\ failing = {} /\ resolving = None
      /\ \A p \in DOMAIN sessions : sessions[p].closing
      /\ closed' = TRUE /\ stopping' = "done"
      /\ UNCHANGED << sessions, pending, future, loads, failed, ready, rpc, answer, failing,
                      resolving, commands, events, worker, calls, table, contexts, activity >>
  BY DEF ShutdownClose, Released, processes, database
<1>2. DOMAIN pending = {} /\ DOMAIN sessions = {}
  BY <1>1, NothingLeft
<1>3. CoordinatorType' /\ ProcessType'
  BY <1>1 DEF CoordinatorType, ProcessType, PendingOn
<1>4. Phases'
  BY <1>1, <1>2 DEF Phases, Reads, Told
<1>5. OneReplica'
  BY <1>1 DEF OneReplica, Knows, Asked, Told, InHand
<1>6. (Dispatch /\ Answered /\ Running /\ Rows)'
  BY <1>1 DEF Dispatch, Answered, Running, Rows, RowsOf, Asked, Told
<1>7. (TableInv(table) /\ Records /\ Programs /\ Settlement)'
  BY <1>1 DEF Records, Programs, Settlement, InHand, PendingOn
<1>8. NoFutureForgotten'
  BY <1>1 DEF NoFutureForgotten, InHand, Healthy
<1> QED BY <1>3, <1>4, <1>5, <1>6, <1>7, <1>8

-----------------------------------------------------------------------------
(* The invariant. *)

\* The command at the head of a replica's queue, whichever it is.
LEMMA ServeKeepsInv ==
    ASSUME EngineInv, NEW i \in Replica, Serve(i)
    PROVE  EngineInv'
<1>1. Head(commands[i]) \in Command
  BY NextCommand DEF Serve
<1>2. Head(commands[i]).op \in {"shutdown", "add", "cancel", "tokenize"}
  BY <1>1 DEF Command
<1> QED BY <1>2, ServeShutdownKeepsInv, ServeAddKeepsInv, ServeCancelKeepsInv,
           ServeTokenizeKeepsInv

\* An engine just built.
LEMMA InitEngineInv == Init => EngineInv
<1> SUFFICES ASSUME Init PROVE EngineInv
  OBVIOUS
<1>1. /\ DOMAIN sessions = {} /\ DOMAIN pending = {} /\ DOMAIN rpc = {}
      /\ \A i \in Replica : DOMAIN calls[i] = {} /\ Asked(i) = {} /\ Told(i) = {}
      /\ DOMAIN table.requests = {} /\ DOMAIN table.programs = {}
      /\ InHand = {}
  BY DEF Init, Asked, Told, Range, EmptyTable, InHand
<1>2. CoordinatorType
  <2>1. PendingOn({}) = {} /\ \A i : PendingOn({i}) = {}
    BY <1>1 DEF PendingOn
  <2>2. Cardinality({}) = 0 /\ IsFiniteSet({})
    BY FS_EmptySet
  <2>3. loads = [i \in Replica |-> Cardinality(PendingOn({i}))]
    BY <2>1, <2>2 DEF Init
  <2> HIDE DEF PendingOn
  <2> QED BY <1>1, <2>2, <2>3 DEF Init, CoordinatorType
<1>3. ProcessType
  BY <1>1 DEF Init, ProcessType
<1>4. TableInv(table)
  BY EmptyTableInv DEF Init
<1>5. Phases
  BY <1>1 DEF Init, Phases
<1>6. OneReplica /\ Answered /\ Running /\ Rows
  BY <1>1 DEF OneReplica, Knows, Answered, Running, Rows
<1>7. Dispatch
  BY <1>1 DEF Init, Dispatch, AddFirst
<1>8. Records /\ Programs /\ Settlement
  BY <1>1 DEF Init, Records, Programs, Settlement, PendingOn
<1>9. NoFutureForgotten
  BY DEF Init, NoFutureForgotten
<1> QED BY <1>2, <1>3, <1>4, <1>5, <1>6, <1>7, <1>8, <1>9 DEF EngineInv

\* A step of nobody.
LEMMA StutterKeepsInv == EngineInv /\ UNCHANGED vars => EngineInv'
<1> SUFFICES ASSUME EngineInv, UNCHANGED vars PROVE EngineInv'
  OBVIOUS
<1> QED BY NoticeKeepsInv
    DEF vars, coordinator, holder, processes, database, EngineInv, CoordinatorType,
        ProcessType, Told

\* The inductive invariant, over every action.
THEOREM EngineInvariant == Spec => []EngineInv
<1>1. EngineInv /\ [Next]_vars => EngineInv'
  <2> SUFFICES ASSUME EngineInv, [Next]_vars PROVE EngineInv'
    OBVIOUS
  <2>1. CASE Client
    BY <2>1, StartSessionKeepsInv, EndSessionKeepsInv, SubmitKeepsInv, CancelFutureKeepsInv,
       TokenizeKeepsInv, TokenizeTimeoutKeepsInv, ShutdownKeepsInv DEF Client
  <2>2. CASE \E i \in Replica : Worker(i) \/ Kill(i) \/ Terminate(i)
    <3>1. PICK i \in Replica : Worker(i) \/ Kill(i) \/ Terminate(i)
      BY <2>2
    <3>2. CASE Worker(i)
      BY <3>2, LoadKeepsInv, ServeKeepsInv, FailKeepsInv, ReportFatalKeepsInv, ExitKeepsInv,
         CompleteKeepsInv, AbandonKeepsInv DEF Worker
    <3>3. CASE Kill(i) \/ Terminate(i)
      BY <3>3, DiesKeepsInv DEF Kill, Terminate
    <3> QED BY <3>1, <3>2, <3>3
  <2>3. CASE Locked
    BY <2>3, SettleKeepsInv, ResolveFailedKeepsInv DEF Locked
  <2>4. CASE Listener
    BY <2>4, ListenKeepsInv, ListenTimeoutKeepsInv, ListenExitedKeepsInv DEF Listener
  <2>5. CASE Closer
    BY <2>5, ShutdownFailKeepsInv, ShutdownCloseKeepsInv, ShutdownSessionKeepsInv DEF Closer
  <2>6. CASE UNCHANGED vars
    BY <2>6, StutterKeepsInv
  <2> QED BY <2>1, <2>2, <2>3, <2>4, <2>5, <2>6 DEF Next
<1> QED BY <1>1, InitEngineInv, PTL DEF Spec

-----------------------------------------------------------------------------
(* What the coordinator promises. *)

\* RowsBelongToCalls: request rows and contexts are of unresolved calls, and activity is theirs.
THEOREM RowsAreCleaned == Spec => []RowsBelongToCalls
<1>1. EngineInv => RowsBelongToCalls
  BY DEF EngineInv, Rows, Records, RowsBelongToCalls
<1> QED BY <1>1, EngineInvariant, PTL

\* SessionsArePrograms: a session has its open program row until its last call is resolved.
THEOREM SessionsHavePrograms == Spec => []SessionsArePrograms
<1>1. EngineInv => SessionsArePrograms
  <2> SUFFICES ASSUME EngineInv PROVE SessionsArePrograms
    OBVIOUS
  <2>1. ASSUME NEW p \in DOMAIN sessions, sessions[p].closing, LockFree
        PROVE  PendingOf(p) # {}
    BY <2>1 DEF EngineInv, Programs, LockFree, PendingOf
  <2> QED BY <2>1 DEF EngineInv, Programs, SessionsArePrograms
<1> QED BY <1>1, EngineInvariant, PTL

\* ReplicasAgree: loads count the unresolved calls of a replica, a failed replica has only
\* those being resolved, and what a replica in service runs is unresolved and has its row.
THEOREM CoordinatorAndReplicasAgree == Spec => []ReplicasAgree
<1>1. EngineInv => ReplicasAgree
  <2> SUFFICES ASSUME EngineInv PROVE ReplicasAgree
    OBVIOUS
  <2> USE DEF EngineInv
  <2>1. \A i \in Replica : loads[i] = Cardinality(PendingOn({i}))
    BY DEF CoordinatorType
  <2>2. PendingOn(failed) = failing
    BY DEF Settlement
  <2>3. ASSUME NEW i \in Healthy, NEW r \in DOMAIN calls[i]
        PROVE  r \in DOMAIN pending /\ pending[r].engine = i /\ r \in RowsOf(table, calls[i][r])
    <3>1. i \in Replica /\ i \notin failed /\ r \in Rid
      BY DEF Healthy, ProcessType
    <3>2. /\ r \in DOMAIN pending /\ r \in RowsOf(table, pending[r].pid)
          /\ calls[i][r] = pending[r].pid
      BY <3>1 DEF Running
    <3>3. pending[r].engine \in Replica
      BY <3>2 DEF CoordinatorType, Call
    <3>4. pending[r].engine = i
      BY <3>1, <3>2, <3>3 DEF OneReplica, Knows
    <3> QED BY <3>2, <3>4
  <2> QED BY <2>1, <2>2, <2>3 DEF ReplicasAgree
<1> QED BY <1>1, EngineInvariant, PTL

\* NoFutureForgotten: whoever waits for a future has a call the coordinator still settles.
THEOREM FuturesAreKept == Spec => []NoFutureForgotten
<1>1. EngineInv => NoFutureForgotten
  BY DEF EngineInv
<1> QED BY <1>1, EngineInvariant, PTL

\* ClosedIsClean: shutdown leaves no unsettled future, no session, no row and no process.
THEOREM ClosingIsClean == Spec => []ClosedIsClean
<1>1. EngineInv => ClosedIsClean
  <2> SUFFICES ASSUME EngineInv, closed PROVE ClosedIsClean
    BY DEF ClosedIsClean
  <2> USE DEF EngineInv
  <2>1. stopping = "done" /\ DOMAIN pending = {} /\ DOMAIN sessions = {} /\ resolving = None
    BY DEF Phases
  <2>2. failed = Replica /\ \A i \in Replica : ready[i] # "waiting" /\ worker[i] = "exited"
    BY <2>1 DEF Phases
  <2>3. contexts = {} /\ activity = {} /\ DOMAIN table.requests = {} /\ DOMAIN table.programs = {}
    BY <2>1 DEF Records, Rows, Programs, InHand
  <2>4. \A r \in Rid : future[r] # "waiting"
    BY <2>1 DEF NoFutureForgotten, InHand
  <2>5. pending = << >> /\ sessions = << >>
    BY <2>1 DEF CoordinatorType
  <2>6. table = EmptyTable
    BY <2>3 DEF TableInv, TableType, EmptyTable
  <2> QED BY <2>2, <2>3, <2>4, <2>5, <2>6 DEF ClosedIsClean
<1> QED BY <1>1, EngineInvariant, PTL

\* What LongCallsTogether rests on: a session remembers the replica of every long call of it
\* whose replica is still in service.
Remembers ==
    \A p \in DOMAIN sessions : \A x \in sessions[p].placed :
        x.failed \subseteq failed /\ (x.at \notin failed => sessions[p].engine = x.at)

\* A replica that failed stays failed.
LEMMA FailedStays ==
    ASSUME Next PROVE failed \subseteq failed'
<1>1. ASSUME NEW S, FailReplicas(S) PROVE failed \subseteq failed'
  BY <1>1 DEF FailReplicas
<1>2. CASE UNCHANGED failed
  BY <1>2
<1>3. CASE Client
  BY <1>2, <1>3
  DEF Client, StartSession, EndSession, Submit, CancelFuture, Tokenize, TokenizeTimeout, Shutdown,
      coordinator
<1>4. CASE \E i \in Replica : Worker(i) \/ Kill(i) \/ Terminate(i)
  BY <1>2, <1>4
  DEF Worker, Kill, Terminate, Dies, Load, Serve, Fail, ReportFatal, Exit, Complete, Abandon,
      coordinator
<1>5. CASE Locked \/ Listener
  BY <1>1, <1>2, <1>5
  DEF Locked, Listener, Settle, ResolveFailed, Listen, ListenTimeout, ListenExited, coordinator
<1>6. CASE Closer
  BY <1>1, <1>2, <1>6 DEF Closer, ShutdownFail, ShutdownClose, ShutdownSession
<1> QED BY <1>3, <1>4, <1>5, <1>6 DEF Next

\* Only `submit' writes where long calls go; all other steps leave it in the sessions they
\* keep, and a new session has nothing to remember.
LEMMA OnlySubmitPlaces ==
    ASSUME EngineInv, Next
    PROVE  \/ \E p \in Pid, r \in Rid, long \in BOOLEAN : Submit(p, r, long)
           \/ \A q \in DOMAIN sessions' :
                 \/ sessions'[q].placed = {}
                 \/ /\ q \in DOMAIN sessions
                    /\ sessions'[q].engine = sessions[q].engine
                    /\ sessions'[q].placed = sessions[q].placed
<1> DEFINE Kept == \A q \in DOMAIN sessions' :
                     \/ sessions'[q].placed = {}
                     \/ /\ q \in DOMAIN sessions
                        /\ sessions'[q].engine = sessions[q].engine
                        /\ sessions'[q].placed = sessions[q].placed
           Submits == \E p \in Pid, r \in Rid, long \in BOOLEAN : Submit(p, r, long)
<1> USE DEF EngineInv
<1>1. CASE UNCHANGED sessions
  BY <1>1
<1>2. ASSUME NEW p \in Pid, StartSession(p) PROVE Kept
  BY <1>2 DEF StartSession, Put
<1>3. ASSUME NEW s,
             \/ s = sessions
             \/ \E p \in DOMAIN sessions : s = [sessions EXCEPT ![p].closing = TRUE],
             \E q : Cleanup(table, s, q, DOMAIN pending)
      PROVE  Kept
  <2>1. PICK q : Cleanup(table, s, q, DOMAIN pending)
    BY <1>3
  <2>2. sessions \in [DOMAIN sessions -> Session]
    BY DEF CoordinatorType
  <2>3. DOMAIN s = DOMAIN sessions /\ s \in [DOMAIN s -> Session]
    <3>1. CASE s = sessions
      BY <2>2, <3>1
    <3>2. CASE \E x \in DOMAIN sessions : s = [sessions EXCEPT ![x].closing = TRUE]
      BY <2>2, <3>2 DEF Session
    <3> QED BY <1>3, <3>1, <3>2
  <2>4. \A x \in DOMAIN sessions : s[x].engine = sessions[x].engine /\ s[x].placed = sessions[x].placed
    BY <1>3, <2>2 DEF Session
  <2>5. \A x \in DOMAIN sessions' : x \in DOMAIN s /\ sessions'[x] = s[x]
    BY <2>1 DEF Cleanup, Drop, Restrict
  <2> QED BY <2>3, <2>4, <2>5
<1>4. ASSUME NEW p \in Pid, EndSession(p) \/ ShutdownSession(p) PROVE Kept
  BY <1>3, <1>4 DEF EndSession, ShutdownSession
<1>5. CASE Settle
  BY <1>3, <1>5 DEF Settle
<1>6. CASE Client
  BY <1>1, <1>2, <1>4, <1>6
  DEF Client, CancelFuture, Tokenize, TokenizeTimeout, Shutdown, coordinator
<1>7. CASE \E i \in Replica : Worker(i) \/ Kill(i) \/ Terminate(i)
  BY <1>1, <1>7
  DEF Worker, Kill, Terminate, Dies, Load, Serve, Fail, ReportFatal, Exit, Complete, Abandon,
      coordinator
<1>8. CASE Locked \/ Listener
  BY <1>1, <1>5, <1>8
  DEF Locked, Listener, ResolveFailed, Listen, ListenTimeout, ListenExited, coordinator
<1>9. CASE Closer
  BY <1>1, <1>4, <1>9 DEF Closer, ShutdownFail, ShutdownClose
<1> QED BY <1>6, <1>7, <1>8, <1>9 DEF Next

\* A submission goes to a replica in service, which is the remembered one if that is.
LEMMA SubmitPlaces ==
    ASSUME EngineInv, Remembers, LongCallsTogether,
           NEW p \in Pid, NEW r \in Rid, NEW long \in BOOLEAN, Submit(p, r, long)
    PROVE  Remembers' /\ LongCallsTogether'
<1> DEFINE i == Index(p, long)
           new == [at |-> i, failed |-> failed]
<1> USE DEF EngineInv
<1>1. i \in Replica /\ i \notin failed
  BY LeastLoadedHealthy DEF Submit, Index, Healthy
<1>2. /\ UNCHANGED failed /\ p \in DOMAIN sessions
      /\ sessions' = IF long
                     THEN [sessions EXCEPT ![p].engine = i, ![p].placed = @ \cup {new}]
                     ELSE sessions
  BY DEF Submit
<1>3. long /\ sessions[p].engine \in Replica \ failed => i = sessions[p].engine
  BY DEF Index, Healthy
<1> HIDE DEF i
<1>4. CASE ~long
  BY <1>2, <1>4 DEF Remembers, LongCallsTogether
<1>5. CASE long
  <2>1. sessions \in [DOMAIN sessions -> Session]
    BY DEF CoordinatorType
  <2>2. /\ DOMAIN sessions' = DOMAIN sessions
        /\ sessions'[p].engine = i /\ sessions'[p].placed = sessions[p].placed \cup {new}
        /\ \A q \in DOMAIN sessions : q # p => sessions'[q] = sessions[q]
    BY <1>2, <1>5, <2>1 DEF Session
  <2>3. \A x \in sessions[p].placed :
          /\ x.at \in Replica /\ x.failed \subseteq failed
          /\ x.at \notin x.failed /\ (x.at \notin failed => x.at = i)
    BY <1>2, <1>3, <1>5, <2>1 DEF Remembers, LongCallsTogether, Session, Placement
  <2>4. new.at = i /\ new.failed = failed
    OBVIOUS
  <2> HIDE DEF new
  <2>5. Remembers'
    BY <1>2, <2>2, <2>3, <2>4 DEF Remembers
  <2>6. ASSUME NEW x \in sessions'[p].placed, NEW y \in sessions'[p].placed
        PROVE  /\ x.at \notin x.failed
               /\ (x.failed \subseteq y.failed /\ x.at \notin y.failed) => y.at = x.at
    <3>1. CASE x = new
      BY <1>1, <2>2, <2>3, <2>4, <3>1
    <3>2. CASE x \in sessions[p].placed /\ y = new
      BY <2>3, <2>4, <3>2
    <3>3. CASE x \in sessions[p].placed /\ y \in sessions[p].placed
      BY <1>2, <3>3 DEF LongCallsTogether
    <3> QED BY <2>2, <3>1, <3>2, <3>3
  <2>7. LongCallsTogether'
    BY <2>2, <2>6 DEF LongCallsTogether
  <2> QED BY <2>5, <2>7
<1> QED BY <1>4, <1>5

\* LongCallsTogether: however replicas fail between them, the long calls of a session went to
\* replicas in service, and to one replica as long as it was.
THEOREM LongCallsMeet == Spec => []LongCallsTogether
<1> DEFINE Inv == Remembers /\ LongCallsTogether
<1>1. Init => Inv
  BY DEF Init, Remembers, LongCallsTogether
<1>2. ASSUME EngineInv, Inv, [Next]_vars PROVE Inv'
  <2>1. CASE UNCHANGED vars
    BY <1>2, <2>1 DEF vars, coordinator, Remembers, LongCallsTogether
  <2>2. CASE Next
    <3>1. CASE \E p \in Pid, r \in Rid, long \in BOOLEAN : Submit(p, r, long)
      BY <1>2, <3>1, SubmitPlaces
    <3>2. CASE \A q \in DOMAIN sessions' :
                 \/ sessions'[q].placed = {}
                 \/ /\ q \in DOMAIN sessions
                    /\ sessions'[q].engine = sessions[q].engine
                    /\ sessions'[q].placed = sessions[q].placed
      <4>1. failed \subseteq failed'
        BY <2>2, FailedStays
      <4>2. Remembers'
        BY <1>2, <3>2, <4>1 DEF Remembers
      <4>3. LongCallsTogether'
        BY <1>2, <3>2 DEF LongCallsTogether
      <4> QED BY <4>2, <4>3
    <3> QED BY <1>2, <2>2, <3>1, <3>2, OnlySubmitPlaces
  <2> QED BY <1>2, <2>1, <2>2
<1>3. Inv => LongCallsTogether
  OBVIOUS
<1> QED BY <1>1, <1>2, <1>3, EngineInvariant, PTL DEF Spec

-----------------------------------------------------------------------------
(* The engine implements CallService, step by step under the mapping       *)
(* Service of InferenceEngine.                                             *)

\* What a client sees of the sessions and of a call's owner.
Open == {p \in DOMAIN sessions : ~sessions[p].closing}
Draining == {p \in DOMAIN sessions : sessions[p].closing}

\* A step that takes no call off `pending' but into the lock holder's hand, and touches no
\* session and no future, is none of the service's.
LEMMA ServiceStutters ==
    ASSUME UNCHANGED << sessions, future, closed >>,
           \A r \in Rid : UnresolvedOwner(r)' = UnresolvedOwner(r)
    PROVE  UNCHANGED Service!vars
<1>1. [r \in Rid |-> UnresolvedOwner(r)]' = [r \in Rid |-> UnresolvedOwner(r)]
  OBVIOUS
<1> QED BY <1>1 DEF Service!vars

\* Who owns a call is a matter of the pending calls and the one in hand.
LEMMA OwnersRest ==
    ASSUME UNCHANGED << pending, resolving >>
    PROVE  \A r : UnresolvedOwner(r)' = UnresolvedOwner(r)
BY DEF UnresolvedOwner, InHand

\* start_session is Start: the session is in neither set before.
LEMMA StartSessionImplements ==
    ASSUME EngineInv, NEW p \in Pid, StartSession(p)
    PROVE  Service!Next
<1>1. ~closed /\ UNCHANGED << pending, resolving, future, closed >>
  BY DEF StartSession, holder
<1>2. p \notin DOMAIN sessions
  BY DEF StartSession, CanOpen, EngineInv, Programs
<1>3. Open' = Open \cup {p} /\ Draining' = Draining
  BY <1>2 DEF StartSession, Put, Open, Draining
<1>4. [r \in Rid |-> UnresolvedOwner(r)]' = [r \in Rid |-> UnresolvedOwner(r)]
  BY <1>1, OwnersRest
<1>5. Service!Start(p)
  BY <1>1, <1>2, <1>3, <1>4 DEF Service!Start, Open, Draining
<1> QED BY <1>5 DEF Service!Next

\* Ending a session that is open ends it; ending one again changes nothing.
LEMMA EndingImplements ==
    ASSUME EngineInv, NEW p \in Pid, p \in DOMAIN sessions, resolving = None,
           Cleanup(table, [sessions EXCEPT ![p].closing = TRUE], p, DOMAIN pending),
           UNCHANGED << pending, resolving, future, closed >>
    PROVE  [Service!Next]_(Service!vars)
<1> DEFINE s == [sessions EXCEPT ![p].closing = TRUE]
           waits == \E r \in DOMAIN pending : pending[r].pid = p
<1>1. /\ DOMAIN s = DOMAIN sessions /\ s \in [DOMAIN s -> Session]
      /\ s[p].closing = TRUE
      /\ \A q \in DOMAIN sessions : q # p => s[q] = sessions[q]
  BY DEF EngineInv, CoordinatorType, Session
<1>2. /\ \A q : q \in DOMAIN sessions' <=> q \in DOMAIN sessions /\ (q = p => waits)
      /\ \A q \in DOMAIN sessions' : sessions'[q] = s[q]
  <2> HIDE DEF s
  <2>1. Cleanup(table, s, p, DOMAIN pending)
    BY DEF s
  <2>2. /\ DOMAIN sessions' = {q \in DOMAIN s : q = p /\ s[q].closing => waits}
        /\ \A q \in DOMAIN sessions' : sessions'[q] = s[q]
    <3>1. /\ DOMAIN sessions' = {q \in DOMAIN s : q = p /\ s[q].closing =>
                                     \E r \in DOMAIN pending : pending[r].pid = q}
          /\ \A q \in DOMAIN sessions' : sessions'[q] = s[q]
      BY <1>1, <2>1, CleanupView
    <3> QED BY <3>1
  <2> HIDE DEF waits
  <2> QED BY <1>1, <2>2
<1>3. [r \in Rid |-> UnresolvedOwner(r)]' = [r \in Rid |-> UnresolvedOwner(r)]
  BY OwnersRest
<1>4. CASE sessions[p].closing
  <2>1. waits
    BY <1>4 DEF EngineInv, Programs
  <2>2. /\ DOMAIN sessions' = DOMAIN sessions
        /\ \A q \in DOMAIN sessions : sessions'[q].closing = sessions[q].closing
    BY <1>1, <1>2, <1>4, <2>1 DEF EngineInv, CoordinatorType, Session
  <2>3. Open' = Open /\ Draining' = Draining
    BY <2>2 DEF Open, Draining
  <2> QED BY <1>3, <2>3 DEF Service!vars, Open, Draining
<1>5. CASE ~sessions[p].closing
  <2>1. Open' = Open \ {p}
    BY <1>1, <1>2 DEF Open
  <2>2. Draining' = Draining \cup {q \in {p} : waits}
    BY <1>1, <1>2, <1>5 DEF Draining
  <2>3. {r \in Rid : [x \in Rid |-> UnresolvedOwner(x)][r] = {p}} # {} <=> waits
    BY DEF UnresolvedOwner, InHand, EngineInv, CoordinatorType
  <2>4. {q \in {p} : {r \in Rid : [x \in Rid |-> UnresolvedOwner(x)][r] = {q}} # {}}
            = {q \in {p} : waits}
    BY <2>3
  <2>5. p \in Open
    BY <1>5 DEF Open
  <2>6. Service!End(p)
    BY <1>3, <2>1, <2>2, <2>4, <2>5 DEF Service!End, Service!Unresolved, Open, Draining
  <2> QED BY <2>6 DEF Service!Next
<1> QED BY <1>4, <1>5

\* submit is Submit: the call's owner is its session.
LEMMA SubmitImplements ==
    ASSUME EngineInv, NEW p \in Pid, NEW r \in Rid, NEW long \in BOOLEAN, Submit(p, r, long)
    PROVE  Service!Next
<1>1. /\ ~closed /\ p \in DOMAIN sessions /\ ~sessions[p].closing /\ future[r] = "none"
      /\ future' = [future EXCEPT ![r] = "waiting"] /\ resolving = None
      /\ UNCHANGED << resolving, closed >>
  BY DEF Submit, holder, LockFree
<1>2. PICK i : pending' = Put(pending, r, [pid |-> p, engine |-> i])
  BY DEF Submit
<1>3. /\ DOMAIN sessions' = DOMAIN sessions
      /\ \A q \in DOMAIN sessions : sessions'[q].closing = sessions[q].closing
  BY DEF Submit, EngineInv, CoordinatorType, Session
<1>4. Open' = Open /\ Draining' = Draining
  BY <1>3 DEF Open, Draining
<1>5. UnresolvedOwner(r)' = {p} /\ \A x : x # r => UnresolvedOwner(x)' = UnresolvedOwner(x)
  BY <1>1, <1>2 DEF UnresolvedOwner, InHand, Put
<1>6. [x \in Rid |-> UnresolvedOwner(x)]' = [[x \in Rid |-> UnresolvedOwner(x)] EXCEPT ![r] = {p}]
  BY <1>5
<1>7. Service!Submit(p, r)
  BY <1>1, <1>4, <1>6 DEF Service!Submit, Open, Draining
<1> QED BY <1>7 DEF Service!Next

\* Future.cancel is Cancel: the call stays unresolved until the worker acknowledges it.
LEMMA CancelImplements ==
    ASSUME EngineInv, NEW r \in Rid, CancelFuture(r)
    PROVE  Service!Next
<1>1. UNCHANGED << pending, resolving, sessions, closed >>
  BY DEF CancelFuture, holder
<1>2. [x \in Rid |-> UnresolvedOwner(x)]' = [x \in Rid |-> UnresolvedOwner(x)]
  BY <1>1, OwnersRest
<1>3. Service!Cancel(r)
  BY <1>1, <1>2 DEF CancelFuture, Service!Cancel
<1> QED BY <1>3 DEF Service!Next

\* _resolve, up to the test: the call is still unresolved, in the lock holder's hand.
LEMMA TakeStutters ==
    ASSUME EngineInv, NEW r \in DOMAIN pending, resolving = None,
           NEW kind \in {"result", "cancelled", "error", "tokenized"}, Take(r, kind),
           UNCHANGED << sessions, future, closed >>
    PROVE  UNCHANGED Service!vars
<1> DEFINE item == [id |-> r, pid |-> pending[r].pid, engine |-> pending[r].engine,
                    kind |-> kind, done |-> future[r] # "waiting"]
<1>1. resolving' = item /\ pending' = Drop(pending, r) /\ item.id = r /\ item.pid = pending[r].pid
  BY DEF Take
<1>2. DOMAIN pending' = DOMAIN pending \ {r} /\ \A x \in DOMAIN pending' : pending'[x] = pending[x]
  BY <1>1 DEF Drop, Restrict
<1>3. item # None
  <2>1. pending[r] \in Call /\ r \in Rid
    BY DEF EngineInv, CoordinatorType
  <2>2. item \in Settling
    BY <2>1 DEF Settling, Call
  <2> QED BY <2>2, NullAssumption DEF Settling
<1> HIDE DEF item
<1>4. ASSUME NEW x \in Rid PROVE UnresolvedOwner(x)' = UnresolvedOwner(x)
  BY <1>1, <1>2, <1>3 DEF UnresolvedOwner, InHand
<1> QED BY <1>4, ServiceStutters

\* _resolve's `finally': the call is resolved, and an ended session leaves with its last one.
LEMMA SettleImplements ==
    ASSUME EngineInv, Settle
    PROVE  Service!Next
<1>0. PICK r, p : r = resolving.id /\ p = resolving.pid
  OBVIOUS
<1> DEFINE waits == \E x \in DOMAIN pending : pending[x].pid = p
           owners == [x \in Rid |-> UnresolvedOwner(x)]
<1>1. /\ resolving # None /\ resolving' = None /\ UNCHANGED << pending, closed >>
      /\ future' = [future EXCEPT ![r] = SettleAs(r)]
      /\ Cleanup(table, sessions, p, DOMAIN pending)
  BY <1>0 DEF Settle
<1>2. /\ r \in Rid /\ r \notin DOMAIN pending
      /\ resolving.kind \in {"result", "cancelled", "error", "tokenized"}
      /\ resolving.done => future[r] # "waiting"
  BY <1>0, <1>1 DEF EngineInv, CoordinatorType, Settling, Settlement, InHand
<1>3. UnresolvedOwner(r) = {p} /\ UnresolvedOwner(r)' = {}
      /\ \A x : x # r => UnresolvedOwner(x)' = UnresolvedOwner(x)
  BY <1>0, <1>1, <1>2 DEF UnresolvedOwner, InHand
<1>4. /\ owners' = [owners EXCEPT ![r] = {}] /\ owners[r] = {p}
  BY <1>2, <1>3
<1>5. /\ DOMAIN sessions' = {q \in DOMAIN sessions : q = p /\ sessions[q].closing => waits}
      /\ \A q \in DOMAIN sessions' : sessions'[q] = sessions[q]
  <2>1. sessions \in [DOMAIN sessions -> Session]
    BY DEF EngineInv, CoordinatorType
  <2>2. /\ DOMAIN sessions' = {q \in DOMAIN sessions : q = p /\ sessions[q].closing =>
                                     \E x \in DOMAIN pending : pending[x].pid = q}
        /\ \A q \in DOMAIN sessions' : sessions'[q] = sessions[q]
    BY <1>1, <2>1, CleanupView
  <2> QED BY <2>2
<1>6. \A q : {x \in Rid : owners[x] = {q}} = {r} <=> q = p /\ ~waits
  <2>1. \A x \in DOMAIN pending : x \in Rid /\ x # r /\ owners[x] = {pending[x].pid}
    BY <1>2 DEF EngineInv, CoordinatorType, UnresolvedOwner
  <2>2. \A x \in Rid : x \in DOMAIN pending \/ x = r \/ owners[x] = {}
    BY <1>0, <1>1 DEF UnresolvedOwner, InHand
  <2>3. owners[r] = {p} /\ r \in Rid
    BY <1>2, <1>4
  <2> HIDE DEF owners
  <2> QED BY <2>1, <2>2, <2>3
<1>7. Open' = Open
  <2> HIDE DEF waits
  <2> QED BY <1>5 DEF Open
<1>8. Draining' = {q \in Draining : {x \in Rid : owners[x] = {q}} # {r}}
  <2> HIDE DEF waits, owners
  <2> QED BY <1>5, <1>6 DEF Draining
<1>9. \/ /\ future[r] = "waiting"
         /\ \E outcome \in {"result", "error", "cancelled"} :
               future' = [future EXCEPT ![r] = outcome]
      \/ future[r] # "waiting" /\ UNCHANGED future
  <2>1. CASE future[r] = "waiting"
    BY <1>0, <1>1, <1>2, <2>1 DEF SettleAs, Outcome
  <2>2. CASE future[r] # "waiting"
    BY <1>0, <1>1, <1>2, <2>2 DEF SettleAs, EngineInv, CoordinatorType
  <2> QED BY <2>1, <2>2
<1>10. Service!Resolve(r)
  BY <1>1, <1>4, <1>7, <1>8, <1>9 
     DEF Service!Resolve, Service!Nobody, Service!Unresolved, Open, Draining
<1> QED BY <1>2, <1>10 DEF Service!Next

\* The end of shutdown is Close: no session and no call is left.
LEMMA CloseImplements ==
    ASSUME EngineInv, ShutdownClose
    PROVE  Service!Next
<1>1. /\ stopping = "final" /\ failing = {} /\ resolving = None
      /\ \A p \in DOMAIN sessions : sessions[p].closing
      /\ closed' = TRUE /\ UNCHANGED << sessions, pending, resolving, future >>
  BY DEF ShutdownClose, Released
<1>2. DOMAIN pending = {} /\ DOMAIN sessions = {}
  BY <1>1, NothingLeft
<1>3. ~closed
  BY <1>1 DEF EngineInv, Phases
<1>4. \A r \in Rid : UnresolvedOwner(r) = {}
  BY <1>1, <1>2 DEF UnresolvedOwner, InHand
<1>5. [r \in Rid |-> UnresolvedOwner(r)]' = [r \in Rid |-> UnresolvedOwner(r)]
  BY <1>1, OwnersRest
<1>6. Service!Close
  BY <1>1, <1>2, <1>3, <1>4, <1>5 DEF Service!Close, Service!Nobody
<1> QED BY <1>6 DEF Service!Next

\* An event of a call takes it in hand; every other event stutters.
LEMMA ListenStutters ==
    ASSUME EngineInv, NEW i \in Replica, Listen(i)
    PROVE  UNCHANGED Service!vars
<1> DEFINE e == Head(events[i])
<1>1. resolving = None /\ UNCHANGED << sessions, future, closed >>
  BY DEF Listen, LockFree
<1>2. CASE UNCHANGED << pending, resolving >>
  BY <1>1, <1>2, OwnersRest, ServiceStutters
<1>3. CASE /\ e.id \in DOMAIN pending /\ Take(e.id, e.kind)
           /\ e.kind \notin {"ready", "fatal", "stopped"}
  <2>1. e \in Event
    BY NextEvent DEF Listen
  <2>2. e.kind \in {"result", "cancelled", "error", "tokenized"}
    BY <1>3, <2>1 DEF Event
  <2> HIDE DEF e
  <2> QED BY <1>1, <1>3, <2>2, TakeStutters
<1> QED BY <1>2, <1>3 DEF Listen, Resolve

\* An engine just built is a service nobody has used.
LEMMA InitImplements == Init => Service!Init
<1> SUFFICES ASSUME Init PROVE Service!Init
  OBVIOUS
<1>1. DOMAIN sessions = {} /\ DOMAIN pending = {} /\ resolving = None
  BY DEF Init
<1>2. \A r \in Rid : UnresolvedOwner(r) = {}
  BY <1>1 DEF UnresolvedOwner, InHand
<1> QED BY <1>1, <1>2 DEF Init, Service!Init, Service!Nobody

\* The engine's steps are the service's, or none of its own.
LEMMA NextImplements ==
    ASSUME EngineInv, [Next]_vars
    PROVE  [Service!Next]_(Service!vars)
<1>1. CASE UNCHANGED << sessions, future, closed, pending, resolving >>
  BY <1>1, OwnersRest, ServiceStutters
<1>2. CASE Client
  <2>1. ASSUME NEW p \in Pid, StartSession(p) \/ EndSession(p) PROVE [Service!Next]_(Service!vars)
    BY <2>1, StartSessionImplements, EndingImplements DEF EndSession, LockFree, holder
  <2>2. CASE \E p \in Pid, r \in Rid, long \in BOOLEAN : Submit(p, r, long)
    BY <2>2, SubmitImplements
  <2>3. CASE \E r \in Rid : CancelFuture(r)
    BY <2>3, CancelImplements
  <2>4. CASE Shutdown \/ \E q \in Query : Tokenize(q) \/ TokenizeTimeout(q)
    BY <1>1, <2>4 DEF Shutdown, Tokenize, TokenizeTimeout, coordinator, holder
  <2> QED BY <1>2, <2>1, <2>2, <2>3, <2>4 DEF Client
<1>3. CASE \E i \in Replica : Worker(i) \/ Kill(i) \/ Terminate(i)
  BY <1>1, <1>3
  DEF Worker, Kill, Terminate, Dies, Load, Serve, Fail, ReportFatal, Exit, Complete, Abandon,
      coordinator, holder
<1>4. CASE Locked
  <2>1. ASSUME NEW r \in Rid, ResolveFailed(r) PROVE UNCHANGED Service!vars
    BY <2>1, TakeStutters DEF ResolveFailed, EngineInv, Settlement, PendingOn
  <2> QED BY <1>4, <2>1, SettleImplements DEF Locked
<1>5. CASE Listener
  <2>1. CASE ListenTimeout \/ ListenExited
    BY <1>1, <2>1 DEF ListenTimeout, ListenExited, coordinator
  <2> QED BY <1>5, <2>1, ListenStutters DEF Listener
<1>6. CASE Closer
  <2>1. CASE ShutdownFail
    BY <1>1, <2>1 DEF ShutdownFail
  <2>2. ASSUME NEW p \in Pid, ShutdownSession(p) PROVE [Service!Next]_(Service!vars)
    BY <2>2, EndingImplements DEF ShutdownSession, Released, holder
  <2> QED BY <1>6, <2>1, <2>2, CloseImplements DEF Closer
<1>7. CASE UNCHANGED vars
  BY <1>1, <1>7 DEF vars, coordinator, holder
<1> QED BY <1>2, <1>3, <1>4, <1>5, <1>6, <1>7 DEF Next

\* ServiceSpec: with any number of replicas that fail, exit or are killed at any point, the
\* engine is the service of CallService.
THEOREM EngineImplementsService == Spec => ServiceSpec
<1>1. EngineInv /\ [Next]_vars => [Service!Next]_(Service!vars)
  BY NextImplements
<1> QED BY <1>1, InitImplements, EngineInvariant, PTL DEF Spec, ServiceSpec, Service!Spec

-----------------------------------------------------------------------------
(* What the service promises, the engine keeps. *)

\* The promise, and that a call nobody submitted has no session: what Service!Next keeps.
Promised ==
    /\ Open \cap Draining = {}
    /\ \A p \in Draining : \E r \in Rid : UnresolvedOwner(r) = {p}
    /\ \A r \in Rid : UnresolvedOwner(r) # {} => \E p \in Open \cup Draining : UnresolvedOwner(r) = {p}
    /\ \A r \in Rid : future[r] = "none" => UnresolvedOwner(r) = {}

\* The steps of the service, in terms of the engine's state.
LEMMA ServiceSteps ==
    ASSUME [Service!Next]_(Service!vars)
    PROVE  \/ \E p \in Pid : /\ Open' = Open \cup {p} /\ UNCHANGED << Draining, future >>
                             /\ p \notin Open \cup Draining
                             /\ \A r \in Rid : UnresolvedOwner(r)' = UnresolvedOwner(r)
           \/ \E p \in Pid : /\ p \in Open /\ Open' = Open \ {p}
                             /\ Draining' = Draining \cup
                                    {q \in {p} : \E r \in Rid : UnresolvedOwner(r) = {q}}
                             /\ UNCHANGED future
                             /\ \A r \in Rid : UnresolvedOwner(r)' = UnresolvedOwner(r)
           \/ \E p \in Pid, r \in Rid :
                    /\ p \in Open /\ future[r] = "none"
                    /\ \A s \in Rid : UnresolvedOwner(s)' = IF s = r THEN {p} ELSE UnresolvedOwner(s)
                    /\ future' = [future EXCEPT ![r] = "waiting"]
                    /\ UNCHANGED << Open, Draining >>
           \/ \E r \in Rid : /\ \E o : o # "none" /\ future' = [future EXCEPT ![r] = o]
                             /\ UNCHANGED << Open, Draining >>
                             /\ \A s \in Rid : UnresolvedOwner(s)' = UnresolvedOwner(s)
           \/ \E r \in Rid :
                    /\ UnresolvedOwner(r) # {}
                    /\ \A s \in Rid : UnresolvedOwner(s)' = IF s = r THEN {} ELSE UnresolvedOwner(s)
                    /\ Draining' = {p \in Draining : {s \in Rid : UnresolvedOwner(s) = {p}} # {r}}
                    /\ Open' = Open
                    /\ future' = future \/ \E o : o # "none" /\ future' = [future EXCEPT ![r] = o]
           \/ /\ UNCHANGED << Open, Draining, future >>
              /\ \A r \in Rid : UnresolvedOwner(r)' = UnresolvedOwner(r)
<1> DEFINE own == [r \in Rid |-> UnresolvedOwner(r)]
<1>1. \A r \in Rid : own[r] = UnresolvedOwner(r) /\ own'[r] = UnresolvedOwner(r)'
  OBVIOUS
<1>2. CASE \E p \in Pid : Service!Start(p)
  BY <1>1, <1>2 DEF Service!Start, Open, Draining
<1>3. CASE \E p \in Pid : Service!End(p)
  <2>1. PICK p \in Pid : Service!End(p)
    BY <1>3
  <2>2. {q \in {p} : {r \in Rid : own[r] = {q}} # {}} =
            {q \in {p} : \E r \in Rid : UnresolvedOwner(r) = {q}}
    BY <1>1
  <2>3. /\ p \in Open /\ Open' = Open \ {p} /\ UNCHANGED << future, own >>
        /\ Draining' = Draining \cup {q \in {p} : {r \in Rid : own[r] = {q}} # {}}
    BY <2>1 DEF Service!End, Service!Unresolved, Open, Draining
  <2> HIDE DEF own
  <2>4. \A r \in Rid : UnresolvedOwner(r)' = UnresolvedOwner(r)
    BY <1>1, <2>3
  <2>5. Draining' = Draining \cup {q \in {p} : \E r \in Rid : UnresolvedOwner(r) = {q}}
    BY <2>2, <2>3
  <2>6. /\ p \in Open /\ Open' = Open \ {p}
        /\ Draining' = Draining \cup {q \in {p} : \E r \in Rid : UnresolvedOwner(r) = {q}}
        /\ UNCHANGED future
        /\ \A r \in Rid : UnresolvedOwner(r)' = UnresolvedOwner(r)
    BY <2>3, <2>4, <2>5
  <2> QED BY <2>6
<1>4. CASE \E p \in Pid, r \in Rid : Service!Submit(p, r)
  <2>1. PICK p \in Pid, r \in Rid : Service!Submit(p, r)
    BY <1>4
  <2>2. /\ p \in Open /\ future[r] = "none" /\ UNCHANGED << Open, Draining >>
        /\ own' = [own EXCEPT ![r] = {p}] /\ future' = [future EXCEPT ![r] = "waiting"]
    BY <2>1 DEF Service!Submit, Open, Draining
  <2>3. DOMAIN own = Rid
    OBVIOUS
  <2> HIDE DEF own
  <2>4. \A s \in Rid : UnresolvedOwner(s)' = IF s = r THEN {p} ELSE UnresolvedOwner(s)
    BY <1>1, <2>2, <2>3
  <2> QED BY <2>2, <2>4
<1>5. CASE \E r \in Rid : Service!Cancel(r)
  BY <1>1, <1>5 DEF Service!Cancel, Open, Draining
<1>6. CASE \E r \in Rid : Service!Resolve(r)
  <2>1. PICK r \in Rid : Service!Resolve(r)
    BY <1>6
  <2>2. /\ own[r] # {} /\ own' = [own EXCEPT ![r] = {}] /\ Open' = Open
        /\ Draining' = {p \in Draining : {s \in Rid : own[s] = {p}} # {r}}
        /\ future' = future \/ \E o : o # "none" /\ future' = [future EXCEPT ![r] = o]
    BY <2>1 DEF Service!Resolve, Service!Unresolved, Service!Nobody, Open, Draining
  <2>3. DOMAIN own = Rid
    OBVIOUS
  <2>4. \A p : {s \in Rid : own[s] = {p}} = {s \in Rid : UnresolvedOwner(s) = {p}}
    BY <1>1
  <2> HIDE DEF own
  <2>5. \A s \in Rid : UnresolvedOwner(s)' = IF s = r THEN {} ELSE UnresolvedOwner(s)
    BY <1>1, <2>2, <2>3
  <2>6. Draining' = {p \in Draining : {s \in Rid : UnresolvedOwner(s) = {p}} # {r}}
    BY <2>2, <2>4
  <2>7. /\ UnresolvedOwner(r) # {}
        /\ \A s \in Rid : UnresolvedOwner(s)' = IF s = r THEN {} ELSE UnresolvedOwner(s)
        /\ Draining' = {p \in Draining : {s \in Rid : UnresolvedOwner(s) = {p}} # {r}}
        /\ Open' = Open
        /\ future' = future \/ \E o : o # "none" /\ future' = [future EXCEPT ![r] = o]
    BY <1>1, <2>2, <2>5, <2>6
  <2> QED BY <2>7
<1>7. CASE Service!Close \/ UNCHANGED Service!vars
  BY <1>1, <1>7 DEF Service!Close, Service!vars, Open, Draining
<1> QED BY <1>2, <1>3, <1>4, <1>5, <1>6, <1>7 DEF Service!Next

\* Each of them keeps the promise.
LEMMA PromiseKept ==
    ASSUME EngineInv, Promised, [Service!Next]_(Service!vars)
    PROVE  Promised'
<1>0. DOMAIN future = Rid
  BY DEF EngineInv, CoordinatorType
<1>1. CASE \E p \in Pid : /\ Open' = Open \cup {p} /\ UNCHANGED << Draining, future >>
                          /\ p \notin Open \cup Draining
                          /\ \A r \in Rid : UnresolvedOwner(r)' = UnresolvedOwner(r)
  BY <1>1 DEF Promised
<1>2. CASE \E p \in Pid : /\ p \in Open /\ Open' = Open \ {p}
                          /\ Draining' = Draining \cup
                                 {q \in {p} : \E r \in Rid : UnresolvedOwner(r) = {q}}
                          /\ UNCHANGED future
                          /\ \A r \in Rid : UnresolvedOwner(r)' = UnresolvedOwner(r)
  BY <1>2 DEF Promised
<1>3. CASE \E p \in Pid, r \in Rid :
                 /\ p \in Open /\ future[r] = "none"
                 /\ \A s \in Rid : UnresolvedOwner(s)' = IF s = r THEN {p} ELSE UnresolvedOwner(s)
                 /\ future' = [future EXCEPT ![r] = "waiting"]
                 /\ UNCHANGED << Open, Draining >>
  BY <1>0, <1>3 DEF Promised
<1>4. CASE \E r \in Rid : /\ \E o : o # "none" /\ future' = [future EXCEPT ![r] = o]
                          /\ UNCHANGED << Open, Draining >>
                          /\ \A s \in Rid : UnresolvedOwner(s)' = UnresolvedOwner(s)
  BY <1>0, <1>4 DEF Promised
<1>5. CASE \E r \in Rid :
                 /\ UnresolvedOwner(r) # {}
                 /\ \A s \in Rid : UnresolvedOwner(s)' = IF s = r THEN {} ELSE UnresolvedOwner(s)
                 /\ Draining' = {p \in Draining : {s \in Rid : UnresolvedOwner(s) = {p}} # {r}}
                 /\ Open' = Open
                 /\ future' = future \/ \E o : o # "none" /\ future' = [future EXCEPT ![r] = o]
  <2>1. PICK r \in Rid :
            /\ UnresolvedOwner(r) # {}
            /\ \A s \in Rid : UnresolvedOwner(s)' = IF s = r THEN {} ELSE UnresolvedOwner(s)
            /\ Draining' = {p \in Draining : {s \in Rid : UnresolvedOwner(s) = {p}} # {r}}
            /\ Open' = Open
            /\ future' = future \/ \E o : o # "none" /\ future' = [future EXCEPT ![r] = o]
    BY <1>5
  <2>2. (Open \cap Draining = {})'
    BY <2>1 DEF Promised
  <2>3. ASSUME NEW p \in Draining' PROVE \E d \in Rid : UnresolvedOwner(d)' = {p}
    <3>1. p \in Draining /\ {s \in Rid : UnresolvedOwner(s) = {p}} # {r}
      BY <2>1, <2>3
    <3>2. PICK d \in Rid : UnresolvedOwner(d) = {p}
      BY <3>1 DEF Promised
    <3>3. PICK e \in Rid : UnresolvedOwner(e) = {p} /\ e # r
      BY <3>1, <3>2
    <3> QED BY <2>1, <3>3
  <2>4. ASSUME NEW d \in Rid, UnresolvedOwner(d)' # {}
        PROVE  \E p \in Open' \cup Draining' : UnresolvedOwner(d)' = {p}
    <3>1. d # r /\ UnresolvedOwner(d)' = UnresolvedOwner(d)
      BY <2>1, <2>4
    <3>2. PICK p \in Open \cup Draining : UnresolvedOwner(d) = {p}
      BY <2>4, <3>1 DEF Promised
    <3>3. {s \in Rid : UnresolvedOwner(s) = {p}} # {r}
      BY <3>1, <3>2
    <3> QED BY <2>1, <3>1, <3>2, <3>3
  <2>5. \A d \in Rid : future'[d] = "none" => UnresolvedOwner(d)' = {}
    BY <1>0, <2>1 DEF Promised
  <2> QED BY <2>2, <2>3, <2>4, <2>5 DEF Promised
<1>6. CASE /\ UNCHANGED << Open, Draining, future >>
           /\ \A r \in Rid : UnresolvedOwner(r)' = UnresolvedOwner(r)
  BY <1>6 DEF Promised
<1> HIDE DEF Promised
<1> QED BY <1>1, <1>2, <1>3, <1>4, <1>5, <1>6, ServiceSteps

\* end_session and _cleanup_session: an ended session is kept for a call that is not
\* resolved yet, never for nothing, and no call loses its session.
THEOREM SessionsDrain == Spec => []Service!SessionsOfCalls
<1>1. Init => Promised
  BY DEF Init, Promised, Open, Draining, UnresolvedOwner, InHand
<1>2. EngineInv /\ Promised /\ [Service!Next]_(Service!vars) => Promised'
  BY PromiseKept
<1>3. Promised => Service!SessionsOfCalls
  BY DEF Promised, Service!SessionsOfCalls, Service!Nobody, Open, Draining
<1>4. Spec => Init
  BY DEF Spec
<1> QED BY <1>1, <1>2, <1>3, <1>4, EngineInvariant, EngineImplementsService, PTL
    DEF ServiceSpec, Service!Spec

\* shutdown: once the engine is closed nobody waits any more.
THEOREM ClosedIsDone == Spec => []Service!ClosedMeansDone
<1>1. EngineInv => Service!ClosedMeansDone
  <2> SUFFICES ASSUME EngineInv, closed PROVE Service!ClosedMeansDone
    BY DEF Service!ClosedMeansDone
  <2> USE DEF EngineInv
  <2>1. DOMAIN pending = {} /\ DOMAIN sessions = {} /\ InHand = {}
    BY DEF Phases, InHand
  <2>2. \A r \in Rid : UnresolvedOwner(r) = {} /\ future[r] # "waiting"
    BY <2>1 DEF UnresolvedOwner, NoFutureForgotten
  <2> QED BY <2>1, <2>2 DEF Service!ClosedMeansDone, Service!Nobody
<1> QED BY <1>1, EngineInvariant, PTL

\* Future: once its caller can see an outcome, or has cancelled it, no replica's answer,
\* failure or exit changes it.
THEOREM OutcomesAreFinal == Spec => Service!SettledOnce
<1> DEFINE Kept == \A r \in Rid : Service!Settled(r) => future'[r] = future[r]
<1>1. EngineInv /\ [Service!Next]_(Service!vars) => [Kept]_(Service!vars)
  <2> SUFFICES ASSUME EngineInv, Service!Next PROVE Kept
    OBVIOUS
  <2>1. DOMAIN future = Rid
    BY DEF EngineInv, CoordinatorType
  <2>2. ASSUME NEW p \in Pid, Service!Start(p) \/ Service!End(p) PROVE Kept
    BY <2>2 DEF Service!Start, Service!End
  <2>3. ASSUME NEW p \in Pid, NEW r \in Rid, Service!Submit(p, r) PROVE Kept
    BY <2>1, <2>3 DEF Service!Submit, Service!Settled
  <2>4. ASSUME NEW r \in Rid, Service!Cancel(r) PROVE Kept
    BY <2>1, <2>4 DEF Service!Cancel, Service!Settled
  <2>5. ASSUME NEW r \in Rid, Service!Resolve(r) PROVE Kept
    BY <2>1, <2>5 DEF Service!Resolve, Service!Settled
  <2>6. CASE Service!Close
    BY <2>6 DEF Service!Close
  <2> QED BY <2>2, <2>3, <2>4, <2>5, <2>6 DEF Service!Next
<1> QED BY <1>1, EngineInvariant, EngineImplementsService, PTL
    DEF ServiceSpec, Service!Spec, Service!SettledOnce

=============================================================================
