------------------------- MODULE SGLangBackend_proofs -----------------------
(***************************************************************************)
(* Proofs about the SGLang replica, for any programs and calls: what the   *)
(* coordinator was told of a call agrees with what the scheduler process   *)
(* did of it, in whatever order outputs, accounting, cancellations and the *)
(* shutdown arrive.                                                        *)
(*                                                                         *)
(* BackendInv follows a call through three processes and three queues.     *)
(* Freshness: of every call the first command and the first message is the *)
(* one that runs it, so before it nobody behind knows the call.  Progress  *)
(* and RowsScheduled: a streamed call is ended, and only a call that is    *)
(* not accounted for has a row.  Accounting: a task that is still wanted   *)
(* takes metrics of a call that was charged.  Cancelling: what was         *)
(* cancelled is gone for good.  Hearing and Admission: while the worker    *)
(* serves and no wait ran out, a session outlives its calls.               *)
(***************************************************************************)
EXTENDS SGLangBackend, Common_proofs

-----------------------------------------------------------------------------
(* The shape of the state. *)

Command == [kind : {"add", "cancel"}, rid : Rid] \cup {Msg("shutdown", None)}
Event == [kind : {"result", "error", "cancelled"}, rid : Rid] \cup {Msg("stopped", None)}
Message == [kind : {"add", "abort"}, rid : Rid]
Scheduled == [at : {"queued", "running", "ended", "finished"}, inherited : Nat]

BackendType ==
    /\ TableInv(table)
    /\ sessions \in [DOMAIN sessions -> BOOLEAN] /\ DOMAIN sessions \subseteq Pid
    /\ owner \in [DOMAIN owner -> Pid] /\ DOMAIN owner \subseteq Rid
    /\ outcome \in [DOMAIN outcome -> {"result", "error", "cancelled"}]
    /\ pending \subseteq Rid /\ DOMAIN outcome \subseteq Rid
    /\ resolving \in Rid \cup {None} /\ cancelling \in Rid \cup {None}
    /\ commands \in Seq(Command) /\ events \in Seq(Event) /\ messages \in Seq(Message)
    /\ phase \in {"loop", "closing", "closed"} /\ failed \in BOOLEAN /\ alive \in BOOLEAN
    /\ task \in [DOMAIN task -> {"new", "sent", "polling", "result", "error"}]
    /\ sched \in [DOMAIN sched -> Scheduled]
    /\ DOMAIN task \subseteq Rid /\ DOMAIN sched \subseteq Rid
    /\ metrics \subseteq Rid /\ outputs \subseteq Rid

-----------------------------------------------------------------------------
(* The inductive invariant. *)

Adds(queue, r) == Msg("add", r) \in Range(queue)
Names(queue, r) == \E m \in Range(queue) : m.rid = r

\* The command to run a call is the first of it, and so is the message.
AddFirst(queue) ==
    \A m, n \in DOMAIN queue : m < n /\ queue[m].rid = queue[n].rid => queue[n].kind # "add"

\* Before its command is served neither the worker nor the scheduler knows a call, and
\* before it is submitted nobody does.
NotStarted(r) ==
    /\ r \notin DOMAIN task \cup DOMAIN sched \cup metrics \cup outputs
    /\ r # cancelling /\ ~Names(messages, r) /\ ~Names(events, r)
Freshness ==
    /\ AddFirst(commands) /\ AddFirst(messages)
    /\ \A r \in Rid : Adds(commands, r) => NotStarted(r)
    /\ \A r \in Rid \ DOMAIN owner :
        /\ NotStarted(r) /\ r \notin pending \cup DOMAIN outcome
        /\ r # resolving /\ ~Names(commands, r)

\* How far the task of a call and the scheduler are with it; a task may raise before it sends.
Unsent(r) == r \notin DOMAIN sched \cup metrics \cup outputs /\ ~Names(messages, r)
Progress ==
    /\ \A r \in DOMAIN task : task[r] = "new" => Unsent(r)
    /\ \A r \in DOMAIN task : task[r] \in {"polling", "result"} => r \in outputs
    /\ \A r \in DOMAIN task : task[r] = "error" => Unsent(r) \/ r \in outputs
    /\ \A r \in outputs : r \in DOMAIN sched => r \in Ended
    /\ \A r \in DOMAIN sched \cup metrics \cup outputs : ~Adds(messages, r)

\* A row is of a call the scheduler has not accounted for.
RowsScheduled ==
    \A r \in DOMAIN table.requests :
        r \in DOMAIN sched /\ sched[r].at # "finished" /\ table.requests[r] = owner[r]

\* As long as nobody gave the call up, its row waits for the accounting, which charges it.
Accounting ==
    /\ \A r \in DOMAIN task \cap pending :
        /\ r \in DOMAIN sched =>
               IF sched[r].at = "finished" THEN r \in charged ELSE r \in DOMAIN table.requests
        /\ r \in metrics \/ task[r] = "result" => r \in charged
    /\ \A e \in Range(events) : e.kind = "result" /\ e.rid \in pending => e.rid \in charged
    /\ ResultIsAccounted

\* A call the worker has let go of, for good: what was sent of it is followed by its abort.
Settled(r) ==
    r \in DOMAIN sched \/ Adds(messages, r) =>
        r \in toAbort \cup Ended \/ Msg("abort", r) \in Range(messages)
Gone(r) == r \notin DOMAIN task /\ ~Adds(commands, r) /\ Settled(r)

AnswerIn(queue, r, n) ==
    \E m \in 1..n : queue[m].rid = r /\ queue[m].kind \in {"result", "error"}
Cancelling ==
    /\ cancelling # None => Gone(cancelling)
    /\ \A r \in DOMAIN outcome : outcome[r] = "cancelled" => Gone(r)
    /\ \A n \in DOMAIN events : events[n].kind = "cancelled" =>
        LET r == events[n].rid IN r \in pending => Gone(r) \/ AnswerIn(events, r, n - 1)
    /\ \A r \in pending :
        Adds(commands, r) \/ r \in DOMAIN task \/ Gone(r) \/ AnswerIn(events, r, Len(events))

\* What was said of a call was said when its task was gone; while the worker serves, the
\* coordinator resolves no call it has not heard of.
Hearing ==
    /\ \A e \in Range(events) :
        e.rid \notin DOMAIN task /\ (cancelling # None => e.rid # cancelling)
    /\ failed \/ Msg("stopped", None) \in Range(events) => phase # "loop"
    /\ phase = "loop" =>
        /\ \A r \in Rid : r \in DOMAIN task \/ Adds(commands, r) => r \in pending
        /\ cancelling # None => cancelling \in pending

\* Sessions have open programs, so the admission of a pending call does not raise.
Admission ==
    /\ \A p \in DOMAIN sessions : p \in DOMAIN table.programs /\ ~table.programs[p].closing
    /\ \A r \in pending : owner[r] \in DOMAIN sessions
    /\ late = {} /\ phase = "loop" =>
        /\ alive
        /\ \A r \in Rid : Adds(messages, r) => r \in DOMAIN task \/ r = cancelling

BackendInv ==
    /\ BackendType /\ Freshness /\ Progress /\ RowsScheduled /\ Accounting
    /\ Cancelling /\ Hearing /\ Admission

-----------------------------------------------------------------------------
(* The transactions of the table, and the queues. *)

\* A program that takes calls.
IsOpen(t, p) == p \in DOMAIN t.programs /\ ~t.programs[p].closing

\* open: one more program that takes calls.
LEMMA OpenView ==
    ASSUME NEW t, NEW p \in Pid, TableInv(t), CanOpen(t, p)
    PROVE  /\ TableInv(OpenIn(t, p)) /\ OpenIn(t, p).requests = t.requests
           /\ \A q : IsOpen(OpenIn(t, p), q) <=> q = p \/ IsOpen(t, q)
<1>1. TableInv(OpenIn(t, p))
  BY OpenKeepsInv
<1> QED BY <1>1 DEF OpenIn, Put, NewProgram, IsOpen, CanOpen

\* admit: one more row, the others as they were.
LEMMA AdmitView ==
    ASSUME NEW t, NEW p \in Pid, NEW r \in Rid, TableInv(t), CanAdmit(t, p, r)
    PROVE  /\ TableInv(AdmitTo(t, p, r))
           /\ \A q : IsOpen(t, q) => IsOpen(AdmitTo(t, p, r), q)
           /\ DOMAIN AdmitTo(t, p, r).requests = DOMAIN t.requests \cup {r}
           /\ AdmitTo(t, p, r).requests[r] = p
           /\ \A s \in DOMAIN t.requests : s # r => AdmitTo(t, p, r).requests[s] = t.requests[s]
<1>1. TableInv(AdmitTo(t, p, r))
  BY AdmitKeepsInv
<1>2. \A q \in DOMAIN t.programs : t.programs[q] \in Program
  BY DEF TableInv, TableType
<1> QED BY <1>1, <1>2 DEF AdmitTo, Put, IsOpen, CanAdmit, Program

\* DropDrained takes a program that is closing, or none.
LEMMA DropView ==
    ASSUME NEW t, NEW p
    PROVE  /\ DropDrained(t, p).requests = t.requests
           /\ \A q : IsOpen(t, q) => IsOpen(DropDrained(t, p), q)
BY DEF DropDrained, IsOpen, Drop, Restrict

\* A finish removes the row it is for and no program that takes calls.
LEMMA FinishView ==
    ASSUME NEW t, NEW p \in Pid, NEW r \in Rid, NEW i \in Nat, NEW e \in Nat, NEW w \in Nat,
           TableInv(t), NEW new, new = FinishIn(t, p, r, i, e, w)
    PROVE  /\ TableInv(new)
           /\ \A q : IsOpen(t, q) => IsOpen(new, q)
           /\ RemovesRow(t, p, r) => DOMAIN new.requests = DOMAIN t.requests \ {r}
           /\ ~RemovesRow(t, p, r) => DOMAIN new.requests = DOMAIN t.requests
           /\ \A s \in DOMAIN new.requests : new.requests[s] = t.requests[s]
<1>1. TableInv(new)
  BY FinishKeepsInv
<1>2. CASE ~RemovesRow(t, p, r)
  BY <1>1, <1>2 DEF FinishIn
<1>3. CASE RemovesRow(t, p, r)
  <2> DEFINE u == [programs |-> [t.programs EXCEPT
                      ![p].service = Charge(@, i, e),
                      ![p].wait    = @ + w,
                      ![p].active  = @ - 1],
                   requests |-> Drop(t.requests, r)]
  <2>1. p \in DOMAIN t.programs /\ t.programs[p] \in Program
    BY <1>3 DEF RemovesRow, RowsOf, TableInv, TableType, ActiveIsRows
  <2>2. DOMAIN u.programs = DOMAIN t.programs
        /\ \A q \in DOMAIN t.programs : u.programs[q].closing = t.programs[q].closing
    BY <2>1 DEF Program
  <2>3. u.requests = [s \in DOMAIN t.requests \ {r} |-> t.requests[s]]
    BY DEF Drop, Restrict
  <2>4. FinishIn(t, p, r, i, e, w) = DropDrained(u, p)
    BY <1>3 DEF FinishIn
  <2> HIDE DEF u
  <2>5. \A q : IsOpen(t, q) => IsOpen(u, q)
    BY <2>2 DEF IsOpen
  <2> QED BY <1>1, <1>3, <2>3, <2>4, <2>5, DropView
<1> QED BY <1>2, <1>3

\* Only the program that is ended stops taking calls.
LEMMA EndView ==
    ASSUME NEW t, NEW p, TableInv(t)
    PROVE  /\ TableInv(EndIn(t, p)) /\ EndIn(t, p).requests = t.requests
           /\ \A q : IsOpen(t, q) /\ q # p => IsOpen(EndIn(t, p), q)
<1> DEFINE u == [programs |-> [t.programs EXCEPT ![p].closing = TRUE], requests |-> t.requests]
<1>1. TableInv(EndIn(t, p))
  BY EndKeepsInv
<1>2. \A q : IsOpen(t, q) /\ q # p => IsOpen(u, q)
  BY DEF IsOpen
<1>3. EndIn(t, p) = IF p \in DOMAIN t.programs THEN DropDrained(u, p) ELSE t
  BY DEF EndIn
<1>4. u.requests = t.requests
  OBVIOUS
<1> HIDE DEF u
<1> QED BY <1>1, <1>2, <1>3, <1>4, DropView

\* Putting a message on a queue.
LEMMA AppendView ==
    ASSUME NEW S, NEW s \in Seq(S), NEW e \in S
    PROVE  /\ Append(s, e) \in Seq(S) /\ Len(Append(s, e)) = Len(s) + 1
           /\ Range(Append(s, e)) = Range(s) \cup {e}
           /\ Append(s, e)[Len(s) + 1] = e
           /\ \A n \in 1..Len(s) : Append(s, e)[n] = s[n]
<1>1. Append(s, e) \in Seq(S) /\ Len(Append(s, e)) = Len(s) + 1
  OBVIOUS
<1>2. DOMAIN Append(s, e) = 1 .. Len(s) + 1 /\ DOMAIN s = 1 .. Len(s) /\ Len(s) \in Nat
  OBVIOUS
<1>3. Append(s, e)[Len(s) + 1] = e /\ \A n \in 1 .. Len(s) : Append(s, e)[n] = s[n]
  OBVIOUS
<1>4. Range(Append(s, e)) \subseteq Range(s) \cup {e}
  BY DEF Range
<1>5. Range(s) \cup {e} \subseteq Range(Append(s, e))
  BY <1>2, <1>3 DEF Range
<1> QED BY <1>1, <1>3, <1>4, <1>5

\* Taking the first message off a queue.
LEMMA TailView ==
    ASSUME NEW S, NEW s \in Seq(S), s # << >>
    PROVE  /\ Tail(s) \in Seq(S) /\ Len(Tail(s)) = Len(s) - 1 /\ Len(s) \in Nat \ {0}
           /\ Head(s) = s[1] /\ Head(s) \in S
           /\ Range(s) = Range(Tail(s)) \cup {Head(s)}
           /\ \A n \in 1..Len(s) - 1 : Tail(s)[n] = s[n + 1]
<1>1. Tail(s) \in Seq(S) /\ Len(Tail(s)) = Len(s) - 1 /\ Len(s) \in Nat \ {0}
      /\ Head(s) = s[1] /\ 1 \in DOMAIN s /\ Head(s) \in S
  OBVIOUS
<1>2. DOMAIN s = 1..Len(s) /\ DOMAIN Tail(s) = 1..Len(s) - 1
  BY <1>1
<1>3. \A n \in 1..Len(s) - 1 : Tail(s)[n] = s[n + 1]
  BY <1>1
<1>4. Range(Tail(s)) \cup {Head(s)} \subseteq Range(s)
  BY <1>1, <1>2, <1>3 DEF Range
<1>5. Range(s) \subseteq Range(Tail(s)) \cup {Head(s)}
  <2> SUFFICES ASSUME NEW n \in 1..Len(s) PROVE s[n] \in Range(Tail(s)) \cup {Head(s)}
    BY <1>2 DEF Range
  <2>1. CASE n = 1
    BY <1>1, <2>1
  <2>2. CASE n # 1
    <3>1. n - 1 \in 1..Len(s) - 1 /\ Tail(s)[n - 1] = s[n]
      BY <1>1, <1>3, <2>2
    <3> QED BY <1>2, <3>1 DEF Range
  <2> QED BY <2>1, <2>2
<1> QED BY <1>1, <1>3, <1>4, <1>5

\* A message is its kind and its request.
LEMMA MessageView ==
    ASSUME NEW S, S \subseteq Command \/ S \subseteq Event \/ S \subseteq Message, NEW s \in Seq(S)
    PROVE  /\ Range(s) \subseteq S
           /\ \A m \in S : m = Msg(m.kind, m.rid) /\ (m.rid \in Rid \/ m.rid = None)
<1>1. Range(s) \subseteq S
  BY DEF Range
<1> QED BY <1>1 DEF Command, Event, Message, Msg

\* An `add' may be put as long as its call is not named.
LEMMA AddFirstAppend ==
    ASSUME NEW S, NEW s \in Seq(S), NEW e \in S, AddFirst(s), e.kind = "add" => ~Names(s, e.rid)
    PROVE  AddFirst(Append(s, e))
<1>1. DOMAIN Append(s, e) = 1 .. Len(s) + 1 /\ DOMAIN s = 1 .. Len(s) /\ Len(s) \in Nat
  OBVIOUS
<1> QED BY <1>1, AppendView DEF AddFirst, Names, Range

\* Once the first message of a call is taken, none that is left adds it.
LEMMA AddFirstTail ==
    ASSUME NEW S, NEW s \in Seq(S), s # << >>, AddFirst(s)
    PROVE  AddFirst(Tail(s)) /\ \A c \in Range(Tail(s)) : c.kind = "add" => c.rid # Head(s).rid
<1>1. 1 \in DOMAIN s /\ Head(s) = s[1]
  OBVIOUS
<1>2. \A n \in DOMAIN Tail(s) : n \in Nat /\ n >= 1 /\ n + 1 \in DOMAIN s /\ Tail(s)[n] = s[n + 1]
  OBVIOUS
<1>3. AddFirst(Tail(s))
  BY <1>2 DEF AddFirst
<1>4. \A c \in Range(Tail(s)) : c.kind = "add" => c.rid # Head(s).rid
  BY <1>1, <1>2 DEF AddFirst, Range
<1> QED BY <1>3, <1>4

-----------------------------------------------------------------------------
(* The coordinator: sessions and calls. *)

\* A step that puts no message, no event and no command, and leaves the calls where they are:
\* at most the sessions and the programs change.
LEMMA SessionsKeepInv ==
    ASSUME BackendInv,
           UNCHANGED << metrics, pending, owner, outcome, failed, worker, scheduler, commands,
                        events, messages, late >>,
           resolving' \in {resolving, None},
           TableInv(table'), table'.requests = table.requests,
           sessions' \in [DOMAIN sessions' -> BOOLEAN], DOMAIN sessions' \subseteq Pid,
           \A p \in DOMAIN sessions' : IsOpen(table', p),
           \A r \in pending : owner[r] \in DOMAIN sessions'
    PROVE  BackendInv'
<1> USE DEF BackendInv, worker, scheduler
<1>1. BackendType'
  BY DEF BackendType
<1>2. Freshness'
  BY NoneAssumption DEF Freshness, NotStarted, Names, Adds, AddFirst
<1>3. (Progress /\ RowsScheduled)'
  BY DEF Progress, Unsent, RowsScheduled, Names, Adds, Ended
<1>4. Accounting'
  BY DEF Accounting, ResultIsAccounted
<1>5. Cancelling'
  BY DEF Cancelling, Gone, Settled, Adds, Ended, AnswerIn
<1>6. (Hearing /\ Admission)'
  BY DEF Hearing, Admission, Adds, IsOpen
<1> QED BY <1>1, <1>2, <1>3, <1>4, <1>5, <1>6

\* start_session: its program is as new.
LEMMA StartSessionKeepsInv ==
    ASSUME BackendInv, NEW p \in Pid, StartSession(p)
    PROVE  BackendInv'
<1> USE DEF BackendInv
<1>1. /\ table' = OpenIn(table, p) /\ CanOpen(table, p) /\ sessions' = Put(sessions, p, FALSE)
      /\ UNCHANGED << metrics, pending, owner, outcome, failed, worker, scheduler, commands,
                      events, messages, late, resolving >>
  BY DEF StartSession, KeepsCalls, Alone
<1>2. /\ TableInv(table') /\ table'.requests = table.requests
      /\ \A q : IsOpen(table', q) <=> q = p \/ IsOpen(table, q)
  BY <1>1, OpenView DEF BackendType
<1>3. /\ sessions' \in [DOMAIN sessions' -> BOOLEAN]
      /\ DOMAIN sessions' = DOMAIN sessions \cup {p}
  BY <1>1 DEF Put, BackendType
<1>4. \A q \in DOMAIN sessions' : IsOpen(table', q)
  BY <1>2, <1>3 DEF Admission, IsOpen
<1>5. \A r \in pending : owner[r] \in DOMAIN sessions'
  BY <1>3 DEF Admission
<1> QED BY <1>1, <1>2, <1>3, <1>4, <1>5, SessionsKeepInv DEF BackendType

\* _cleanup_session: the session of no pending call, with its program, or nothing.
LEMMA CleanupKeepsInv ==
    ASSUME BackendInv, NEW p, NEW s, s \in [DOMAIN s -> BOOLEAN], DOMAIN s = DOMAIN sessions,
           Cleanup(table, s, p, pending),
           UNCHANGED << metrics, pending, owner, outcome, failed, worker, scheduler, commands,
                        events, messages, late >>,
           resolving' \in {resolving, None}
    PROVE  BackendInv'
<1> USE DEF BackendInv
<1>1. DOMAIN sessions \subseteq Pid /\ \A q \in DOMAIN sessions : IsOpen(table, q)
  BY DEF BackendType, Admission, IsOpen
<1>2. CASE p \in DOMAIN s /\ s[p] /\ ~\E r \in pending : owner[r] = p
  <2>1. sessions' = Drop(s, p) /\ table' = EndIn(table, p)
    BY <1>2 DEF Cleanup
  <2>2. /\ TableInv(table') /\ table'.requests = table.requests
        /\ \A q : IsOpen(table, q) /\ q # p => IsOpen(table', q)
    BY <2>1, EndView DEF BackendType
  <2>3. sessions' \in [DOMAIN sessions' -> BOOLEAN] /\ DOMAIN sessions' = DOMAIN sessions \ {p}
    BY <2>1 DEF Drop, Restrict
  <2>4. \A r \in pending : owner[r] \in DOMAIN sessions'
    BY <1>2, <2>3 DEF Admission
  <2>5. \A q \in DOMAIN sessions' : IsOpen(table', q)
    BY <1>1, <2>2, <2>3
  <2> QED BY <1>1, <2>2, <2>3, <2>4, <2>5, SessionsKeepInv
<1>3. CASE ~(p \in DOMAIN s /\ s[p] /\ ~\E r \in pending : owner[r] = p)
  <2>1. sessions' = s /\ table' = table
    BY <1>3 DEF Cleanup
  <2> QED BY <1>1, <2>1, SessionsKeepInv DEF BackendType, Admission
<1> QED BY <1>2, <1>3

\* end_session.
LEMMA EndSessionKeepsInv ==
    ASSUME BackendInv, NEW p \in Pid, EndSession(p)
    PROVE  BackendInv'
<1> DEFINE s == Put(sessions, p, TRUE)
<1>1. s \in [DOMAIN s -> BOOLEAN] /\ DOMAIN s = DOMAIN sessions
  BY DEF EndSession, Put, BackendInv, BackendType
<1>2. /\ Cleanup(table, s, p, pending)
      /\ UNCHANGED << metrics, pending, owner, outcome, failed, worker, scheduler, commands,
                      events, messages, late, resolving >>
  BY DEF EndSession, KeepsCalls, Alone
<1> HIDE DEF s
<1> QED BY <1>1, <1>2, CleanupKeepsInv

\* The end of _resolve.
LEMMA SettleKeepsInv ==
    ASSUME BackendInv, Settle
    PROVE  BackendInv'
<1>1. sessions \in [DOMAIN sessions -> BOOLEAN]
  BY DEF BackendInv, BackendType
<1> QED BY <1>1, CleanupKeepsInv DEF Settle, Alone

\* A command that adds no call.
LEMMA CommandKeepsInv ==
    ASSUME BackendInv, NEW c \in Command, c.kind # "add", c.rid # None => c.rid \in DOMAIN owner,
           commands' = Append(commands, c),
           UNCHANGED << metrics, pending, owner, outcome, failed, worker, scheduler,
                        events, messages, late, table, sessions, resolving >>
    PROVE  BackendInv'
<1> USE DEF BackendInv, worker, scheduler
<1>1. commands' \in Seq(Command) /\ Range(commands') = Range(commands) \cup {c}
  BY AppendView DEF BackendType
<1>2. AddFirst(commands')
  BY AddFirstAppend DEF BackendType, Freshness
<1>3. \A r : Adds(commands, r) <=> Adds(commands', r)
  BY <1>1 DEF Adds, Msg
<1>4. \A r \in Rid \ DOMAIN owner : Names(commands', r) => Names(commands, r)
  BY <1>1, NoneAssumption DEF Names
<1>5. BackendType'
  BY <1>1 DEF BackendType
<1>6. Freshness'
  BY <1>2, <1>3, <1>4 DEF Freshness, NotStarted, Names, Adds, AddFirst
<1>7. (Progress /\ RowsScheduled)'
  BY DEF Progress, Unsent, RowsScheduled, Names, Adds, Ended
<1>8. Accounting'
  BY DEF Accounting, ResultIsAccounted
<1>9. \A r : Gone(r)' <=> Gone(r)
  BY <1>3 DEF Gone, Settled, Adds, Ended
<1>10. Cancelling'
  BY <1>3, <1>9 DEF Cancelling, AnswerIn
<1>11. (Hearing /\ Admission)'
  BY <1>3 DEF Hearing, Admission, Adds
<1> QED BY <1>5, <1>6, <1>7, <1>8, <1>10, <1>11

\* The callback of a cancelled future names a call the coordinator knows.
LEMMA CancelFutureKeepsInv ==
    ASSUME BackendInv, NEW r \in Rid, CancelFuture(r)
    PROVE  BackendInv'
<1>1. r \in DOMAIN owner
  BY DEF CancelFuture, BackendInv, Freshness
<1>2. Msg("cancel", r) \in Command /\ Msg("cancel", r).kind = "cancel" /\ Msg("cancel", r).rid = r
  BY DEF Command, Msg
<1> QED BY <1>1, <1>2, CommandKeepsInv DEF CancelFuture, Alone

\* The shutdown names no call.
LEMMA ShutdownKeepsInv ==
    ASSUME BackendInv, Shutdown
    PROVE  BackendInv'
<1>1. /\ Msg("shutdown", None) \in Command
      /\ Msg("shutdown", None).kind = "shutdown" /\ Msg("shutdown", None).rid = None
  BY DEF Command, Msg
<1> QED BY <1>1, CommandKeepsInv DEF Shutdown, Alone, coordinator

\* submit: nobody knew of the call, and its command is the first of it.
LEMMA SubmitKeepsInv ==
    ASSUME BackendInv, NEW p \in Pid, NEW r \in Rid, Submit(p, r)
    PROVE  BackendInv'
<1> DEFINE c == Msg("add", r)
<1> USE DEF BackendInv, worker, scheduler
<1>1. /\ p \in DOMAIN sessions /\ r \notin DOMAIN owner /\ ~failed
      /\ owner' = Put(owner, r, p) /\ pending' = pending \cup {r}
      /\ commands' = Append(commands, c)
      /\ UNCHANGED << metrics, worker, scheduler, messages, late, table, sessions, outcome,
                      resolving, failed, events >>
  BY DEF Submit, Alone
<1>2. /\ NotStarted(r) /\ r \notin pending \cup DOMAIN outcome /\ r # resolving
      /\ ~Names(commands, r)
  BY <1>1 DEF Freshness
<1>3. c \in Command /\ c.kind = "add" /\ c.rid = r /\ \A s : c = Msg("add", s) <=> s = r
  BY DEF Command, Msg
<1> HIDE DEF c
<1>4. commands' \in Seq(Command) /\ Range(commands') = Range(commands) \cup {c}
  BY <1>1, <1>3, AppendView DEF BackendType
<1>5. AddFirst(commands')
  BY <1>1, <1>2, <1>3, AddFirstAppend DEF BackendType, Freshness
<1>6. \A s : Adds(commands', s) <=> s = r \/ Adds(commands, s)
  BY <1>3, <1>4 DEF Adds
<1>7. \A s : Names(commands', s) <=> s = r \/ Names(commands, s)
  BY <1>3, <1>4 DEF Names
<1>8. /\ DOMAIN owner' = DOMAIN owner \cup {r} /\ owner'[r] = p
      /\ \A s \in DOMAIN owner : owner'[s] = owner[s]
  BY <1>1 DEF Put
<1>9. BackendType'
  <2>1. owner' \in [DOMAIN owner' -> Pid] /\ DOMAIN owner' \subseteq Rid
    BY <1>1 DEF Put, BackendType
  <2>2. pending' \subseteq Rid
    BY <1>1 DEF BackendType
  <2> QED BY <1>1, <1>4, <2>1, <2>2 DEF BackendType
<1>10. \A s : NotStarted(s)' <=> NotStarted(s)
  BY <1>1 DEF NotStarted, Names
<1>11. Freshness'
  <2> USE <1>1 DEF Freshness
  <2>1. AddFirst(messages') /\ AddFirst(commands')
    BY <1>5
  <2>2. \A s \in Rid : Adds(commands', s) => NotStarted(s)'
    BY <1>2, <1>6, <1>10
  <2>3. \A s \in Rid \ DOMAIN owner' :
          NotStarted(s)' /\ s \notin pending' \cup DOMAIN outcome' /\ s # resolving'
          /\ ~Names(commands', s)
    BY <1>7, <1>8, <1>10
  <2> QED BY <2>1, <2>2, <2>3
<1>12. Progress'
  BY <1>1 DEF Progress, Unsent, Names, Adds, Ended
<1>13. RowsScheduled'
  <2>1. \A s \in DOMAIN table.requests : s \in DOMAIN sched /\ s \in Rid
    BY DEF RowsScheduled, BackendType
  <2>2. \A s \in DOMAIN table.requests : s # r /\ s \in DOMAIN owner
    BY <1>2, <2>1 DEF Freshness, NotStarted
  <2>3. \A s \in DOMAIN table.requests : owner'[s] = owner[s]
    BY <1>8, <2>2
  <2> QED BY <1>1, <2>3 DEF RowsScheduled
<1>14. Accounting'
  BY <1>1, <1>2 DEF Accounting, ResultIsAccounted, NotStarted, Names
<1>15. \A s : s # r => (Gone(s)' <=> Gone(s))
  BY <1>1, <1>6 DEF Gone, Settled, Adds, Ended
<1>16. Cancelling'
  <2>1. cancelling # None => Gone(cancelling)'
    BY <1>1, <1>2, <1>15 DEF Cancelling, NotStarted
  <2>2. \A s \in DOMAIN outcome : outcome[s] = "cancelled" => Gone(s)'
    BY <1>2, <1>15 DEF Cancelling
  <2>3. ASSUME NEW n \in DOMAIN events, events[n].kind = "cancelled", events[n].rid \in pending'
        PROVE  Gone(events[n].rid)' \/ AnswerIn(events, events[n].rid, n - 1)
    <3>1. events[n].rid # r
      BY <1>2 DEF NotStarted, Names, Range
    <3> QED BY <1>1, <1>15, <2>3, <3>1 DEF Cancelling
  <2>4. ASSUME NEW s \in pending'
        PROVE  Adds(commands', s) \/ s \in DOMAIN task \/ Gone(s)'
                  \/ AnswerIn(events, s, Len(events))
    BY <1>1, <1>6, <1>15 DEF Cancelling
  <2>5. (cancelling # None => Gone(cancelling))'
    BY <1>1, <2>1
  <2> HIDE DEF BackendInv
  <2> QED BY <1>1, <2>2, <2>3, <2>4, <2>5 DEF Cancelling, AnswerIn
<1>17. Hearing'
  BY <1>1, <1>2, <1>6 DEF Hearing, NotStarted
<1>18. Admission'
  <2>1. pending \subseteq DOMAIN owner
    BY DEF Freshness, BackendType
  <2>2. \A s \in pending' : owner'[s] \in DOMAIN sessions'
    BY <1>1, <1>8, <2>1 DEF Admission
  <2>3. /\ \A q \in DOMAIN sessions' : q \in DOMAIN table'.programs /\ ~table'.programs[q].closing
        /\ late' = {} /\ phase' = "loop" =>
            /\ alive'
            /\ \A s \in Rid : Adds(messages', s) => s \in DOMAIN task' \/ s = cancelling'
    BY <1>1 DEF Admission, Adds
  <2> QED BY <2>2, <2>3 DEF Admission
<1> QED BY <1>9, <1>11, <1>12, <1>13, <1>14, <1>16, <1>17, <1>18

\* An answer to a call is still to be heard when the event before it was of another call.
LEMMA AnswerTail ==
    ASSUME NEW S, NEW s \in Seq(S), s # << >>, NEW r, r # Head(s).rid,
           NEW n \in 0..Len(s), AnswerIn(s, r, n)
    PROVE  AnswerIn(Tail(s), r, n - 1)
<1>1. PICK m \in 1..n : s[m].rid = r /\ s[m].kind \in {"result", "error"}
  BY DEF AnswerIn
<1>2. m # 1 /\ m - 1 \in 1..n - 1 /\ Tail(s)[m - 1] = s[m] /\ n - 1 \in 0..Len(s) - 1
  BY <1>1, TailView
<1> QED BY <1>1, <1>2 DEF AnswerIn

\* Taking the first event: what the invariant says of the events that are left.
LEMMA EventTaken ==
    ASSUME BackendInv, events # << >>, NEW W, W \subseteq pending, Head(events).rid \notin W
    PROVE  /\ Tail(events) \in Seq(Event) /\ Range(Tail(events)) \subseteq Range(events)
           /\ \A n \in DOMAIN Tail(events) : Tail(events)[n].kind = "cancelled" =>
                LET r == Tail(events)[n].rid
                IN  r \in W => Gone(r) \/ AnswerIn(Tail(events), r, n - 1)
           /\ \A r \in W : Adds(commands, r) \/ r \in DOMAIN task \/ Gone(r)
                                \/ AnswerIn(Tail(events), r, Len(Tail(events)))
<1> USE DEF BackendInv
<1>1. events \in Seq(Event) /\ Len(events) \in Nat \ {0}
  BY DEF BackendType
<1>2. /\ Tail(events) \in Seq(Event) /\ Range(Tail(events)) \subseteq Range(events)
      /\ Len(Tail(events)) = Len(events) - 1 /\ DOMAIN Tail(events) = 1..Len(events) - 1
      /\ DOMAIN events = 1..Len(events)
      /\ \A n \in 1..Len(events) - 1 : Tail(events)[n] = events[n + 1]
  BY <1>1, TailView
<1>3. ASSUME NEW n \in DOMAIN Tail(events), Tail(events)[n].kind = "cancelled",
             Tail(events)[n].rid \in W
      PROVE  Gone(Tail(events)[n].rid) \/ AnswerIn(Tail(events), Tail(events)[n].rid, n - 1)
  <2> DEFINE r == Tail(events)[n].rid
  <2>1. n + 1 \in DOMAIN events /\ events[n + 1] = Tail(events)[n] /\ n \in 0..Len(events)
        /\ (n + 1) - 1 = n
    BY <1>1, <1>2
  <2>2. r \in pending /\ r # Head(events).rid
    BY <1>3
  <2>3. Gone(r) \/ AnswerIn(events, r, n)
    BY <1>3, <2>1, <2>2 DEF Cancelling
  <2> HIDE DEF r, BackendInv
  <2>4. Gone(r) \/ AnswerIn(Tail(events), r, n - 1)
    BY <1>1, <2>1, <2>2, <2>3, AnswerTail
  <2> QED BY <2>4 DEF r
<1>4. ASSUME NEW r \in W
      PROVE  Adds(commands, r) \/ r \in DOMAIN task \/ Gone(r)
                \/ AnswerIn(Tail(events), r, Len(Tail(events)))
  <2>1. Adds(commands, r) \/ r \in DOMAIN task \/ Gone(r) \/ AnswerIn(events, r, Len(events))
    BY DEF Cancelling
  <2>2. r # Head(events).rid /\ Len(events) \in 0..Len(events)
    BY <1>1
  <2> HIDE DEF BackendInv
  <2> QED BY <1>1, <1>2, <2>1, <2>2, AnswerTail
<1> QED BY <1>2, <1>3, <1>4

\* _resolve, of an event that is heard or of a replica that failed.
LEMMA ResolveKeepsInv ==
    ASSUME BackendInv, NEW r \in pending, NEW k \in {"result", "error", "cancelled"},
           Resolve(r, k),
           k = "result" => r \in charged,
           k = "cancelled" => Gone(r),
           phase = "loop" => r \notin DOMAIN task /\ ~Adds(commands, r) /\ r # cancelling,
           failed' \in BOOLEAN, events' \in Seq(Event), Range(events') \subseteq Range(events),
           failed' \/ Msg("stopped", None) \in Range(events') => phase # "loop",
           \A n \in DOMAIN events' : events'[n].kind = "cancelled" =>
                LET s == events'[n].rid
                IN  s \in pending \ {r} => Gone(s) \/ AnswerIn(events', s, n - 1),
           \A s \in pending \ {r} : Adds(commands, s) \/ s \in DOMAIN task \/ Gone(s)
                                        \/ AnswerIn(events', s, Len(events'))
    PROVE  BackendInv'
<1> USE DEF BackendInv, worker, scheduler
<1>1. /\ pending' = pending \ {r} /\ outcome' = Put(outcome, r, k) /\ resolving' = r
      /\ table' = IF k = "result" THEN table ELSE FinishIn(table, owner[r], r, 0, 0, 0)
      /\ UNCHANGED << metrics, worker, scheduler, messages, late, sessions, owner, cancelled,
                      commands >>
  BY DEF Resolve, Alone
<1>2. r \in Rid /\ r \in DOMAIN owner /\ owner[r] \in Pid
  BY DEF BackendType, Freshness
<1>3. /\ TableInv(table') /\ \A q : IsOpen(table, q) => IsOpen(table', q)
      /\ DOMAIN table'.requests \subseteq DOMAIN table.requests
      /\ DOMAIN table.requests \ {r} \subseteq DOMAIN table'.requests
      /\ \A s \in DOMAIN table'.requests : table'.requests[s] = table.requests[s]
  <2>1. CASE k = "result"
    BY <1>1, <2>1 DEF BackendType
  <2>2. CASE k # "result"
    <3> DEFINE u == FinishIn(table, owner[r], r, 0, 0, 0)
    <3>1. TableInv(table) /\ table' = u
      BY <1>1, <2>2 DEF BackendType
    <3>2. /\ TableInv(u) /\ \A q : IsOpen(table, q) => IsOpen(u, q)
          /\ RemovesRow(table, owner[r], r) => DOMAIN u.requests = DOMAIN table.requests \ {r}
          /\ ~RemovesRow(table, owner[r], r) => DOMAIN u.requests = DOMAIN table.requests
          /\ \A s \in DOMAIN u.requests : u.requests[s] = table.requests[s]
      <4> HIDE DEF BackendInv
      <4>1. u = FinishIn(table, owner[r], r, 0, 0, 0)
        OBVIOUS
      <4> HIDE DEF u
      <4> QED BY <1>2, <3>1, <4>1, FinishView
    <3> HIDE DEF BackendInv, u
    <3> QED BY <3>1, <3>2
  <2> QED BY <2>1, <2>2
<1>4. /\ DOMAIN outcome' = DOMAIN outcome \cup {r} /\ outcome'[r] = k
      /\ \A s \in DOMAIN outcome : s # r => outcome'[s] = outcome[s]
  BY <1>1 DEF Put
<1>5. BackendType'
  <2>1. outcome' \in [DOMAIN outcome' -> {"result", "error", "cancelled"}]
    BY <1>1 DEF Put, BackendType
  <2> QED BY <1>1, <1>2, <1>3, <1>4, <2>1 DEF BackendType
<1>6. \A s : NotStarted(s) => NotStarted(s)'
  BY <1>1 DEF NotStarted, Names
<1>7. Freshness'
  <2> USE <1>1 DEF Freshness
  <2>1. AddFirst(messages') /\ AddFirst(commands')
    BY DEF AddFirst
  <2>2. \A s \in Rid : Adds(commands', s) => NotStarted(s)'
    BY <1>6
  <2>3. \A s \in Rid \ DOMAIN owner' :
          NotStarted(s)' /\ s \notin pending' \cup DOMAIN outcome' /\ s # resolving'
          /\ ~Names(commands', s)
    BY <1>2, <1>4, <1>6
  <2> QED BY <2>1, <2>2, <2>3
<1>8. Progress'
  BY <1>1 DEF Progress, Unsent, Names, Adds, Ended
<1>9. RowsScheduled'
  BY <1>1, <1>3 DEF RowsScheduled
<1>10. Accounting'
  <2>1. ResultIsAccounted'
    BY <1>1, <1>4 DEF Accounting, ResultIsAccounted
  <2>2. \A s \in DOMAIN task \cap pending' :
          /\ s \in DOMAIN sched =>
                IF sched[s].at = "finished" THEN s \in charged ELSE s \in DOMAIN table'.requests
          /\ s \in metrics \/ task[s] = "result" => s \in charged
    BY <1>1, <1>3 DEF Accounting
  <2>3. \A e \in Range(events') : e.kind = "result" /\ e.rid \in pending' => e.rid \in charged
    BY <1>1 DEF Accounting
  <2> QED BY <1>1, <2>1, <2>2, <2>3 DEF Accounting
<1>11. \A s : Gone(s)' <=> Gone(s)
  BY <1>1 DEF Gone, Settled, Adds, Ended
<1>12. Cancelling'
  <2>1. (cancelling # None => Gone(cancelling))'
    BY <1>1, <1>11 DEF Cancelling
  <2>2. \A s \in DOMAIN outcome' : outcome'[s] = "cancelled" => Gone(s)'
    BY <1>4, <1>11 DEF Cancelling
  <2>3. \A s : \A n \in DOMAIN events' : events'[n].kind = "cancelled" =>
          (s = events'[n].rid /\ s \in pending' => Gone(s)' \/ AnswerIn(events', s, n - 1))
    BY <1>1, <1>11
  <2>4. \A s \in pending' : Adds(commands', s) \/ s \in DOMAIN task' \/ Gone(s)'
                                \/ AnswerIn(events', s, Len(events'))
    BY <1>1, <1>11
  <2> HIDE DEF BackendInv
  <2> QED BY <2>1, <2>2, <2>3, <2>4 DEF Cancelling, AnswerIn
<1>13. Hearing'
  BY <1>1 DEF Hearing, Adds
<1>14. Admission'
  BY <1>1, <1>3 DEF Admission, Adds, IsOpen
<1> QED BY <1>5, <1>7, <1>8, <1>9, <1>10, <1>12, <1>13, <1>14

\* An event of a call that is resolved, or of none: only the event goes, and the
\* coordinator may learn that the replica stopped.
LEMMA IgnoreKeepsInv ==
    ASSUME BackendInv, events # << >>, Head(events).rid \notin pending, events' = Tail(events),
           failed' = (failed \/ Head(events).kind = "stopped"),
           Alone, UNCHANGED << table, sessions, pending, owner, outcome, cancelled, resolving,
                              commands >>
    PROVE  BackendInv'
<1> USE DEF BackendInv, worker, scheduler
<1>1. UNCHANGED << metrics, worker, scheduler, messages, late >>
  BY DEF Alone
<1>2. /\ events' \in Seq(Event) /\ Range(events') \subseteq Range(events)
      /\ \A n \in DOMAIN events' : events'[n].kind = "cancelled" =>
            LET r == events'[n].rid IN r \in pending => Gone(r) \/ AnswerIn(events', r, n - 1)
      /\ \A r \in pending : Adds(commands, r) \/ r \in DOMAIN task \/ Gone(r)
                                \/ AnswerIn(events', r, Len(events'))
  <2> HIDE DEF BackendInv
  <2> QED BY EventTaken
<1>3. failed' => phase # "loop"
  <2>1. Head(events) \in Range(events) /\ Head(events) \in Event
    BY TailView DEF BackendType
  <2>2. Head(events).kind = "stopped" => Head(events) = Msg("stopped", None)
    BY <2>1 DEF Event
  <2> QED BY <2>1, <2>2 DEF Hearing
<1>4. BackendType'
  BY <1>1, <1>2 DEF BackendType
<1>5. \A s : NotStarted(s) => NotStarted(s)'
  BY <1>1, <1>2 DEF NotStarted, Names
<1>6. Freshness'
  BY <1>1, <1>5 DEF Freshness, AddFirst, Names, Adds
<1>7. (Progress /\ RowsScheduled)'
  BY <1>1, <1>2 DEF Progress, Unsent, RowsScheduled, Names, Adds, Ended
<1>8. Accounting'
  BY <1>1, <1>2 DEF Accounting, ResultIsAccounted
<1>9. \A s : Gone(s)' <=> Gone(s)
  BY <1>1 DEF Gone, Settled, Adds, Ended
<1>10. Cancelling'
  <2>1. (cancelling # None => Gone(cancelling))'
    BY <1>1, <1>9 DEF Cancelling
  <2>2. \A s \in DOMAIN outcome' : outcome'[s] = "cancelled" => Gone(s)'
    BY <1>1, <1>9 DEF Cancelling
  <2>3. \A s : \A n \in DOMAIN events' : events'[n].kind = "cancelled" =>
          (s = events'[n].rid /\ s \in pending' => Gone(s)' \/ AnswerIn(events', s, n - 1))
    BY <1>2, <1>9
  <2>4. \A s \in pending' : Adds(commands', s) \/ s \in DOMAIN task' \/ Gone(s)'
                                \/ AnswerIn(events', s, Len(events'))
    BY <1>1, <1>2, <1>9
  <2> HIDE DEF BackendInv
  <2> QED BY <2>1, <2>2, <2>3, <2>4 DEF Cancelling, AnswerIn
<1>11. Hearing'
  BY <1>1, <1>2, <1>3 DEF Hearing, Adds
<1>12. Admission'
  BY <1>1 DEF Admission, Adds
<1> QED BY <1>4, <1>6, <1>7, <1>8, <1>10, <1>11, <1>12

\* An event is heard.  What it says of a call that is still pending is the first that is
\* said of it, its task is gone, and a result has been charged.
LEMMA HearKeepsInv ==
    ASSUME BackendInv, Hear
    PROVE  BackendInv'
<1> DEFINE e == Head(events)
<1>1. events # << >> /\ events' = Tail(events) /\ failed' = (failed \/ e.kind = "stopped")
  BY DEF Hear
<1>2. events \in Seq(Event) /\ e \in Event /\ e \in Range(events) /\ e = events[1]
      /\ 1 \in DOMAIN events
  <2>1. events \in Seq(Event)
    BY DEF BackendInv, BackendType
  <2> QED BY <1>1, <2>1, TailView
<1>3. CASE e.rid \in pending
  <2>1. e.rid \in Rid /\ e.rid # None
    BY <1>3, NoneAssumption DEF BackendInv, BackendType
  <2>2. e.kind \in {"result", "error", "cancelled"}
    BY <1>2, <2>1 DEF Event, Msg
  <2>3. Resolve(e.rid, e.kind)
    BY <1>3 DEF Hear
  <2>4. e.kind = "result" => e.rid \in charged
    BY <1>2, <1>3 DEF BackendInv, Accounting
  <2>5. e.kind = "cancelled" => Gone(e.rid)
    <3>1. ~AnswerIn(events, e.rid, 1 - 1)
      BY DEF AnswerIn
    <3> QED BY <1>2, <1>3, <3>1 DEF BackendInv, Cancelling
  <2>6. e.rid \notin DOMAIN task /\ ~Adds(commands, e.rid) /\ e.rid # cancelling
    BY <1>2, <2>1 DEF BackendInv, Hearing, Freshness, NotStarted, Names
  <2>7. failed' \in BOOLEAN /\ failed' = failed
    BY <1>1, <2>2 DEF BackendInv, BackendType
  <2>8. /\ events' \in Seq(Event) /\ Range(events') \subseteq Range(events)
        /\ \A n \in DOMAIN events' : events'[n].kind = "cancelled" =>
              LET r == events'[n].rid
              IN  r \in pending \ {e.rid} => Gone(r) \/ AnswerIn(events', r, n - 1)
        /\ \A r \in pending \ {e.rid} : Adds(commands, r) \/ r \in DOMAIN task \/ Gone(r)
                                  \/ AnswerIn(events', r, Len(events'))
    <3> DEFINE W == pending \ {e.rid}
    <3>1. W \subseteq pending /\ Head(events).rid \notin W
      OBVIOUS
    <3>2. /\ Tail(events) \in Seq(Event) /\ Range(Tail(events)) \subseteq Range(events)
          /\ \A n \in DOMAIN Tail(events) : Tail(events)[n].kind = "cancelled" =>
                LET r == Tail(events)[n].rid
                IN  r \in W => Gone(r) \/ AnswerIn(Tail(events), r, n - 1)
          /\ \A r \in W : Adds(commands, r) \/ r \in DOMAIN task \/ Gone(r)
                                \/ AnswerIn(Tail(events), r, Len(Tail(events)))
      <4> HIDE DEF W, e
      <4> QED BY <1>1, <3>1, EventTaken
    <3> QED BY <1>1, <3>2
  <2>9. failed' \/ Msg("stopped", None) \in Range(events') => phase # "loop"
    BY <2>7, <2>8 DEF BackendInv, Hearing
  <2> HIDE DEF e
  <2> QED BY <1>3, <2>2, <2>3, <2>4, <2>5, <2>6, <2>7, <2>8, <2>9, ResolveKeepsInv
<1>4. CASE e.rid \notin pending
  BY <1>1, <1>4, IgnoreKeepsInv DEF Hear
<1> QED BY <1>3, <1>4

\* A call of a replica that stopped fails, with no event.
LEMMA FailCallKeepsInv ==
    ASSUME BackendInv, NEW r \in Rid, FailCall(r)
    PROVE  BackendInv'
<1>1. r \in pending /\ Resolve(r, "error") /\ failed /\ UNCHANGED << failed, events >>
  BY DEF FailCall
<1>2. phase # "loop" /\ failed' \in BOOLEAN /\ events' \in Seq(Event)
      /\ Range(events') \subseteq Range(events)
  BY <1>1 DEF BackendInv, Hearing, BackendType
<1>3. /\ \A n \in DOMAIN events' : events'[n].kind = "cancelled" =>
            LET s == events'[n].rid
            IN  s \in pending \ {r} => Gone(s) \/ AnswerIn(events', s, n - 1)
      /\ \A s \in pending \ {r} : Adds(commands, s) \/ s \in DOMAIN task \/ Gone(s)
                                    \/ AnswerIn(events', s, Len(events'))
  BY <1>1 DEF BackendInv, Cancelling
<1> QED BY <1>1, <1>2, <1>3, ResolveKeepsInv

-----------------------------------------------------------------------------
(* The worker: commands, cancellations and tasks. *)

\* An event is put behind the others, a cancellation only when the call is gone or answered.
LEMMA EventPut ==
    ASSUME BackendInv, NEW e \in Event,
           e.kind = "cancelled" /\ e.rid \in pending =>
                Gone(e.rid) \/ AnswerIn(events, e.rid, Len(events)),
           NEW new, new = Append(events, e)
    PROVE  /\ new \in Seq(Event) /\ Range(new) = Range(events) \cup {e}
           /\ \A n \in DOMAIN new : new[n].kind = "cancelled" =>
                LET r == new[n].rid IN r \in pending => Gone(r) \/ AnswerIn(new, r, n - 1)
           /\ \A r \in pending : Adds(commands, r) \/ r \in DOMAIN task \/ Gone(r)
                                    \/ AnswerIn(new, r, Len(new))
           /\ e.kind \in {"result", "error"} => AnswerIn(new, e.rid, Len(new))
<1>1. events \in Seq(Event) /\ Len(events) \in Nat /\ DOMAIN events = 1..Len(events)
  BY DEF BackendInv, BackendType
<1>2. /\ new \in Seq(Event) /\ Len(new) = Len(events) + 1 /\ Range(new) = Range(events) \cup {e}
      /\ new[Len(events) + 1] = e /\ \A n \in 1..Len(events) : new[n] = events[n]
  BY <1>1, AppendView
<1>3. DOMAIN new = 1..Len(events) + 1
  BY <1>2
<1>4. \A r : \A n \in 0..Len(events) : AnswerIn(events, r, n) <=> AnswerIn(new, r, n)
  BY <1>1, <1>2 DEF AnswerIn
<1>5. \A r : AnswerIn(events, r, Len(events)) => AnswerIn(new, r, Len(new))
  BY <1>1, <1>2 DEF AnswerIn
<1>6. ASSUME NEW n \in DOMAIN new, new[n].kind = "cancelled", new[n].rid \in pending
      PROVE  Gone(new[n].rid) \/ AnswerIn(new, new[n].rid, n - 1)
  <2>1. CASE n \in 1..Len(events)
    <3>1. n \in DOMAIN events /\ new[n] = events[n] /\ n - 1 \in 0..Len(events)
      BY <1>1, <1>2, <2>1
    <3>2. Gone(events[n].rid) \/ AnswerIn(events, events[n].rid, n - 1)
      BY <1>6, <3>1 DEF BackendInv, Cancelling
    <3> QED BY <1>4, <3>1, <3>2
  <2>2. CASE n = Len(events) + 1
    <3>1. new[n] = e /\ n - 1 = Len(events) /\ Len(events) \in 0..Len(events)
      BY <1>1, <1>2, <2>2
    <3> QED BY <1>4, <1>6, <3>1
  <2> QED BY <1>1, <1>3, <2>1, <2>2
<1>7. \A r \in pending : Adds(commands, r) \/ r \in DOMAIN task \/ Gone(r)
                            \/ AnswerIn(new, r, Len(new))
  BY <1>5 DEF BackendInv, Cancelling
<1>8. e.kind \in {"result", "error"} => AnswerIn(new, e.rid, Len(new))
  BY <1>1, <1>2 DEF AnswerIn
<1> QED BY <1>2, <1>6, <1>7, <1>8

\* cancel, up to its wait: the task goes, and what was sent of the call is followed by its
\* abort; what was not sent or has been streamed needs none.
LEMMA BeginCancelKeepsInv ==
    ASSUME BackendInv, NEW r \in Rid, BeginCancel(r), cancelling = None,
           commands' \in Seq(Command), AddFirst(commands'),
           \A s : /\ Adds(commands', s) <=> Adds(commands, s)
                  /\ Names(commands', s) => Names(commands, s),
           UNCHANGED << database, coordinator, scheduler, phase, events, late >>
    PROVE  BackendInv'
<1> USE DEF BackendInv, database, coordinator, scheduler
<1> DEFINE a == Msg("abort", r)
<1>1. /\ r \in DOMAIN task /\ messages' = IF task[r] = "sent" THEN Append(messages, a) ELSE messages
      /\ task' = Drop(task, r) /\ cancelling' = r
  BY DEF BeginCancel, AbortMessage
<1>2. a \in Message /\ a.kind = "abort" /\ a.rid = r /\ \A s : a # Msg("add", s)
  BY DEF Message, Msg
<1> HIDE DEF a
<1>3. /\ messages' \in Seq(Message) /\ AddFirst(messages')
      /\ Range(messages) \subseteq Range(messages')
      /\ Range(messages') \subseteq Range(messages) \cup {a}
      /\ task[r] = "sent" => a \in Range(messages')
  <2>1. messages \in Seq(Message) /\ AddFirst(messages)
    BY DEF BackendType, Freshness
  <2> HIDE DEF BackendInv
  <2>2. CASE task[r] = "sent"
    <3>1. messages' = Append(messages, a)
      BY <1>1, <2>2
    <3> QED BY <1>2, <2>1, <3>1, AppendView, AddFirstAppend
  <2>3. CASE task[r] # "sent"
    BY <1>1, <2>1, <2>3
  <2> QED BY <2>2, <2>3
<1>4. \A s : Adds(messages', s) <=> Adds(messages, s)
  BY <1>2, <1>3 DEF Adds
<1>5. \A s : s # r => (Names(messages', s) <=> Names(messages, s))
  BY <1>2, <1>3 DEF Names
<1>6. DOMAIN task' = DOMAIN task \ {r} /\ \A s \in DOMAIN task' : task'[s] = task[s]
  BY <1>1 DEF Drop, Restrict
<1>7. /\ ~NotStarted(r) /\ r \in DOMAIN owner /\ ~Adds(commands, r)
      /\ \A s : s # r /\ NotStarted(s) => NotStarted(s)'
  <2>1. ~NotStarted(r)
    BY <1>1 DEF NotStarted
  <2>2. \A s : s # r /\ NotStarted(s) => NotStarted(s)'
    BY <1>1, <1>5, <1>6 DEF NotStarted, Names
  <2> QED BY <2>1, <2>2 DEF Freshness
<1>8. BackendType'
  <2>1. task' \in [DOMAIN task' -> {"new", "sent", "polling", "result", "error"}]
    BY <1>1 DEF Drop, Restrict, BackendType
  <2> QED BY <1>1, <1>3, <1>6, <2>1 DEF BackendType
<1>9. Freshness'
  BY <1>3, <1>7 DEF Freshness
<1>10. Progress'
  BY <1>4, <1>5, <1>6 DEF Progress, Unsent, Ended
<1>11. RowsScheduled' /\ Accounting'
  BY <1>6 DEF RowsScheduled, Accounting, ResultIsAccounted
<1>12. Gone(r)'
  <2>1. CASE task[r] = "sent"
    BY <1>2, <1>3, <1>6, <1>7, <2>1 DEF Gone, Settled, a
  <2>2. CASE Unsent(r)
    BY <1>1, <1>4, <1>6, <1>7, <2>2 DEF Gone, Settled, Unsent, Adds, Names, Msg
  <2>3. CASE r \in outputs
    BY <1>1, <1>4, <1>6, <1>7, <2>3 DEF Gone, Settled, Progress, Ended
  <2> QED BY <1>1, <2>1, <2>2, <2>3 DEF BackendType, Progress
<1>13. \A s : Gone(s) => Gone(s)'
  BY <1>3, <1>4, <1>6 DEF Gone, Settled, Ended
<1>14. Cancelling'
  <2>1. (cancelling # None => Gone(cancelling))'
    BY <1>1, <1>12
  <2>2. \A s \in DOMAIN outcome' : outcome'[s] = "cancelled" => Gone(s)'
    BY <1>13 DEF Cancelling
  <2>3. \A s : \A n \in DOMAIN events' : events'[n].kind = "cancelled" =>
          (s = events'[n].rid /\ s \in pending' => Gone(s)' \/ AnswerIn(events', s, n - 1))
    BY <1>13 DEF Cancelling
  <2>4. \A s \in pending' : Adds(commands', s) \/ s \in DOMAIN task' \/ Gone(s)'
                                \/ AnswerIn(events', s, Len(events'))
    BY <1>6, <1>12, <1>13 DEF Cancelling
  <2> HIDE DEF BackendInv
  <2> QED BY <2>1, <2>2, <2>3, <2>4 DEF Cancelling, AnswerIn
<1>15. Hearing'
  BY <1>1, <1>6 DEF Hearing
<1>16. Admission'
  BY <1>1, <1>4, <1>6, NoneAssumption DEF Admission
<1> QED BY <1>8, <1>9, <1>10, <1>11, <1>14, <1>15, <1>16

\* The command to run a call: a task that has sent nothing.
LEMMA ServeAddKeepsInv ==
    ASSUME BackendInv, phase = "loop", cancelling = None, commands # << >>,
           commands' = Tail(commands), Head(commands).kind = "add",
           task' = Put(task, Head(commands).rid, "new"),
           UNCHANGED << database, coordinator, scheduler, phase, cancelling, messages, events,
                        late >>
    PROVE  BackendInv'
<1> USE DEF BackendInv, database, coordinator, scheduler
<1> DEFINE r == Head(commands).rid
<1>1. /\ commands' \in Seq(Command) /\ Head(commands) \in Command
      /\ Range(commands) = Range(commands') \cup {Head(commands)}
      /\ AddFirst(commands') /\ \A c \in Range(commands') : c.kind = "add" => c.rid # r
  BY TailView, AddFirstTail DEF BackendType, Freshness
<1>2. Head(commands) = Msg("add", r) /\ r \in Rid
  BY <1>1 DEF Command, Msg
<1>3. /\ NotStarted(r) /\ r \in pending /\ r \in DOMAIN owner /\ Adds(commands, r)
      /\ ~Adds(commands', r)
      /\ \A s : s # r => (Adds(commands', s) <=> Adds(commands, s))
  <2>1. Adds(commands, r)
    BY <1>1, <1>2 DEF Adds
  <2>2. ~Adds(commands', r)
    BY <1>1 DEF Adds, Msg
  <2>3. \A s : s # r => (Adds(commands', s) <=> Adds(commands, s))
    BY <1>1, <1>2 DEF Adds, Msg
  <2> QED BY <1>2, <2>1, <2>2, <2>3 DEF Freshness, Hearing
<1>4. /\ DOMAIN task' = DOMAIN task \cup {r} /\ task'[r] = "new"
      /\ \A s \in DOMAIN task : s # r => task'[s] = task[s]
  BY DEF Put
<1>5. \A s : Names(commands', s) => Names(commands, s)
  BY <1>1 DEF Names
<1> HIDE DEF r
<1>6. BackendType'
  <2>1. task' \in [DOMAIN task' -> {"new", "sent", "polling", "result", "error"}]
    BY DEF Put, BackendType
  <2> QED BY <1>1, <1>2, <1>4, <2>1 DEF BackendType
<1>7. \A s : s # r /\ NotStarted(s) => NotStarted(s)'
  BY <1>4 DEF NotStarted, Names
<1>8. Freshness'
  BY <1>1, <1>3, <1>5, <1>7 DEF Freshness
<1>9. Progress'
  BY <1>3, <1>4 DEF Progress, Unsent, NotStarted, Ended
<1>10. RowsScheduled' /\ Accounting'
  <2>1. r \notin DOMAIN sched /\ r \notin metrics /\ task'[r] # "result"
    BY <1>3, <1>4 DEF NotStarted
  <2> QED BY <1>4, <2>1 DEF RowsScheduled, Accounting, ResultIsAccounted
<1>11. \A s : Gone(s) => Gone(s)'
  BY <1>3, <1>4 DEF Gone, Settled, Ended
<1>12. Cancelling'
  <2>1. (cancelling # None => Gone(cancelling))'
    OBVIOUS
  <2>2. \A s \in DOMAIN outcome' : outcome'[s] = "cancelled" => Gone(s)'
    BY <1>11 DEF Cancelling
  <2>3. \A s : \A n \in DOMAIN events' : events'[n].kind = "cancelled" =>
          (s = events'[n].rid /\ s \in pending' => Gone(s)' \/ AnswerIn(events', s, n - 1))
    BY <1>11 DEF Cancelling
  <2>4. \A s \in pending' : Adds(commands', s) \/ s \in DOMAIN task' \/ Gone(s)'
                                \/ AnswerIn(events', s, Len(events'))
    BY <1>3, <1>4, <1>11 DEF Cancelling
  <2> HIDE DEF BackendInv
  <2> QED BY <2>1, <2>2, <2>3, <2>4 DEF Cancelling, AnswerIn
<1>13. Hearing'
  <2>1. \A e \in Range(events) : e.rid # r
    BY <1>3 DEF NotStarted, Names
  <2> QED BY <1>3, <1>4, <2>1 DEF Hearing
<1>14. Admission'
  BY <1>4 DEF Admission
<1> QED BY <1>6, <1>8, <1>9, <1>10, <1>12, <1>13, <1>14

\* A command that is answered at once: an add that raises, the cancellation of a call whose
\* task is gone, or the shutdown.
LEMMA ServeAnswerKeepsInv ==
    ASSUME BackendInv, phase = "loop", cancelling = None, commands # << >>,
           commands' = Tail(commands),
           NEW e \in Event, events' = Append(events, e), e.kind # "result",
           Head(commands).kind = "add" <=> e.kind = "error",
           e.rid = Head(commands).rid, e.rid \notin DOMAIN task,
           e.rid = None <=> e.kind = "stopped",
           phase' = IF e.kind = "stopped" THEN "closing" ELSE "loop",
           UNCHANGED << database, coordinator, scheduler, task, cancelling, messages, late >>
    PROVE  BackendInv'
<1> USE DEF BackendInv, database, coordinator, scheduler
<1>1. /\ commands' \in Seq(Command) /\ Head(commands) \in Range(commands)
      /\ Range(commands) = Range(commands') \cup {Head(commands)}
      /\ AddFirst(commands') /\ \A c \in Range(commands') : c.kind = "add" => c.rid # e.rid
  BY TailView, AddFirstTail DEF BackendType, Freshness
<1>2. \A s : /\ Adds(commands', s) => Adds(commands, s)
             /\ Names(commands', s) => Names(commands, s)
             /\ e.kind # "error" \/ s # e.rid => (Adds(commands', s) <=> Adds(commands, s))
  BY <1>1 DEF Adds, Names, Msg
<1>3. ~Adds(commands', e.rid)
  BY <1>1 DEF Adds, Msg
<1>4. e.rid \in Rid => e.rid \in DOMAIN owner
  BY <1>1 DEF Freshness, Names
<1>5. e.kind = "cancelled" /\ e.rid \in pending =>
        Gone(e.rid) \/ AnswerIn(events, e.rid, Len(events))
  BY <1>2, <1>3 DEF Cancelling
<1>6. /\ events' \in Seq(Event) /\ Range(events') = Range(events) \cup {e}
      /\ \A n \in DOMAIN events' : events'[n].kind = "cancelled" =>
            LET s == events'[n].rid IN s \in pending => Gone(s) \/ AnswerIn(events', s, n - 1)
      /\ \A s \in pending : Adds(commands, s) \/ s \in DOMAIN task \/ Gone(s)
                                    \/ AnswerIn(events', s, Len(events'))
      /\ e.kind = "error" => AnswerIn(events', e.rid, Len(events'))
  <2> HIDE DEF BackendInv
  <2> QED BY <1>5, EventPut
<1>7. BackendType'
  BY <1>1, <1>6 DEF BackendType
<1>8. \A s : s # e.rid /\ NotStarted(s) => NotStarted(s)'
  BY <1>6 DEF NotStarted, Names
<1>9. Freshness'
  <2>1. AddFirst(commands') /\ AddFirst(messages')
    BY <1>1 DEF Freshness, AddFirst
  <2>2. \A s \in Rid : Adds(commands', s) => NotStarted(s)'
    BY <1>2, <1>3, <1>8 DEF Freshness
  <2>3. \A s \in Rid \ DOMAIN owner' :
          NotStarted(s)' /\ s \notin pending' \cup DOMAIN outcome' /\ s # resolving'
          /\ ~Names(commands', s)
    BY <1>2, <1>4, <1>8 DEF Freshness
  <2> QED BY <2>1, <2>2, <2>3 DEF Freshness
<1>10. Progress' /\ RowsScheduled' /\ Accounting'
  BY <1>6 DEF Progress, Unsent, Ended, RowsScheduled, Accounting, ResultIsAccounted, Names, Adds
<1>11. \A s : Gone(s) => Gone(s)'
  BY <1>2 DEF Gone, Settled, Ended, Adds
<1>12. Cancelling'
  <2>1. (cancelling # None => Gone(cancelling))'
    OBVIOUS
  <2>2. \A s \in DOMAIN outcome' : outcome'[s] = "cancelled" => Gone(s)'
    BY <1>11 DEF Cancelling
  <2>3. \A s : \A n \in DOMAIN events' : events'[n].kind = "cancelled" =>
          (s = events'[n].rid /\ s \in pending' => Gone(s)' \/ AnswerIn(events', s, n - 1))
    BY <1>6, <1>11
  <2>4. \A s \in pending' : Adds(commands', s) \/ s \in DOMAIN task' \/ Gone(s)'
                                \/ AnswerIn(events', s, Len(events'))
    BY <1>2, <1>6, <1>11
  <2> HIDE DEF BackendInv
  <2> QED BY <2>1, <2>2, <2>3, <2>4 DEF Cancelling, AnswerIn
<1>13. Hearing'
  <2>1. \A x \in Range(events') : x.rid \notin DOMAIN task'
    BY <1>6 DEF Hearing
  <2>2. failed' \/ Msg("stopped", None) \in Range(events') => phase' # "loop"
    BY <1>6 DEF Hearing, Msg
  <2> QED BY <1>2, <2>1, <2>2 DEF Hearing
<1>14. Admission'
  BY DEF Admission, Adds
<1> QED BY <1>7, <1>9, <1>10, <1>12, <1>13, <1>14

\* What the worker does with its next command.
LEMMA ServeKeepsInv ==
    ASSUME BackendInv, Serve
    PROVE  BackendInv'
<1> DEFINE c == Head(commands)
<1>1. /\ phase = "loop" /\ cancelling = None /\ commands # << >> /\ commands' = Tail(commands)
      /\ UNCHANGED << database, coordinator, scheduler, late >>
  BY DEF Serve
<1>2. c \in Command /\ commands' \in Seq(Command)
  BY <1>1, TailView DEF BackendInv, BackendType
<1>3. CASE c.kind = "add"
  <2>1. /\ \/ task' = Put(task, c.rid, "new") /\ UNCHANGED events
           \/ events' = Append(events, Msg("error", c.rid)) /\ UNCHANGED task
        /\ UNCHANGED << phase, cancelling, messages >>
    BY <1>3, Zenon DEF Serve
  <2>2. CASE task' = Put(task, c.rid, "new") /\ UNCHANGED events
    BY <1>1, <1>3, <2>1, <2>2, ServeAddKeepsInv
  <2>3. CASE events' = Append(events, Msg("error", c.rid)) /\ UNCHANGED task
    <3> DEFINE e == Msg("error", c.rid)
    <3>1. /\ e \in Event /\ e.kind = "error" /\ e.rid = c.rid /\ e.rid # None
          /\ c = Msg("add", c.rid) /\ c.rid \in Rid
      BY <1>2, <1>3, NoneAssumption DEF Command, Event, Msg
    <3>2. e.rid \notin DOMAIN task
      BY <1>1, <3>1, TailView DEF BackendInv, BackendType, Freshness, NotStarted, Adds
    <3> HIDE DEF e
    <3> QED BY <1>1, <1>3, <2>1, <2>3, <3>1, <3>2, ServeAnswerKeepsInv DEF e
  <2> QED BY <2>1, <2>2, <2>3
<1>4. CASE c.kind = "cancel" /\ c.rid \in DOMAIN task
  <2>0. c.rid \in Rid
    BY <1>2, <1>4 DEF Command, Msg
  <2>1. BeginCancel(c.rid) /\ UNCHANGED << phase, events >>
    BY <1>4 DEF Serve
  <2>2. AddFirst(commands') /\ Range(commands) = Range(commands') \cup {c}
    BY <1>1, TailView, AddFirstTail DEF BackendInv, BackendType, Freshness
  <2>3. \A s : /\ Adds(commands', s) <=> Adds(commands, s)
               /\ Names(commands', s) => Names(commands, s)
    BY <1>4, <2>2 DEF Adds, Names, Msg
  <2> HIDE DEF c
  <2> QED BY <1>1, <1>2, <2>0, <2>1, <2>2, <2>3, BeginCancelKeepsInv
<1>5. CASE c.kind = "cancel" /\ c.rid \notin DOMAIN task
  <2> DEFINE e == Msg("cancelled", c.rid)
  <2>1. events' = Append(events, e) /\ UNCHANGED << phase, task, cancelling, messages >>
    BY <1>5 DEF Serve
  <2>2. /\ e \in Event /\ e.kind = "cancelled" /\ e.rid = c.rid /\ e.rid # None
    BY <1>2, <1>5, NoneAssumption DEF Command, Event, Msg
  <2> HIDE DEF e
  <2> QED BY <1>1, <1>5, <2>1, <2>2, ServeAnswerKeepsInv
<1>6. CASE c.kind = "shutdown"
  <2> DEFINE e == Msg("stopped", None)
  <2>1. events' = Append(events, e) /\ phase' = "closing"
        /\ UNCHANGED << task, cancelling, messages >>
    BY <1>6 DEF Serve
  <2>2. e \in Event /\ e.kind = "stopped" /\ e.rid = None
    BY DEF Event, Msg
  <2>3. c.rid = None /\ None \notin DOMAIN task
    BY <1>2, <1>6, NoneAssumption DEF Command, Msg, BackendInv, BackendType
  <2> HIDE DEF e
  <2> QED BY <1>1, <1>6, <2>1, <2>2, <2>3, ServeAnswerKeepsInv
<1>7. c.kind \in {"add", "cancel", "shutdown"}
  BY <1>2 DEF Command, Msg
<1> QED BY <1>3, <1>4, <1>5, <1>6, <1>7

\* The end of a cancel.  Its call is gone, so what it finishes nobody waits for.
LEMMA FinishCancelKeepsInv ==
    ASSUME BackendInv, cancelling # None, FinishCancel, metrics' \subseteq metrics,
           \/ cancelling \in metrics /\ late' = late
           \/ late' = late \cup {cancelling}
    PROVE  BackendInv'
<1> USE DEF BackendInv, coordinator, scheduler
<1> DEFINE r == cancelling
           e == Msg("cancelled", cancelling)
           u == FinishIn(table, owner[r], r, 0, 0, 0)
<1>1. /\ table' = u /\ cancelling' = None
      /\ events' = IF phase = "loop" THEN Append(events, e) ELSE events
      /\ UNCHANGED << coordinator, phase, task, scheduler, commands, messages >>
  BY DEF FinishCancel
<1>2. /\ r \in Rid /\ Gone(r) /\ ~NotStarted(r) /\ r \in DOMAIN owner /\ owner[r] \in Pid
  BY DEF BackendType, Cancelling, NotStarted, Freshness
<1>3. /\ TableInv(u) /\ \A q : IsOpen(table, q) => IsOpen(u, q)
      /\ DOMAIN u.requests \subseteq DOMAIN table.requests
      /\ DOMAIN table.requests \ {r} \subseteq DOMAIN u.requests
      /\ \A s \in DOMAIN u.requests : u.requests[s] = table.requests[s]
  <2>1. u = FinishIn(table, owner[r], r, 0, 0, 0) /\ TableInv(table)
    BY DEF BackendType
  <2> HIDE DEF u, BackendInv
  <2> QED BY <1>2, <2>1, FinishView
<1>4. e \in Event /\ e.kind = "cancelled" /\ e.rid = r
  BY <1>2 DEF Event, Msg
<1> HIDE DEF r, e, u
<1>5. /\ events' \in Seq(Event) /\ Range(events') \subseteq Range(events) \cup {e}
      /\ \A n \in DOMAIN events' : events'[n].kind = "cancelled" =>
            LET s == events'[n].rid IN s \in pending => Gone(s) \/ AnswerIn(events', s, n - 1)
      /\ \A s \in pending : Adds(commands, s) \/ s \in DOMAIN task \/ Gone(s)
                                    \/ AnswerIn(events', s, Len(events'))
  <2>1. CASE phase = "loop"
    <3>1. events' = Append(events, e)
      BY <1>1, <2>1
    <3> HIDE DEF BackendInv
    <3> QED BY <1>2, <1>4, <3>1, EventPut
  <2>2. CASE phase # "loop"
    BY <1>1, <2>2 DEF BackendType, Cancelling
  <2> QED BY <2>1, <2>2
<1>6. BackendType'
  BY <1>1, <1>3, <1>5 DEF BackendType
<1>7. \A s : s # r /\ NotStarted(s) /\ s # None => NotStarted(s)'
  BY <1>1, <1>4, <1>5 DEF NotStarted, Names
<1>8. Freshness'
  <2>1. AddFirst(commands') /\ AddFirst(messages')
    BY <1>1 DEF Freshness, AddFirst
  <2>2. \A s \in Rid : Adds(commands', s) => NotStarted(s)'
    BY <1>1, <1>2, <1>7, NoneAssumption DEF Freshness, Gone
  <2>3. \A s \in Rid \ DOMAIN owner' :
          NotStarted(s)' /\ s \notin pending' \cup DOMAIN outcome' /\ s # resolving'
          /\ ~Names(commands', s)
    BY <1>1, <1>2, <1>7, NoneAssumption DEF Freshness
  <2> QED BY <2>1, <2>2, <2>3 DEF Freshness
<1>9. Progress' /\ RowsScheduled'
  BY <1>1, <1>3, <1>4, <1>5 DEF Progress, Unsent, Ended, RowsScheduled, Names, Adds
<1>10. Accounting'
  <2>1. r \notin DOMAIN task
    BY <1>2 DEF Gone
  <2>2. \A s \in DOMAIN task \cap pending :
          /\ s \in DOMAIN sched =>
                IF sched[s].at = "finished" THEN s \in charged ELSE s \in DOMAIN u.requests
          /\ s \in metrics' \/ task[s] = "result" => s \in charged
    BY <1>3, <2>1 DEF Accounting
  <2> QED BY <1>1, <1>4, <1>5, <2>2 DEF Accounting, ResultIsAccounted
<1>11. \A s : Gone(s) => Gone(s)'
  BY <1>1 DEF Gone, Settled, Ended, Adds
<1>12. Cancelling'
  <2>1. (cancelling # None => Gone(cancelling))'
    BY <1>1
  <2>2. \A s \in DOMAIN outcome' : outcome'[s] = "cancelled" => Gone(s)'
    BY <1>1, <1>11 DEF Cancelling
  <2>3. \A s : \A n \in DOMAIN events' : events'[n].kind = "cancelled" =>
          (s = events'[n].rid /\ s \in pending' => Gone(s)' \/ AnswerIn(events', s, n - 1))
    BY <1>1, <1>5, <1>11
  <2>4. \A s \in pending' : Adds(commands', s) \/ s \in DOMAIN task' \/ Gone(s)'
                                \/ AnswerIn(events', s, Len(events'))
    BY <1>1, <1>5, <1>11
  <2> HIDE DEF BackendInv
  <2> QED BY <2>1, <2>2, <2>3, <2>4 DEF Cancelling, AnswerIn
<1>13. Hearing'
  <2>1. \A x \in Range(events') : x.rid \notin DOMAIN task'
    BY <1>1, <1>2, <1>4, <1>5 DEF Hearing, Gone
  <2>2. failed' \/ Msg("stopped", None) \in Range(events') => phase' # "loop"
    BY <1>1, <1>4, <1>5 DEF Hearing, Msg
  <2> QED BY <1>1, <2>1, <2>2 DEF Hearing, Adds
<1>14. Admission'
  <2>1. /\ \A p \in DOMAIN sessions' : p \in DOMAIN table'.programs /\ ~table'.programs[p].closing
        /\ \A s \in pending' : owner'[s] \in DOMAIN sessions'
    BY <1>1, <1>3 DEF Admission, IsOpen
  <2>2. ASSUME late' = {}, phase' = "loop", NEW s \in Rid, Adds(messages', s)
        PROVE  s \in DOMAIN task'
    <3>1. cancelling \in metrics /\ late = {} /\ phase = "loop" /\ Adds(messages, s)
      BY <1>1, <2>2 DEF Adds
    <3> QED BY <1>1, <2>2, <3>1 DEF Admission, Progress, Unsent
  <2>3. late' = {} /\ phase' = "loop" => alive'
    BY <1>1 DEF Admission
  <2> QED BY <2>1, <2>2, <2>3 DEF Admission
<1> QED BY <1>6, <1>8, <1>9, <1>10, <1>12, <1>13, <1>14

\* The wait was answered.
LEMMA CancelAnsweredKeepsInv ==
    ASSUME BackendInv, CancelAnswered
    PROVE  BackendInv'
<1>1. cancelling \in metrics /\ cancelling # None
  BY NoneAssumption DEF CancelAnswered, Answered, BackendInv, BackendType
<1> QED BY <1>1, FinishCancelKeepsInv DEF CancelAnswered

\* The wait ran out.
LEMMA CancelTimeoutKeepsInv ==
    ASSUME BackendInv, CancelTimeout
    PROVE  BackendInv'
BY FinishCancelKeepsInv DEF CancelTimeout

\* close cancels one more call, or ends the scheduler process.
LEMMA CloseKeepsInv ==
    ASSUME BackendInv, Close
    PROVE  BackendInv'
<1>1. /\ phase = "closing" /\ cancelling = None
      /\ UNCHANGED << database, coordinator, scheduler, commands, events, late >>
  BY DEF Close
<1>2. ASSUME NEW r \in Rid, BeginCancel(r), UNCHANGED phase
      PROVE  BackendInv'
  <2>1. commands' \in Seq(Command) /\ AddFirst(commands')
    BY <1>1 DEF BackendInv, BackendType, Freshness
  <2>2. \A s : /\ Adds(commands', s) <=> Adds(commands, s)
               /\ Names(commands', s) => Names(commands, s)
    BY <1>1 DEF Adds, Names
  <2> QED BY <1>1, <1>2, <2>1, <2>2, BeginCancelKeepsInv
<1>3. CASE phase' = "closed" /\ UNCHANGED << task, cancelling, messages >>
  <2> USE <1>1, <1>3 DEF BackendInv, database, coordinator, scheduler
  <2>1. BackendType'
    BY DEF BackendType
  <2>2. Freshness'
    BY DEF Freshness, NotStarted, Names, Adds, AddFirst
  <2>3. (Progress /\ RowsScheduled /\ Accounting)'
    BY DEF Progress, Unsent, RowsScheduled, Accounting, ResultIsAccounted, Names, Adds, Ended
  <2>4. Cancelling'
    BY DEF Cancelling, Gone, Settled, Adds, Ended, AnswerIn
  <2>5. (Hearing /\ Admission)'
    BY DEF Hearing, Admission
  <2> QED BY <2>1, <2>2, <2>3, <2>4, <2>5
<1> QED BY <1>2, <1>3 DEF Close

\* A task sends its call: nobody behind the worker knew of it.
LEMMA SendKeepsInv ==
    ASSUME BackendInv, NEW r \in Rid, TaskStep(r, "new", "sent"),
           messages' = Append(messages, Msg("add", r)), metrics' = metrics
    PROVE  BackendInv'
<1> USE DEF BackendInv, coordinator, scheduler
<1> DEFINE a == Msg("add", r)
<1>1. /\ r \in DOMAIN task /\ task[r] = "new" /\ task' = [task EXCEPT ![r] = "sent"]
      /\ messages' = Append(messages, a)
      /\ UNCHANGED << metrics, table, coordinator, phase, cancelling, scheduler, commands, events,
                      late >>
  BY DEF TaskStep
<1>2. /\ r \notin DOMAIN sched \cup metrics \cup outputs /\ ~Names(messages, r)
  BY <1>1 DEF Progress, Unsent
<1>3. /\ a \in Message /\ a.kind = "add" /\ a.rid = r
      /\ \A s : s # r => a # Msg("add", s)
      /\ \A s : a # Msg("abort", s)
  BY DEF Message, Msg
<1> HIDE DEF a
<1>4. /\ messages' \in Seq(Message) /\ AddFirst(messages')
      /\ Range(messages') = Range(messages) \cup {a}
  BY <1>1, <1>2, <1>3, AppendView, AddFirstAppend DEF BackendType, Freshness
<1>5. \A s : s # r => /\ Adds(messages', s) <=> Adds(messages, s)
                      /\ Names(messages', s) <=> Names(messages, s)
  BY <1>3, <1>4 DEF Adds, Names
<1>6. \A s : Msg("abort", s) \in Range(messages') <=> Msg("abort", s) \in Range(messages)
  BY <1>3, <1>4
<1>7. /\ DOMAIN task' = DOMAIN task /\ task'[r] = "sent"
      /\ \A s \in DOMAIN task : s # r => task'[s] = task[s]
  BY <1>1
<1>8. ~NotStarted(r) /\ \A s : s # r /\ NotStarted(s) => NotStarted(s)'
  BY <1>1, <1>5 DEF NotStarted, Names
<1>9. BackendType'
  <2>1. task' \in [DOMAIN task' -> {"new", "sent", "polling", "result", "error"}]
    BY <1>1 DEF BackendType
  <2> QED BY <1>1, <1>4, <1>7, <2>1 DEF BackendType
<1>10. Freshness'
  BY <1>1, <1>4, <1>8 DEF Freshness, AddFirst, Adds, Names
<1>11. Progress'
  BY <1>1, <1>2, <1>5, <1>7 DEF Progress, Unsent, Ended
<1>12. RowsScheduled' /\ Accounting'
  BY <1>1, <1>2, <1>7 DEF RowsScheduled, Accounting, ResultIsAccounted
<1>13. \A s : Gone(s) => Gone(s)'
  <2> SUFFICES ASSUME NEW s, Gone(s) PROVE Gone(s)'
    OBVIOUS
  <2>1. s # r
    BY <1>1 DEF Gone
  <2> QED BY <1>1, <1>5, <1>6, <1>7, <2>1 DEF Gone, Settled, Ended, Adds
<1>14. Cancelling'
  <2>1. (cancelling # None => Gone(cancelling))'
    BY <1>1, <1>13 DEF Cancelling
  <2>2. \A s \in DOMAIN outcome' : outcome'[s] = "cancelled" => Gone(s)'
    BY <1>1, <1>13 DEF Cancelling
  <2>3. \A s : \A n \in DOMAIN events' : events'[n].kind = "cancelled" =>
          (s = events'[n].rid /\ s \in pending' => Gone(s)' \/ AnswerIn(events', s, n - 1))
    BY <1>1, <1>13 DEF Cancelling
  <2>4. \A s \in pending' : Adds(commands', s) \/ s \in DOMAIN task' \/ Gone(s)'
                                \/ AnswerIn(events', s, Len(events'))
    BY <1>1, <1>7, <1>13 DEF Cancelling
  <2> HIDE DEF BackendInv
  <2> QED BY <2>1, <2>2, <2>3, <2>4 DEF Cancelling, AnswerIn
<1>15. Hearing'
  BY <1>1, <1>7 DEF Hearing, Adds
<1>16. Admission'
  BY <1>1, <1>5, <1>7 DEF Admission
<1> QED BY <1>9, <1>10, <1>11, <1>12, <1>14, <1>15, <1>16

\* A task whose call has been streamed goes on, or one that sent nothing raises; it has a
\* result only of what was charged.
LEMMA StreamedKeepsInv ==
    ASSUME BackendInv, NEW r \in Rid, NEW from, NEW to \in {"polling", "result", "error"},
           TaskStep(r, from, to), r \in outputs \/ (to = "error" /\ Unsent(r)),
           to = "result" /\ r \in pending => r \in charged,
           metrics' \subseteq metrics, messages' = messages
    PROVE  BackendInv'
<1> USE DEF BackendInv, coordinator, scheduler
<1>1. /\ r \in DOMAIN task /\ task' = [task EXCEPT ![r] = to]
      /\ UNCHANGED << table, coordinator, phase, cancelling, scheduler, commands, events, late >>
  BY DEF TaskStep
<1>2. /\ DOMAIN task' = DOMAIN task /\ task'[r] = to
      /\ \A s \in DOMAIN task : s # r => task'[s] = task[s]
  BY <1>1
<1>3. \A s : NotStarted(s) => NotStarted(s)'
  BY <1>1, <1>2 DEF NotStarted, Names
<1>4. BackendType'
  <2>1. task' \in [DOMAIN task' -> {"new", "sent", "polling", "result", "error"}]
    BY <1>1 DEF BackendType
  <2> QED BY <1>1, <1>2, <2>1 DEF BackendType
<1>5. Freshness'
  BY <1>1, <1>3 DEF Freshness, AddFirst, Adds, Names
<1>6. Progress'
  BY <1>1, <1>2 DEF Progress, Unsent, Ended, Adds, Names
<1>7. RowsScheduled' /\ Accounting'
  BY <1>1, <1>2 DEF RowsScheduled, Accounting, ResultIsAccounted
<1>8. \A s : Gone(s) => Gone(s)'
  BY <1>1, <1>2 DEF Gone, Settled, Ended, Adds
<1>9. Cancelling'
  <2>1. (cancelling # None => Gone(cancelling))'
    BY <1>1, <1>8 DEF Cancelling
  <2>2. \A s \in DOMAIN outcome' : outcome'[s] = "cancelled" => Gone(s)'
    BY <1>1, <1>8 DEF Cancelling
  <2>3. \A s : \A n \in DOMAIN events' : events'[n].kind = "cancelled" =>
          (s = events'[n].rid /\ s \in pending' => Gone(s)' \/ AnswerIn(events', s, n - 1))
    BY <1>1, <1>8 DEF Cancelling
  <2>4. \A s \in pending' : Adds(commands', s) \/ s \in DOMAIN task' \/ Gone(s)'
                                \/ AnswerIn(events', s, Len(events'))
    BY <1>1, <1>2, <1>8 DEF Cancelling
  <2> HIDE DEF BackendInv
  <2> QED BY <2>1, <2>2, <2>3, <2>4 DEF Cancelling, AnswerIn
<1>10. (Hearing /\ Admission)'
  BY <1>1, <1>2 DEF Hearing, Admission, Adds
<1> QED BY <1>4, <1>5, <1>6, <1>7, <1>9, <1>10

\* generate_request sends the call or raises before.
LEMMA GenerateKeepsInv ==
    ASSUME BackendInv, NEW r \in Rid, Generate(r)
    PROVE  BackendInv'
<1>1. metrics' = metrics /\ r \in DOMAIN task /\ task[r] = "new"
  BY DEF Generate, TaskStep
<1>2. Unsent(r)
  BY <1>1 DEF BackendInv, Progress
<1>3. CASE TaskStep(r, "new", "error") /\ UNCHANGED messages
  BY <1>1, <1>2, <1>3, StreamedKeepsInv
<1>4. CASE TaskStep(r, "new", "sent") /\ messages' = Append(messages, Msg("add", r))
  BY <1>1, <1>4, SendKeepsInv
<1> QED BY <1>3, <1>4 DEF Generate

\* The stream of a call is over.
LEMMA ReceiveKeepsInv ==
    ASSUME BackendInv, NEW r \in Rid, Receive(r)
    PROVE  BackendInv'
BY StreamedKeepsInv DEF Receive

\* The accounting is there: the call that is still wanted was charged.
LEMMA TakeMetricsKeepsInv ==
    ASSUME BackendInv, NEW r \in Rid, TakeMetrics(r)
    PROVE  BackendInv'
<1>1. r \in metrics /\ TaskStep(r, "polling", "result") /\ metrics' \subseteq metrics
      /\ messages' = messages
  BY DEF TakeMetrics, Acknowledged
<1>2. r \in outputs /\ (r \in pending => r \in charged)
  BY <1>1 DEF BackendInv, Progress, Unsent, Accounting, TaskStep
<1> QED BY <1>1, <1>2, StreamedKeepsInv

\* The accounting did not come in time.
LEMMA GiveUpKeepsInv ==
    ASSUME BackendInv, NEW r \in Rid, GiveUp(r)
    PROVE  BackendInv'
<1>1. TaskStep(r, "polling", "error") /\ UNCHANGED << metrics, messages >>
  BY DEF GiveUp
<1>2. r \in outputs
  BY <1>1 DEF BackendInv, Progress, Unsent, TaskStep
<1> QED BY <1>1, <1>2, StreamedKeepsInv

\* The end of step: the answer of a task takes its place.
LEMMA ReapKeepsInv ==
    ASSUME BackendInv, NEW r \in Rid, Reap(r)
    PROVE  BackendInv'
<1> USE DEF BackendInv, database, coordinator, scheduler
<1> DEFINE e == Msg(task[r], r)
<1>1. /\ phase = "loop" /\ cancelling = None /\ r \in DOMAIN task
      /\ task[r] \in {"result", "error"} /\ events' = Append(events, e) /\ task' = Drop(task, r)
      /\ UNCHANGED << database, coordinator, phase, cancelling, scheduler, commands, messages,
                      late >>
  BY DEF Reap
<1>2. /\ e \in Event /\ e.kind = task[r] /\ e.rid = r /\ e.kind \in {"result", "error"}
  BY <1>1 DEF Event, Msg
<1> HIDE DEF e
<1>3. DOMAIN task' = DOMAIN task \ {r} /\ \A s \in DOMAIN task' : task'[s] = task[s]
  BY <1>1 DEF Drop, Restrict
<1>4. ~Adds(messages, r) /\ ~NotStarted(r) /\ r \in DOMAIN owner
  BY <1>1 DEF Progress, Unsent, NotStarted, Freshness, Adds, Names, Msg
<1>5. /\ events' \in Seq(Event) /\ Range(events') = Range(events) \cup {e}
      /\ \A n \in DOMAIN events' : events'[n].kind = "cancelled" =>
            LET s == events'[n].rid IN s \in pending => Gone(s) \/ AnswerIn(events', s, n - 1)
      /\ \A s \in pending : Adds(commands, s) \/ s \in DOMAIN task \/ Gone(s)
                                    \/ AnswerIn(events', s, Len(events'))
      /\ AnswerIn(events', r, Len(events'))
  <2>1. e.kind # "cancelled"
    BY <1>2
  <2> HIDE DEF BackendInv
  <2> QED BY <1>1, <1>2, <2>1, EventPut
<1>6. BackendType'
  <2>1. task' \in [DOMAIN task' -> {"new", "sent", "polling", "result", "error"}]
    BY <1>1 DEF Drop, Restrict, BackendType
  <2> QED BY <1>1, <1>3, <1>5, <2>1 DEF BackendType
<1>7. \A s : s # r /\ NotStarted(s) => NotStarted(s)'
  BY <1>1, <1>2, <1>3, <1>5 DEF NotStarted, Names
<1>8. Freshness'
  <2>1. AddFirst(commands') /\ AddFirst(messages')
    BY <1>1 DEF Freshness, AddFirst
  <2>2. \A s \in Rid : Adds(commands', s) => NotStarted(s)'
    BY <1>1, <1>4, <1>7 DEF Freshness
  <2>3. \A s \in Rid \ DOMAIN owner' :
          NotStarted(s)' /\ s \notin pending' \cup DOMAIN outcome' /\ s # resolving'
          /\ ~Names(commands', s)
    BY <1>1, <1>4, <1>7 DEF Freshness
  <2> QED BY <2>1, <2>2, <2>3 DEF Freshness
<1>9. Progress' /\ RowsScheduled'
  BY <1>1, <1>2, <1>3, <1>4, <1>5 DEF Progress, Unsent, Ended, RowsScheduled, Names, Adds
<1>10. Accounting'
  <2>1. e.kind = "result" /\ r \in pending => r \in charged
    BY <1>1, <1>2 DEF Accounting
  <2> QED BY <1>1, <1>2, <1>3, <1>5, <2>1 DEF Accounting, ResultIsAccounted
<1>11. \A s : Gone(s) => Gone(s)'
  BY <1>1, <1>3 DEF Gone, Settled, Ended, Adds
<1>12. Cancelling'
  <2>1. (cancelling # None => Gone(cancelling))'
    BY <1>1
  <2>2. \A s \in DOMAIN outcome' : outcome'[s] = "cancelled" => Gone(s)'
    BY <1>1, <1>11 DEF Cancelling
  <2>3. \A s : \A n \in DOMAIN events' : events'[n].kind = "cancelled" =>
          (s = events'[n].rid /\ s \in pending' => Gone(s)' \/ AnswerIn(events', s, n - 1))
    BY <1>1, <1>5, <1>11
  <2>4. \A s \in pending' : Adds(commands', s) \/ s \in DOMAIN task' \/ Gone(s)'
                                \/ AnswerIn(events', s, Len(events'))
    BY <1>1, <1>3, <1>5, <1>11
  <2> HIDE DEF BackendInv
  <2> QED BY <2>1, <2>2, <2>3, <2>4 DEF Cancelling, AnswerIn
<1>13. Hearing'
  <2>1. \A x \in Range(events') : x.rid \notin DOMAIN task'
    BY <1>1, <1>2, <1>3, <1>5 DEF Hearing
  <2>2. failed' \/ Msg("stopped", None) \in Range(events') => phase' # "loop"
    BY <1>1, <1>2, <1>5 DEF Hearing, Msg
  <2> QED BY <1>1, <1>3, <2>1, <2>2 DEF Hearing, Adds
<1>14. Admission'
  BY <1>1, <1>3, <1>4 DEF Admission, Adds
<1> QED BY <1>6, <1>8, <1>9, <1>10, <1>12, <1>13, <1>14

-----------------------------------------------------------------------------
(* The scheduler process. *)

\* The parts of the invariant that a step of the scheduler process cannot disturb, and
\* Cancelling, whose calls must stay settled.
LEMMA SchedulerKeepsRest ==
    ASSUME BackendInv, UNCHANGED << coordinator, worker, commands, events >>,
           \A r : Settled(r) => Settled(r)'
    PROVE  Cancelling' /\ Hearing'
<1> USE DEF BackendInv, coordinator, worker
<1>1. \A s : Gone(s) => Gone(s)'
  BY DEF Gone, Adds
<1>2. Cancelling'
  <2>1. (cancelling # None => Gone(cancelling))'
    BY <1>1 DEF Cancelling
  <2>2. \A s \in DOMAIN outcome' : outcome'[s] = "cancelled" => Gone(s)'
    BY <1>1 DEF Cancelling
  <2>3. \A s : \A n \in DOMAIN events' : events'[n].kind = "cancelled" =>
          (s = events'[n].rid /\ s \in pending' => Gone(s)' \/ AnswerIn(events', s, n - 1))
    BY <1>1 DEF Cancelling
  <2>4. \A s \in pending' : Adds(commands', s) \/ s \in DOMAIN task' \/ Gone(s)'
                                \/ AnswerIn(events', s, Len(events'))
    BY <1>1 DEF Cancelling
  <2> HIDE DEF BackendInv
  <2> QED BY <2>1, <2>2, <2>3, <2>4 DEF Cancelling, AnswerIn
<1>3. Hearing'
  BY DEF Hearing, Adds
<1> QED BY <1>2, <1>3

\* Taking a message: what is left, and that no other of it adds its call.
LEMMA MessageTaken ==
    ASSUME BackendInv, messages # << >>, NEW left, left = Tail(messages),
           NEW h, h = Head(messages)
    PROVE  /\ left \in Seq(Message) /\ AddFirst(left) /\ h \in Message /\ h.rid \in Rid
           /\ Range(messages) = Range(left) \cup {h}
           /\ \A r : Adds(left, r) => Adds(messages, r) /\ r # h.rid
           /\ \A r : Names(left, r) => Names(messages, r)
           /\ Names(messages, h.rid) /\ h.rid \in DOMAIN owner /\ ~NotStarted(h.rid)
           /\ h.kind = "add" => h = Msg("add", h.rid)
           /\ h.kind # "add" => h = Msg("abort", h.rid)
<1>1. messages \in Seq(Message) /\ AddFirst(messages)
  BY DEF BackendInv, BackendType, Freshness
<1>2. /\ left \in Seq(Message) /\ AddFirst(left) /\ h \in Message
      /\ Range(messages) = Range(left) \cup {h}
      /\ \A c \in Range(left) : c.kind = "add" => c.rid # h.rid
  BY <1>1, TailView, AddFirstTail
<1>3. /\ h.rid \in Rid /\ (h.kind = "add" => h = Msg("add", h.rid))
      /\ (h.kind # "add" => h = Msg("abort", h.rid))
  BY <1>2 DEF Message, Msg
<1>4. \A r : Adds(left, r) => Adds(messages, r) /\ r # h.rid
  BY <1>2 DEF Adds, Msg
<1>5. (\A r : Names(left, r) => Names(messages, r)) /\ Names(messages, h.rid)
  BY <1>2 DEF Names
<1>6. ~NotStarted(h.rid) /\ h.rid \in DOMAIN owner
  BY <1>3, <1>5 DEF NotStarted, BackendInv, Freshness
<1> QED BY <1>2, <1>3, <1>4, <1>5, <1>6

\* The scheduler process admits a call it had never heard of, with its row.
LEMMA AdmitKeepsBackendInv ==
    ASSUME BackendInv, Between, messages # << >>, messages' = Tail(messages),
           Head(messages).kind = "add", ReceiveAdd(Head(messages).rid),
           CanAdmit(table, owner[Head(messages).rid], Head(messages).rid),
           UNCHANGED << metrics, coordinator, worker, outputs, charged, commands, events, late >>
    PROVE  BackendInv'
<1> USE DEF BackendInv, coordinator, worker
<1> DEFINE h == Head(messages)
           r == h.rid
           u == AdmitTo(table, owner[r], r)
           row == [at |-> "queued", inherited |-> Inherited(table, owner[r])]
<1>1. /\ table' = u /\ sched' = Put(sched, r, row) /\ alive' = TRUE /\ toAbort' = toAbort
      /\ Ended = {}
  BY DEF ReceiveAdd, Between
<1>2. /\ messages' \in Seq(Message) /\ AddFirst(messages') /\ r \in Rid
      /\ Range(messages) = Range(messages') \cup {h} /\ h = Msg("add", r)
      /\ \A s : Adds(messages', s) => Adds(messages, s) /\ s # r
      /\ \A s : Names(messages', s) => Names(messages, s)
      /\ Names(messages, r) /\ r \in DOMAIN owner /\ ~NotStarted(r)
  <2> HIDE DEF BackendInv
  <2> QED BY MessageTaken
<1>3. Adds(messages, r) /\ r \notin DOMAIN sched \cup metrics \cup outputs /\ owner[r] \in Pid
  BY <1>2 DEF Adds, Progress, Unsent, BackendType
<1>4. r \notin DOMAIN table.requests
  BY <1>3 DEF RowsScheduled
<1>5. /\ TableInv(u) /\ \A q : IsOpen(table, q) => IsOpen(u, q)
      /\ DOMAIN u.requests = DOMAIN table.requests \cup {r} /\ u.requests[r] = owner[r]
      /\ \A s \in DOMAIN table.requests : s # r => u.requests[s] = table.requests[s]
  BY <1>2, <1>3, AdmitView DEF BackendType
<1>6. row \in Scheduled /\ row.at = "queued"
  BY DEF Scheduled, Inherited, BackendType, TableInv, TableType, Program, CanAdmit
<1> HIDE DEF h, r, u, row
<1>7. /\ DOMAIN sched' = DOMAIN sched \cup {r} /\ sched'[r] = row
      /\ \A s \in DOMAIN sched : s # r /\ sched'[s] = sched[s]
  BY <1>1, <1>3 DEF Put
<1>8. BackendType'
  <2>1. sched' \in [DOMAIN sched' -> Scheduled]
    BY <1>1, <1>6 DEF Put, BackendType
  <2> QED BY <1>1, <1>2, <1>5, <1>7, <2>1 DEF BackendType
<1>9. \A s : s # r /\ NotStarted(s) => NotStarted(s)'
  BY <1>2, <1>7 DEF NotStarted, Names
<1>10. Freshness'
  BY <1>2, <1>9 DEF Freshness, Adds, Names
<1>11. Ended' = {}
  BY <1>1, <1>6, <1>7 DEF Ended
<1>12. Progress'
  <2>1. \A s \in DOMAIN task : task[s] = "new" => s # r
    BY <1>2 DEF Progress, Unsent
  <2>2. \A s \in outputs : s \notin DOMAIN sched'
    BY <1>1, <1>3, <1>7 DEF Progress, Unsent
  <2> QED BY <1>2, <1>7, <2>1, <2>2 DEF Progress, Unsent
<1>13. RowsScheduled'
  BY <1>1, <1>4, <1>5, <1>6, <1>7 DEF RowsScheduled
<1>14. Accounting'
  BY <1>1, <1>3, <1>5, <1>6, <1>7 DEF Accounting, ResultIsAccounted
<1>15. \A s : Settled(s) => Settled(s)'
  <2> SUFFICES ASSUME NEW s, Settled(s), s \in DOMAIN sched' \/ Adds(messages', s)
               PROVE  s \in toAbort' \/ Msg("abort", s) \in Range(messages')
    BY DEF Settled
  <2>1. s \in DOMAIN sched \/ Adds(messages, s)
    BY <1>2, <1>3, <1>7
  <2>2. s \in toAbort \/ Msg("abort", s) \in Range(messages)
    BY <1>1, <2>1 DEF Settled
  <2>3. Msg("abort", s) # h
    BY <1>2 DEF Msg
  <2> QED BY <1>1, <1>2, <2>2, <2>3
<1>16. Cancelling' /\ Hearing'
  <2> HIDE DEF BackendInv
  <2> QED BY <1>15, SchedulerKeepsRest
<1>17. Admission'
  BY <1>1, <1>2, <1>5 DEF Admission, IsOpen
<1> QED BY <1>8, <1>10, <1>12, <1>13, <1>14, <1>16, <1>17

\* The admission raises: only behind a wait that ran out, or once the worker closes.
LEMMA RefuseKeepsInv ==
    ASSUME BackendInv, Between, messages # << >>, messages' = Tail(messages),
           Head(messages).kind = "add", ReceiveAdd(Head(messages).rid),
           ~CanAdmit(table, owner[Head(messages).rid], Head(messages).rid),
           UNCHANGED << metrics, coordinator, worker, outputs, charged, commands, events, late >>
    PROVE  BackendInv'
<1> USE DEF BackendInv, coordinator, worker
<1> DEFINE h == Head(messages)
           r == h.rid
<1>1. alive' = FALSE /\ UNCHANGED << table, sched, toAbort >>
  BY DEF ReceiveAdd
<1>2. /\ messages' \in Seq(Message) /\ AddFirst(messages') /\ r \in Rid
      /\ Range(messages) = Range(messages') \cup {h} /\ h = Msg("add", r)
      /\ \A s : Adds(messages', s) => Adds(messages, s) /\ s # r
      /\ \A s : Names(messages', s) => Names(messages, s)
  <2> HIDE DEF BackendInv
  <2> QED BY MessageTaken
<1>3. Adds(messages, r) /\ r \notin DOMAIN table.requests
  BY <1>2 DEF Adds, Progress, Unsent, RowsScheduled
<1>4. ~(late = {} /\ phase = "loop")
  <2> SUFFICES ASSUME late = {}, phase = "loop" PROVE FALSE
    OBVIOUS
  <2>1. r \in pending
    BY <1>2, <1>3, NoneAssumption DEF Admission, Hearing
  <2>2. IsOpen(table, owner[r])
    BY <2>1 DEF Admission, IsOpen
  <2> QED BY <1>3, <2>2 DEF IsOpen, CanAdmit
<1> HIDE DEF h, r
<1>5. BackendType'
  BY <1>1, <1>2 DEF BackendType
<1>6. \A s : NotStarted(s) => NotStarted(s)'
  BY <1>1, <1>2 DEF NotStarted, Names
<1>7. Freshness'
  BY <1>2, <1>6 DEF Freshness, Adds, Names
<1>8. Progress' /\ RowsScheduled' /\ Accounting'
  BY <1>1, <1>2 DEF Progress, Unsent, Ended, RowsScheduled, Accounting, ResultIsAccounted
<1>9. \A s : Settled(s) => Settled(s)'
  <2>1. \A s : Msg("abort", s) # h
    BY <1>2 DEF Msg
  <2> QED BY <1>1, <1>2, <2>1 DEF Settled, Ended
<1>10. Cancelling' /\ Hearing'
  <2> HIDE DEF BackendInv
  <2> QED BY <1>9, SchedulerKeepsRest
<1>11. Admission'
  BY <1>1, <1>4 DEF Admission
<1> QED BY <1>5, <1>7, <1>8, <1>10, <1>11

\* An abort: a call the scheduler has is accounted for at once or after its pass, and a call
\* it does not have it was never sent or is done with.
LEMMA AbortKeepsInv ==
    ASSUME BackendInv, Between, messages # << >>, messages' = Tail(messages),
           Head(messages).kind # "add", ReceiveAbort(Head(messages).rid),
           UNCHANGED << metrics, coordinator, worker, outputs, charged, commands, events, late >>
    PROVE  BackendInv'
<1> USE DEF BackendInv, coordinator, worker
<1> DEFINE h == Head(messages)
           r == h.rid
<1>1. /\ UNCHANGED << table, alive >> /\ Ended = {} /\ toAbort \subseteq toAbort'
      /\ DOMAIN sched' = DOMAIN sched
      /\ \A s \in DOMAIN sched : s # r => sched'[s] = sched[s]
      /\ r \in DOMAIN sched => sched'[r] \in Scheduled
      /\ r \in DOMAIN sched /\ sched[r].at = "queued" => sched'[r].at = "ended"
      /\ r \in DOMAIN sched /\ sched[r].at = "running" => r \in toAbort' /\ sched'[r].at = "running"
  <2>1. UNCHANGED << table, alive >> /\ Ended = {} /\ toAbort \subseteq toAbort'
    BY DEF ReceiveAbort, Between
  <2>2. \A s \in DOMAIN sched : sched[s] \in Scheduled
    BY DEF BackendType
  <2>3. CASE r \in DOMAIN sched /\ sched[r].at = "queued"
    <3>1. sched' = [sched EXCEPT ![r].at = "ended"]
      BY <2>3 DEF ReceiveAbort, At
    <3>2. sched'[r] = [sched[r] EXCEPT !.at = "ended"] /\ sched[r] \in Scheduled
      BY <2>2, <2>3, <3>1
    <3>3. sched'[r] \in Scheduled /\ sched'[r].at = "ended"
      BY <3>2 DEF Scheduled
    <3> QED BY <2>1, <2>3, <3>1, <3>3
  <2>4. CASE ~(r \in DOMAIN sched /\ sched[r].at = "queued")
    <3>1. sched' = sched
      BY <2>4 DEF ReceiveAbort
    <3>2. r \in DOMAIN sched /\ sched[r].at = "running" => r \in toAbort'
      BY DEF ReceiveAbort
    <3> QED BY <2>1, <2>2, <2>4, <3>1, <3>2
  <2> QED BY <2>3, <2>4
<1>2. /\ messages' \in Seq(Message) /\ AddFirst(messages') /\ r \in Rid
      /\ Range(messages) = Range(messages') \cup {h} /\ h = Msg("abort", r)
      /\ \A s : Adds(messages', s) => Adds(messages, s) /\ s # r
      /\ \A s : Names(messages', s) => Names(messages, s)
  <2> HIDE DEF BackendInv
  <2> QED BY MessageTaken
<1>3. r \in DOMAIN sched => sched[r].at \in {"queued", "running"}
  BY <1>1 DEF Ended, BackendType, Scheduled
<1> HIDE DEF h, r
<1>4. BackendType'
  <2>1. sched' \in [DOMAIN sched' -> Scheduled]
    <3>1. \A s \in DOMAIN sched' : sched'[s] \in Scheduled
      BY <1>1 DEF BackendType
    <3>2. sched' = [s \in DOMAIN sched' |-> sched'[s]]
      BY DEF ReceiveAbort, At, BackendType
    <3> QED BY <3>1, <3>2
  <2> QED BY <1>1, <1>2, <2>1 DEF BackendType
<1>5. \A s : NotStarted(s) => NotStarted(s)'
  BY <1>1, <1>2 DEF NotStarted, Names
<1>6. Freshness'
  BY <1>2, <1>5 DEF Freshness, Adds, Names
<1>7. Progress'
  BY <1>1, <1>2 DEF Progress, Unsent
<1>8. RowsScheduled' /\ Accounting'
  BY <1>1, <1>3 DEF RowsScheduled, Accounting, ResultIsAccounted
<1>9. \A s : Settled(s) => Settled(s)'
  <2> SUFFICES ASSUME NEW s, Settled(s), s \in DOMAIN sched' \/ Adds(messages', s)
               PROVE  s \in toAbort' \cup Ended' \/ Msg("abort", s) \in Range(messages')
    BY DEF Settled
  <2>1. CASE s = r
    BY <1>1, <1>2, <1>3, <2>1 DEF Ended
  <2>2. CASE s # r
    <3>1. s \in toAbort \/ Msg("abort", s) \in Range(messages)
      BY <1>1, <1>2 DEF Settled
    <3>2. Msg("abort", s) # h
      BY <1>2, <2>2 DEF Msg
    <3> QED BY <1>1, <1>2, <3>1, <3>2
  <2> QED BY <2>1, <2>2
<1>10. Cancelling' /\ Hearing'
  <2> HIDE DEF BackendInv
  <2> QED BY <1>9, SchedulerKeepsRest
<1>11. Admission'
  BY <1>1, <1>2 DEF Admission
<1> QED BY <1>4, <1>6, <1>7, <1>8, <1>10, <1>11

\* The scheduler process receives.
LEMMA ReceiveMessageKeepsInv ==
    ASSUME BackendInv, ReceiveMessage
    PROVE  BackendInv'
BY AdmitKeepsBackendInv, RefuseKeepsInv, AbortKeepsInv DEF ReceiveMessage

\* A pass begins with no ended call, so whatever it leaves unfinished still has its row.
LEMMA PassKeepsInv ==
    ASSUME BackendInv, NEW S \in SUBSET DOMAIN sched, NEW done \in SUBSET S, Pass(S, done)
    PROVE  BackendInv'
<1> USE DEF BackendInv, database, coordinator, worker
<1>1. /\ Ended = {} /\ outputs' = outputs \cup done /\ toAbort' = toAbort \ done
      /\ DOMAIN sched' = DOMAIN sched
      /\ \A r \in DOMAIN sched : sched'[r].at = IF r \in done THEN "ended"
                                                ELSE IF r \in S THEN "running" ELSE "queued"
      /\ UNCHANGED << database, coordinator, worker, alive, charged, commands, events, messages,
                      late >>
  <2>1. sched' = [r \in DOMAIN sched |->
                    [sched[r] EXCEPT !.at = IF r \in done THEN "ended"
                                            ELSE IF r \in S THEN "running" ELSE "queued"]]
    BY DEF Pass
  <2>2. \A r \in DOMAIN sched : sched[r] \in Scheduled
    BY DEF BackendType
  <2> QED BY <2>1, <2>2 DEF Pass, Between, Scheduled
<1>2. BackendType'
  <2>1. sched' \in [DOMAIN sched' -> Scheduled]
    <3>1. sched' = [r \in DOMAIN sched |->
                      [sched[r] EXCEPT !.at = IF r \in done THEN "ended"
                                              ELSE IF r \in S THEN "running" ELSE "queued"]]
      BY DEF Pass
    <3>2. \A r \in DOMAIN sched : sched[r] \in Scheduled
      BY DEF BackendType
    <3> QED BY <3>1, <3>2 DEF Scheduled
  <2>2. outputs' \subseteq Rid
    BY <1>1 DEF BackendType
  <2> QED BY <1>1, <2>1, <2>2 DEF BackendType
<1>3. \A s : NotStarted(s) => NotStarted(s)'
  BY <1>1 DEF NotStarted, Names
<1>4. Freshness'
  BY <1>1, <1>3 DEF Freshness, AddFirst, Adds, Names
<1>5. Ended' = done
  BY <1>1 DEF Ended
<1>6. Progress'
  <2>1. \A s \in outputs : s \notin DOMAIN sched
    BY <1>1 DEF Progress, Unsent
  <2> QED BY <1>1, <1>5, <2>1 DEF Progress, Unsent, Adds, Names
<1>7. \A s \in DOMAIN sched : sched[s].at # "finished" /\ sched'[s].at # "finished"
  BY <1>1 DEF Ended
<1>8. RowsScheduled' /\ Accounting'
  BY <1>1, <1>7 DEF RowsScheduled, Accounting, ResultIsAccounted
<1>9. \A s : Settled(s) => Settled(s)'
  BY <1>1, <1>5 DEF Settled, Adds
<1>10. Cancelling' /\ Hearing'
  <2> HIDE DEF BackendInv
  <2> QED BY <1>1, <1>9, SchedulerKeepsRest
<1>11. Admission'
  BY <1>1 DEF Admission, Adds
<1> QED BY <1>2, <1>4, <1>6, <1>8, <1>10, <1>11

\* finish of the scheduler: if the row is there it is this call that is charged, and
\* afterwards the row is gone in any case.
LEMMA AccountKeepsInv ==
    ASSUME BackendInv, NEW r \in Rid, Account(r)
    PROVE  BackendInv'
<1> USE DEF BackendInv, coordinator, worker
<1> DEFINE inherited == sched[r].inherited
           u == FinishIn(table, owner[r], r, inherited, 1, 0)
<1>1. /\ r \in DOMAIN sched /\ sched[r].at = "ended" /\ table' = u
      /\ charged' = (IF RemovesRow(table, owner[r], r) THEN charged \cup {r} ELSE charged)
      /\ UNCHANGED << metrics, coordinator, worker, toAbort, alive, outputs, commands, events,
                      messages, late >>
  BY DEF Account, Ended
<1>2. /\ sched' = [sched EXCEPT ![r].at = "finished"]
      /\ \A s \in DOMAIN sched : sched[s] \in Scheduled
  BY DEF Account, At, BackendType
<1>3. /\ DOMAIN sched' = DOMAIN sched /\ sched'[r].at = "finished"
      /\ \A s \in DOMAIN sched : s # r => sched'[s] = sched[s]
  BY <1>1, <1>2 DEF Scheduled
<1>4. inherited \in Nat /\ r \in DOMAIN owner /\ owner[r] \in Pid
  BY <1>1, <1>2 DEF Scheduled, BackendType, Freshness, NotStarted
<1>5. RemovesRow(table, owner[r], r) <=> r \in DOMAIN table.requests
  BY DEF RowsScheduled, RemovesRow, RowsOf
<1>6. /\ TableInv(u) /\ \A q : IsOpen(table, q) => IsOpen(u, q)
      /\ DOMAIN u.requests = DOMAIN table.requests \ {r}
      /\ \A s \in DOMAIN u.requests : u.requests[s] = table.requests[s]
  <2>1. u = FinishIn(table, owner[r], r, inherited, 1, 0) /\ TableInv(table)
    BY DEF BackendType
  <2> HIDE DEF u, inherited, BackendInv
  <2>2. /\ TableInv(u) /\ \A q : IsOpen(table, q) => IsOpen(u, q)
        /\ RemovesRow(table, owner[r], r) => DOMAIN u.requests = DOMAIN table.requests \ {r}
        /\ ~RemovesRow(table, owner[r], r) => DOMAIN u.requests = DOMAIN table.requests
        /\ \A s \in DOMAIN u.requests : u.requests[s] = table.requests[s]
    BY <1>4, <2>1, FinishView
  <2> QED BY <1>5, <2>2
<1> HIDE DEF u, inherited
<1>7. charged \subseteq charged' /\ (r \in DOMAIN table.requests => r \in charged')
  BY <1>1, <1>5
<1>8. BackendType'
  <2>1. sched' \in [DOMAIN sched' -> Scheduled]
    BY <1>1, <1>2 DEF BackendType, Scheduled
  <2> QED BY <1>1, <1>3, <1>6, <2>1 DEF BackendType
<1>9. \A s : NotStarted(s) => NotStarted(s)'
  BY <1>1, <1>3 DEF NotStarted, Names
<1>10. Freshness'
  BY <1>1, <1>9 DEF Freshness, AddFirst, Adds, Names
<1>11. Ended' = Ended
  BY <1>1, <1>3 DEF Ended
<1>12. Progress'
  BY <1>1, <1>3, <1>11 DEF Progress, Unsent, Adds, Names
<1>13. RowsScheduled'
  BY <1>1, <1>3, <1>6 DEF RowsScheduled
<1>14. Accounting'
  <2>1. \A s \in DOMAIN task \cap pending : s \in DOMAIN sched =>
          IF sched'[s].at = "finished" THEN s \in charged' ELSE s \in DOMAIN u.requests
    <3> SUFFICES ASSUME NEW s \in DOMAIN task \cap pending, s \in DOMAIN sched
                 PROVE  IF sched'[s].at = "finished" THEN s \in charged'
                        ELSE s \in DOMAIN u.requests
      OBVIOUS
    <3>1. CASE s = r
      BY <1>1, <1>3, <1>7, <3>1 DEF Accounting
    <3>2. CASE s # r
      BY <1>3, <1>6, <1>7, <3>2 DEF Accounting
    <3> QED BY <3>1, <3>2
  <2>2. \A s \in DOMAIN task \cap pending : s \in metrics \/ task[s] = "result" => s \in charged'
    BY <1>7 DEF Accounting
  <2> QED BY <1>1, <1>3, <1>7, <2>1, <2>2 DEF Accounting, ResultIsAccounted
<1>15. \A s : Settled(s) => Settled(s)'
  BY <1>1, <1>3, <1>11 DEF Settled, Adds
<1>16. Cancelling' /\ Hearing'
  <2> HIDE DEF BackendInv
  <2> QED BY <1>1, <1>15, SchedulerKeepsRest
<1>17. Admission'
  BY <1>1, <1>6 DEF Admission, Adds, IsOpen
<1> QED BY <1>8, <1>10, <1>12, <1>13, <1>14, <1>16, <1>17

\* save_metrics: what a task will take for its accounting comes after the charge.
LEMMA SaveMetricsKeepsInv ==
    ASSUME BackendInv, NEW r \in Rid, SaveMetrics(r)
    PROVE  BackendInv'
<1> USE DEF BackendInv, coordinator, worker
<1>1. /\ r \in DOMAIN sched /\ sched[r].at = "finished" /\ metrics' = metrics \cup {r}
      /\ sched' = Drop(sched, r)
      /\ UNCHANGED << table, coordinator, worker, toAbort, alive, outputs, charged, commands,
                      events, messages, late >>
  BY DEF SaveMetrics
<1>2. /\ DOMAIN sched' = DOMAIN sched \ {r} /\ \A s \in DOMAIN sched' : sched'[s] = sched[s]
      /\ Ended' = Ended \ {r}
  BY <1>1 DEF Drop, Restrict, Ended
<1>3. ~Adds(messages, r) /\ ~NotStarted(r) /\ r \notin DOMAIN table.requests
  BY <1>1 DEF Progress, Unsent, NotStarted, RowsScheduled
<1>4. BackendType'
  <2>1. sched' \in [DOMAIN sched' -> Scheduled]
    BY <1>1 DEF Drop, Restrict, BackendType
  <2>2. metrics' \subseteq Rid
    BY <1>1 DEF BackendType
  <2> QED BY <1>1, <1>2, <2>1, <2>2 DEF BackendType
<1>5. \A s : s # r /\ NotStarted(s) => NotStarted(s)'
  BY <1>1, <1>2 DEF NotStarted, Names
<1>6. Freshness'
  BY <1>1, <1>3, <1>5 DEF Freshness, AddFirst, Adds, Names
<1>7. Progress'
  BY <1>1, <1>2, <1>3 DEF Progress, Unsent, Adds, Names
<1>8. RowsScheduled' /\ Accounting'
  BY <1>1, <1>2, <1>3 DEF RowsScheduled, Accounting, ResultIsAccounted
<1>9. \A s : Settled(s) => Settled(s)'
  BY <1>1, <1>2, <1>3 DEF Settled, Adds
<1>10. Cancelling' /\ Hearing'
  <2> HIDE DEF BackendInv
  <2> QED BY <1>1, <1>9, SchedulerKeepsRest
<1>11. Admission'
  BY <1>1 DEF Admission, Adds
<1> QED BY <1>4, <1>6, <1>7, <1>8, <1>10, <1>11

-----------------------------------------------------------------------------
(* The theorems. *)

\* Nothing has happened yet.
LEMMA InitHasInv == Init => BackendInv
<1> SUFFICES ASSUME Init PROVE BackendInv
  OBVIOUS
<1> USE DEF Init, BackendInv
<1>1. DOMAIN table.programs = {} /\ DOMAIN table.requests = {} /\ TableInv(table)
  BY EmptyTableInv DEF EmptyTable
<1>2. Range(commands) = {} /\ Range(events) = {} /\ Range(messages) = {}
  BY DEF Range
<1>3. Len(events) = 0 /\ DOMAIN events = {} /\ DOMAIN commands = {} /\ DOMAIN messages = {}
  OBVIOUS
<1>4. BackendType
  <2>1. commands \in Seq(Command) /\ events \in Seq(Event) /\ messages \in Seq(Message)
    OBVIOUS
  <2>2. /\ \A T : << >> \in [DOMAIN << >> -> T]
        /\ DOMAIN << >> = {}
    OBVIOUS
  <2>3. /\ DOMAIN sessions = {} /\ DOMAIN owner = {} /\ DOMAIN outcome = {}
        /\ DOMAIN task = {} /\ DOMAIN sched = {}
        /\ sessions \in [DOMAIN sessions -> BOOLEAN]
        /\ owner \in [DOMAIN owner -> Pid] /\ sched \in [DOMAIN sched -> Scheduled]
        /\ outcome \in [DOMAIN outcome -> {"result", "error", "cancelled"}]
        /\ task \in [DOMAIN task -> {"new", "sent", "polling", "result", "error"}]
    BY <2>2
  <2> HIDE DEF BackendInv
  <2> QED BY <1>1, <2>1, <2>3 DEF BackendType
<1>5. Freshness
  BY <1>2, <1>3, NoneAssumption DEF Freshness, NotStarted, Names, Adds, AddFirst
<1>6. Progress /\ RowsScheduled /\ Accounting
  BY <1>1, <1>2 DEF Progress, Unsent, RowsScheduled, Accounting, ResultIsAccounted, Adds
<1>7. Cancelling /\ Hearing /\ Admission
  BY <1>2, <1>3 DEF Cancelling, Hearing, Admission, Adds
<1> QED BY <1>4, <1>5, <1>6, <1>7

\* No step of the three processes disturbs the invariant, nor does a stutter.
LEMMA NextKeepsInv == BackendInv /\ [Next]_vars => BackendInv'
<1> SUFFICES ASSUME BackendInv, [Next]_vars PROVE BackendInv'
  OBVIOUS
<1>1. CASE Coordinator
  BY <1>1, StartSessionKeepsInv, EndSessionKeepsInv, SubmitKeepsInv, CancelFutureKeepsInv,
     FailCallKeepsInv, ShutdownKeepsInv, HearKeepsInv, SettleKeepsInv DEF Coordinator
<1>2. CASE Worker
  BY <1>2, ServeKeepsInv, CancelAnsweredKeepsInv, CancelTimeoutKeepsInv, CloseKeepsInv,
     GenerateKeepsInv, ReceiveKeepsInv, TakeMetricsKeepsInv, GiveUpKeepsInv, ReapKeepsInv
     DEF Worker
<1>3. CASE Scheduler
  BY <1>3, ReceiveMessageKeepsInv, PassKeepsInv, AccountKeepsInv, SaveMetricsKeepsInv DEF Scheduler
<1>4. CASE UNCHANGED vars
  <2> USE <1>4 DEF vars, database, coordinator, worker, scheduler, BackendInv
  <2>1. BackendType'
    BY DEF BackendType
  <2>2. Freshness'
    BY DEF Freshness, NotStarted, Names, Adds, AddFirst
  <2>3. (Progress /\ RowsScheduled /\ Accounting)'
    BY DEF Progress, Unsent, RowsScheduled, Accounting, ResultIsAccounted, Names, Adds, Ended
  <2>4. Cancelling'
    BY DEF Cancelling, Gone, Settled, Adds, Ended, AnswerIn
  <2>5. (Hearing /\ Admission)'
    BY DEF Hearing, Admission, Adds
  <2> QED BY <2>1, <2>2, <2>3, <2>4, <2>5
<1> QED BY <1>1, <1>2, <1>3, <1>4 DEF Next

\* The invariant of the three processes holds in every reachable state.
THEOREM BackendInvariant == Spec => []BackendInv
BY InitHasInv, NextKeepsInv, PTL DEF Spec

\* A caller that has the result of a call finds its run time charged.
THEOREM ResultsAreAccounted == Spec => []ResultIsAccounted
<1>1. BackendInv => ResultIsAccounted
  BY DEF BackendInv, Accounting
<1> QED BY <1>1, BackendInvariant, PTL

\* A cancelled call is gone, accounted for, or followed by its abort; only a wait that ran
\* out lets an admission raise; with nothing on the way no request row is left.
THEOREM CancellationsSettle == Spec => []CancellationSettles
<1>1. BackendInv => CancellationSettles
  <2> SUFFICES ASSUME BackendInv PROVE CancellationSettles
    OBVIOUS
  <2> USE DEF BackendInv
  <2>1. ASSUME NEW r \in DOMAIN outcome, outcome[r] = "cancelled",
               r \in DOMAIN sched \/ Msg("add", r) \in Range(messages)
        PROVE  r \in toAbort \cup Ended \/ Msg("abort", r) \in Range(messages)
    BY <2>1 DEF Cancelling, Gone, Settled, Adds
  <2>2. ~alive => late # {} \/ phase # "loop"
    BY DEF Admission
  <2>3. sched = << >> => table.requests = << >>
    <3> SUFFICES ASSUME sched = << >> PROVE table.requests = << >>
      OBVIOUS
    <3>1. DOMAIN table.requests = {}
      BY DEF RowsScheduled
    <3>2. table.requests \in [DOMAIN table.requests -> Pid]
      BY DEF BackendType, TableInv, TableType
    <3> QED BY <3>1, <3>2
  <2> QED BY <2>1, <2>2, <2>3 DEF CancellationSettles
<1> QED BY <1>1, BackendInvariant, PTL
=============================================================================
