----------------------- MODULE InferenceClient_proofs -----------------------
(***************************************************************************)
(* Requests, streams and the client's session end cleanly, for any number  *)
(* of callers, request ids and sessions and texts of any length.           *)
(***************************************************************************)
EXTENDS InferenceClient, TLAPS

-----------------------------------------------------------------------------
(* The inductive invariant. *)

Stages == {"new", "admitting", "waiting", "returned", "streaming", "over", "dropped"}
Futures == {"none", "waiting", "result", "error", "cancelled"}
Threads == {"none", "running", "done", "raised"}

\* The shape of the handlers' and the engine's state.
ServerType ==
    /\ stage \in [Caller -> Stages]
    /\ chat = [c \in Caller |-> chat[c]]
    /\ requests = [n \in DOMAIN requests |-> requests[n]]
    /\ \A n \in DOMAIN requests : requests[n] \in Caller
    /\ withdrawn \subseteq Caller
    /\ thread \in [Caller -> Threads]
    /\ future \in [Caller -> Futures]
    /\ text \in [Caller -> Nat] /\ queued \in [Caller -> Nat] /\ sent \in [Caller -> Nat]
    /\ reply = [c \in Caller |-> reply[c]]

\* chat: a caller that did nothing yet, or was answered, holds nothing; an own session
\* belongs to a request that asked for it.
HoldsNothing(c) == c \notin sessions /\ \A n \in DOMAIN requests : requests[n] # c
Holders ==
    \A c \in Caller :
        /\ stage[c] \in {"new", "over"} => HoldsNothing(c)
        /\ c \in sessions => chat[c].sid = c
        /\ stage[c] # "over" => reply[c] = "none"

\* submit: its thread runs from the reservation on, and a future exists when it is done;
\* nobody is left with a call but the handler, the stream, or the retire callback.
Threading ==
    \A c \in Caller :
        /\ stage[c] = "new" => thread[c] = "none"
        /\ stage[c] = "admitting" => thread[c] # "none"
        /\ stage[c] \in {"waiting", "returned", "streaming", "dropped"} => thread[c] =
            "done"
        /\ future[c] # "none" <=> thread[c] = "done"
        /\ stage[c] = "over" /\ (thread[c] = "running" \/ future[c] = "waiting") => c \in
            retire

\* InferenceFuture.progress: what is not in the queue has been sent, and a result comes
\* after the final text.
Delivery ==
    \A c \in Caller :
        /\ IF queued[c] = 0 THEN sent[c] = text[c] ELSE queued[c] = text[c]
        /\ future[c] = "result" => text[c] = Full
        /\ stage[c] = "waiting" => ~chat[c].stream

\* The lock of the client: at most one thread is inside, and what it found holds until
\* its request is answered.
Locking ==
    /\ inside = [c \in DOMAIN inside |-> inside[c]]
    /\ \A c, d \in DOMAIN inside : c = d
    /\ \A c \in DOMAIN inside :
        /\ ~closed
        /\ inside[c] = "post" => sid = None

\* The automatic session: the client's only one, known to be open only while it is kept.
Automatic ==
    /\ learnt \subseteq Sid
    /\ learnt \cap sessions \subseteq {sid}
    /\ closed => learnt \cap sessions = {}

ClientInv ==
    /\ ServerType /\ Holders /\ Threading /\ CancelHolds /\ Delivery /\ StreamIsComplete
    /\ Locking /\ Automatic

-----------------------------------------------------------------------------
(* The service's steps, one lemma per action. *)

\* A chat takes its request id and, when it has no session, opens one of its own.
LEMMA ChatKeepsInv ==
    ASSUME NEW c \in Caller, NEW n \in Name, NEW own \in learnt \cup {c},
           NEW stream \in BOOLEAN, ClientInv, Chat(c, n, own, stream), UNCHANGED clientVars
    PROVE  ClientInv'
<1> USE SessionAssumption DEF ClientInv, ServerType, Chat, clientVars, serverVars,
    handlerVars, engineVars
<1>1. ServerType'
  <2>1. stage' \in [Caller -> Stages]
    BY DEF Stages
  <2>2. thread' \in [Caller -> Threads]
    BY DEF Threads
  <2>3. chat' = [d \in Caller |-> chat'[d]] /\ reply' = [d \in Caller |-> reply'[d]]
    OBVIOUS
  <2>4. requests' = [m \in DOMAIN requests' |-> requests'[m]]
        /\ \A m \in DOMAIN requests' : requests'[m] \in Caller
    OBVIOUS
  <2> QED BY <2>1, <2>2, <2>3, <2>4
<1>2. Holders'
  BY DEF Holders, HoldsNothing, Threading
<1>3. Threading'
  BY DEF Threading, Stages, Futures, Threads
<1>4. CancelHolds'
  BY DEF CancelHolds, Stages
<1>5. Delivery'
  BY DEF Delivery, Threading, Stages, Futures
<1>6. StreamIsComplete'
  BY DEF StreamIsComplete, Delivery, Holders, Stages
<1>7. Automatic'
  BY DEF Automatic
<1>8. Locking'
  BY DEF Locking
<1> QED BY <1>1, <1>2, <1>3, <1>4, <1>5, <1>6, <1>7, <1>8

\* Who enters after its cancellation leaves at once; a future it got is cancelled.
LEMMA AdmittedKeepsInv ==
    ASSUME NEW c \in Caller, ClientInv, Admitted(c), UNCHANGED clientVars
    PROVE  ClientInv'
<1> USE DEF ClientInv, ServerType, Admitted, Leave, CancelFuture, Cancelled, Enters,
    clientVars, serverVars, handlerVars, engineVars
<1>1. ServerType'
  BY DEF Stages, Futures, Threads, Restrict
<1>2. Holders'
  BY DEF Holders, HoldsNothing, Threading, Restrict
<1>3. Threading'
  BY DEF Threading, Stages, Futures, Threads
<1>4. CancelHolds'
  BY DEF CancelHolds, Stages
<1>5. Delivery'
  BY DEF Delivery, Threading, Stages, Futures
<1>6. StreamIsComplete'
  BY DEF StreamIsComplete, Delivery, Holders, Stages
<1>7. Automatic'
  BY DEF Automatic
<1>8. Locking'
  BY DEF Locking
<1> QED BY <1>1, <1>2, <1>3, <1>4, <1>5, <1>6, <1>7, <1>8

\* A handler that waits is no stream, so an answer "ok" from here owes no text.
LEMMA WaitKeepsInv ==
    ASSUME NEW c \in Caller, ClientInv, Wait(c), UNCHANGED clientVars
    PROVE  ClientInv'
<1> USE DEF ClientInv, ServerType, Wait, Leave, CancelFuture, Cancelled, Done, clientVars,
    serverVars, handlerVars, engineVars
<1>1. ServerType'
  BY DEF Stages, Futures, Threads, Restrict
<1>2. Holders'
  BY DEF Holders, HoldsNothing, Threading, Restrict
<1>3. Threading'
  BY DEF Threading, Stages, Futures, Threads
<1>4. CancelHolds'
  BY DEF CancelHolds, Stages
<1>5. Delivery'
  BY DEF Delivery, Threading, Stages, Futures
<1>6. StreamIsComplete'
  BY DEF StreamIsComplete, Delivery, Holders, Stages
<1>7. Automatic'
  BY DEF Automatic
<1>8. Locking'
  BY DEF Locking
<1> QED BY <1>1, <1>2, <1>3, <1>4, <1>5, <1>6, <1>7, <1>8

\* A cancelled handler leaves its thread to the retire callback, or cancels its future.
LEMMA CancelHandlerKeepsInv ==
    ASSUME NEW c \in Caller, ClientInv, CancelHandler(c), UNCHANGED clientVars
    PROVE  ClientInv'
<1> USE DEF ClientInv, ServerType, CancelHandler, Leave, RetireLater, CancelFuture,
    Cancelled, clientVars, serverVars, handlerVars, engineVars
<1>1. ServerType'
  BY DEF Stages, Futures, Threads, Restrict
<1>2. Holders'
  BY DEF Holders, HoldsNothing, Threading, Restrict
<1>3. Threading'
  BY DEF Threading, Stages, Futures, Threads
<1>4. CancelHolds'
  BY DEF CancelHolds, Stages
<1>5. Delivery'
  BY DEF Delivery, Threading, Stages, Futures
<1>6. StreamIsComplete'
  BY DEF StreamIsComplete, Delivery, Holders, Stages
<1>7. Automatic'
  BY DEF Automatic
<1>8. Locking'
  BY DEF Locking
<1> QED BY <1>1, <1>2, <1>3, <1>4, <1>5, <1>6, <1>7, <1>8

\* The callback is given up only once its future no longer waits.
LEMMA RetireKeepsInv ==
    ASSUME NEW c \in Caller, ClientInv, Retire(c), UNCHANGED clientVars
    PROVE  ClientInv'
<1> USE DEF ClientInv, ServerType, Retire, CancelFuture, Cancelled, clientVars, serverVars,
    handlerVars, engineVars
<1>1. ServerType'
  BY DEF Stages, Futures, Threads
<1>2. Threading'
  BY DEF Threading, Stages, Futures, Threads
<1>3. Delivery'
  BY DEF Delivery, Threading, Stages, Futures
<1>4. Holders'
  BY DEF HoldsNothing, Holders
<1>5. CancelHolds'
  BY DEF CancelHolds
<1>6. StreamIsComplete'
  BY DEF StreamIsComplete
<1>7. (Locking /\ Automatic)'
  BY DEF Locking, Automatic
<1> QED BY <1>1, <1>2, <1>3, <1>4, <1>5, <1>6, <1>7

\* The body of a streaming response begins to be iterated.
LEMMA IterateKeepsInv ==
    ASSUME NEW c \in Caller, ClientInv, Iterate(c), UNCHANGED clientVars
    PROVE  ClientInv'
<1> USE DEF ClientInv, ServerType, Iterate, clientVars, serverVars, handlerVars, engineVars
<1>1. ServerType'
  BY DEF Stages, Futures, Threads
<1>2. Holders'
  BY DEF Holders, HoldsNothing, Threading
<1>3. Threading'
  BY DEF Threading, Stages, Futures, Threads
<1>4. CancelHolds'
  BY DEF CancelHolds, Stages
<1>5. Delivery'
  BY DEF Delivery, Threading, Stages, Futures
<1>6. StreamIsComplete'
  BY DEF StreamIsComplete
<1>7. (Locking /\ Automatic)'
  BY DEF Locking, Automatic
<1> QED BY <1>1, <1>2, <1>3, <1>4, <1>5, <1>6, <1>7

\* A response that is dropped before its body was iterated.
LEMMA DropResponseKeepsInv ==
    ASSUME NEW c \in Caller, ClientInv, DropResponse(c), UNCHANGED clientVars
    PROVE  ClientInv'
<1> USE DEF ClientInv, ServerType, DropResponse, clientVars, serverVars, handlerVars,
    engineVars
<1>1. ServerType'
  BY DEF Stages, Futures, Threads
<1>2. Holders'
  BY DEF Holders, HoldsNothing, Threading
<1>3. Threading'
  BY DEF Threading, Stages, Futures, Threads
<1>4. CancelHolds'
  BY DEF CancelHolds, Stages
<1>5. Delivery'
  BY DEF Delivery, Threading, Stages, Futures
<1>6. StreamIsComplete'
  BY DEF StreamIsComplete
<1>7. (Locking /\ Automatic)'
  BY DEF Locking, Automatic
<1> QED BY <1>1, <1>2, <1>3, <1>4, <1>5, <1>6, <1>7

\* What is taken from the queue is the whole text so far.
LEMMA PollKeepsInv ==
    ASSUME NEW c \in Caller, ClientInv, Poll(c), UNCHANGED clientVars
    PROVE  ClientInv'
<1> USE DEF ClientInv, ServerType, Poll, Leave, CancelFuture, Cancelled, clientVars,
    serverVars, handlerVars, engineVars
<1>1. ServerType'
  BY DEF Stages, Futures, Threads, Restrict
<1>2. Holders'
  BY DEF Holders, HoldsNothing, Threading, Restrict
<1>3. Threading'
  BY DEF Threading, Stages, Futures, Threads
<1>4. CancelHolds'
  BY DEF CancelHolds, Stages
<1>5. Delivery'
  BY DEF Delivery, Threading, Stages, Futures
<1>6. StreamIsComplete'
  BY DEF StreamIsComplete, Delivery, Holders, Stages
<1>7. Automatic'
  BY DEF Automatic
<1>8. Locking'
  BY DEF Locking
<1> QED BY <1>1, <1>2, <1>3, <1>4, <1>5, <1>6, <1>7, <1>8

\* A result is reported only with an empty queue: everything produced was sent.
LEMMA CheckKeepsInv ==
    ASSUME NEW c \in Caller, ClientInv, Check(c), UNCHANGED clientVars
    PROVE  ClientInv'
<1> USE DEF ClientInv, ServerType, Check, Leave, StreamOver, Done, clientVars, serverVars,
    handlerVars, engineVars
<1>1. ServerType'
  BY DEF Stages, Futures, Threads, Restrict
<1>2. Holders'
  BY DEF Holders, HoldsNothing, Threading, Restrict
<1>3. Threading'
  BY DEF Threading, Stages, Futures, Threads
<1>4. CancelHolds'
  BY DEF CancelHolds, Stages
<1>5. Delivery'
  BY DEF Delivery, Threading, Stages, Futures
<1>6. StreamIsComplete'
  BY DEF StreamIsComplete, Delivery, Holders, Stages
<1>7. Automatic'
  BY DEF Automatic
<1>8. Locking'
  BY DEF Locking
<1> QED BY <1>1, <1>2, <1>3, <1>4, <1>5, <1>6, <1>7, <1>8

\* A stream that is closed because its caller is gone or the server ends.
LEMMA CloseStreamKeepsInv ==
    ASSUME NEW c \in Caller, ClientInv, CloseStream(c), UNCHANGED clientVars
    PROVE  ClientInv'
<1> USE DEF ClientInv, ServerType, CloseStream, Leave, CancelFuture, Cancelled, clientVars,
    serverVars, handlerVars, engineVars
<1>1. ServerType'
  BY DEF Stages, Futures, Threads, Restrict
<1>2. Holders'
  BY DEF Holders, HoldsNothing, Threading, Restrict
<1>3. Threading'
  BY DEF Threading, Stages, Futures, Threads
<1>4. CancelHolds'
  BY DEF CancelHolds, Stages
<1>5. Delivery'
  BY DEF Delivery, Threading, Stages, Futures
<1>6. StreamIsComplete'
  BY DEF StreamIsComplete, Delivery, Holders, Stages
<1>7. Automatic'
  BY DEF Automatic
<1>8. Locking'
  BY DEF Locking
<1> QED BY <1>1, <1>2, <1>3, <1>4, <1>5, <1>6, <1>7, <1>8

\* A reservation is withdrawn before its handler was answered.
LEMMA CancelRequestKeepsInv ==
    ASSUME NEW n \in Name, ClientInv, CancelRequest(n), UNCHANGED clientVars
    PROVE  ClientInv'
<1> USE DEF ClientInv, ServerType, CancelRequest, CancelFuture, Cancelled, clientVars,
    serverVars, handlerVars, engineVars
<1>1. ServerType'
  BY DEF Stages, Futures, Threads
<1>2. Threading'
  BY DEF Threading, Stages, Futures, Threads
<1>3. CancelHolds'
  <2>1. requests[n] \in Caller
    OBVIOUS
  <2>2. stage[requests[n]] = "admitting" => reply[requests[n]] = "none"
    BY <2>1 DEF Holders
  <2> QED BY <2>2 DEF CancelHolds
<1>4. Delivery'
  BY DEF Delivery, Threading, Stages, Futures
<1>5. Holders'
  BY DEF HoldsNothing, Holders
<1>6. StreamIsComplete'
  BY DEF StreamIsComplete
<1>7. (Locking /\ Automatic)'
  BY DEF Locking, Automatic
<1> QED BY <1>1, <1>2, <1>3, <1>4, <1>5, <1>6, <1>7

\* A caller goes away.
LEMMA DisconnectKeepsInv ==
    ASSUME NEW c \in Caller, ClientInv, Disconnect(c), UNCHANGED clientVars
    PROVE  ClientInv'
<1> USE DEF ClientInv, ServerType, Disconnect, clientVars, serverVars, handlerVars,
    engineVars
<1>1. ServerType'
  BY DEF ServerType
<1>2. Holders'
  BY DEF HoldsNothing, Holders
<1>3. Threading'
  BY DEF Threading
<1>4. CancelHolds'
  BY DEF CancelHolds
<1>5. Delivery'
  BY DEF Delivery
<1>6. StreamIsComplete'
  BY DEF StreamIsComplete
<1>7. (Locking /\ Automatic)'
  BY DEF Locking, Automatic
<1> QED BY <1>1, <1>2, <1>3, <1>4, <1>5, <1>6, <1>7

\* engine.submit in its thread, which may raise.
LEMMA SubmitKeepsInv ==
    ASSUME NEW c \in Caller, ClientInv, Submit(c), UNCHANGED clientVars
    PROVE  ClientInv'
<1> USE DEF ClientInv, ServerType, Submit, clientVars, serverVars, handlerVars, engineVars
<1>1. ServerType'
  BY DEF Stages, Futures, Threads
<1>2. Holders'
  BY DEF Holders, HoldsNothing, Threading
<1>3. Threading'
  BY DEF Threading, Stages, Futures, Threads
<1>4. CancelHolds'
  BY DEF CancelHolds, Stages
<1>5. Delivery'
  BY DEF Delivery, Threading, Stages, Futures
<1>6. StreamIsComplete'
  BY DEF StreamIsComplete
<1>7. (Locking /\ Automatic)'
  BY DEF Locking, Automatic
<1> QED BY <1>1, <1>2, <1>3, <1>4, <1>5, <1>6, <1>7

\* InferenceFuture.update keeps the latest output.
LEMMA ProduceKeepsInv ==
    ASSUME NEW c \in Caller, ClientInv, Produce(c), UNCHANGED clientVars
    PROVE  ClientInv'
<1> USE TextAssumption DEF ClientInv, ServerType, Produce, Full, clientVars, serverVars,
    handlerVars, engineVars
<1>1. ServerType'
  BY DEF Stages, Futures, Threads
<1>2. Delivery'
  BY DEF Delivery, Threading, Stages, Futures
<1>3. StreamIsComplete'
  BY DEF StreamIsComplete, Delivery, Holders, Stages
<1>4. Holders'
  BY DEF HoldsNothing, Holders
<1>5. Threading'
  BY DEF Threading
<1>6. CancelHolds'
  BY DEF CancelHolds
<1>7. (Locking /\ Automatic)'
  BY DEF Locking, Automatic
<1> QED BY <1>1, <1>2, <1>3, <1>4, <1>5, <1>6, <1>7

\* The engine sets the result after the final output.
LEMMA ResolveKeepsInv ==
    ASSUME NEW c \in Caller, ClientInv, Resolve(c), UNCHANGED clientVars
    PROVE  ClientInv'
<1> USE DEF ClientInv, ServerType, Resolve, clientVars, serverVars, handlerVars, engineVars
<1>1. ServerType'
  BY DEF Stages, Futures, Threads
<1>2. Holders'
  BY DEF Holders, HoldsNothing, Threading
<1>3. Threading'
  BY DEF Threading, Stages, Futures, Threads
<1>4. Delivery'
  BY DEF Delivery, Threading, Stages, Futures
<1>5. CancelHolds'
  BY DEF CancelHolds
<1>6. StreamIsComplete'
  BY DEF StreamIsComplete
<1>7. (Locking /\ Automatic)'
  BY DEF Locking, Automatic
<1> QED BY <1>1, <1>2, <1>3, <1>4, <1>5, <1>6, <1>7

-----------------------------------------------------------------------------
(* The client's steps, under its lock. *)

\* _automatic_session posts inside the client's lock.
LEMMA PostKeepsInv ==
    ASSUME NEW c \in Caller, ClientInv, Post(c)
    PROVE  ClientInv'
<1> USE DEF ClientInv, ServerType, Post, Free, Enter, serverVars, handlerVars, engineVars
<1>1. Locking'
  BY DEF Locking
<1>2. (ServerType /\ Holders /\ Threading)'
  BY DEF Holders, HoldsNothing, Threading
<1>5. (CancelHolds /\ Delivery /\ StreamIsComplete)'
  BY DEF CancelHolds, Delivery, StreamIsComplete
<1>3. Automatic'
  BY DEF Automatic
<1> QED BY <1>1, <1>2, <1>3, <1>5

\* The answer's session is fresh, so it is no caller's own, and the first the client keeps.
LEMMA PostedKeepsInv ==
    ASSUME NEW c \in Caller, ClientInv, Posted(c)
    PROVE  ClientInv'
<1> USE SessionAssumption
    DEF ClientInv, ServerType, Posted, Exit, handlerVars, engineVars
<1>1. Holders'
  BY DEF Holders, HoldsNothing
<1>2. Locking'
  BY DEF Locking, Restrict
<1>3. Automatic'
  BY DEF Automatic, Locking
<1>4. (ServerType /\ Threading)'
  BY DEF Threading
<1>5. (CancelHolds /\ Delivery /\ StreamIsComplete)'
  BY DEF CancelHolds, Delivery, StreamIsComplete
<1> QED BY <1>1, <1>2, <1>3, <1>4, <1>5

\* close takes the lock if there is a session to delete.
LEMMA CloseKeepsInv ==
    ASSUME NEW c \in Caller, ClientInv, Close(c)
    PROVE  ClientInv'
<1> USE SessionAssumption
    DEF ClientInv, ServerType, Close, Free, Enter, serverVars, handlerVars, engineVars
<1>1. Locking'
  <2>1. CASE sid = None
    BY <2>1 DEF Locking
  <2>2. CASE sid # None
    BY <2>2 DEF Locking
  <2> QED BY <2>1, <2>2
<1>2. Automatic'
  BY DEF Automatic
<1>3. (ServerType /\ Holders /\ Threading)'
  BY DEF Holders, HoldsNothing, Threading
<1>5. (CancelHolds /\ Delivery /\ StreamIsComplete)'
  BY DEF CancelHolds, Delivery, StreamIsComplete
<1> QED BY <1>1, <1>2, <1>3, <1>5

\* Nobody else is inside, so nobody posts into a client that is closed now.
LEMMA DeletedKeepsInv ==
    ASSUME NEW c \in Caller, ClientInv, Deleted(c)
    PROVE  ClientInv'
<1> USE SessionAssumption DEF ClientInv, ServerType, Deleted, Exit, handlerVars, engineVars
<1>1. Holders'
  BY DEF Holders, HoldsNothing
<1>2. Locking'
  BY DEF Locking, Restrict
<1>3. Automatic'
  BY DEF Automatic
<1>4. (ServerType /\ Threading)'
  BY DEF Threading
<1>5. (CancelHolds /\ Delivery /\ StreamIsComplete)'
  BY DEF CancelHolds, Delivery, StreamIsComplete
<1> QED BY <1>1, <1>2, <1>3, <1>4, <1>5

-----------------------------------------------------------------------------
(* The theorems. *)

\* The invariant is inductive: it holds initially and every step keeps it.
THEOREM ClientInvariant == Spec => []ClientInv
<1>1. Init => ClientInv
  <2> SUFFICES ASSUME Init PROVE ClientInv
    OBVIOUS
  <2> USE DEF Init, ServerInit
  <2>1. ServerType
    BY DEF ServerType, Stages, Futures, Threads
  <2>2. Holders /\ Threading /\ CancelHolds /\ StreamIsComplete
    BY DEF Holders, HoldsNothing, Threading, CancelHolds, StreamIsComplete
  <2>3. Delivery /\ Locking /\ Automatic
    BY DEF Delivery, Locking, Automatic
  <2> QED BY <2>1, <2>2, <2>3 DEF ClientInv
<1>2. ClientInv /\ [Next]_vars => ClientInv'
  <2> SUFFICES ASSUME ClientInv, [Next]_vars PROVE ClientInv'
    OBVIOUS
  <2>1. CASE ServerNext /\ UNCHANGED clientVars
    BY <2>1, AdmittedKeepsInv, WaitKeepsInv, CancelHandlerKeepsInv, RetireKeepsInv,
       IterateKeepsInv, DropResponseKeepsInv, PollKeepsInv, CheckKeepsInv,
       CloseStreamKeepsInv, DisconnectKeepsInv, SubmitKeepsInv, ProduceKeepsInv,
       ResolveKeepsInv, CancelRequestKeepsInv
    DEF ServerNext
  <2>2. CASE \E c \in Caller, n \in Name, stream \in BOOLEAN, s \in learnt \cup {None} :
               Chat(c, n, IF s = None THEN c ELSE s, stream) /\ UNCHANGED clientVars
    <3>1. PICK c \in Caller, n \in Name, stream \in BOOLEAN, s \in learnt \cup {None} :
            Chat(c, n, IF s = None THEN c ELSE s, stream) /\ UNCHANGED clientVars
      BY <2>2
    <3> QED BY <3>1, ChatKeepsInv
  <2>3. CASE \E c \in Caller : Post(c) \/ Posted(c) \/ Close(c) \/ Deleted(c)
    BY <2>3, PostKeepsInv, PostedKeepsInv, CloseKeepsInv, DeletedKeepsInv
  <2>4. CASE UNCHANGED vars
    <3> USE <2>4 DEF vars, clientVars, serverVars, handlerVars, engineVars, ClientInv
    <3>1. (ServerType /\ Holders /\ Threading)'
      BY DEF ServerType, Holders, HoldsNothing, Threading
    <3>2. (CancelHolds /\ Delivery /\ StreamIsComplete /\ Locking /\ Automatic)'
      BY DEF CancelHolds, Delivery, StreamIsComplete, Locking, Automatic
    <3> QED BY <3>1, <3>2
  <2> QED BY <2>1, <2>2, <2>3, <2>4 DEF Next
<1> QED BY <1>1, <1>2, PTL DEF Spec

\* NothingOrphaned: however a handler or its stream ended, its request id is free, its
\* automatic session is gone, and a call of its that runs is left to the retire callback.
THEOREM NothingIsOrphaned == Spec => []NothingOrphaned
<1>1. ClientInv => NothingOrphaned
  BY DEF ClientInv, Holders, HoldsNothing, Threading, NothingOrphaned, Range
<1> QED BY <1>1, ClientInvariant, PTL

\* CancelHolds: a cancellation that was accepted is never answered by a result.
THEOREM CancellationHolds == Spec => []CancelHolds
<1>1. ClientInv => CancelHolds
  BY DEF ClientInv
<1> QED BY <1>1, ClientInvariant, PTL

\* StreamIsComplete: a stream that ended in [DONE] has delivered the whole text.
THEOREM StreamsAreComplete == Spec => []StreamIsComplete
<1>1. ClientInv => StreamIsComplete
  BY DEF ClientInv
<1> QED BY <1>1, ClientInvariant, PTL

\* ClosedIsEnded: the client keeps at most one session, and none once it is closed.
THEOREM ClosedClientIsEnded == Spec => []ClosedIsEnded
<1>1. ClientInv => ClosedIsEnded
  BY DEF ClientInv, Automatic, ClosedIsEnded
<1> QED BY <1>1, ClientInvariant, PTL

=============================================================================
