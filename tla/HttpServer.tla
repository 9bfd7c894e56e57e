------------------------------ MODULE HttpServer ----------------------------
(***************************************************************************)
(* The chat endpoint of the HTTP service (autellix/runtime/server.py).     *)
(* One handler per caller runs on the event loop, up to its next await;    *)
(* InferenceEngine.submit runs in a thread of its own, and the engine's    *)
(* listener thread resolves the future, between any two of its steps.      *)
(*                                                                         *)
(* The engine is what the handler sees of InferenceEngine: open sessions,  *)
(* and futures that produce text, end, fail or are cancelled.  Starlette,  *)
(* which iterates or drops the streaming response, is external.            *)
(***************************************************************************)
EXTENDS Integers, FiniteSets, Functions

CONSTANTS
    Caller,     \* callers, one chat request each; also their automatic sessions
    Name,       \* request ids that callers choose
    Sid,        \* ids of the sessions that POST /sessions opens
    MaxText     \* bound: partial outputs before the final one

ASSUME TextAssumption == MaxText \in Nat

VARIABLES
    stage,      \* caller -> new, admitting, waiting, returned, streaming, over, dropped
    chat,       \* caller -> the fields of its body that matter
    requests,   \* request id -> the caller whose reservation or future it holds
    withdrawn,  \* callers whose reservation was cancelled
    thread,     \* caller -> submit's thread: none, running, done or raised
    retire,     \* callers whose submission has the retire callback
    future,     \* caller -> none, waiting, result, error or cancelled
    text,       \* caller -> length of the text produced
    queued,     \* caller -> what InferenceFuture.progress holds, 0 when empty
    sent,       \* caller -> previous: the length of the text streamed
    polled,     \* callers whose stream took the progress and has not looked at the end
    online,     \* callers that are still connected
    reply,      \* caller -> none, ok, cancelled, refused, error or gone
    sessions    \* open sessions

handlerVars == << stage, chat, requests, withdrawn, polled, sent, reply >>
engineVars == << thread, retire, future, text, queued >>
serverVars == << handlerVars, engineVars, online, sessions >>

Full == MaxText + 1     \* the length of the final text

ServerInit ==
    /\ stage = [c \in Caller |-> "new"] /\ chat = [c \in Caller |-> {}]
    /\ requests = << >> /\ withdrawn = {} /\ polled = {} /\ retire = {}
    /\ thread = [c \in Caller |-> "none"] /\ future = [c \in Caller |-> "none"]
    /\ text = [c \in Caller |-> 0] /\ queued = [c \in Caller |-> 0]
    /\ sent = [c \in Caller |-> 0] /\ reply = [c \in Caller |-> "none"]
    /\ online = Caller /\ sessions = {}

Cancelled(f) == IF f = "waiting" THEN "cancelled" ELSE f
Done(c) == future[c] \in {"result", "error", "cancelled"}

\* The finally of a handler, or of the stream that took its place.
Leave(c, answer) ==
    /\ stage' = [stage EXCEPT ![c] = "over"]
    /\ reply' = [reply EXCEPT ![c] = answer]
    /\ requests' = Restrict(requests, {n \in DOMAIN requests : requests[n] # c})
    /\ sessions' = IF chat[c].sid = c THEN sessions \ {c} ELSE sessions

CancelFuture(c) == future' = [future EXCEPT ![c] = Cancelled(@)]

-----------------------------------------------------------------------------
(* The handler, from await to await. *)

\* Without a session of the caller's the request gets one of its own, sid = c.
Chat(c, n, sid, stream) ==
    /\ stage[c] = "new" /\ c \in online
    /\ chat' = [chat EXCEPT ![c] = [sid |-> sid, stream |-> stream]]
    /\ IF n \in DOMAIN requests
       THEN /\ stage' = [stage EXCEPT ![c] = "over"]
            /\ reply' = [reply EXCEPT ![c] = "refused"]
            /\ UNCHANGED << requests, thread, sessions >>
       ELSE /\ stage' = [stage EXCEPT ![c] = "admitting"]
            /\ requests' = [m \in DOMAIN requests \cup {n} |-> IF m = n THEN c ELSE requests[m]]
            /\ thread' = [thread EXCEPT ![c] = "running"]
            /\ sessions' = IF sid = c THEN sessions \cup {c} ELSE sessions
            /\ UNCHANGED reply
    /\ UNCHANGED << withdrawn, polled, sent, retire, future, text, queued, online >>

\* The await of the submission returns, or raises what submit raised.
EntersAnyway(c) == TRUE
Enters(c) == c \notin withdrawn
Admitted(c) ==
    /\ stage[c] = "admitting"
    /\ \/ /\ thread[c] = "raised"
          /\ Leave(c, "refused")
          /\ UNCHANGED future
       \/ /\ thread[c] = "done" /\ ~Enters(c)
          /\ CancelFuture(c)
          /\ Leave(c, "cancelled")
       \/ /\ thread[c] = "done" /\ Enters(c)
          /\ stage' = [stage EXCEPT ![c] = IF chat[c].stream THEN "returned" ELSE "waiting"]
          /\ UNCHANGED << reply, requests, sessions, future >>
    /\ UNCHANGED << chat, withdrawn, polled, sent, thread, retire, text, queued, online >>

\* One pass of the loop that waits for the whole result.
Wait(c) ==
    /\ stage[c] = "waiting"
    /\ \/ /\ c \notin online
          /\ CancelFuture(c)
          /\ Leave(c, "gone")
       \/ /\ Done(c)
          /\ Leave(c, IF future[c] = "result" THEN "ok" ELSE future[c])
          /\ UNCHANGED future
    /\ UNCHANGED << chat, withdrawn, polled, sent, thread, retire, text, queued, online >>

\* The handler's task is cancelled at an await.  A thread that runs cannot be stopped:
\* its result is retired when it comes.
RetireNothing(c) == retire
RetireLater(c) == IF stage[c] = "admitting" THEN retire \cup {c} ELSE retire
CancelHandler(c) ==
    /\ stage[c] \in {"admitting", "waiting"}
    /\ IF stage[c] = "admitting" THEN UNCHANGED future ELSE CancelFuture(c)
    /\ retire' = RetireLater(c)
    /\ Leave(c, "gone")
    /\ UNCHANGED << chat, withdrawn, polled, sent, thread, text, queued, online >>
Retire(c) ==
    /\ c \in retire /\ thread[c] # "running"
    /\ CancelFuture(c)
    /\ retire' = retire \ {c}
    /\ UNCHANGED << handlerVars, thread, text, queued, online, sessions >>

-----------------------------------------------------------------------------
(* The stream. *)

Iterate(c) ==
    /\ stage[c] = "returned"
    /\ stage' = [stage EXCEPT ![c] = "streaming"]
    /\ UNCHANGED << chat, requests, withdrawn, polled, sent, reply, engineVars, online, sessions >>

\* External: the response is dropped before its generator was started, whose finally
\* then never runs.
DropResponse(c) ==
    /\ stage[c] = "returned"
    /\ stage' = [stage EXCEPT ![c] = "dropped"]
    /\ UNCHANGED << chat, requests, withdrawn, polled, sent, reply, engineVars, online, sessions >>

\* The first half of a pass: nobody there, or the latest part goes out.
Poll(c) ==
    /\ stage[c] = "streaming" /\ c \notin polled
    /\ IF c \notin online
       THEN /\ CancelFuture(c) /\ Leave(c, "gone")
            /\ UNCHANGED << polled, sent, queued >>
       ELSE /\ polled' = polled \cup {c}
            /\ sent' = [sent EXCEPT ![c] = IF queued[c] = 0 THEN @ ELSE queued[c]]
            /\ queued' = [queued EXCEPT ![c] = 0]
            /\ UNCHANGED << stage, reply, requests, sessions, future >>
    /\ UNCHANGED << chat, withdrawn, thread, retire, text, online >>

\* The second half: [DONE], an error, or another pass.
StreamOverAtOnce(c) == Done(c)
StreamOver(c) == Done(c) /\ queued[c] = 0
Check(c) ==
    /\ stage[c] = "streaming" /\ c \in polled
    /\ polled' = polled \ {c}
    /\ IF StreamOver(c) THEN Leave(c, IF future[c] = "result" THEN "ok" ELSE "error")
       ELSE UNCHANGED << stage, reply, requests, sessions >>
    /\ UNCHANGED << chat, withdrawn, sent, engineVars, online >>

\* The task of the response is cancelled, or its generator closed, at a yield or await:
\* the caller has gone, or the server ends while it is connected.
CloseStream(c) ==
    /\ stage[c] = "streaming"
    /\ CancelFuture(c)
    /\ Leave(c, "gone")
    /\ UNCHANGED << chat, withdrawn, polled, sent, thread, retire, text, queued, online >>

-----------------------------------------------------------------------------
(* The other requests, the callers and the engine. *)

\* DELETE /requests/{rid} reaches the reservation, then the future.
CancelRequest(n) ==
    /\ n \in DOMAIN requests
    /\ LET c == requests[n]
       IN  IF stage[c] = "admitting"
           THEN withdrawn' = withdrawn \cup {c} /\ UNCHANGED future
           ELSE CancelFuture(c) /\ UNCHANGED withdrawn
    /\ UNCHANGED << stage, chat, requests, polled, sent, reply, thread, retire, text, queued,
                    online, sessions >>

Disconnect(c) ==
    /\ stage[c] \notin {"new", "over", "dropped"} /\ c \in online
    /\ online' = online \ {c}
    /\ UNCHANGED << handlerVars, engineVars, sessions >>

\* engine.submit, in its thread: it may raise for other reasons than its session.
Submit(c) ==
    /\ thread[c] = "running"
    /\ \/ /\ chat[c].sid \in sessions
          /\ thread' = [thread EXCEPT ![c] = "done"]
          /\ future' = [future EXCEPT ![c] = "waiting"]
       \/ thread' = [thread EXCEPT ![c] = "raised"] /\ UNCHANGED future
    /\ UNCHANGED << handlerVars, retire, text, queued, online, sessions >>

\* InferenceFuture.update keeps only the latest output.  Outputs that nobody can read
\* any more are left out.
Produce(c) ==
    /\ future[c] = "waiting" /\ stage[c] \notin {"over", "dropped"} /\ text[c] < Full
    /\ \E n \in {text[c] + 1, Full} :
        /\ text' = [text EXCEPT ![c] = n]
        /\ queued' = [queued EXCEPT ![c] = n]
    /\ UNCHANGED << handlerVars, thread, retire, future, online, sessions >>

\* _resolve: the final output is put in the queue, then the result is set.
Resolve(c) ==
    /\ future[c] = "waiting" /\ stage[c] # "over"
    /\ future' = [future EXCEPT ![c] = IF text[c] = Full THEN "result" ELSE "error"]
    /\ UNCHANGED << handlerVars, thread, retire, text, queued, online, sessions >>

ServerNext ==
    \/ \E c \in Caller :
        \/ Admitted(c) \/ Wait(c) \/ CancelHandler(c) \/ Retire(c)
        \/ Iterate(c) \/ DropResponse(c) \/ Poll(c) \/ Check(c) \/ CloseStream(c)
        \/ Disconnect(c) \/ Submit(c) \/ Produce(c) \/ Resolve(c)
    \/ \E n \in Name : CancelRequest(n)

=============================================================================
