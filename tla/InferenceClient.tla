--------------------------- MODULE InferenceClient --------------------------
(***************************************************************************)
(* One InferenceClient (autellix/runtime/client.py) that several threads   *)
(* use at once, with the HTTP service it talks to.  Its automatic session  *)
(* is opened by the first chat and ended by close(); both hold the lock    *)
(* over their HTTP request, and each answer may be lost.  Callers that do  *)
(* not use the client send chats without a session.                        *)
(***************************************************************************)
EXTENDS HttpServer

CONSTANT None

\* POST /sessions draws a fresh id, which is no chat's own and not a missing one.
ASSUME SessionAssumption == Sid \cap Caller = {} /\ None \notin Sid

VARIABLES
    sid,        \* _sid
    closed,     \* _closed
    inside,     \* callers that hold _lock -> the request they sent: post or delete
    learnt      \* auxiliary: sessions whose id reached the client

clientVars == << sid, closed, inside, learnt >>
vars == << serverVars, clientVars >>

Init == ServerInit /\ sid = None /\ closed = FALSE /\ inside = << >> /\ learnt = {}

FreeOrNot(c) == c \notin DOMAIN inside
Free(c) == DOMAIN inside = {}
Enter(c, request) == inside' = [d \in DOMAIN inside \cup {c} |->
                                    IF d = c THEN request ELSE inside[d]]
Exit(c) == inside' = Restrict(inside, DOMAIN inside \ {c})

\* _automatic_session takes the lock and, the first time, posts.
Post(c) ==
    /\ Free(c) /\ ~closed /\ sid = None
    /\ stage[c] = "new"
    /\ Enter(c, "post")
    /\ UNCHANGED << serverVars, sid, closed, learnt >>
Posted(c) ==
    /\ c \in DOMAIN inside /\ inside[c] = "post"
    /\ Exit(c)
    /\ \/ UNCHANGED << sessions, sid, learnt >>     \* the request is lost
       \/ \E s \in Sid \ (sessions \cup learnt) :
            /\ sessions' = sessions \cup {s}
            /\ \/ sid' = s /\ learnt' = learnt \cup {s}
               \/ UNCHANGED << sid, learnt >>       \* the answer is lost
    /\ UNCHANGED << handlerVars, engineVars, online, closed >>

\* close keeps the session, and stays open, if its request fails.
Close(c) ==
    /\ Free(c) /\ ~closed
    /\ IF sid = None THEN closed' = TRUE /\ UNCHANGED inside
       ELSE Enter(c, "delete") /\ UNCHANGED closed
    /\ UNCHANGED << serverVars, sid, learnt >>
Deleted(c) ==
    /\ c \in DOMAIN inside /\ inside[c] = "delete"
    /\ Exit(c)
    /\ sessions' \in {sessions, sessions \ {sid}}
    /\ \/ sid \notin sessions' /\ sid' = None /\ closed' = TRUE
       \/ UNCHANGED << sid, closed >>
    /\ UNCHANGED << handlerVars, engineVars, online, learnt >>

Next ==
    \/ ServerNext /\ UNCHANGED clientVars
    \/ \E c \in Caller, n \in Name, stream \in BOOLEAN, s \in learnt \cup {None} :
            Chat(c, n, IF s = None THEN c ELSE s, stream) /\ UNCHANGED clientVars
    \/ \E c \in Caller : Post(c) \/ Posted(c) \/ Close(c) \/ Deleted(c)

Spec == Init /\ [][Next]_vars

-----------------------------------------------------------------------------
(* Properties. *)

\* Whatever ends a handler or its stream, nothing of its request survives it: not its id,
\* not its automatic session, and no call that runs without a reader.
NothingOrphaned ==
    \A c \in Caller : stage[c] = "over" =>
        /\ c \notin Range(requests) /\ c \notin sessions
        /\ thread[c] = "running" \/ future[c] = "waiting" => c \in retire

\* A cancellation that was accepted while the submission ran is never answered by a result.
CancelHolds == \A c \in withdrawn : reply[c] # "ok" /\ stage[c] \in {"admitting", "over"}

\* A stream that ended in [DONE] has delivered the whole text, though outputs coalesce and
\* the result may be set between two looks at it.
StreamIsComplete ==
    \A c \in Caller : reply[c] = "ok" /\ chat[c].stream => sent[c] = Full

\* The threads of a client share one automatic session, and once it is closed the service
\* has none left that the client knew of.
ClosedIsEnded ==
    /\ learnt \cap sessions \subseteq {sid}
    /\ closed => learnt \cap sessions = {}

=============================================================================
