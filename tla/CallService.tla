----------------------------- MODULE CallService ----------------------------
(***************************************************************************)
(* What the engine promises its clients, whatever happens to replicas and  *)
(* processes (the interface of autellix/runtime/engine.py): a session      *)
(* takes calls until it is ended and stays until the last of them is       *)
(* resolved; the future of a call is settled once, by a cancellation or by *)
(* the call's outcome; closing the engine waits for everything.            *)
(* InferenceEngine is shown to implement it.                               *)
(***************************************************************************)
EXTENDS Naturals

CONSTANTS Pid, Rid

VARIABLES
    open,       \* sessions that take calls
    draining,   \* ended sessions with unresolved calls
    owner,      \* rid -> pid of the unresolved calls, or Nobody
    future,     \* rid -> what its caller sees
    closed

vars == << open, draining, owner, future, closed >>

Nobody == {}
Unresolved(p) == {r \in Rid : owner[r] = {p}}

Init ==
    /\ open = {} /\ draining = {}
    /\ owner = [r \in Rid |-> Nobody]
    /\ future = [r \in Rid |-> "none"]
    /\ closed = FALSE

Start(p) ==
    /\ ~closed /\ p \notin open \cup draining
    /\ open' = open \cup {p}
    /\ UNCHANGED << draining, owner, future, closed >>

End(p) ==
    /\ p \in open
    /\ open' = open \ {p}
    /\ draining' = draining \cup {q \in {p} : Unresolved(q) # {}}
    /\ UNCHANGED << owner, future, closed >>

Submit(p, r) ==
    /\ ~closed /\ p \in open /\ future[r] = "none"
    /\ owner' = [owner EXCEPT ![r] = {p}]
    /\ future' = [future EXCEPT ![r] = "waiting"]
    /\ UNCHANGED << open, draining, closed >>

Cancel(r) ==
    /\ future[r] = "waiting"
    /\ future' = [future EXCEPT ![r] = "cancelled"]
    /\ UNCHANGED << open, draining, owner, closed >>

\* The call is over; a cancelled future stays cancelled, and an ended session
\* leaves with its last call.
Resolve(r) ==
    /\ owner[r] # Nobody
    /\ owner' = [owner EXCEPT ![r] = Nobody]
    /\ draining' = {p \in draining : Unresolved(p) # {r}}
    /\ \/ /\ future[r] = "waiting"
          /\ \E outcome \in {"result", "error", "cancelled"} :
                 future' = [future EXCEPT ![r] = outcome]
       \/ /\ future[r] # "waiting"
          /\ UNCHANGED future
    /\ UNCHANGED << open, closed >>

Close ==
    /\ ~closed
    /\ open = {} /\ draining = {} /\ \A r \in Rid : owner[r] = Nobody
    /\ closed' = TRUE
    /\ UNCHANGED << open, draining, owner, future >>

Next ==
    \/ \E p \in Pid : Start(p) \/ End(p) \/ \E r \in Rid : Submit(p, r)
    \/ \E r \in Rid : Cancel(r) \/ Resolve(r)
    \/ Close

Spec == Init /\ [][Next]_vars

-----------------------------------------------------------------------------
(* What a client may rely on. *)

\* end_session: a session drains exactly while it has unresolved calls, and
\* every unresolved call belongs to one session that is still there.
SessionsOfCalls ==
    /\ open \cap draining = {}
    /\ \A p \in draining : \E r \in Rid : owner[r] = {p}
    /\ \A r \in Rid : owner[r] # Nobody => \E p \in open \cup draining : owner[r] = {p}

\* shutdown: a closed engine has no session, no unresolved call and nobody waiting.
ClosedMeansDone ==
    closed => open = {} /\ \A r \in Rid : owner[r] = Nobody /\ future[r] # "waiting"

\* Future: once settled or cancelled, a call's outcome never changes.
Settled(r) == future[r] \notin {"none", "waiting"}
SettledOnce == [][\A r \in Rid : Settled(r) => future'[r] = future[r]]_vars

=============================================================================
