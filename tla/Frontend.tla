------------------------------ MODULE Frontend ------------------------------
(***************************************************************************)
(* AsyncMultiLLMEngine (autellix/frontend/engine.py): futures over the     *)
(* simulated service, and in process mode a worker process with a service  *)
(* of its own, which is sent every command the client gives.               *)
(***************************************************************************)
EXTENDS FrontendService

CONSTANTS
    Programs,   \* program identifiers
    Arrivals,   \* bound: the arrival times given to start_session
    Confs,      \* bound: the arguments of the engine
    Opened,     \* bound: sessions started
    Horizon,    \* bound: the clock
    Backlog     \* bound: commands the worker has not read

VARIABLES
    service,    \* AutellixService in the client's process
    known,      \* _program_sessions
    commands,   \* the worker's queue
    worker,     \* the worker process: its service, its sessions, whether it lives
    stopped,    \* shutdown has been called
    asked,      \* auxiliary: calls that submit_call was given; a caller names each once
    refused     \* auxiliary: a command the worker was sent raised in the client's process

vars == << service, known, commands, worker, stopped, asked, refused >>

NewWorker(conf) == [service |-> NewService(conf), known |-> << >>, alive |-> TRUE]
Gone == [alive |-> FALSE]

Init ==
    /\ \E conf \in Confs, process_mode \in BOOLEAN :
        /\ service = NewService(conf)
        /\ worker = IF process_mode THEN NewWorker(conf) ELSE Gone
        /\ stopped = ~process_mode
    /\ known = << >> /\ commands = << >>
    /\ asked = {} /\ refused = FALSE

Command(c, arg) == [command |-> c, arg |-> arg]
\* What is sent to a worker that died is left out.
Send(c, arg) ==
    /\ Len(commands) < Backlog
    /\ commands' = IF stopped \/ ~worker.alive THEN << >> ELSE Append(commands, Command(c, arg))

-----------------------------------------------------------------------------
(* One command on one side; `ok' is FALSE if it raises. *)

\* The session of a program is the one last started here, even after a drain.
Submission(v, sessionOf, k) ==
    LET sid == sessionOf[CallSpecs[k].program]
        ok == CanSubmit(v, sid, k)
    IN  [ok |-> ok, known |-> sessionOf, service |-> IF ok THEN SubmitCall(v, sid, k) ELSE v]
Opening(v, sessionOf, k) ==
    LET p == CallSpecs[k].program
    IN  IF p \in DOMAIN sessionOf THEN Submission(v, sessionOf, k)
        ELSE Submission(StartSession(v, p, v.time), Put(sessionOf, p, v.opened + 1), k)

Handled(side, c) ==
    CASE c.command = "submit" -> Opening(side.service, side.known, c.arg)
      [] c.command = "step"  -> [ok |-> TRUE, known |-> side.known,
                                 service |-> TickService(side.service)]
      [] c.command = "idle"  -> [ok |-> HasLive(side.service), known |-> side.known,
                                 service |-> RunUntilIdle(side.service)]
      [] c.command = "drain" -> [ok |-> HasLive(side.service), known |-> side.known,
                                 service |-> Drain(side.service)]

\* The client's process sends the command first and then carries it out itself.
Give(c, arg) ==
    /\ Send(c, arg)
    /\ \E done \in {Handled([service |-> service, known |-> known], Command(c, arg))} :
        /\ service' = done.service
        /\ known' = done.known
        /\ refused' = (refused \/ (worker.alive /\ ~done.ok))
    /\ UNCHANGED << worker, stopped >>

-----------------------------------------------------------------------------
(* The client. *)

Submit(k) ==
    /\ k \notin asked
    /\ CallSpecs[k].program \in DOMAIN known \/ service.opened < Opened
    /\ asked' = asked \cup {k}
    /\ Give("submit", k)

Step == service.time < Horizon /\ Give("step", None) /\ UNCHANGED asked
Idle == Give("idle", None) /\ UNCHANGED asked
DrainAll == Give("drain", None) /\ UNCHANGED asked

\* start_session, end_session and the service's own run() are not sent to a worker, and
\* leave it behind for good; here they are used without one.
Start(p, arrival) ==
    /\ stopped /\ service.opened < Opened
    /\ service' = StartSession(service, p, arrival)
    /\ known' = Put(known, p, service'.opened)
    /\ UNCHANGED << commands, worker, stopped, asked, refused >>

End(sid) ==
    /\ stopped /\ sid \in DOMAIN service.sessions
    /\ service' = EndSession(service, sid)
    /\ UNCHANGED << known, commands, worker, stopped, asked, refused >>

Run ==
    /\ stopped /\ HasLive(service)
    /\ service' = RunService(service)
    /\ UNCHANGED << known, commands, worker, stopped, asked, refused >>

\* close() returns when the worker has left or was terminated; what it still did
\* after its last command nobody sees.
Shutdown ==
    /\ ~stopped
    /\ stopped' = TRUE
    /\ commands' = << >> /\ worker' = Gone /\ refused' = FALSE
    /\ UNCHANGED << service, known, asked >>

-----------------------------------------------------------------------------
(* The worker process. *)

\* _worker_main: one command; an exception ends the process.
ServeSurvives ==
    /\ worker.alive /\ commands # << >>
    /\ \E done \in {Handled(worker, Head(commands))} :
            worker' = [worker EXCEPT !.service = done.service, !.known = done.known]
    /\ commands' = Tail(commands)
    /\ UNCHANGED << service, known, stopped, asked, refused >>
Serve ==
    /\ worker.alive /\ commands # << >>
    /\ \E done \in {Handled(worker, Head(commands))} :
        \/ /\ done.ok
           /\ worker' = [worker EXCEPT !.service = done.service, !.known = done.known]
           /\ commands' = Tail(commands)
        \/ /\ ~done.ok
           /\ worker' = Gone
           /\ commands' = << >>
    /\ UNCHANGED << service, known, stopped, asked, refused >>

Next ==
    \/ \E k \in DOMAIN CallSpecs : Submit(k)
    \/ Step \/ Idle \/ DrainAll
    \/ \E p \in Programs, arrival \in Arrivals : Start(p, arrival)
    \/ \E sid \in 1..Opened : End(sid)
    \/ Run \/ Shutdown \/ Serve

Spec == Init /\ [][Next]_vars

-----------------------------------------------------------------------------
(* Properties. *)

Times(s) == [k \in DOMAIN s.calls |-> [start |-> s.calls[k].start, finish |-> s.calls[k].finish,
                                       engine |-> s.calls[k].engine]]
StaticTimes(s) == Times(ToEnd(NewSimulation(s.conf, s.arrival, s.specs)))

\* The docstring of tick(): calls receive a concrete submit time, so that dynamic and
\* static submissions match: drained now, the simulation that advanced under its callers
\* gives the same starts, finishes and engines as the trace of what was submitted, run
\* at once.
DynamicMatchesStatic ==
    HasLive(service) => Times(ToEnd(service.live)) = StaticTimes(service.live)

\* The same where every call was submitted while the clock of the service was the clock
\* of its simulation: ticks, pauses, idle runs and late children make no difference.
DynamicMatchesStaticInStep == service.inStep => DynamicMatchesStatic

\* The simulation holds exactly the calls of the open sessions, each program's under
\* its own name, across drains, refused submissions and sessions of the same program;
\* a session that drain forgot has left no call behind that is not finished.
SessionsHoldCalls ==
    /\ UNION {service.sessions[sid].calls : sid \in DOMAIN service.sessions}
            = LiveCalls(service)
    /\ \A sid \in DOMAIN service.sessions : \A k \in service.sessions[sid].calls :
            CallSpecs[k].program = service.sessions[sid].program
    /\ \A k \in asked \ LiveCalls(service) :
            KnownState(service, k) => FutureDone(service, k)

\* When the worker has read its queue it is where the client's process is, or it has
\* died of the command that was refused there: nothing is lost by running behind.  Both
\* replay one log by the same methods; that a refusal kills the worker is accepted.
MirrorAgrees ==
    ~stopped /\ commands = << >> =>
        IF refused THEN ~worker.alive
        ELSE worker = [service |-> service, known |-> known, alive |-> TRUE]

=============================================================================
