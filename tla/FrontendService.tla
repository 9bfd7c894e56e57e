--------------------------- MODULE FrontendService --------------------------
(***************************************************************************)
(* AutellixService (autellix/frontend/service.py): sessions submit calls   *)
(* while a live simulation advances under them, and drain() runs it to its *)
(* end.  The methods are functions of the service's value, a record:       *)
(*   conf      the arguments every simulator is made with                  *)
(*   time      the frontend's clock, the submit time of new calls          *)
(*   sessions  session -> program, arrival, calls, completed               *)
(*   named     program -> the latest session that was started for it       *)
(*   live      the simulation, if there is one                             *)
(*   last      call -> its finish time in the last result                  *)
(*   opened    how many sessions were started                              *)
(*   inStep    auxiliary: each call found the two clocks equal             *)
(* A method that raises leaves the value alone unless noted.               *)
(***************************************************************************)
EXTENDS SimulatorSteps

CONSTANTS
    CallSpecs   \* bound: call -> the arguments of submit_call

Put(f, x, y) == [z \in DOMAIN f \cup {x} |-> IF z = x THEN y ELSE f[z]]

NoSimulation == [time |-> None]
HasLive(v) == v.live # NoSimulation

NewService(conf) ==
    [conf |-> conf, time |-> 0, sessions |-> << >>, named |-> << >>,
     live |-> NoSimulation, last |-> << >>, opened |-> 0, inStep |-> TRUE]

StartSession(v, p, arrival) ==
    LET sid == v.opened + 1
    IN  [v EXCEPT !.opened = sid, !.named = Put(@, p, sid),
                  !.sessions = Put(@, sid, [program |-> p, arrival |-> arrival,
                                            calls |-> {}, completed |-> FALSE])]

EndSession(v, sid) == [v EXCEPT !.sessions[sid].completed = TRUE]

-----------------------------------------------------------------------------
(* submit_call *)

CanSubmit(v, sid, k) ==
    /\ sid \in DOMAIN v.sessions
    /\ ~v.sessions[sid].completed
    /\ CallSpecs[k].parents \subseteq v.sessions[sid].calls

\* _ensure_live_simulator
FirstCall(v, p, spec, k) ==
    LET s == NewSimulation(v.conf, Put(<< >>, p, v.sessions[v.named[p]].arrival),
                           Put(<< >>, k, spec))
    IN  [s EXCEPT !.time = Greater(@, v.time)]

\* Simulator.add_call; a program that is known keeps its arrival.
AddCallAfresh(s, p, arrival, spec, k) ==
    [s EXCEPT !.arrival = Put(@, p, arrival),
              !.specs = Put(@, k, spec), !.calls = Put(@, k, NewCall(spec)),
              !.table = Put(@, p, NewEntry(spec.model))]
AddCall(s, p, arrival, spec, k) ==
    LET known == p \in DOMAIN s.arrival
        entry == IF known THEN s.table[p] ELSE NewEntry(0)
    IN  [s EXCEPT !.arrival = IF known THEN @ ELSE Put(@, p, arrival),
                  !.specs = Put(@, k, spec), !.calls = Put(@, k, NewCall(spec)),
                  !.table = Put(@, p, [entry EXCEPT !.remaining = @ + spec.model])]

WithCall(v, p, arrival, spec, k) ==
    IF HasLive(v) THEN AddCall(v.live, p, arrival, spec, k) ELSE FirstCall(v, p, spec, k)
Simulated(v, s) == [v EXCEPT !.live = s, !.inStep = @ /\ s.time = v.time]

SubmitUnlisted(v, sid, k) ==
    Simulated(v, WithCall(v, v.sessions[sid].program, v.sessions[sid].arrival,
                          Put(CallSpecs[k], "submit", v.time), k))
SubmitCall(v, sid, k) == [SubmitUnlisted(v, sid, k) EXCEPT !.sessions[sid].calls = @ \cup {k}]

-----------------------------------------------------------------------------
(* Advancing. *)

\* Simulator.step(1), run_until_idle and run.
StepLive(s) == IF AllFinished(s) THEN [s EXCEPT !.time = @ + 1] ELSE StepOnce(s, FALSE)

RECURSIVE ToIdle(_), ToEnd(_)
ToIdle(s) == IF AllFinished(s) \/ NoWork(s) THEN s ELSE ToIdle(StepOnce(s, FALSE))
ToEnd(s) == IF AllFinished(s) THEN s ELSE ToEnd(StepOnce(s, TRUE))

FinishTimes(s) == [k \in DOMAIN s.calls |-> s.calls[k].finish]
Reported(v, s) == [v EXCEPT !.live = s, !.time = s.time, !.last = FinishTimes(s)]

TickService(v) ==
    IF HasLive(v) THEN Reported(v, StepLive(v.live)) ELSE [v EXCEPT !.time = @ + 1]

\* Without a live simulation every session is empty, and its program is refused.
RunUntilIdle(v) == IF HasLive(v) THEN Reported(v, ToIdle(v.live)) ELSE v

\* run() does not read the clock of the simulation back.
RunService(v) ==
    IF HasLive(v) THEN [Reported(v, ToEnd(v.live)) EXCEPT !.time = v.time] ELSE v

\* drain() forgets the sessions whose program has run, and the simulation.
Drain(v) ==
    LET ran == DOMAIN v.live.arrival
        open == {sid \in DOMAIN v.sessions : v.sessions[sid].program \notin ran}
    IN  IF ~HasLive(v) THEN v
        ELSE [Reported(v, ToEnd(v.live)) EXCEPT
                !.live = NoSimulation, !.inStep = TRUE,
                !.sessions = [sid \in open |-> @[sid]],
                !.named = [p \in DOMAIN @ \ ran |-> @[p]]]

-----------------------------------------------------------------------------
(* What a future sees (AsyncMultiLLMEngine._state_for_key). *)

LiveCalls(v) == IF HasLive(v) THEN DOMAIN v.live.calls ELSE {}
KnownState(v, k) == k \in LiveCalls(v) \cup DOMAIN v.last
FinishTime(v, k) == IF k \in LiveCalls(v) THEN v.live.calls[k].finish ELSE v.last[k]
FutureDone(v, k) == KnownState(v, k) /\ FinishTime(v, k) # None

=============================================================================
