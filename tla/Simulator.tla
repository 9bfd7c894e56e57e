------------------------------ MODULE Simulator -----------------------------
(***************************************************************************)
(* Simulator.run and Simulator.step (autellix/core/simulator.py) on a set  *)
(* of scenarios.  The simulator is deterministic: what varies is the       *)
(* scenario, a set of programs with the arguments of Simulator.  The three *)
(* parts of a step are actions of their own, so that the state between     *)
(* them can be seen.                                                       *)
(***************************************************************************)
EXTENDS SimulatorSteps

CONSTANT
    Scenarios   \* bound: records [conf, arrival, specs] as described in SimScheduler

VARIABLES
    sim,        \* the simulation
    phase       \* the part of the step that comes next

vars == << sim, phase >>

Init ==
    /\ \E c \in Scenarios : sim = NewSimulation(c.conf, c.arrival, c.specs)
    /\ phase = "release"

Release ==
    /\ phase = "release" /\ ~AllFinished(sim) /\ sim.time <= MaxTime
    /\ sim' = ReleaseReady(sim) /\ phase' = "schedule"
Schedule ==
    /\ phase = "schedule"
    /\ sim' = ScheduleAll(sim) /\ phase' = "execute"
Execute(advance) ==
    /\ phase = "execute"
    /\ sim' = ExecuteTick(sim, advance) /\ phase' = "release"

Next == Release \/ Schedule \/ \E advance \in BOOLEAN : Execute(advance)

\* Weak fairness of Next, with its enabling condition written out: the loop of run()
\* goes on until it has finished or given up.
CanGoOn == phase # "release" \/ (~AllFinished(sim) /\ sim.time <= MaxTime)
Spec == Init /\ [][Next]_vars /\ ([]<>~CanGoOn \/ []<><<Next>>_vars)

-----------------------------------------------------------------------------
(* Properties. *)

\* No tick of a call's life is lost or counted twice: since its release it has waited,
\* executed, been swapped in or paid for its scheduling, through any number of
\* preemptions, prefetches and jumps of the clock.
TimeAccounted ==
    phase = "release" =>
        \A k \in DOMAIN sim.calls :
            LET c == sim.calls[k]
                end == IF c.status = "finished" THEN c.finish ELSE sim.time
            IN  c.status # "pending" =>
                    end - c.ready = c.wait + c.executed + (c.swap - c.swapLeft)
                                    + (c.overhead - c.overheadLeft)

\* The service of a program is what its policy says of the calls that finished: their
\* sum, or for atlas the longest chain of calls released after the last one ended.
Done(s, p) == {k \in ProgramCalls(s, p) : s.calls[k].status = "finished"}
Chain(s, p) ==
    LET longest[k \in Done(s, p)] ==
            s.calls[k].model + Max({0} \cup {longest[q] :
                q \in {r \in Done(s, p) : s.calls[r].finish <= s.calls[k].ready}})
    IN  Max({0} \cup {longest[k] : k \in Done(s, p)})
ServiceIsCharged ==
    \A p \in DOMAIN sim.table :
        sim.table[p].service =
            CASE sim.conf.policy = "mlfq"  -> 0
              [] sim.conf.policy = "atlas" -> Chain(sim, p)
              [] sim.conf.policy = "atlas-dag" ->
                    Max({0} \cup {sim.calls[k].critical + sim.calls[k].model : k \in Done(sim, p)})
              [] OTHER -> MapThenSumSet(LAMBDA k : sim.calls[k].model, Done(sim, p))

\* The critical path of a finished program is a path: never longer than the time its
\* caller saw, never shorter than the service of its longest chain of dependent calls.
CriticalPathBounds ==
    AllFinished(sim) =>
        \A p \in DOMAIN sim.table :
            /\ CriticalResponse(sim, p) <= ResponseTime(sim, p)
            /\ \A k \in ProgramCalls(sim, p) :
                CriticalResponse(sim, p) >= sim.calls[k].critical + sim.calls[k].model

\* A decision is by priority and is then kept: while a window is frozen a running call
\* only leaves because it ends, whatever became of its quantum; where the window was
\* over, no call is left waiting that precedes one that was chosen.
Precedes(s, a, b) ==
    IF s.conf.policy = "srpt" /\ s.calls[a].queue = 1 /\ s.calls[b].queue = 1
    THEN ShorterFirst(s, a, b) ELSE Before(s, a, b)
DecidedByPriority(s, e) ==
    LET g == s.engines[e]
    IN  \A r \in Range(g.running \o g.prefetched), w \in Range(Waiting(s, e)) :
            Precedes(s, w, r) => w \in Range(g.prefetched) /\ r \in Range(g.prefetched)
WindowKept ==
    [][\A e \in 1..sim.conf.engines :
        IF Frozen(sim, e)
        THEN \A k \in Range(sim.engines[e].running) :
                sim'.calls[k].status \in {"running", "finished"}
        ELSE phase = "schedule" => DecidedByPriority(sim', e)]_vars

\* run() ends: swap penalties, demotions and promotions cannot keep a call from
\* finishing, and no call is released too late to be seen.
AllFinish == <>AllFinished(sim)

=============================================================================
