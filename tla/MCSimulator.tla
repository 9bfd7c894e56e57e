----------------------------- MODULE MCSimulator ----------------------------
(* A family of small scenarios: a fork with a join and a second program, on *)
(* every policy and the settings of the engines.                            *)
EXTENDS Simulator

MCQuanta == << 1, 2 >>
MCBoundaries == << 2 >>

Fixed == [fixed |-> TRUE, caching |-> FALSE, prompt |-> 0, locality |-> 0, remote |-> 0,
          prefillRate |-> 1, decodeRate |-> 1, penalty |-> 0, batched |-> FALSE, overhead |-> 0]
\* The paper's costs, with tokens counted in units of about 512.
Costs == [fixed |-> FALSE, caching |-> TRUE, prompt |-> 1, locality |-> 92, remote |-> 25,
          prefillRate |-> 3, decodeRate |-> 1, penalty |-> 2, batched |-> TRUE, overhead |-> 1]
Unbatched == [Costs EXCEPT !.batched = FALSE, !.caching = FALSE, !.overhead = 0]

Call(program, parents, model, prefill, delay) ==
    [program |-> program, parents |-> parents, model |-> model, prefill |-> prefill,
     generated |-> model, delay |-> delay, submit |-> 0]

Conf(policy, balancer, engines, batch, over, interval, execution) ==
    [policy |-> policy, balancer |-> balancer, engines |-> engines, batch |-> batch,
     over |-> over, interval |-> interval, threshold |-> 3, execution |-> execution]

Policies == {"fcfs", "mlfq", "plas", "atlas", "atlas-dag", "round-robin", "srpt"}

OneEngine ==
    {Conf(policy, "least-used", 1, slots[1], slots[2], slots[3], x) :
        policy \in Policies, slots \in {1, 2} \X {0, 1} \X {1, 2},
        x \in {Fixed, Unbatched}}
TwoEngines ==
    {Conf(policy, balancer, 2, 1, 1, 1, Costs) :
        policy \in Policies, balancer \in {"autellix", "round-robin"}}

\* Program 1 forks after call 1 (calls 2 and 3) or joins in call 3; program 2 is a
\* chain of calls 4 and 5.  A workload gives the times of calls 1, 2 and 4, program
\* 2's arrival, the delay of some calls, and the parents of call 3.
Workloads == {<< 1, 1, 4, 0, 0, {1} >>, << 3, 1, 1, 1, 0, {1} >>, << 1, 2, 3, 0, 2, {1, 2} >>,
              << 2, 1, 2, 4, 2, {1} >>, << 3, 2, 4, 0, 1, {1, 2} >>, << 1, 3, 3, 1, 1, {1} >>}

MCScenarios ==
    {[conf |-> conf, arrival |-> << 0, w[4] >>,
      specs |-> << Call(1, {}, w[1], 6, 0), Call(1, {1}, w[2], 6, 0),
                   Call(1, w[6], 2, 1, w[5]), Call(2, {}, w[3], 6, 0),
                   Call(2, {4}, 1, 6, w[5]) >>] :
        conf \in OneEngine \cup TwoEngines, w \in Workloads}

=============================================================================
