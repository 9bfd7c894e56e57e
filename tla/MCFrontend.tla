----------------------------- MODULE MCFrontend -----------------------------
(* Two programs, the first with a child that its caller may submit late. *)
EXTENDS Frontend

MCQuanta == << 1, 2 >>
MCBoundaries == << 2 >>

Fixed == [fixed |-> TRUE, caching |-> FALSE, prompt |-> 0, locality |-> 0, remote |-> 0,
          prefillRate |-> 1, decodeRate |-> 1, penalty |-> 0, batched |-> FALSE, overhead |-> 0]
Costs == [fixed |-> FALSE, caching |-> TRUE, prompt |-> 1, locality |-> 92, remote |-> 25,
          prefillRate |-> 3, decodeRate |-> 1, penalty |-> 2, batched |-> TRUE, overhead |-> 1]

Conf(policy, balancer, engines, batch, over, interval, execution) ==
    [policy |-> policy, balancer |-> balancer, engines |-> engines, batch |-> batch,
     over |-> over, interval |-> interval, threshold |-> 3, execution |-> execution]

MCConfs == {Conf("plas", "least-used", 1, 1, 1, 2, Costs)}
OneConf == {Conf("plas", "least-used", 1, 1, 0, 1, Fixed)}

Call(program, parents, model, prefill, delay) ==
    [program |-> program, parents |-> parents, model |-> model, prefill |-> prefill,
     generated |-> model, delay |-> delay]

\* Without the service's own run(), which the docstring of tick() does not speak of.
DocumentedNext == Next /\ ~Run
DocumentedSpec == Init /\ [][DocumentedNext]_vars

MCCalls == << Call(1, {}, 2, 4, 0), Call(1, {1}, 1, 4, 1), Call(2, {}, 3, 1, 0) >>

=============================================================================
