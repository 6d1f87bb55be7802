----------------------------- MODULE MCDelivery -----------------------------
EXTENDS Delivery

CONSTANTS h, i, p, m, n

\* One entity, messages with the agent that comes and goes, or a message with
\* a handoff: here Reload settings may be clicked while bootstrap still loads.
MCCrossedCasts == {{h}, {i}, {p}, {m, Agent}, {m, n}, {h, m}}

\* An entity with another one, with a message, or with the agent.
MCOtherCasts == {{i, m}, {p, m}, {p, i}, {h, Agent}}

MCCasts == MCCrossedCasts \cup MCOtherCasts

\* The bound: in the other casts the click waits for bootstrap.
MCCrossings ==
    (flows["boot"] # <<>> /\ flows["reload"] # <<>>) => cast \in MCCrossedCasts

\* A handoff alone.
MCHandoffCast == {{h}}
=============================================================================
