------------------------------ MODULE MCReward ------------------------------
\* Instances of Reward.
EXTENDS Reward

CONSTANTS r1, p1, p2, e1, e2, q1, q2

\* Half of the money for the maintainer, half for the agent.
Shared == [gross |-> 2, fee |-> 0, reserve |-> 0, maintainer |-> 1, reviewer |-> 0,
           period |-> 1, life |-> 3, multiplier |-> TRUE]

Usual == {Shared}

Once == {[id |-> r1, amount |-> 4]}

Found == {[passed |-> TRUE, weight |-> 2], [passed |-> FALSE, weight |-> 1]}

Late == [t \in Tasks |-> 3]

\* One policy, one claim, and two calls that fail.
Failing == [policies |-> {p1}, execs |-> {e1}, requests |-> {q1},
            disputes |-> TRUE, races |-> FALSE, faults |-> 2]

\* One policy, and two transactions at one lock.
Racing == [policies |-> {p1}, execs |-> {e1}, requests |-> {q1},
           disputes |-> TRUE, races |-> TRUE, faults |-> 0]

\* A policy that is cancelled while it is claimed, and another one after it.
Crowded == [policies |-> {p1, p2}, execs |-> {e1, e2}, requests |-> {q1},
            disputes |-> FALSE, races |-> FALSE, faults |-> 0]

\* Two requests at two policies.
Paired == [policies |-> {p1, p2}, execs |-> {e1}, requests |-> {q1, q2},
           disputes |-> FALSE, races |-> FALSE, faults |-> 0]

Circumstances == {Failing, Racing, Crowded, Paired}

=============================================================================
