--------------------------- MODULE MCParticipation ---------------------------
\* Instances of Participation.
EXTENDS Participation

CONSTANTS a1, e1, e2, g1, q1

OwnerOf == [i \in Installations |-> g1]
RepoOf == [t \in Tasks |-> q1]

\* Three challenges for two keys; a known agent with two requests and the
\* sponsor's agent, who claim one task while it is lost and opened again; two
\* Apps of one sponsor and a repository; and the sponsor's agent with its branch.
Registering == [parts |-> {"registration"}, known |-> {}, execs |-> {}]
Claiming == [parts |-> {"public"}, known |-> {a1}, execs |-> {e1, e2}]
Onboarding == [parts |-> {"repositories"}, known |-> {}, execs |-> {}]
Submitting == [parts |-> {"git"}, known |-> {}, execs |-> {e1}]

Circumstances == {Registering, Claiming, Onboarding, Submitting}

=============================================================================
