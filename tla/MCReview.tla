------------------------------ MODULE MCReview ------------------------------
\* An instance of Review: two submissions of one agent, so that their decisions
\* meet in one projection.
EXTENDS Review

CONSTANT k1

OneKey == [s \in Submissions |-> k1]

=============================================================================
