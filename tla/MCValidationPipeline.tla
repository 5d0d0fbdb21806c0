------------------------ MODULE MCValidationPipeline ------------------------
\* Instances of ValidationPipeline: two of the five steps, of which the second is no gate.
EXTENDS ValidationPipeline

CONSTANTS w1, w2

TwoSteps == <<"hidden_tests", "static_analysis">>

\* One worker among failures of every kind; one whose registry has a command
\* for one of the steps only; and two workers that get into each
\* other's way without any.
Deployments ==
  {[run |-> {w1}, env |-> EnvironmentMoves,
    config |-> {"hidden_tests", "static_analysis"}, faults |-> 3],
   [run |-> {w1}, env |-> {}, config |-> {"static_analysis"}, faults |-> 1],
   [run |-> {w1, w2}, env |-> {"unreachable"},
    config |-> {"hidden_tests", "static_analysis"}, faults |-> 0]}

\* One worker, nothing failing, and a commit that disappears.
Vanishing ==
  {[run |-> {w1}, env |-> {"unreachable"},
    config |-> {"hidden_tests", "static_analysis"}, faults |-> 0]}

=============================================================================
