----------------------------- MODULE MCIssueSync -----------------------------
\* Instances of IssueSync.
EXTENDS IssueSync

CONSTANTS ticker, request

AllUpdate == [filter |-> "all", dedupe |-> "update", enabled |-> TRUE]
AllSkip == [filter |-> "all", dedupe |-> "skip", enabled |-> TRUE]
OpenOff == [filter |-> "open", dedupe |-> "update", enabled |-> FALSE]

\* The ticker alone among failures and busy agents.
Failing == [runs |-> {ticker}, rules |-> {AllUpdate, AllSkip}, vers |-> 2,
            edits |-> FALSE, faults |-> TRUE, busy |-> TRUE]

\* The ticker, and a request to run the rule at once.
Racing == [runs |-> {ticker, request}, rules |-> {AllUpdate}, vers |-> 2,
           edits |-> FALSE, faults |-> FALSE, busy |-> FALSE]

\* The ticker alone, nothing failing, and issues that are reopened.
Quiet == [runs |-> {ticker}, rules |-> {AllUpdate, AllSkip}, vers |-> 3,
          edits |-> FALSE, faults |-> FALSE, busy |-> TRUE]

\* Administrators change, disable and delete the rule.
Edited == [runs |-> {ticker}, rules |-> {AllUpdate, OpenOff}, vers |-> 3,
           edits |-> TRUE, faults |-> FALSE, busy |-> FALSE]

Circumstances == {Failing, Racing, Quiet, Edited}

=============================================================================
