---------------------------- MODULE MCScoreCards ----------------------------
\* Instances of ScoreCards.
EXTENDS ScoreCards

CONSTANTS e1, j1, r1, w1, w2, p1, p2

\* Two steps and three criteria: one bound to each step, and one bound to a
\* step that does not exist, which a reviewer decides.
TheSteps == {"public_tests", "security_scan"}
TheCriteria == <<"AC-1", "AC-2", "AC-3">>
TheBinding == "AC-1" :> "public_tests" @@ "AC-2" :> "security_scan" @@ "AC-3" :> "vibe_check"
TheCritical == {"AC-1", "AC-3"}
\* One, both ways round, on both sides of the task, and against itself.
Says(c, p) == [crit |-> c, passed |-> p]
TheVerdicts == {<<Says("AC-3", TRUE)>>, <<Says("AC-1", FALSE), Says("AC-3", TRUE)>>,
                <<Says("AC-9", TRUE), Says("AC-1", TRUE)>>,
                <<Says("AC-3", TRUE), Says("AC-3", FALSE)>>}
OneExecution == [s \in {j1, r1} |-> e1]

Nobody == [workers |-> {}, reviews |-> {}, jobs |-> {}, execs |-> {},
           contribs |-> {}, outcomes |-> {}, processes |-> {}]

\* A job that two workers hold and a review record their facts; two processes
\* follow the events of a contribution; one process reads a ledger while it is
\* written, or two attempts at a task, enough for a score.
Recording == [Nobody EXCEPT !.workers = {w1, w2}, !.reviews = {r1}, !.jobs = {j1}]
Following == [Nobody EXCEPT !.contribs = {1}, !.outcomes = {"merged", "reverted"},
                            !.processes = {p1, p2}]
Scoring == [Nobody EXCEPT !.workers = {w1}, !.jobs = {j1}, !.execs = {e1},
                          !.contribs = {1}, !.processes = {p1}]
Attempting == [Nobody EXCEPT !.contribs = {1, 2}, !.processes = {p1},
                             !.outcomes = {"changes_requested", "approved"}]

Circumstances == {Recording, Following, Scoring, Attempting}

ExecOfContribution == [c \in 1 .. 2 |-> e1]
VersionOfContribution == <<"v1", "v2">>
RepoOfContribution == <<"repo", "repo">>

=============================================================================
