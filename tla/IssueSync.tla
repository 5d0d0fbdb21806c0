------------------------------ MODULE IssueSync ------------------------------
(***************************************************************************)
(* Tasks made from GitHub issues: Engine.RunRule                            *)
(* (sync/application/engine.go) over the rows of sync_rules and             *)
(* issue_task_map, the administration of rules (sync/application/service.go)*)
(* and the system tasks it publishes, updates and cancels.                  *)
(*                                                                         *)
(* One tenant and one repository.  The engine has no transaction of its     *)
(* own: every read and every write of a run is a step, so a run of the      *)
(* ticker and one an administrator asked for interleave, and a run may stop *)
(* anywhere.  A call into the task service is one transaction and one step; *)
(* its own races are the subject of TaskLifecycle and Idempotency.  GitHub  *)
(* and the server agree on the time.                                        *)
(***************************************************************************)
EXTENDS Integers, FiniteSets, FiniteSetsExt

CONSTANTS
  Issues,
  Rules,       \* rule identifiers; one is never used twice
  Runners,     \* the ticker of an API process, requests to run a rule
  Ticker,      \* the first of these
  MaxClock, MaxVer, MaxTasks,
  Retention,   \* how long an idempotency record answers for its request
  Settings,    \* the circumstances considered: which runners there are, the
               \* rules that administrators write, whether they change one
               \* again, whether calls fail, whether issues are relabelled
               \* and agents take tasks, and how often an issue changes
  Nil

IssueStates == {"open", "closed"}

\* What an administrator writes into a rule.
Content == [filter : IssueStates \cup {"all"}, dedupe : {"update", "skip"},
            enabled : BOOLEAN]

ASSUME SyncAssumption ==
  /\ Issues # {} /\ Rules # {}
  /\ MaxClock \in Nat \ {0} /\ MaxVer \in Nat \ {0} /\ MaxTasks \in Nat \ {0}
  /\ Retention \in Nat \ {0}
  /\ Ticker \in Runners
  /\ Nil \notin Issues \cup Rules /\ Nil \notin IssueStates
  /\ Settings \subseteq [runs : SUBSET Runners, rules : SUBSET Content,
                          vers : 1 .. MaxVer, edits : BOOLEAN, faults : BOOLEAN,
                          busy : BOOLEAN]

VARIABLES
  clock,
  issue,    \* the issues on GitHub
  rule,     \* sync_rules
  mapping,  \* issue_task_map
  task,     \* tasks published by the engine
  record,   \* idempotency record of each publish request, by rule and issue
  run,      \* where each run is, and what it has in memory
  admin,    \* a rule an administrator has loaded and is about to write back
  done,     \* history: the version of each issue last processed
  failed,   \* history: the version of each issue whose processing last failed
  setting

syncVars == <<clock, issue, rule, mapping, task, record, run, admin, done,
              failed, setting>>

-----------------------------------------------------------------------------
(* The data *)

\* ver stands for title and body, wanted for labels the rules ask for.
Issue == [state : {"none"} \cup IssueStates, wanted : BOOLEAN,
          ver : 0 .. MaxVer, at : 0 .. MaxClock]

\* An issue as a run has it.
Listed == [i : Issues, state : IssueStates, ver : 1 .. MaxVer]

\* cursor is last_synced_at, 0 for a rule that never ran.
Rule == [row : {"new", "live", "deleted"}, filter : IssueStates \cup {"all"},
         dedupe : {"update", "skip"}, enabled : BOOLEAN, cursor : 0 .. MaxClock]

NewRule == [row |-> "new", filter |-> "open", dedupe |-> "skip",
            enabled |-> FALSE, cursor |-> 0]

TaskIds == 1 .. MaxTasks

Mapping == [task : TaskIds \cup {Nil}, state : IssueStates \cup {Nil}]

NoMapping == [task |-> Nil, state |-> Nil]

\* again: the task was claimed once, and the claim lapsed.
Task == [of : Issues \cup {Nil}, key : Rules \cup {Nil},
         status : {"none", "open", "claimed", "completed", "cancelled"},
         content : 0 .. MaxVer, born : 0 .. MaxClock, again : BOOLEAN]

NoTask == [of |-> Nil, key |-> Nil, status |-> "none", content |-> 0,
           born |-> 0, again |-> FALSE]

\* A completed record: the request that made it, the task it answers with.
Record == [task : TaskIds \cup {Nil}, now : 0 .. MaxClock, ver : 0 .. MaxVer,
           born : 0 .. MaxClock]

NoRecord == [task |-> Nil, now |-> 0, ver |-> 0, born |-> 0]

Places == {"idle", "list", "next", "look", "publish", "map", "status",
           "cancel", "update", "refresh", "touch"}

Run == [at : Places, k : Rules, rule : Rule, now : 0 .. MaxClock,
        todo : SUBSET Listed, cur : Listed, map : Mapping]

AtRest == [at |-> "idle", k |-> CHOOSE k \in Rules : TRUE, rule |-> NewRule,
           now |-> 0, todo |-> {}, map |-> NoMapping,
           cur |-> [i |-> CHOOSE i \in Issues : TRUE, state |-> "open", ver |-> 1]]

SyncTypeOK ==
  /\ clock \in 1 .. MaxClock
  /\ issue \in [Issues -> Issue]
  /\ rule \in [Rules -> Rule]
  /\ mapping \in [Issues -> Mapping]
  /\ task \in [TaskIds -> Task]
  /\ record \in [Rules -> [Issues -> Record]]
  /\ run \in [Runners -> Run]
  /\ admin \in [k : Rules \cup {Nil}, rule : Rule]
  /\ done \in [Rules -> [Issues -> 0 .. MaxVer]]
  /\ failed \in [Rules -> [Issues -> 0 .. MaxVer]]
  /\ setting \in Settings

NotEditing == [k |-> Nil, rule |-> NewRule]

-----------------------------------------------------------------------------
(* RunRule up to the list of issues *)

\* Rule.Matches
Matches(c, i) ==
  /\ issue[i].state \in IssueStates
  /\ c.filter \in {"all", issue[i].state}
  /\ issue[i].wanted

\* What GitHub is asked for, of a repository with an App or of a public one:
\* what changed at the cursor or later.
Changed(c) == {i \in Issues : issue[i].at >= c.cursor}

\* Fault: only what changed later than the given time.
ListLater(c) ==
  {[i |-> i, state |-> issue[i].state, ver |-> issue[i].ver] :
     i \in {j \in Issues : Matches(c, j) /\ issue[j].at > c.cursor}}

ListIssues(c) ==
  {[i |-> i, state |-> issue[i].state, ver |-> issue[i].ver] :
     i \in {j \in Changed(c) : Matches(c, j)}}

\* The rule is loaded and the time is read.  The ticker asks for enabled
\* rules, a request runs any rule.
RunRule(r, k) ==
  /\ r \in setting.runs
  /\ run[r].at = "idle"
  /\ rule[k].row = "live"
  /\ r = Ticker => rule[k].enabled
  /\ run' = [run EXCEPT ![r] =
               [AtRest EXCEPT !.at = "list", !.k = k, !.rule = rule[k],
                              !.now = clock]]
  /\ UNCHANGED <<clock, issue, rule, mapping, task, record, admin, done,
                 failed, setting>>

\* Once the issues are listed the rule's cursor is no longer looked at.
Fetch(r) ==
  /\ run[r].at = "list"
  /\ run' = [run EXCEPT ![r] = [@ EXCEPT !.at = "next",
                  !.todo = ListIssues(run[r].rule), !.rule.cursor = 0]]
  /\ UNCHANGED <<clock, issue, rule, mapping, task, record, admin, done,
                 failed, setting>>

-----------------------------------------------------------------------------
(* processIssue *)

\* A run that is through with an issue.
Between(x) ==
  [x EXCEPT !.at = "next", !.cur = AtRest.cur, !.map = NoMapping]

Processed(r) ==
  /\ run' = [run EXCEPT ![r] = Between(@)]
  /\ done' = [done EXCEPT ![run[r].k][run[r].cur.i] =
                Max({@, run[r].cur.ver})]
  /\ UNCHANGED failed

\* An error is counted and the run goes on.
Counted(r) ==
  /\ run' = [run EXCEPT ![r] = Between(@)]
  /\ failed' = [failed EXCEPT ![run[r].k][run[r].cur.i] =
                  Max({@, run[r].cur.ver})]
  /\ UNCHANGED done

Goes(r, place) ==
  /\ run' = [run EXCEPT ![r].at = place]
  /\ UNCHANGED <<done, failed>>

NextIssue(r) ==
  /\ run[r].at = "next"
  /\ IF run[r].todo = {}
       THEN run' = [run EXCEPT ![r].at = "touch"]
       ELSE \E x \in run[r].todo :
              run' = [run EXCEPT ![r] = [@ EXCEPT !.at = "look", !.cur = x,
                                                  !.todo = run[r].todo \ {x}]]
  /\ UNCHANGED <<clock, issue, rule, mapping, task, record, admin, done,
                 failed, setting>>

\* The mapping is loaded; a closed issue without one is skipped.
Look(r) ==
  LET x == run[r].cur
      m == mapping[x.i] IN
  /\ run[r].at = "look"
  /\ IF m = NoMapping /\ x.state = "closed"
       THEN Processed(r)
       ELSE /\ run' = [run EXCEPT ![r].map = m,
                         ![r].at = IF m = NoMapping THEN "publish" ELSE "status"]
            /\ UNCHANGED <<done, failed>>
  /\ UNCHANGED <<clock, issue, rule, mapping, task, record, admin, setting>>

FreeIds == {t \in TaskIds : task[t].status = "none"}

\* Fault: the key does not name the issue's rule and repository, so that no
\* earlier request is found.
NeverAnswered(k, i) == FALSE

Answered(k, i) ==
  record[k][i] # NoRecord /\ clock < record[k][i].born + Retention

\* The request that a record answers: the deadline, counted from the run's
\* time, is part of what is compared.
SameRequest(r, old) == old.now = run[r].now /\ old.ver = run[r].cur.ver

SystemTask(r) ==
  [of |-> run[r].cur.i, key |-> run[r].k, status |-> "open",
   content |-> run[r].cur.ver, born |-> clock, again |-> FALSE]

\* PublishSystemTask under the key sync:rule:repository:number.
Publish(r) ==
  LET i == run[r].cur.i
      k == run[r].k
      old == record[k][i] IN
  /\ run[r].at = "publish"
  /\ \/ /\ Answered(k, i) /\ SameRequest(r, old)
        /\ run' = [run EXCEPT ![r].at = "map", ![r].map.task = old.task]
        /\ UNCHANGED <<task, record, done, failed>>
     \/ /\ Answered(k, i) /\ ~SameRequest(r, old)
        /\ Counted(r)
        /\ UNCHANGED <<task, record>>
     \/ /\ ~Answered(k, i)
        /\ FreeIds # {}
        /\ LET t == Min(FreeIds) IN
           /\ task' = [task EXCEPT ![t] = SystemTask(r)]
           /\ record' = [record EXCEPT ![k][i] =
                           [task |-> t, now |-> run[r].now, born |-> clock,
                            ver |-> run[r].cur.ver]]
           /\ run' = [run EXCEPT ![r].at = "map", ![r].map.task = t]
        /\ UNCHANGED <<done, failed>>
  /\ UNCHANGED <<clock, issue, rule, mapping, admin, setting>>

\* Upsert of the new mapping, or of the refreshed one.
Upsert(r) ==
  LET x == run[r].cur IN
  /\ run[r].at \in {"map", "refresh"}
  /\ mapping' = [mapping EXCEPT ![x.i] = [task |-> run[r].map.task,
                                          state |-> x.state]]
  /\ Processed(r)
  /\ UNCHANGED <<clock, issue, rule, task, record, admin, setting>>

\* Fault: an issue is taken as handled when its mapping says the same already.
StatusUnlessKnown(r) ==
  LET s == task[run[r].map.task].status IN
  /\ run[r].at = "status"
  /\ CASE run[r].map.state = "open" -> Goes(r, "refresh")
       [] s = "open" /\ run[r].cur.state = "closed" -> Goes(r, "cancel")
       [] OTHER -> Goes(r, "refresh")
  /\ UNCHANGED <<clock, issue, rule, mapping, task, record, admin, setting>>

\* TaskStatus, and what follows from it.
Status(r) ==
  LET s == task[run[r].map.task].status IN
  /\ run[r].at = "status"
  /\ \/ s = "open" /\ run[r].cur.state = "closed" /\ Goes(r, "cancel")
     \/ /\ s = "open" /\ run[r].cur.state = "open"
        /\ run[r].rule.dedupe = "update" /\ Goes(r, "update")
     \/ /\ s = "open" => run[r].cur.state = "open" /\ run[r].rule.dedupe = "skip"
        /\ Goes(r, "refresh")
  /\ UNCHANGED <<clock, issue, rule, mapping, task, record, admin, setting>>

\* CancelSystemTask: the status may have changed, and a claimed task is
\* cancelled too.
CancelTask(r) ==
  LET t == run[r].map.task IN
  /\ run[r].at = "cancel"
  /\ \/ /\ task[t].status \in {"open", "claimed"}
        /\ task' = [task EXCEPT ![t].status = "cancelled"]
        /\ Goes(r, "refresh")
     \/ /\ task[t].status \notin {"open", "claimed"}
        /\ Counted(r)
        /\ UNCHANGED task
  /\ UNCHANGED <<clock, issue, rule, mapping, record, admin, setting>>

MayUpdate(t) == task[t].status = "open"

\* UpdateSystemTaskContent: nothing happens to a task that has moved on.
UpdateTask(r) ==
  LET t == run[r].map.task IN
  /\ run[r].at = "update"
  /\ task' = IF MayUpdate(t) THEN [task EXCEPT ![t].content = run[r].cur.ver]
                             ELSE task
  /\ Goes(r, "refresh")
  /\ UNCHANGED <<clock, issue, rule, mapping, record, admin, setting>>

\* TouchSynced.  A rule deleted meanwhile has no row to update.
Touch(r) ==
  /\ run[r].at = "touch"
  /\ rule' = IF rule[run[r].k].row = "live"
               THEN [rule EXCEPT ![run[r].k].cursor = run[r].now]
               ELSE rule
  /\ run' = [run EXCEPT ![r] = AtRest]
  /\ UNCHANGED <<clock, issue, mapping, task, record, admin, done, failed,
                 setting>>

\* A call to GitHub or the cursor's update fails: the run ends.  So it does
\* when the process stops.
Stops(r) ==
  /\ setting.faults
  /\ run[r].at # "idle"
  /\ run' = [run EXCEPT ![r] = AtRest]
  /\ UNCHANGED <<clock, issue, rule, mapping, task, record, admin, done,
                 failed, setting>>

\* A call for one issue fails.
Fails(r) ==
  /\ setting.faults
  /\ run[r].at \in Places \ {"idle", "list", "next", "touch"}
  /\ Counted(r)
  /\ UNCHANGED <<clock, issue, rule, mapping, task, record, admin, setting>>

Step(r) ==
  Fetch(r) \/ NextIssue(r) \/ Look(r) \/ Publish(r) \/ Upsert(r) \/ Status(r)
    \/ CancelTask(r) \/ UpdateTask(r) \/ Touch(r)

-----------------------------------------------------------------------------
(* Administrators *)

\* RuleService.Create
CreateRule(k, c) ==
  /\ rule[k].row = "new"
  /\ c \in setting.rules
  /\ rule' = [rule EXCEPT ![k] = [NewRule EXCEPT !.row = "live",
                !.filter = c.filter, !.dedupe = c.dedupe, !.enabled = c.enabled]]
  /\ UNCHANGED <<clock, issue, mapping, task, record, run, admin, done, failed,
                 setting>>

\* Update and SetEnabled load the rule and write every column back, the cursor
\* they have read among them.
LoadRule(k) ==
  /\ setting.edits
  /\ admin = NotEditing
  /\ rule[k].row = "live"
  /\ admin' = [k |-> k, rule |-> rule[k]]
  /\ UNCHANGED <<clock, issue, rule, mapping, task, record, run, done, failed,
                 setting>>

SaveRule(c) ==
  LET k == admin.k IN
  /\ admin # NotEditing
  /\ c \in setting.rules
  /\ rule' = IF rule[k].row = "live"
               THEN [rule EXCEPT ![k] = [admin.rule EXCEPT !.filter = c.filter,
                       !.dedupe = c.dedupe, !.enabled = c.enabled]]
               ELSE rule
  /\ admin' = NotEditing
  /\ UNCHANGED <<clock, issue, mapping, task, record, run, done, failed,
                 setting>>

DeleteRule(k) ==
  /\ setting.edits
  /\ rule[k].row = "live"
  /\ rule' = [rule EXCEPT ![k] = [NewRule EXCEPT !.row = "deleted"]]
  /\ UNCHANGED <<clock, issue, mapping, task, record, run, admin, done, failed,
                 setting>>

-----------------------------------------------------------------------------
(* GitHub, the agents and time *)

\* An issue is opened, edited, labelled, closed or reopened.
IssueChanges(i, s, w) ==
  /\ issue[i].ver < setting.vers
  /\ issue[i].state = "none" => s = "open"
  /\ w \/ setting.busy
  /\ issue' = [issue EXCEPT ![i] = [state |-> s, wanted |-> w,
                                    ver |-> issue[i].ver + 1, at |-> clock]]
  /\ UNCHANGED <<clock, rule, mapping, task, record, run, admin, done, failed,
                 setting>>

\* The task is claimed, completed, or reopened by the reaper.
TaskMoves(t) ==
  /\ setting.busy
  /\ \/ /\ task[t].status = "open"
        /\ task' = [task EXCEPT ![t].status = "claimed"]
     \/ /\ task[t].status = "claimed"
        /\ task' = [task EXCEPT ![t].status = "completed"]
     \/ /\ task[t].status = "claimed"
        /\ task' = [task EXCEPT ![t].status = "open", ![t].again = TRUE]
  /\ UNCHANGED <<clock, issue, rule, mapping, record, run, admin, done, failed,
                 setting>>

Tick ==
  /\ clock < MaxClock
  /\ clock' = clock + 1
  /\ UNCHANGED <<issue, rule, mapping, task, record, run, admin, done, failed,
                 setting>>

-----------------------------------------------------------------------------
SyncInit ==
  /\ clock = 1
  /\ issue = [i \in Issues |-> [state |-> "none", wanted |-> FALSE, ver |-> 0,
                                at |-> 0]]
  /\ rule = [k \in Rules |-> NewRule]
  /\ mapping = [i \in Issues |-> NoMapping]
  /\ task = [t \in TaskIds |-> NoTask]
  /\ record = [k \in Rules |-> [i \in Issues |-> NoRecord]]
  /\ run = [r \in Runners |-> AtRest]
  /\ admin = NotEditing
  /\ done = [k \in Rules |-> [i \in Issues |-> 0]]
  /\ failed = [k \in Rules |-> [i \in Issues |-> 0]]
  /\ setting \in Settings

SyncNext ==
  \/ \E r \in Runners : Step(r) \/ Stops(r) \/ Fails(r)
  \/ \E r \in Runners, k \in Rules : RunRule(r, k)
  \/ \E k \in Rules : LoadRule(k) \/ DeleteRule(k)
  \/ \E c \in Content : SaveRule(c) \/ \E k \in Rules : CreateRule(k, c)
  \/ \E i \in Issues, s \in IssueStates, w \in BOOLEAN : IssueChanges(i, s, w)
  \/ \E t \in TaskIds : TaskMoves(t)
  \/ Tick

SyncSpec == SyncInit /\ [][SyncNext]_syncVars

\* A process goes on with what it has begun, and its ticker never rests
\* (repeat in cmd/agentguild-api/main.go).
FairSyncSpec ==
  /\ SyncSpec
  /\ \A r \in Runners : WF_syncVars(Step(r))
  /\ \A k \in Rules : WF_syncVars(RunRule(Ticker, k))

-----------------------------------------------------------------------------
(* Properties *)

\* No two tasks for one issue: whatever runs race, two tasks published by one
\* rule for one issue are a retention period apart, because the second publish
\* request finds the record of the first.
OneTaskPerRetention ==
  \A t, u \in TaskIds :
    /\ t < u
    /\ task[t].status # "none" /\ task[u].status # "none"
    /\ task[t].of = task[u].of /\ task[t].key = task[u].key
    => task[u].born >= task[t].born + Retention

\* The cursor passes nothing over: an issue that a rule asks for and that
\* changed before the rule's cursor has been processed as it is now, or its
\* processing failed.  This rests on the time of a run being read before the
\* issues are listed, and holds with concurrent runs that set the cursor back.
CursorIsHonest ==
  ~setting.edits =>
    \A k \in Rules, i \in Issues :
      /\ rule[k].row = "live"
      /\ Matches(rule[k], i)
      /\ issue[i].at < rule[k].cursor
      => issue[i].ver \in {done[k][i], failed[k][i]}

Alone == setting.runs = {Ticker} /\ ~setting.edits

\* What an issue that has been processed left behind: a closed issue has no
\* task, or a mapping that says so and a task that is no longer on offer
\* unless an agent had it then; an open one has a mapping that says so, and
\* its task the issue's content under a rule that updates.
Reflects(k, i) ==
  LET m == mapping[i] IN
  IF m = NoMapping
    THEN issue[i].state = "closed"
    ELSE /\ m.state = issue[i].state
         /\ task[m.task].of = i
         /\ task[m.task].status = "open" /\ ~task[m.task].again =>
              /\ issue[i].state = "open"
              /\ rule[k].dedupe = "update" =>
                   task[m.task].content = issue[i].ver

\* With one run at a time a processed issue is reflected by its mapping and
\* its task, whatever fails or stops.
ProcessedIsReflected ==
  Alone =>
    \A k \in Rules, i \in Issues :
      /\ rule[k].row = "live"
      /\ done[k][i] = issue[i].ver
      /\ Matches(rule[k], i)
      => Reflects(k, i)

\* The engine never rewrites a task that an agent has taken or that is over
\* (spec: a task that has advanced is not overwritten), although it decides by
\* a status it has read earlier.
AdvancedTaskKeepsContent ==
  [][\A t \in TaskIds :
       task[t].status \notin {"none", "open"} =>
         task'[t].content = task[t].content]_syncVars

\* An issue whose turn has passed has been dealt with, and what it left behind
\* is what it says - except a task that has got ahead of it.
TasksFollowIssues ==
  [](CursorIsHonest /\ ProcessedIsReflected) /\ AdvancedTaskKeepsContent

\* An open issue that a rule asks for gets its task, runs racing or not,
\* provided no call fails.
WantedIssueGetsTask ==
  ~setting.faults /\ ~setting.edits =>
    \A k \in Rules, i \in Issues :
      LET Wanted == /\ rule[k].row = "live" /\ rule[k].enabled
                    /\ Matches(rule[k], i) /\ issue[i].state = "open" IN
      Wanted ~> (mapping[i] # NoMapping \/ ~Wanted)

=============================================================================
