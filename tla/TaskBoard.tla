------------------------------ MODULE TaskBoard ------------------------------
(***************************************************************************)
(* What the task lifecycle promises to someone who only looks at the board *)
(* of tasks: a task is published once, is held by at most one execution at *)
(* a time, an execution id holds one task once in its life, a held task    *)
(* goes back to the board or ends, and what has ended does not change.     *)
(* A batch of the reaper may move several tasks in one step.               *)
(* Source: the intents and statuses of internal/domain/task.go.            *)
(***************************************************************************)
CONSTANTS Tasks, Execs, None

VARIABLES board,   \* where each task is
          holder,  \* the execution that holds, or has completed, each task
          used     \* the executions there have been

boardVars == <<board, holder, used>>

Where == {"none", "open", "held", "done", "cancelled", "expired"}

Init == /\ board = [t \in Tasks |-> "none"]
        /\ holder = [t \in Tasks |-> None]
        /\ used = {}

Goes(t, from, to, h) == board[t] = from /\ board'[t] = to /\ holder'[t] = h

Publish(t) == Goes(t, "none", "open", None)
Take(t) == \E e \in Execs \ used : Goes(t, "open", "held", e)
Return(t) == Goes(t, "held", "open", None)
Complete(t) == Goes(t, "held", "done", holder[t])
Cancel(t) == \E from \in {"open", "held"} : Goes(t, from, "cancelled", None)
Expire(t) == \E from \in {"open", "held"} : Goes(t, from, "expired", None)
Stay(t) == board'[t] = board[t] /\ holder'[t] = holder[t]

Move(t) == \/ Publish(t) \/ Take(t) \/ Return(t) \/ Complete(t)
           \/ Cancel(t) \/ Expire(t) \/ Stay(t)

Next == /\ \A t \in Tasks : Move(t)
        /\ used' = used \cup {e \in Execs : \E t \in Tasks : holder'[t] = e}
        /\ \A t, u \in Tasks : holder'[t] = holder'[u] /\ holder'[t] # None => t = u

Spec == Init /\ [][Next]_boardVars

=============================================================================
