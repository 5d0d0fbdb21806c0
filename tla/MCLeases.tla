------------------------------ MODULE MCLeases ------------------------------
(* Instances of Idempotency and of Outbox, where whoever works at a row has  *)
(* it for a time and may be late.  The two share no state, so a behaviour is *)
(* one of the one or of the other, as part says, and the other stands still: *)
(* their product would show nothing more.                                    *)
EXTENDS Idempotency, Outbox, TLC

CONSTANTS other, x1

VARIABLE part

partVars == <<part, vars, outboxVars>>

-----------------------------------------------------------------------------
\* Attempts at one request, and one (other) at another request under the
\* same key.
TwoHashes == [r \in Requests |-> IF r = other THEN 2 ELSE 1]

\* Two events about one execution and a plain one.
KindOf == [e \in Events |-> IF e = 3 THEN "plain" ELSE "execution"]
ExecOfEvent == [e \in Events |-> x1]

\* The attempts at the same request are interchangeable, and so are workers.
Symmetry == Permutations(Requests \ {other}) \cup Permutations(Workers)

-----------------------------------------------------------------------------
PartInit ==
  /\ part \in {"idempotency", "outbox"}
  /\ Init
  /\ OutboxInit
  /\ part = "outbox" => mode = "rest"

PartNext ==
  /\ \/ part = "idempotency" /\ Next /\ UNCHANGED outboxVars
     \/ part = "outbox" /\ OutboxNext /\ UNCHANGED vars
  /\ UNCHANGED part

PartSpec == PartInit /\ [][PartNext]_partVars

=============================================================================
