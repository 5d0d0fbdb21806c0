-------------------------- MODULE RewardOutboxProofs --------------------------
(***************************************************************************)
(* Proofs about the two components whose workers make a record outside      *)
(* agree with the database: Outbox and Reward.                              *)
(*                                                                         *)
(* Outbox: an event has one holder at most, comes back when its holder      *)
(* fails, is published only with its whole cost on record, and nothing      *)
(* regresses, for any number of events, workers and attempts and however    *)
(* long a worker stalls.                                                    *)
(*                                                                         *)
(* Reward: payments follow a decision that nobody disputed in time, or a    *)
(* ruling, whatever overlaps or fails; and as long as no two transactions   *)
(* are at one row, the account, the policies, the locks and the provider    *)
(* agree, for any number of policies, executions, requests and amounts.     *)
(*                                                                         *)
(* Both need numbers that are not bounded: the delays of the outbox are     *)
(* defined by recursion, the balances of the ledger as sums over finite     *)
(* sets.  What is needed about either is proved first.                      *)
(***************************************************************************)
EXTENDS Outbox, Reward, FiniteSetTheorems, WellFoundedInduction, TLAPS

-----------------------------------------------------------------------------
(* Numbers.                                                                 *)

\* The order of the natural numbers, as the library's theorem wants it.
LEMMA LessThan == \E R : IsWellFoundedOn(R, Nat) /\ \A x, y \in Nat : <<y, x>> \in R <=> y < x
<1>1. PICK R : R = OpToRel(<, Nat)
  OBVIOUS
<1>2. IsWellFoundedOn(R, Nat)
  BY <1>1, NatLessThanWellFounded
<1>3. \A x, y \in Nat : <<y, x>> \in R <=> y < x
  BY <1>1 DEF OpToRel
<1> QED
  BY <1>2, <1>3

\* Some numbers have a smallest one.
LEMMA Smallest ==
  ASSUME NEW T \in SUBSET Nat, T # {}
  PROVE  \E x \in T : \A y \in T : x <= y
<1>1. PICK R : IsWellFoundedOn(R, Nat) /\ \A x, y \in Nat : <<y, x>> \in R <=> y < x
  BY LessThan
<1>2. \E x \in T : \A y \in T : ~ (<<y, x>> \in R)
  BY <1>1, WFMin
<1>3. \A x, y \in Nat : ~ (y < x) => x <= y
  OBVIOUS
<1> QED
  BY <1>1, <1>2, <1>3

\* Induction, for a set of numbers.
LEMMA Induct ==
  ASSUME NEW S \in SUBSET Nat, 0 \in S, \A n \in S : n + 1 \in S
  PROVE  S = Nat
<1> SUFFICES ASSUME S # Nat PROVE FALSE
  OBVIOUS
<1>1. PICK x \in Nat \ S : \A y \in Nat \ S : x <= y
  BY Smallest
<1>2. x # 0 /\ x - 1 \in Nat
  BY <1>1
<1>3. x - 1 \in S
  BY <1>1, <1>2
<1> QED
  BY <1>1, <1>3

-----------------------------------------------------------------------------
(* Sums over finite sets.                                                   *)

\* The summand that is taken next.
Pick(s) == CHOOSE x \in s : TRUE

\* One summand, and the rest.
Step(f, h, s) == IF s = {} THEN 0 ELSE f[Pick(s)] + h[s \ {Pick(s)}]

\* The sums over all subsets of a set.
SumsOf(f, S, h) == h = [s \in SUBSET S |-> Step(f, h, s)]

\* The subsets with at most so many elements.
UpTo(S, n) == {s \in SUBSET S : Cardinality(s) <= n}

LEMMA Picked ==
  ASSUME NEW s, s # {}, IsFiniteSet(s)
  PROVE  /\ Pick(s) \in s /\ IsFiniteSet(s \ {Pick(s)})
         /\ Cardinality(s \ {Pick(s)}) = Cardinality(s) - 1
         /\ Cardinality(s \ {Pick(s)}) < Cardinality(s)
<1>1. Pick(s) \in s
  BY DEF Pick
<1>2. Cardinality(s) \in Nat
  BY FS_CardinalityType
<1>3. Cardinality(s \ {Pick(s)}) = Cardinality(s) - 1 /\ IsFiniteSet(s \ {Pick(s)})
  BY <1>1, FS_RemoveElement
<1> QED
  BY <1>1, <1>2, <1>3

SumsUpTo(f, S, n, h) == DOMAIN h = SUBSET S /\ \A s \in UpTo(S, n) : h[s] = Step(f, h, s)

LEMMA SumsAtMost ==
  ASSUME NEW f, NEW S, IsFiniteSet(S), NEW n \in Nat
  PROVE  \E h : SumsUpTo(f, S, n, h)
<1> DEFINE P == {m \in Nat : \E h : SumsUpTo(f, S, m, h)}
<1>1. 0 \in P
  <2>1. PICK h : h = [s \in SUBSET S |-> 0]
    OBVIOUS
  <2>2. ASSUME NEW s \in UpTo(S, 0) PROVE s = {}
    <3>1. IsFiniteSet(s) /\ Cardinality(s) \in Nat /\ Cardinality(s) <= 0
      BY FS_Subset, FS_CardinalityType DEF UpTo
    <3> QED
      BY <3>1, FS_EmptySet
  <2>3. \A s \in UpTo(S, 0) : h[s] = Step(f, h, s)
    BY <2>1, <2>2 DEF Step
  <2> QED
    BY <2>1, <2>3 DEF SumsUpTo
<1>2. ASSUME NEW m \in P PROVE m + 1 \in P
  <2>1. m \in Nat /\ \E h : SumsUpTo(f, S, m, h)
    OBVIOUS
  <2>2. PICK h : SumsUpTo(f, S, m, h)
    BY <2>1
  <2>3. PICK k : k = [s \in SUBSET S |-> Step(f, h, s)]
    OBVIOUS
  <2>4. \A s \in UpTo(S, m) : k[s] = h[s]
    BY <2>2, <2>3 DEF UpTo, SumsUpTo
  <2>5. ASSUME NEW s \in UpTo(S, m + 1) PROVE k[s] = Step(f, k, s)
    <3>1. s \in SUBSET S /\ IsFiniteSet(s) /\ Cardinality(s) \in Nat /\ Cardinality(s) <= m + 1
      BY FS_Subset, FS_CardinalityType DEF UpTo
    <3>2. k[s] = Step(f, h, s)
      BY <2>3, <3>1
    <3>3. CASE s = {}
      BY <3>2, <3>3 DEF Step
    <3>4. CASE s # {}
      <4>1. s \ {Pick(s)} \in UpTo(S, m)
        <5>1. Cardinality(s \ {Pick(s)}) = Cardinality(s) - 1
          BY <3>1, <3>4, Picked
        <5>2. Cardinality(s) - 1 <= m
          BY <2>1, <3>1
        <5> QED
          BY <3>1, <5>1, <5>2 DEF UpTo
      <4> QED
        BY <2>4, <3>2, <4>1 DEF Step
    <3> QED
      BY <3>3, <3>4
  <2>6. DOMAIN k = SUBSET S
    BY <2>3
  <2> QED
    BY <2>1, <2>5, <2>6 DEF SumsUpTo
<1> HIDE DEF P
<1>3. P = Nat
  BY <1>1, <1>2, Induct DEF P
<1> QED
  BY <1>3 DEF P

\* The library's sum over a finite set is such a sum.
LEMMA SumIs ==
  ASSUME NEW f, NEW S, IsFiniteSet(S)
  PROVE  \E h : SumsOf(f, S, h) /\ SumFunctionOnSet(f, S) = h[S]
<1>1. PICK n : n \in Nat /\ n = Cardinality(S)
  BY FS_CardinalityType
<1>2. PICK k : SumsUpTo(f, S, n, k)
  BY <1>1, SumsAtMost
<1>3. ASSUME NEW s \in SUBSET S PROVE s \in UpTo(S, n)
  BY <1>1, FS_Subset DEF UpTo
<1>4. PICK g : g = [s \in SUBSET S |-> k[s]]
  OBVIOUS
<1>5. \A s \in SUBSET S : g[s] = Step(f, g, s)
  BY <1>2, <1>3, <1>4 DEF Step, SumsUpTo
<1>6. g = [s \in SUBSET S |-> Step(f, g, s)]
  BY <1>4, <1>5
<1>7. g = [s \in SUBSET S |-> IF s = {} THEN 0 ELSE f[Pick(s)] + g[s \ {Pick(s)}]]
  BY <1>6 DEF Step
<1>8. PICK h : h = CHOOSE q : q = [s \in SUBSET S |-> IF s = {} THEN 0 ELSE f[Pick(s)] + q[s \ {Pick(s)}]]
  OBVIOUS
<1>9. h = [s \in SUBSET S |-> IF s = {} THEN 0 ELSE f[Pick(s)] + h[s \ {Pick(s)}]]
  BY <1>7, <1>8
<1>10. SumsOf(f, S, h)
  BY <1>9 DEF SumsOf, Step
<1>11. SumFunctionOnSet(f, S) = h[S]
  BY <1>8 DEF SumFunctionOnSet, FoldFunctionOnSet, MapThenFoldSet, Pick
<1> QED
  BY <1>10, <1>11

\* An induction over the size of the subsets.
LEMMA BySize ==
  ASSUME NEW S, IsFiniteSet(S), NEW Q \in SUBSET SUBSET S,
         \A s \in SUBSET S : (\A t \in SUBSET s : Cardinality(t) < Cardinality(s) => t \in Q) => s \in Q
  PROVE  Q = SUBSET S
<1> DEFINE P == {m \in Nat : UpTo(S, m) \subseteq Q}
<1>0. ASSUME NEW s \in SUBSET S PROVE IsFiniteSet(s) /\ Cardinality(s) \in Nat
  BY FS_Subset, FS_CardinalityType
<1>1. 0 \in P
  <2>1. ASSUME NEW s \in UpTo(S, 0), NEW t \in SUBSET s,
               Cardinality(t) < Cardinality(s) PROVE FALSE
    <3>1. s \in SUBSET S /\ t \in SUBSET S /\ Cardinality(s) <= 0
      BY DEF UpTo
    <3> QED
      BY <1>0, <2>1, <3>1
  <2> QED
    BY <2>1 DEF UpTo
<1>2. ASSUME NEW m \in P PROVE m + 1 \in P
  <2>1. m \in Nat /\ UpTo(S, m) \subseteq Q
    OBVIOUS
  <2>2. ASSUME NEW s \in UpTo(S, m + 1), NEW t \in SUBSET s,
               Cardinality(t) < Cardinality(s) PROVE t \in Q
    <3>1. s \in SUBSET S /\ t \in SUBSET S /\ Cardinality(s) <= m + 1
      BY DEF UpTo
    <3>2. Cardinality(t) <= m
      BY <1>0, <2>1, <2>2, <3>1
    <3> QED
      BY <2>1, <3>1, <3>2 DEF UpTo
  <2>3. UpTo(S, m + 1) \subseteq Q
    BY <2>2 DEF UpTo
  <2> QED
    BY <2>1, <2>3
<1> HIDE DEF P
<1>3. P = Nat
  BY <1>1, <1>2, Induct DEF P
<1>4. ASSUME NEW s \in SUBSET S PROVE s \in Q
  <2>1. Cardinality(s) \in P
    BY <1>0, <1>3
  <2> QED
    BY <1>0, <2>1 DEF P, UpTo
<1> QED
  BY <1>4

LEMMA SumStep ==
  ASSUME NEW f, NEW S, NEW h, SumsOf(f, S, h), NEW s \in SUBSET S
  PROVE  h[s] = Step(f, h, s)
BY DEF SumsOf

\* Equal summands have equal sums.
LEMMA SumEqual ==
  ASSUME NEW f, NEW g, NEW S, IsFiniteSet(S), \A x \in S : f[x] = g[x]
  PROVE  SumFunctionOnSet(f, S) = SumFunctionOnSet(g, S)
<1>1. PICK h : SumsOf(f, S, h) /\ SumFunctionOnSet(f, S) = h[S]
  BY SumIs
<1>2. PICK k : SumsOf(g, S, k) /\ SumFunctionOnSet(g, S) = k[S]
  BY SumIs
<1> DEFINE Q == {s \in SUBSET S : h[s] = k[s]}
<1>3. ASSUME NEW s \in SUBSET S, \A t \in SUBSET s : Cardinality(t) < Cardinality(s) => t \in Q
      PROVE  s \in Q
  <2>1. h[s] = Step(f, h, s) /\ k[s] = Step(g, k, s)
    BY <1>1, <1>2, SumStep
  <2>2. CASE s = {}
    BY <2>1, <2>2 DEF Step
  <2>3. CASE s # {}
    <3>1. IsFiniteSet(s) /\ Cardinality(s) \in Nat
      BY FS_Subset, FS_CardinalityType
    <3>2. Pick(s) \in s /\ s \ {Pick(s)} \in SUBSET s /\ Cardinality(s \ {Pick(s)}) < Cardinality(s)
      BY <2>3, <3>1, Picked
    <3>3. s \ {Pick(s)} \in Q
      BY <1>3, <3>2
    <3>4. f[Pick(s)] = g[Pick(s)]
      BY <3>2
    <3> QED
      BY <2>1, <3>3, <3>4 DEF Step
  <2> QED
    BY <2>2, <2>3
<1> HIDE DEF Q
<1>4. Q = SUBSET S
  <2>1. Q \in SUBSET SUBSET S
    BY DEF Q
  <2> QED
    BY <1>3, <2>1, BySize
<1> QED
  BY <1>1, <1>2, <1>4 DEF Q

\* A sum of numbers is a number.
LEMMA SumsAreInt ==
  ASSUME NEW f, NEW S, IsFiniteSet(S), \A x \in S : f[x] \in Int, NEW h, SumsOf(f, S, h)
  PROVE  \A s \in SUBSET S : h[s] \in Int
<1> DEFINE Q == {s \in SUBSET S : h[s] \in Int}
<1>3. ASSUME NEW s \in SUBSET S, \A t \in SUBSET s : Cardinality(t) < Cardinality(s) => t \in Q
      PROVE  s \in Q
  <2>1. h[s] = Step(f, h, s)
    BY SumStep
  <2>2. CASE s = {}
    BY <2>1, <2>2 DEF Step
  <2>3. CASE s # {}
    <3>1. IsFiniteSet(s) /\ Cardinality(s) \in Nat
      BY FS_Subset, FS_CardinalityType
    <3>2. Pick(s) \in s /\ s \ {Pick(s)} \in SUBSET s /\ Cardinality(s \ {Pick(s)}) < Cardinality(s)
      BY <2>3, <3>1, Picked
    <3>3. h[s \ {Pick(s)}] \in Int
      BY <1>3, <3>2
    <3>4. f[Pick(s)] \in Int
      BY <3>2
    <3> QED
      BY <2>1, <2>3, <3>3, <3>4 DEF Step
  <2> QED
    BY <2>2, <2>3
<1> HIDE DEF Q
<1>4. Q = SUBSET S
  <2>1. Q \in SUBSET SUBSET S
    BY DEF Q
  <2> QED
    BY <1>3, <2>1, BySize
<1> QED
  BY <1>4 DEF Q

\* Any summand may be taken first.
OrderFree(f, S, h) == \A s \in SUBSET S : \A x \in s : h[s] = f[x] + h[s \ {x}]

\* The order of the summands does not matter: any of them may come first.
LEMMA AnyFirst ==
  ASSUME NEW f, NEW S, IsFiniteSet(S), \A x \in S : f[x] \in Int, NEW h, SumsOf(f, S, h)
  PROVE  OrderFree(f, S, h)
<1> DEFINE Q == {s \in SUBSET S : \A x \in s : h[s] = f[x] + h[s \ {x}]}
<1>3. ASSUME NEW s \in SUBSET S, \A t \in SUBSET s : Cardinality(t) < Cardinality(s) => t \in Q
      PROVE  s \in Q
  <2>1. ASSUME NEW x \in s PROVE h[s] = f[x] + h[s \ {x}]
    <3>1. IsFiniteSet(s) /\ Cardinality(s) \in Nat
      BY FS_Subset, FS_CardinalityType
    <3>2. PICK y : y = Pick(s)
      OBVIOUS
    <3>3. y \in s /\ h[s] = f[y] + h[s \ {y}]
      BY <3>1, <3>2, SumStep, Picked DEF Step
    <3>4. CASE x = y
      BY <3>3, <3>4
    <3>5. CASE x # y
      <4>1. /\ s \ {x} \in SUBSET s /\ s \ {y} \in SUBSET s
            /\ Cardinality(s \ {x}) < Cardinality(s) /\ Cardinality(s \ {y}) < Cardinality(s)
        <5>1. Cardinality(s \ {x}) = Cardinality(s) - 1 /\ Cardinality(s \ {y}) = Cardinality(s) - 1
          BY <3>1, <3>3, FS_RemoveElement
        <5> QED
          BY <3>1, <3>3, <5>1
      <4>2. s \ {x} \in Q /\ s \ {y} \in Q
        BY <1>3, <4>1
      <4>3. h[s \ {x}] = f[y] + h[(s \ {x}) \ {y}] /\ h[s \ {y}] = f[x] + h[(s \ {y}) \ {x}]
        BY <3>3, <3>5, <4>2
      <4>4. (s \ {x}) \ {y} = (s \ {y}) \ {x}
        OBVIOUS
      <4>5. h[(s \ {x}) \ {y}] \in Int
        <5>1. \A t \in SUBSET S : h[t] \in Int
          BY SumsAreInt
        <5> QED
          BY <5>1
      <4>6. f[x] \in Int /\ f[y] \in Int
        BY <3>3
      <4>7. PICK u, v, w : u = f[x] /\ v = f[y] /\ w = h[(s \ {x}) \ {y}]
        OBVIOUS
      <4>8. h[s] = v + (u + w) /\ h[s \ {x}] = v + w
        BY <3>3, <4>3, <4>4, <4>7
      <4>9. v + (u + w) = u + (v + w)
        BY <4>5, <4>6, <4>7
      <4> QED
        BY <4>7, <4>8, <4>9
    <3> QED
      BY <3>4, <3>5
  <2> QED
    BY <2>1
<1> HIDE DEF Q
<1>4. Q = SUBSET S
  <2>1. Q \in SUBSET SUBSET S
    BY DEF Q
  <2> QED
    BY <1>3, <2>1, BySize
<1> QED
  BY <1>4 DEF Q, OrderFree

\* Nothing adds up to zero,
LEMMA SumOfNone == ASSUME NEW f PROVE SumFunctionOnSet(f, {}) = 0
<1>1. PICK h : SumsOf(f, {}, h) /\ SumFunctionOnSet(f, {}) = h[{}]
  BY SumIs, FS_EmptySet
<1>2. h[{}] = Step(f, h, {})
  BY <1>1, SumStep
<1> QED
  BY <1>1, <1>2 DEF Step

\* integers to an integer,
LEMMA SumIsInt ==
  ASSUME NEW f, NEW S, IsFiniteSet(S), \A x \in S : f[x] \in Int
  PROVE  SumFunctionOnSet(f, S) \in Int
BY SumIs, SumsAreInt

\* and one summand more adds itself.
LEMMA SumOfOneMore ==
  ASSUME NEW f, NEW S, IsFiniteSet(S), NEW x, x \notin S, \A y \in S \cup {x} : f[y] \in Int
  PROVE  /\ SumFunctionOnSet(f, S \cup {x}) = SumFunctionOnSet(f, S) + f[x]
         /\ SumFunctionOnSet(f, S) \in Int
<1> DEFINE T == S \cup {x}
<1>1. IsFiniteSet(T)
  BY FS_AddElement
<1>2. PICK h : SumsOf(f, T, h) /\ SumFunctionOnSet(f, T) = h[T]
  BY <1>1, SumIs
<1>3. PICK k : SumsOf(f, S, k) /\ SumFunctionOnSet(f, S) = k[S]
  BY SumIs
<1>4. h[T] = f[x] + h[T \ {x}]
  <2>0. \A y \in T : f[y] \in Int
    OBVIOUS
  <2> HIDE DEF T
  <2>1. OrderFree(f, T, h)
    <3>1. SumsOf(f, T, h)
      BY <1>2
    <3> QED
      BY <1>1, <2>0, <3>1, AnyFirst
  <2>2. T \in SUBSET T /\ x \in T
    BY DEF T
  <2> QED
    BY <2>1, <2>2 DEF OrderFree
<1>5. T \ {x} = S
  OBVIOUS
<1> DEFINE Q == {s \in SUBSET S : h[s] = k[s]}
<1> HIDE DEF T
<1>6. ASSUME NEW s \in SUBSET S, \A t \in SUBSET s : Cardinality(t) < Cardinality(s) => t \in Q
      PROVE  s \in Q
  <2>0. s \in SUBSET T
    BY DEF T
  <2>1. h[s] = Step(f, h, s) /\ k[s] = Step(f, k, s)
    BY <1>2, <1>3, <2>0, SumStep
  <2>2. CASE s = {}
    BY <2>1, <2>2 DEF Step
  <2>3. CASE s # {}
    <3>1. IsFiniteSet(s) /\ Cardinality(s) \in Nat
      BY FS_Subset, FS_CardinalityType
    <3>2. Pick(s) \in s /\ s \ {Pick(s)} \in SUBSET s /\ Cardinality(s \ {Pick(s)}) < Cardinality(s)
      BY <2>3, <3>1, Picked
    <3>3. s \ {Pick(s)} \in Q
      BY <1>6, <3>2
    <3> QED
      BY <2>1, <3>3 DEF Step
  <2> QED
    BY <2>2, <2>3
<1> HIDE DEF Q
<1>7. Q = SUBSET S
  <2>1. Q \in SUBSET SUBSET S
    BY DEF Q
  <2> QED
    BY <1>6, <2>1, BySize
<1>8. h[S] = k[S]
  BY <1>7 DEF Q
<1>9. k[S] \in Int /\ f[x] \in Int
  BY <1>3, SumIsInt
<1>10. PICK u, v : u = f[x] /\ v = SumFunctionOnSet(f, S)
  OBVIOUS
<1>11. u \in Int /\ v \in Int /\ SumFunctionOnSet(f, T) = u + v
  BY <1>2, <1>3, <1>4, <1>5, <1>8, <1>9, <1>10
<1>12. u + v = v + u
  BY <1>11
<1> QED
  BY <1>10, <1>11, <1>12 DEF T

\* One summand less takes itself away.
LEMMA SumOfOneLess ==
  ASSUME NEW f, NEW S, IsFiniteSet(S), NEW x \in S, \A y \in S : f[y] \in Int
  PROVE  /\ SumFunctionOnSet(f, S \ {x}) = SumFunctionOnSet(f, S) - f[x]
         /\ SumFunctionOnSet(f, S) \in Int
<1>1. IsFiniteSet(S \ {x}) /\ x \notin S \ {x} /\ (S \ {x}) \cup {x} = S
  BY FS_RemoveElement
<1>2. /\ SumFunctionOnSet(f, (S \ {x}) \cup {x}) = SumFunctionOnSet(f, S \ {x}) + f[x]
      /\ SumFunctionOnSet(f, S \ {x}) \in Int
  BY <1>1, SumOfOneMore
<1>3. PICK u, v : u = f[x] /\ v = SumFunctionOnSet(f, S \ {x})
  OBVIOUS
<1>4. u \in Int /\ v \in Int /\ SumFunctionOnSet(f, S) = v + u
  BY <1>1, <1>2, <1>3
<1>5. v = (v + u) - u /\ v + u \in Int
  BY <1>4
<1> QED
  BY <1>3, <1>4, <1>5

-----------------------------------------------------------------------------
(* Outbox: the invariant.                                                   *)

Types ==
  /\ ev \in [Events -> EventRow]
  /\ usage \in [Execs -> 0 .. 3]
  /\ wk \in [Workers -> Worker]
  /\ time \in Nat

\* A batch has one claim of an event.
OnePerEvent == \A w \in Workers : \A c, d \in wk[w].batch : c.id = d.id => c = d

\* No lease on an event that is still to be published is longer than its row's.
NoneBeyond == \A w \in Workers : \A c \in wk[w].batch :
                ~ ev[c.id].published => c.until <= ev[c.id].until

\* The leases of an event that others remember were over when its holder
\* claimed it.
OthersOver ==
  \A w, v \in Workers : \A c \in wk[w].batch, d \in wk[v].batch :
    c.id = d.id /\ Owns(c) /\ w # v => d.until <= c.until - claimDuration(c.attempts)

OutboxInv ==
  /\ Types /\ OnePerEvent /\ NoneBeyond /\ OthersOver
  /\ RetryIsBounded /\ PublishedIsSettled

-----------------------------------------------------------------------------
(* The delays.                                                              *)

\* The delays up to some exponent, one from the other.
Delays(base, n, d) ==
  d = [k \in 0 .. n |-> IF k = 0 THEN base ELSE Doubled(d[k - 1])]

\* There are such delays,
LEMMA DelaysExist == ASSUME NEW base, NEW n \in Nat PROVE \E d : Delays(base, n, d)
<1> DEFINE S == {m \in Nat : \E d : Delays(base, m, d)}
<1>1. 0 \in S
  <2>1. PICK d : d = [k \in 0 .. 0 |-> base]
    OBVIOUS
  <2>2. \A k \in 0 .. 0 : k = 0
    OBVIOUS
  <2>3. d = [k \in 0 .. 0 |-> IF k = 0 THEN base ELSE Doubled(d[k - 1])]
    BY <2>1, <2>2
  <2> QED
    BY <2>3 DEF Delays
<1>2. ASSUME NEW m \in S PROVE m + 1 \in S
  <2>1. m \in Nat /\ \E d : Delays(base, m, d)
    OBVIOUS
  <2>2. PICK d : Delays(base, m, d)
    BY <2>1
  <2>3. PICK f : f = [k \in 0 .. m + 1 |-> IF k \in 0 .. m THEN d[k] ELSE Doubled(d[m])]
    OBVIOUS
  <2>4. PICK g : g = [k \in 0 .. m + 1 |-> IF k = 0 THEN base ELSE Doubled(f[k - 1])]
    OBVIOUS
  <2>5. ASSUME NEW k \in 0 .. m + 1 PROVE f[k] = g[k]
    <3>1. CASE k = 0
      BY <2>1, <2>2, <2>3, <2>4, <3>1 DEF Delays
    <3>2. CASE k # 0 /\ k # m + 1
      <4>1. k \in 0 .. m /\ k - 1 \in 0 .. m /\ k - 1 \in 0 .. m + 1
        BY <2>1, <3>2
      <4>2. f[k] = d[k] /\ f[k - 1] = d[k - 1]
        BY <2>3, <4>1
      <4>3. d[k] = Doubled(d[k - 1])
        BY <2>2, <3>2, <4>1 DEF Delays
      <4>4. g[k] = Doubled(f[k - 1])
        BY <2>4, <3>2
      <4> QED
        BY <4>2, <4>3, <4>4
    <3>3. CASE k = m + 1
      <4>1. k # 0 /\ ~ (k \in 0 .. m) /\ k - 1 = m /\ m \in 0 .. m /\ m \in 0 .. m + 1
        BY <2>1, <3>3
      <4>2. f[k] = Doubled(d[m]) /\ f[m] = d[m] /\ g[k] = Doubled(f[m])
        BY <2>3, <2>4, <4>1
      <4> QED
        BY <4>2
    <3> QED
      BY <3>1, <3>2, <3>3
  <2>6. f = g
    BY <2>3, <2>4, <2>5
  <2>7. Delays(base, m + 1, f)
    BY <2>4, <2>6 DEF Delays
  <2> QED
    BY <2>1, <2>7
<1> HIDE DEF S
<1>3. S = Nat
  BY <1>1, <1>2, Induct DEF S
<1> QED
  BY <1>3 DEF S

\* and none of them is longer than the cap.
LEMMA DelaysBounded ==
  ASSUME NEW base \in Nat \ {0}, base <= Cap, NEW n \in Nat, NEW d, Delays(base, n, d)
  PROVE  d[n] \in 1 .. Cap
<1> DEFINE S == {m \in Nat : m <= n => d[m] \in 1 .. Cap}
<1>0. Cap \in Nat
  BY OutboxAssumption
<1>1. 0 \in S
  <2>1. d[0] = base
    BY DEF Delays
  <2> QED
    BY <1>0, <2>1
<1>2. ASSUME NEW m \in S PROVE m + 1 \in S
  <2>1. m \in Nat /\ (m <= n => d[m] \in 1 .. Cap)
    OBVIOUS
  <2>2. CASE m + 1 <= n
    <3>1. m + 1 \in 0 .. n /\ m + 1 # 0 /\ (m + 1) - 1 = m
      BY <2>1, <2>2
    <3>2. d[m + 1] = Doubled(d[m])
      BY <3>1 DEF Delays
    <3>3. d[m] \in 1 .. Cap
      BY <2>1, <2>2
    <3>4. Doubled(d[m]) \in 1 .. Cap
      BY <1>0, <3>3 DEF Doubled
    <3> QED
      BY <2>1, <3>2, <3>4
  <2> QED
    BY <2>1, <2>2
<1> HIDE DEF S
<1>3. S = Nat
  BY <1>1, <1>2, Induct DEF S
<1> QED
  BY <1>3 DEF S

\* A delay is at least a tick and at most the cap, however often an event has
\* failed.
LEMMA Capped ==
  ASSUME NEW base \in Nat \ {0}, base <= Cap, NEW n \in Nat
  PROVE  cappedExponential(base, n) \in 1 .. Cap
<1>1. PICK d : d = CHOOSE f : f = [k \in 0 .. n |-> IF k = 0 THEN base ELSE Doubled(f[k - 1])]
  OBVIOUS
<1>2. Delays(base, n, d)
  BY <1>1, DelaysExist DEF Delays
<1>3. cappedExponential(base, n) = d[n]
  BY <1>1 DEF cappedExponential
<1> QED
  BY <1>2, <1>3, DelaysBounded

\* The delays of claims and retries.
LEMMA DelayTypes ==
  ASSUME NEW n \in Nat
  PROVE  claimDuration(n) \in 1 .. Cap /\ backoff(n) \in 1 .. Cap /\ Cap \in Nat
  BY OutboxAssumption, Capped DEF claimDuration, backoff

-----------------------------------------------------------------------------
(* Steps that take over nothing.                                            *)

\* No observation is lost.
NoLess == \A x \in Execs : usage'[x] >= usage[x]

BatchesShrink == \A w \in Workers : wk'[w].batch \subseteq wk[w].batch

\* Whether the leases of an event stand as they did.
RowStands(e) == ev'[e].until = ev[e].until /\ ev'[e].published = ev[e].published

\* What is on record stays on record.
LEMMA RecordedStays ==
  ASSUME OutboxInv, Types', NoLess, NEW e \in Events, RowStands(e)
  PROVE  ev'[e].published /\ Kind[e] = "execution" /\ ~ Disabled => usage'[ExecOf[e]] = Complete
<1> SUFFICES ASSUME ev'[e].published, Kind[e] = "execution", ~ Disabled
             PROVE  usage'[ExecOf[e]] = Complete
  OBVIOUS
<1>1. ExecOf[e] \in Execs
  BY OutboxAssumption
<1>2. usage[ExecOf[e]] = 3
  BY DEF OutboxInv, PublishedIsSettled, Complete, RowStands
<1>3. usage'[ExecOf[e]] \in 0 .. 3 /\ usage'[ExecOf[e]] >= 3
  BY <1>1, <1>2 DEF NoLess, Types
<1> QED
  BY <1>3 DEF Complete

\* A step that publishes nothing and postpones nothing.
LEMMA Quiet ==
  ASSUME OutboxInv, Types', NoLess, BatchesShrink, time <= time',
         \A e \in Events : RowStands(e)
  PROVE  OutboxInv'
<1>1. ASSUME NEW w \in Workers, NEW c \in wk'[w].batch PROVE c \in wk[w].batch /\ c \in Claim
  <2>1. wk[w].batch \subseteq Claim
    BY DEF OutboxInv, Types, Worker
  <2> QED
    BY <2>1 DEF BatchesShrink
<1>2. OnePerEvent'
  BY <1>1 DEF OutboxInv, OnePerEvent
<1>3. NoneBeyond'
  BY <1>1 DEF OutboxInv, NoneBeyond, RowStands, Claim
<1>4. OthersOver'
  <2> SUFFICES ASSUME NEW w \in Workers, NEW v \in Workers,
                      NEW c \in wk'[w].batch, NEW d \in wk'[v].batch,
                      c.id = d.id, Owns(c)', w # v
               PROVE  d.until <= c.until - claimDuration(c.attempts)
    BY DEF OthersOver, claimDuration, cappedExponential
  <2>1. Owns(c)
    BY <1>1 DEF Owns, RowStands, Claim
  <2> QED
    BY <1>1, <2>1 DEF OutboxInv, OthersOver
<1>5. RetryIsBounded'
  <2> SUFFICES ASSUME NEW e \in Events PROVE ev'[e].until <= time' + Cap
    BY DEF RetryIsBounded
  <2>1. ev[e].until <= time + Cap /\ ev'[e].until = ev[e].until
    BY DEF OutboxInv, RetryIsBounded, RowStands
  <2>2. ev[e].until \in Nat /\ time \in Nat /\ time' \in Nat /\ Cap \in Nat
    BY OutboxAssumption DEF OutboxInv, Types, EventRow
  <2> QED
    BY <2>1, <2>2
<1>6. PublishedIsSettled'
  BY RecordedStays DEF PublishedIsSettled
<1> QED
  BY <1>2, <1>3, <1>4, <1>5, <1>6 DEF OutboxInv

\* A step that publishes or postpones one event and leaves no holder of it.
LEMMA OneEvent ==
  ASSUME OutboxInv, Types', NoLess, BatchesShrink, UNCHANGED time,
         NEW e \in Events, \A f \in Events \ {e} : RowStands(f),
         \A w \in Workers : \A c \in wk'[w].batch :
           c.id = e => ev'[e].published \/ c.until < ev'[e].until,
         ev'[e].until <= time + Cap,
         ev'[e].published /\ Kind[e] = "execution" /\ ~ Disabled => usage'[ExecOf[e]] = Complete
  PROVE  OutboxInv'
<1>1. ASSUME NEW w \in Workers, NEW c \in wk'[w].batch
      PROVE  c \in wk[w].batch /\ c \in Claim /\ (c.id = e => ~ Owns(c)')
  <2>1. wk[w].batch \subseteq Claim
    BY DEF OutboxInv, Types, Worker
  <2>2. c \in wk[w].batch /\ c \in Claim
    BY <2>1 DEF BatchesShrink
  <2>3. ev'[e].until \in Nat /\ c.until \in Nat
    BY <2>2 DEF Types, EventRow, Claim
  <2> QED
    BY <2>2, <2>3 DEF Owns
<1>2. OnePerEvent'
  BY <1>1 DEF OutboxInv, OnePerEvent
<1>3. NoneBeyond'
  <2> SUFFICES ASSUME NEW w \in Workers, NEW c \in wk'[w].batch, ~ ev'[c.id].published
               PROVE  c.until <= ev'[c.id].until
    BY DEF NoneBeyond
  <2>1. c.id \in Events /\ c.until \in Nat /\ ev'[c.id].until \in Nat
    BY <1>1 DEF Claim, Types, EventRow
  <2>2. CASE c.id = e
    BY <2>1, <2>2
  <2>3. CASE c.id # e
    BY <1>1, <2>1, <2>3 DEF OutboxInv, NoneBeyond, RowStands
  <2> QED
    BY <2>2, <2>3
<1>4. OthersOver'
  <2> SUFFICES ASSUME NEW w \in Workers, NEW v \in Workers,
                      NEW c \in wk'[w].batch, NEW d \in wk'[v].batch,
                      c.id = d.id, Owns(c)', w # v
               PROVE  d.until <= c.until - claimDuration(c.attempts)
    BY DEF OthersOver, claimDuration, cappedExponential
  <2>1. Owns(c)
    BY <1>1 DEF Owns, RowStands, Claim
  <2> QED
    BY <1>1, <2>1 DEF OutboxInv, OthersOver
<1>5. RetryIsBounded'
  BY DEF OutboxInv, RetryIsBounded, RowStands
<1>6. PublishedIsSettled'
  <2>1. \A f \in Events \ {e} : ev'[f].published /\ Kind[f] = "execution" /\ ~ Disabled
                                  => usage'[ExecOf[f]] = Complete
    BY RecordedStays
  <2> QED
    BY <2>1 DEF PublishedIsSettled
<1> QED
  BY <1>2, <1>3, <1>4, <1>5, <1>6 DEF OutboxInv

-----------------------------------------------------------------------------
(* The steps of a worker.                                                   *)

\* The claim a worker is at is one of its batch.
LEMMA CurrentIsIn ==
  ASSUME Types, NEW w \in Workers, wk[w].batch # {}
  PROVE  Current(w) \in wk[w].batch /\ Current(w) \in Claim
<1>1. PICK B : B = wk[w].batch
  OBVIOUS
<1>2. B \in SUBSET Claim /\ B # {}
  BY <1>1 DEF Types, Worker
<1>3. PICK T : T = {c.id : c \in B}
  OBVIOUS
<1>4. T \in SUBSET Nat /\ T # {}
  BY <1>2, <1>3, OutboxAssumption DEF Claim, Events
<1>5. PICK x \in T : \A y \in T : x <= y
  BY <1>4, Smallest
<1>6. \E c \in B : \A d \in B : c.id <= d.id
  BY <1>3, <1>5
<1>7. Current(w) \in B
  BY <1>1, <1>6 DEF Current
<1> QED
  BY <1>1, <1>2, <1>7

\* A worker with nothing to do.
LEMMA Rows ==
  ASSUME NEW B \in SUBSET Claim
  PROVE  /\ Idle \in Worker /\ Idle.batch = {}
         /\ [Idle EXCEPT !.batch = B] \in Worker /\ [Idle EXCEPT !.batch = B].batch = B
  BY DEF Idle, Worker, NoRow

\* A worker goes on with less than it had.
LEMMA WorkerGoesOn ==
  ASSUME Types, NEW w \in Workers, NEW r \in Worker, r.batch \subseteq wk[w].batch,
         wk' = [wk EXCEPT ![w] = r]
  PROVE  wk' \in [Workers -> Worker] /\ BatchesShrink /\ wk'[w].batch = r.batch
  BY DEF Types, BatchesShrink

\* A worker gives its batch up.
LEMMA GivesUp ==
  ASSUME Types, NEW w \in Workers, GiveUp(w)
  PROVE  wk' \in [Workers -> Worker] /\ BatchesShrink
<1>1. Idle \in Worker /\ Idle.batch = {}
  BY Rows
<1> QED
  BY <1>1, WorkerGoesOn DEF GiveUp

\* Whoever settles the event at hand forgets it, and remembers no other claim
\* of it.
LEMMA IsDone ==
  ASSUME OutboxInv, NEW w \in Workers, wk[w].batch # {}, Done(w)
  PROVE  /\ wk' \in [Workers -> Worker] /\ BatchesShrink
         /\ \A c \in wk'[w].batch : c.id # Current(w).id
<1>1. PICK B : B = wk[w].batch \ {Current(w)}
  OBVIOUS
<1>2. wk[w].batch \in SUBSET Claim /\ Types
  BY DEF OutboxInv, Types, Worker
<1>3. B \in SUBSET Claim /\ B \subseteq wk[w].batch
  BY <1>1, <1>2
<1>4. PICK r : r = [Idle EXCEPT !.batch = B]
  OBVIOUS
<1>5. r \in Worker /\ r.batch = B
  BY <1>3, <1>4, Rows
<1>6. wk' = [wk EXCEPT ![w] = r]
  BY <1>1, <1>4 DEF Done
<1>7. wk' \in [Workers -> Worker] /\ BatchesShrink /\ wk'[w].batch = B
  BY <1>2, <1>3, <1>5, <1>6, WorkerGoesOn
<1>8. \A c \in B : c.id # Current(w).id
  BY <1>1, <1>2, CurrentIsIn DEF OutboxInv, OnePerEvent
<1> QED
  BY <1>7, <1>8

\* A step that changes no row.
LEMMA NoRowMoves ==
  ASSUME OutboxInv, wk' \in [Workers -> Worker], BatchesShrink, UNCHANGED <<ev, usage, time>>
  PROVE  OutboxInv' /\ NoLess
<1>1. Types'
  BY DEF OutboxInv, Types
<1>2. NoLess
  BY DEF NoLess, OutboxInv, Types
<1>3. time <= time' /\ \A e \in Events : RowStands(e)
  BY DEF RowStands, OutboxInv, Types
<1> QED
  BY <1>1, <1>2, <1>3, Quiet

\* The cost is known, or nobody asks for it, and the event is over.
LEMMA IsPublished ==
  ASSUME OutboxInv, Types', NoLess, UNCHANGED time,
         NEW w \in Workers, wk[w].batch # {}, Done(w),
         NEW e \in Events, e = Current(w).id,
         ev' = [ev EXCEPT ![e] = [@ EXCEPT !.published = TRUE, !.until = 0]],
         Kind[e] = "execution" /\ ~ Disabled => usage'[ExecOf[e]] = Complete
  PROVE  OutboxInv' /\ ev'[e].published
<1>1. ev \in [Events -> EventRow] /\ ev[e] \in EventRow
  BY DEF OutboxInv, Types
<1>2. PICK row : row = [ev[e] EXCEPT !.published = TRUE, !.until = 0]
  OBVIOUS
<1>3. row.published /\ row.until = 0
  BY <1>1, <1>2 DEF EventRow
<1>4. ev' = [ev EXCEPT ![e] = row]
  BY <1>2
<1>5. ev'[e] = row /\ \A f \in Events \ {e} : RowStands(f)
  BY <1>1, <1>4 DEF RowStands
<1>6. 0 <= time + Cap
  BY OutboxAssumption DEF OutboxInv, Types
<1>7. BatchesShrink
  BY IsDone
<1> QED
  BY <1>3, <1>5, <1>6, <1>7, OneEvent

\* What has been published is published.
PublishedStays == \A e \in Events : ev[e].published => ev'[e].published

\* An event that is not about an execution.
LEMMA MarkPublishedStep ==
  ASSUME OutboxInv, NEW w \in Workers, markPublished(w)
  PROVE  OutboxInv' /\ NoLess /\ PublishedStays
<1>1. PICK c : c = Current(w)
  OBVIOUS
<1>2. wk[w].batch # {} /\ Types
  BY DEF markPublished, At, OutboxInv
<1>3. c \in wk[w].batch /\ c \in Claim
  BY <1>1, <1>2, CurrentIsIn
<1>4. PICK e \in Events : e = c.id
  BY <1>3 DEF Claim
<1>5. UNCHANGED <<usage, time>> /\ Kind[e] = "plain"
  BY <1>1, <1>4 DEF markPublished
<1>6. NoLess
  BY <1>2, <1>5 DEF NoLess, Types
<1>7. CASE Owns(c)
  <2>1. ev' = [ev EXCEPT ![e] = [@ EXCEPT !.published = TRUE, !.until = 0]] /\ Done(w)
    BY <1>1, <1>4, <1>7 DEF markPublished
  <2>2. wk' \in [Workers -> Worker]
    BY <1>2, <2>1, IsDone
  <2>3. ev' \in [Events -> EventRow]
    <3>1. [ev[e] EXCEPT !.published = TRUE, !.until = 0] \in EventRow
      BY <1>2 DEF Types, EventRow
    <3> QED
      BY <1>2, <2>1, <3>1 DEF Types
  <2>4. Types'
    BY <1>2, <1>5, <2>2, <2>3 DEF Types
  <2>5. OutboxInv' /\ ev'[e].published
    BY <1>1, <1>2, <1>4, <1>5, <1>6, <2>1, <2>4, IsPublished
  <2>6. PublishedStays
    BY <2>1, <2>5 DEF PublishedStays, OutboxInv, Types
  <2> QED
    BY <1>6, <2>5, <2>6
<1>8. CASE ~ Owns(c)
  <2>1. GiveUp(w) /\ UNCHANGED ev
    BY <1>1, <1>8 DEF markPublished
  <2> QED
    BY <1>2, <1>5, <2>1, GivesUp, NoRowMoves DEF PublishedStays
<1> QED
  BY <1>7, <1>8

\* A worker learns something, or fails, and keeps its batch.
LEMMA NextPlace ==
  ASSUME OutboxInv, NEW w \in Workers, NEW s \in {"handle", "store", "fail"}, NEW o \in 0 .. 3,
         wk' = [wk EXCEPT ![w] = [@ EXCEPT !.step = s, !.seen = o]]
  PROVE  wk' \in [Workers -> Worker] /\ BatchesShrink
<1>1. wk[w] \in Worker /\ Types
  BY DEF OutboxInv, Types
<1>2. PICK r : r = [wk[w] EXCEPT !.step = s, !.seen = o]
  OBVIOUS
<1>3. r \in Worker /\ r.batch = wk[w].batch
  BY <1>1, <1>2 DEF Worker
<1>4. wk' = [wk EXCEPT ![w] = r]
  BY <1>2
<1> QED
  BY <1>1, <1>3, <1>4, WorkerGoesOn

\* A worker goes on to postpone its event.
LEMMA FailPlace ==
  ASSUME OutboxInv, NEW w \in Workers, Postpone(w)
  PROVE  wk' \in [Workers -> Worker] /\ BatchesShrink
<1>1. wk[w] \in Worker /\ Types
  BY DEF OutboxInv, Types
<1>2. PICK r : r = [wk[w] EXCEPT !.step = "fail", !.seen = NoRow]
  OBVIOUS
<1>3. r \in Worker /\ r.batch = wk[w].batch
  <2>1. r = [batch |-> wk[w].batch, step |-> "fail", seen |-> NoRow]
    BY <1>1, <1>2 DEF Worker
  <2>2. wk[w].batch \in SUBSET Claim /\ NoRow \in 0 .. 3
    BY <1>1 DEF Worker, NoRow
  <2> QED
    BY <2>1, <2>2 DEF Worker
<1>4. wk' = [wk EXCEPT ![w] = r]
  BY <1>2 DEF Postpone
<1> QED
  BY <1>1, <1>3, <1>4, WorkerGoesOn

\* The provider answers.
LEMMA ObserveStep ==
  ASSUME OutboxInv, NEW w \in Workers, Observe(w)
  PROVE  OutboxInv' /\ NoLess /\ PublishedStays
<1>1. UNCHANGED <<ev, usage, time>>
  BY DEF Observe
<1>2. PICK o \in {Unavailable, Partial, Complete} :
        wk' = [wk EXCEPT ![w] = [@ EXCEPT !.step = "store", !.seen = o]]
  BY DEF Observe
<1>3. o \in 0 .. 3
  BY DEF Unavailable, Partial, Complete
<1>4. wk' \in [Workers -> Worker] /\ BatchesShrink
  BY <1>2, <1>3, NextPlace
<1> QED
  BY <1>1, <1>4, NoRowMoves DEF PublishedStays

\* The handler fails.
LEMMA HandleFailsStep ==
  ASSUME OutboxInv, NEW w \in Workers, HandleFails(w)
  PROVE  OutboxInv' /\ NoLess /\ PublishedStays
<1>1. UNCHANGED <<ev, usage, time>> /\ Postpone(w)
  BY DEF HandleFails
<1> QED
  BY <1>1, FailPlace, NoRowMoves DEF PublishedStays

\* A worker dies.
LEMMA CrashStep ==
  ASSUME OutboxInv, NEW w \in Workers, WorkerDies(w)
  PROVE  OutboxInv' /\ NoLess /\ PublishedStays
<1>1. UNCHANGED <<ev, usage, time>> /\ GiveUp(w)
  BY DEF WorkerDies
<1> QED
  BY <1>1, GivesUp, NoRowMoves DEF PublishedStays, OutboxInv

\* What was observed is stored if it is no less than what is known, and settles
\* the event if it is complete.
LEMMA StoreStep ==
  ASSUME OutboxInv, NEW w \in Workers, Store(w)
  PROVE  OutboxInv' /\ NoLess /\ PublishedStays
<1>1. PICK c : c = Current(w)
  OBVIOUS
<1>2. wk[w].batch # {} /\ Types
  BY DEF Store, At, OutboxInv
<1>3. c \in wk[w].batch /\ c \in Claim
  BY <1>1, <1>2, CurrentIsIn
<1>4. PICK e \in Events : e = c.id
  BY <1>3 DEF Claim
<1>5. PICK x \in Execs : x = ExecOf[e]
  BY OutboxAssumption
<1>6. UNCHANGED time
  BY DEF Store
<1>7. CASE ~ Owns(c)
  <2>1. GiveUp(w) /\ UNCHANGED <<ev, usage>>
    BY <1>1, <1>7 DEF Store
  <2> QED
    BY <1>2, <1>6, <2>1, GivesUp, NoRowMoves DEF PublishedStays
<1>8. CASE Owns(c)
  <2>1. PICK seen \in 0 .. 3 : seen = wk[w].seen
    BY <1>2 DEF Types, Worker
  <2>2. PICK old \in 0 .. 3 : old = usage[x]
    BY <1>2 DEF Types
  <2>3. usage' = [usage EXCEPT ![x] = Upsert(old, seen)]
    BY <1>1, <1>4, <1>5, <1>8, <2>1, <2>2 DEF Store
  <2>4. Upsert(old, seen) \in 0 .. 3 /\ Upsert(old, seen) >= old
        /\ (seen = Complete => Upsert(old, seen) = Complete)
    BY DEF Upsert, Complete
  <2>5. usage' \in [Execs -> 0 .. 3] /\ usage'[x] = Upsert(old, seen)
    BY <1>2, <2>3, <2>4 DEF Types
  <2>6. NoLess
    BY <1>2, <2>2, <2>3, <2>4, <2>5 DEF NoLess, Types
  <2>7. CASE Settled(seen)
    <3>1. ev' = [ev EXCEPT ![e] = [@ EXCEPT !.published = TRUE, !.until = 0]] /\ Done(w)
      BY <1>1, <1>4, <1>8, <2>1, <2>7 DEF Store
    <3>2. wk' \in [Workers -> Worker]
      BY <1>2, <3>1, IsDone
    <3>3. ev' \in [Events -> EventRow]
      <4>1. [ev[e] EXCEPT !.published = TRUE, !.until = 0] \in EventRow
        BY <1>2 DEF Types, EventRow
      <4> QED
        BY <1>2, <3>1, <4>1 DEF Types
    <3>4. Types'
      BY <1>2, <1>6, <2>5, <3>2, <3>3 DEF Types
    <3>5. ~ Disabled => usage'[ExecOf[e]] = Complete
      BY <1>5, <2>4, <2>5, <2>7 DEF Settled
    <3>6. OutboxInv' /\ ev'[e].published
      BY <1>1, <1>2, <1>4, <1>6, <2>6, <3>1, <3>4, <3>5, IsPublished
    <3>7. PublishedStays
      BY <3>1, <3>6 DEF PublishedStays, OutboxInv, Types
    <3> QED
      BY <2>6, <3>6, <3>7
  <2>8. CASE ~ Settled(seen)
    <3>1. Postpone(w) /\ UNCHANGED ev
      BY <1>1, <1>8, <2>1, <2>8 DEF Store
    <3>2. wk' \in [Workers -> Worker] /\ BatchesShrink
      BY <3>1, FailPlace
    <3>3. Types'
      BY <1>2, <1>6, <2>5, <3>1, <3>2 DEF Types
    <3>4. time <= time' /\ \A f \in Events : RowStands(f)
      BY <1>2, <1>6, <3>1 DEF RowStands, Types
    <3>5. OutboxInv'
      BY <2>6, <3>2, <3>3, <3>4, Quiet
    <3> QED
      BY <2>6, <3>1, <3>5 DEF PublishedStays
  <2> QED
    BY <2>7, <2>8
<1> QED
  BY <1>7, <1>8

\* An event is postponed to a time that nobody else remembers.
LEMMA MarkFailureStep ==
  ASSUME OutboxInv, NEW w \in Workers, markFailure(w)
  PROVE  OutboxInv' /\ NoLess /\ PublishedStays
<1>1. PICK c : c = Current(w)
  OBVIOUS
<1>2. wk[w].batch # {} /\ Types
  BY DEF markFailure, At, OutboxInv
<1>3. c \in wk[w].batch /\ c \in Claim
  BY <1>1, <1>2, CurrentIsIn
<1>4. PICK e \in Events : e = c.id
  BY <1>3 DEF Claim
<1>5. UNCHANGED <<usage, time>>
  BY DEF markFailure
<1>6. NoLess
  BY <1>2, <1>5 DEF NoLess, Types
<1>7. CASE Owns(c)
  <2>1. PICK n \in OutboxNow :
          /\ n >= c.until - claimDuration(c.attempts)
          /\ ev' = [ev EXCEPT ![e] = Postponed(@, n + backoff(c.attempts + 1))]
    BY <1>1, <1>4, <1>7 DEF markFailure
  <2>2. Done(w)
    BY <1>1, <1>7 DEF markFailure
  <2>3. n \in Nat /\ n <= time
    BY <1>2 DEF OutboxNow, Types
  <2>4. c.attempts \in Nat /\ c.attempts + 1 \in Nat /\ c.until \in Nat
    BY <1>3 DEF Claim
  <2>5. /\ claimDuration(c.attempts) \in 1 .. Cap /\ backoff(c.attempts + 1) \in 1 .. Cap
        /\ Cap \in Nat
    BY <2>4, DelayTypes
  <2>6. PICK late : late = n + backoff(c.attempts + 1)
    OBVIOUS
  <2>7. late \in Nat /\ late > n /\ late <= time + Cap
    BY <1>2, <2>3, <2>5, <2>6 DEF Types
  <2>8. PICK row : row = Postponed(ev[e], late)
    OBVIOUS
  <2>9. ev[e] \in EventRow
    BY <1>2 DEF Types
  <2>10. row \in EventRow /\ row.until = late /\ ~ row.published
    <3>1. PICK k : k = ev[e].attempts + 1
      OBVIOUS
    <3>2. k \in Nat
      BY <2>9, <3>1 DEF EventRow
    <3>3. row = [ev[e] EXCEPT !.attempts = k, !.published = FALSE, !.until = late]
      BY <2>8, <2>9, <3>1 DEF Postponed, EventRow
    <3> QED
      BY <2>7, <2>9, <3>2, <3>3 DEF EventRow
  <2>11. ev' = [ev EXCEPT ![e] = row]
    BY <2>1, <2>6, <2>8
  <2>12. ev' \in [Events -> EventRow] /\ ev'[e] = row /\ \A f \in Events \ {e} : RowStands(f)
    BY <1>2, <2>10, <2>11 DEF Types, RowStands
  <2>13. /\ wk' \in [Workers -> Worker] /\ BatchesShrink
         /\ \A d \in wk'[w].batch : d.id # e
    BY <1>1, <1>2, <1>4, <2>2, IsDone
  <2>14. Types'
    BY <1>2, <1>5, <2>12, <2>13 DEF Types
  <2>15. ASSUME NEW v \in Workers, NEW d \in wk'[v].batch, d.id = e
         PROVE  d.until < ev'[e].until
    <3>1. v # w /\ d \in wk[v].batch
      BY <2>13, <2>15 DEF BatchesShrink
    <3>2. d.until <= c.until - claimDuration(c.attempts)
      BY <1>3, <1>4, <1>7, <2>15, <3>1 DEF OutboxInv, OthersOver
    <3>3. d \in Claim
      BY <1>2, <3>1 DEF Types, Worker
    <3>4. d.until \in Nat
      BY <3>3 DEF Claim
    <3>5. d.until < late
      <4>1. PICK x : x = claimDuration(c.attempts)
        OBVIOUS
      <4>2. x \in Nat /\ d.until <= c.until - x /\ n >= c.until - x
        BY <2>1, <2>5, <3>2, <4>1
      <4> QED
        BY <2>3, <2>4, <2>7, <3>4, <4>2
    <3> QED
      BY <2>10, <2>12, <3>5
  <2>16. ~ ev'[e].published /\ ev'[e].until <= time + Cap
    BY <2>7, <2>10, <2>12
  <2>17. OutboxInv'
    BY <1>5, <1>6, <2>12, <2>13, <2>14, <2>15, <2>16, OneEvent
  <2>18. ~ ev[e].published
    BY <1>4, <1>7 DEF Owns
  <2>19. PublishedStays
    BY <2>12, <2>18 DEF PublishedStays, RowStands
  <2> QED
    BY <1>6, <2>17, <2>19
<1>8. CASE ~ Owns(c)
  <2>1. GiveUp(w) /\ UNCHANGED ev
    BY <1>1, <1>8 DEF markFailure
  <2> QED
    BY <1>2, <1>5, <2>1, GivesUp, NoRowMoves DEF PublishedStays
<1> QED
  BY <1>7, <1>8

\* The events that can be claimed become the claims of a worker, for longer
\* than anybody else remembers.
LEMMA ClaimStep ==
  ASSUME OutboxInv, NEW w \in Workers, NEW n \in OutboxNow, claimBatch(w, n)
  PROVE  OutboxInv' /\ NoLess /\ PublishedStays
<1> DEFINE Until(e) == n + claimDuration(ev[e].attempts)
           Of(e) == [id |-> e, until |-> Until(e), attempts |-> ev[e].attempts]
<1>1. PICK S, B : S = FirstOf(Due(n)) /\ B = {Of(e) : e \in S}
  OBVIOUS
<1>2. /\ wk[w].batch = {}
      /\ ev' = [e \in Events |-> IF e \in S THEN [ev[e] EXCEPT !.until = Until(e)] ELSE ev[e]]
      /\ wk' = [wk EXCEPT ![w].batch = B]
      /\ UNCHANGED <<usage, time>>
  BY <1>1 DEF claimBatch
<1>3. Types /\ n \in Nat /\ n <= time /\ time \in Nat
  BY DEF OutboxInv, Types, OutboxNow
<1>4. ASSUME NEW e \in S PROVE e \in Events /\ ~ ev[e].published /\ ev[e].until <= n
  BY <1>1 DEF FirstOf, Due
<1>5. ASSUME NEW e \in Events
      PROVE  /\ Until(e) \in Nat /\ Until(e) > n /\ Until(e) <= time + Cap
             /\ Until(e) - claimDuration(ev[e].attempts) = n
  <2>1. ev[e].attempts \in Nat
    BY <1>3 DEF Types, EventRow
  <2>2. PICK d : d = claimDuration(ev[e].attempts)
    OBVIOUS
  <2>3. d \in 1 .. Cap /\ Cap \in Nat
    BY <2>1, <2>2, DelayTypes
  <2> QED
    BY <1>3, <2>2, <2>3
<1>6. ASSUME NEW c \in B
      PROVE  /\ c \in Claim /\ c.id \in S /\ c = Of(c.id)
             /\ c.until = Until(c.id) /\ c.attempts = ev[c.id].attempts
  <2>1. PICK e \in S : c = Of(e)
    BY <1>1
  <2>2. e \in Events /\ Until(e) \in Nat /\ ev[e].attempts \in Nat
    BY <1>3, <1>4, <1>5 DEF Types, EventRow
  <2>3. c.id = e /\ c.until = Until(e) /\ c.attempts = ev[e].attempts
    BY <2>1
  <2> HIDE DEF Until
  <2>4. c \in Claim
    BY <2>1, <2>2 DEF Claim
  <2> QED
    BY <2>1, <2>3, <2>4
<1> HIDE DEF Until, Of
<1>7. ASSUME NEW e \in Events
      PROVE  /\ ev'[e] \in EventRow /\ ev'[e].published = ev[e].published
             /\ ev'[e].until = IF e \in S THEN Until(e) ELSE ev[e].until
  <2>1. ev[e] \in EventRow /\ Until(e) \in Nat
    BY <1>3, <1>5 DEF Types
  <2> QED
    BY <1>2, <2>1 DEF EventRow
<1>8. ev' \in [Events -> EventRow]
  BY <1>2, <1>7
<1>9. /\ wk' \in [Workers -> Worker] /\ wk'[w].batch = B
      /\ \A v \in Workers \ {w} : wk'[v].batch = wk[v].batch
  <2>1. PICK r : r = [wk[w] EXCEPT !.batch = B]
    OBVIOUS
  <2>2. wk[w] \in Worker /\ B \in SUBSET Claim
    BY <1>3, <1>6 DEF Types
  <2>3. r \in Worker /\ r.batch = B
    BY <2>1, <2>2 DEF Worker
  <2>4. wk' = [wk EXCEPT ![w] = r]
    BY <1>2, <2>1
  <2> QED
    BY <1>3, <2>3, <2>4 DEF Types
<1>10. Types'
  BY <1>2, <1>3, <1>8, <1>9 DEF Types
<1>11. OnePerEvent'
  <2> SUFFICES ASSUME NEW v \in Workers, NEW c \in wk'[v].batch, NEW d \in wk'[v].batch,
                      c.id = d.id
               PROVE  c = d
    BY DEF OnePerEvent
  <2>1. CASE v = w
    BY <1>6, <1>9, <2>1
  <2>2. CASE v # w
    BY <1>9, <2>2 DEF OutboxInv, OnePerEvent
  <2> QED
    BY <2>1, <2>2
<1>12. ASSUME NEW v \in Workers \ {w}, NEW d \in wk'[v].batch
       PROVE  /\ d \in wk[v].batch /\ d \in Claim
              /\ d.id \in S => d.until <= n
  <2>1. d \in wk[v].batch
    BY <1>9
  <2>2. d \in Claim
    BY <1>3, <2>1 DEF Types, Worker
  <2>3. ASSUME d.id \in S PROVE d.until <= n
    <3>1. d.until <= ev[d.id].until /\ ev[d.id].until <= n /\ d.id \in Events
      BY <1>4, <2>1, <2>3 DEF OutboxInv, NoneBeyond
    <3>2. d.until \in Nat /\ ev[d.id].until \in Nat
      BY <1>3, <2>2, <3>1 DEF Claim, Types, EventRow
    <3> QED
      BY <1>3, <3>1, <3>2
  <2> QED
    BY <2>1, <2>2, <2>3
<1>13. ASSUME NEW v \in Workers \ {w}, NEW d \in wk'[v].batch
       PROVE  /\ d.id \in S => ~ Owns(d)' /\ d.until <= ev'[d.id].until
              /\ d.id \notin S => (Owns(d)' <=> Owns(d)) /\ ev'[d.id].until = ev[d.id].until
  <2>1. d.id \in Events /\ d.until \in Nat
    BY <1>12 DEF Claim
  <2>2. CASE d.id \in S
    <3>1. ev'[d.id].until = Until(d.id) /\ Until(d.id) \in Nat /\ Until(d.id) > n /\ d.until <= n
      BY <1>5, <1>7, <1>12, <2>1, <2>2
    <3> QED
      BY <1>3, <2>1, <2>2, <3>1 DEF Owns
  <2>3. CASE d.id \notin S
    BY <1>7, <2>1, <2>3 DEF Owns
  <2> QED
    BY <2>2, <2>3
<1>14. NoneBeyond'
  <2> SUFFICES ASSUME NEW v \in Workers, NEW c \in wk'[v].batch, ~ ev'[c.id].published
               PROVE  c.until <= ev'[c.id].until
    BY DEF NoneBeyond
  <2>1. CASE v = w
    <3>1. c \in B
      BY <1>9, <2>1
    <3>2. c.until = ev'[c.id].until /\ c.until \in Nat
      BY <1>4, <1>6, <1>7, <3>1 DEF Claim
    <3> QED
      BY <3>2
  <2>2. CASE v # w
    <3>1. c \in wk[v].batch /\ c.id \in Events
      BY <1>12, <2>2 DEF Claim
    <3>2. CASE c.id \in S
      BY <1>13, <2>2, <3>2
    <3>3. CASE c.id \notin S
      <4>1. ~ ev[c.id].published /\ ev'[c.id].until = ev[c.id].until
        BY <1>7, <3>1, <3>3
      <4> QED
        BY <3>1, <4>1 DEF OutboxInv, NoneBeyond
    <3> QED
      BY <3>2, <3>3
  <2> QED
    BY <2>1, <2>2
<1>15. OthersOver'
  <2> SUFFICES ASSUME NEW u \in Workers, NEW v \in Workers,
                      NEW c \in wk'[u].batch, NEW d \in wk'[v].batch,
                      c.id = d.id, Owns(c)', u # v
               PROVE  d.until <= c.until - claimDuration(c.attempts)
    BY DEF OthersOver, claimDuration, cappedExponential
  <2>1. CASE u = w
    <3>1. c \in B /\ v # w
      BY <1>9, <2>1
    <3>2. c.id \in S /\ c.until = Until(c.id) /\ c.attempts = ev[c.id].attempts
      BY <1>6, <3>1
    <3>3. c.until - claimDuration(c.attempts) = n
      BY <1>4, <1>5, <3>2
    <3> QED
      BY <1>12, <3>1, <3>2, <3>3
  <2>2. CASE u # w /\ v = w
    <3>1. d.id \in S
      BY <1>6, <1>9, <2>2
    <3> QED
      BY <1>13, <2>2, <3>1
  <2>3. CASE u # w /\ v # w
    <3>1. Owns(c)
      BY <1>13, <2>3
    <3> QED
      BY <1>12, <2>3, <3>1 DEF OutboxInv, OthersOver
  <2> QED
    BY <2>1, <2>2, <2>3
<1>16. RetryIsBounded'
  BY <1>2, <1>5, <1>7 DEF OutboxInv, RetryIsBounded
<1>17. PublishedIsSettled'
  BY <1>2, <1>7 DEF OutboxInv, PublishedIsSettled
<1>18. NoLess /\ PublishedStays
  BY <1>2, <1>3, <1>7 DEF NoLess, PublishedStays, Types
<1> QED
  BY <1>10, <1>11, <1>14, <1>15, <1>16, <1>17, <1>18 DEF OutboxInv

-----------------------------------------------------------------------------
(* The invariant of the specification.                                      *)

\* No event is there, and nobody works.
LEMMA OutboxStart == OutboxInit => OutboxInv
<1> SUFFICES ASSUME OutboxInit PROVE OutboxInv
  OBVIOUS
<1>1. /\ ev = [e \in Events |-> NoEvent] /\ usage = [x \in Execs |-> NoRow]
      /\ wk = [w \in Workers |-> Idle] /\ time = 0
  BY DEF OutboxInit
<1>2. NoEvent \in EventRow /\ NoEvent.until = 0 /\ ~ NoEvent.published
  BY DEF NoEvent, EventRow
<1>3. Idle \in Worker /\ Idle.batch = {}
  BY Rows
<1>4. Types
  BY <1>1, <1>2, <1>3 DEF Types, NoRow
<1>5. OnePerEvent /\ NoneBeyond /\ OthersOver
  BY <1>1, <1>3 DEF OnePerEvent, NoneBeyond, OthersOver
<1>6. RetryIsBounded /\ PublishedIsSettled
  BY <1>1, <1>2, OutboxAssumption DEF RetryIsBounded, PublishedIsSettled
<1> QED
  BY <1>4, <1>5, <1>6 DEF OutboxInv

\* Every step keeps it, and what is known and published with it.
LEMMA OutboxSteps == OutboxInv /\ [OutboxNext]_outboxVars => OutboxInv' /\ NoLess /\ PublishedStays
<1> SUFFICES ASSUME OutboxInv, [OutboxNext]_outboxVars PROVE OutboxInv' /\ NoLess /\ PublishedStays
  OBVIOUS
<1>1. ASSUME NEW e \in Events, Emit(e) PROVE OutboxInv' /\ NoLess /\ PublishedStays
  <2>1. Types
    BY DEF OutboxInv
  <2>2. ev' = [ev EXCEPT ![e].there = TRUE] /\ UNCHANGED <<usage, wk, time>>
    BY <1>1 DEF Emit
  <2>3. PICK row : row = [ev[e] EXCEPT !.there = TRUE]
    OBVIOUS
  <2>4. row \in EventRow /\ row.until = ev[e].until /\ row.published = ev[e].published
    BY <2>1, <2>3 DEF Types, EventRow
  <2>5. ev' = [ev EXCEPT ![e] = row]
    BY <2>2, <2>3
  <2>6. ev' \in [Events -> EventRow] /\ \A f \in Events : RowStands(f)
    BY <2>1, <2>4, <2>5 DEF Types, RowStands
  <2>7. Types' /\ NoLess /\ BatchesShrink /\ time <= time'
    BY <2>1, <2>2, <2>6 DEF Types, NoLess, BatchesShrink
  <2> QED
    BY <2>6, <2>7, Quiet DEF PublishedStays, RowStands
<1>2. CASE OutboxTick \/ UNCHANGED outboxVars
  <2>1. Types
    BY DEF OutboxInv
  <2>2. UNCHANGED <<ev, usage, wk>> /\ time' \in Nat /\ time <= time'
    BY <1>2, <2>1 DEF OutboxTick, outboxVars, Types
  <2>3. Types' /\ NoLess /\ BatchesShrink /\ \A f \in Events : RowStands(f)
    BY <2>1, <2>2 DEF Types, NoLess, BatchesShrink, RowStands
  <2> QED
    BY <2>2, <2>3, Quiet DEF PublishedStays
<1>3. ASSUME NEW w \in Workers, Work(w) PROVE OutboxInv' /\ NoLess /\ PublishedStays
  BY <1>3, ClaimStep, MarkPublishedStep, ObserveStep, HandleFailsStep, StoreStep,
     MarkFailureStep, CrashStep DEF Work
<1> QED
  BY <1>1, <1>2, <1>3 DEF OutboxNext

\* The rows, the workers and their claims keep the invariant.
THEOREM OutboxHolds == OutboxSpec => []OutboxInv
<1>1. OutboxInv /\ [OutboxNext]_outboxVars => OutboxInv'
  BY OutboxSteps
<1> QED
  BY <1>1, OutboxStart, PTL DEF OutboxSpec

\* However leases run out, workers come back late and events fail: an event has
\* one holder, is free again within the longest delay and is published only with
\* its whole cost on record (claimBatch, markFailure, handle).
THEOREM EveryEventKept == OutboxSpec => []NoEventIsLost
<1>1. ASSUME OutboxInv PROVE OneHolder
  <2> SUFFICES ASSUME NEW w \in Workers, NEW v \in Workers, NEW c \in wk[w].batch,
                      NEW d \in wk[v].batch, c.id = d.id, Owns(c), Owns(d), w # v
               PROVE  FALSE
    BY DEF OneHolder, Holds
  <2>1. c \in Claim
    BY <1>1 DEF OutboxInv, Types, Worker
  <2>2. c.until \in Nat /\ c.attempts \in Nat
    BY <2>1 DEF Claim
  <2>3. d.until = c.until
    BY DEF Owns
  <2>4. d.until <= c.until - claimDuration(c.attempts)
    BY <1>1 DEF OutboxInv, OthersOver
  <2>5. PICK k : k = claimDuration(c.attempts)
    OBVIOUS
  <2>6. k \in 1 .. Cap /\ Cap \in Nat
    BY <2>2, <2>5, DelayTypes
  <2> QED
    BY <2>2, <2>3, <2>4, <2>5, <2>6
<1>2. OutboxInv => NoEventIsLost
  BY <1>1 DEF OutboxInv, NoEventIsLost
<1> QED
  BY <1>2, OutboxHolds, PTL

\* A late worker overwrites nothing with less and puts nothing back (the rank of
\* the upsert and the fencing of every write).
THEOREM NeverBack == OutboxSpec => NothingRegresses
<1>1. OutboxInv /\ [OutboxNext]_outboxVars =>
        [/\ \A x \in Execs : usage'[x] >= usage[x]
         /\ \A e \in Events : ev[e].published => ev'[e].published]_outboxVars
  BY OutboxSteps DEF NoLess, PublishedStays
<1> QED
  BY <1>1, OutboxHolds, PTL DEF OutboxSpec, NothingRegresses

-----------------------------------------------------------------------------
(* Reward: the invariant that holds whatever overlaps.                      *)

\* The rows of a lock: claimed of a funded policy, decided when it is more than
\* locked, disputed and ruled on only when decided.
LocksFit ==
  \A e \in Executions :
    /\ lock[e].status # "none" =>
         /\ lock[e].policy \in Policies /\ lock[e].terms \in Terms /\ lock[e].amount # 0
         /\ policy[lock[e].policy].status \notin {"none", "unfunded"}
    /\ lock[e].status \in {"none", "locked"} => decision[e] = None
    /\ lock[e].status \in {"releasable", "disputed"} => decision[e] # None
    /\ dispute[e].status # "none" => decision[e] # None
    /\ dispute[e].status = "resolved" => dispute[e].intent \in {"release", "refund"}

PoliciesFit ==
  \A p \in Policies :
    policy[p].status # "none" => policy[p].terms \in Terms /\ policy[p].task \in Tasks

\* What a settlement follows: a ruling, or a decision that nobody has disputed in time.
Ruled(j) ==
  /\ dispute[j.on].status = "resolved"
  /\ j.intent = dispute[j.on].intent /\ j.amount = dispute[j.on].amount

Matures(j) ==
  /\ j.intent = "release" /\ decision[j.on].deadline <= now
  /\ \/ j.amount = decision[j.on].agent
     \/ j.at = "load" /\ j.amount = None

\* What a settlement has worked out.
SplitFits(j) ==
  /\ j.amount \in Nat /\ j.out = PaidOut(j)
  /\ j.out + j.back = lock[j.on].amount

PolicyPlaces == {"fund", "cancel"}
LockPlaces == {"dispute", "save", "expire"}
Settling == {"load", "pay", "record", "save"}

\* What is known of a handler from what it has in memory.
RowFits(q, j) ==
  /\ j.at = "idle" => j = NoJob
  /\ j.at \in PolicyPlaces =>
       j.on \in Policies /\ policy[j.on].status # "none" /\ j.amount \in Nat
  /\ j.at \in {"dispute"} \cup Settling => j.on \in Executions /\ decision[j.on] # None
  /\ j.at = "expire" => /\ q = RewardWorker
                        /\ j.on \in Executions /\ lock[j.on].status # "none"
  /\ j.at \in Settling => Ruled(j) \/ Matures(j)
  /\ j.at \in {"pay", "record", "save"} => SplitFits(j)
  /\ j.at \in {"record", "save"} => settled[j.on] = Order(j)

JobFits(q) == RowFits(q, job[q])

JobsFit == \A q \in Procs : JobFits(q)

\* What the worker has listed to release has been decided and not disputed in time.
RoundFits ==
  round.phase = "release" =>
    \A e \in round.todo : decision[e] # None /\ decision[e].deadline <= now

\* What has left the escrow is what the provider has settled, with the shares.
ReleasesFit ==
  \A x \in entries : x.key[1] = "release" =>
    LET e == x.key[2] IN
    /\ decision[e] # None /\ settled[e] # None /\ settled[e].intent = "release"
    /\ x.amount = settled[e].amount + decision[e].shares

EndsFit ==
  \A e \in Executions :
    /\ lock[e].status = "released" => settled[e] # None /\ settled[e].intent = "release"
    /\ lock[e].status = "refunded" => settled[e] # None /\ settled[e].intent = "refund"

\* Only so much has happened yet.
Finite == IsFiniteSet(entries) /\ IsFiniteSet({e \in Executions : lock[e].status # "none"})

PayInv ==
  /\ RewardTypeOK /\ PoliciesFit /\ LocksFit /\ JobsFit /\ RoundFits
  /\ ReleasesFit /\ EndsFit /\ Finite

-----------------------------------------------------------------------------

\* A handler that will write a row is the only one,
Alone ==
  \A q, o \in Procs : q # o =>
    /\ job[q].at \in LockPlaces /\ job[o].at \in LockPlaces => job[q].on # job[o].on
    /\ job[q].at \in PolicyPlaces /\ job[o].at \in PolicyPlaces => job[q].on # job[o].on

\* and the row is as it was read.
RowIsCurrent(j) ==
  /\ j.at = "fund" => policy[j.on].status = "unfunded"
  /\ j.at = "cancel" => policy[j.on].funded = j.amount
  /\ j.at = "dispute" => lock[j.on].status = "releasable"
  /\ j.at = "expire" => lock[j.on].status \in {"locked", "releasable"}
  /\ j.at = "save" => lock[j.on].status \in {"releasable", "disputed"}

RowsAreCurrent == \A q \in Procs : RowIsCurrent(job[q])

\* Money has been put on a lock only when there is one, and taken off it only
\* when it has ended.
EntriesFit ==
  \A x \in entries :
    /\ x.key[1] = "lock" => lock[x.key[2]].status # "none"
    /\ x.key[1] \in {"release", "refund", "expire"} => lock[x.key[2]].status \in Terminal

\* What all locks hold.
HeldInAll ==
  SumFunctionOnSet([e \in Executions |-> lock[e].amount],
                   {e \in Executions : lock[e].status \in Holding})

LedgerBalances ==
  /\ account.locked = HeldInAll
  /\ account.available + account.locked + Posted("release") = Posted("topup")

NotOvercommitted == \A p \in Policies : LockedAmount(p) <= policy[p].funded

\* What holds as long as no two transactions are at one row.
Books ==
  /\ Alone /\ RowsAreCurrent /\ EntriesFit
  /\ LedgerBalances /\ NotOvercommitted

BooksInv == PayInv /\ (~setting.races => Books)

-----------------------------------------------------------------------------
(* What settlements follow.                                                 *)

\* What stays, whatever a step does: that a policy exists and has been funded,
\* the money on a lock, a decision, a ruling and what the provider has settled.
Grows ==
  /\ \A p \in Policies :
       /\ policy[p].status # "none" => policy'[p].status # "none"
       /\ policy[p].status \notin {"none", "unfunded"} =>
            policy'[p].status \notin {"none", "unfunded"}
  /\ \A e \in Executions :
       /\ lock[e].status # "none" =>
            /\ lock'[e].status # "none" /\ lock'[e].policy = lock[e].policy
            /\ lock'[e].terms = lock[e].terms /\ lock'[e].amount = lock[e].amount
       /\ decision[e] # None => decision'[e] = decision[e]
       /\ dispute[e].status = "resolved" => dispute'[e] = dispute[e]
       /\ settled[e] # None => settled'[e] = settled[e]
  /\ now <= now'

LEMMA OrderIsOne ==
  ASSUME NEW j \in JobRow, j.on \in Executions, lock \in [Executions -> LockRow],
         j.intent \in {"release", "refund"}, j.amount \in Nat
  PROVE  Order(j) \in OrderRow /\ Order(j) # None
<1>1. lock[j.on].amount \in Nat
  BY DEF LockRow
<1>2. Order(j) \in OrderRow
  BY <1>1 DEF Order, OrderRow
<1> QED
  BY <1>2, RewardAssumption

\* A handler that does not move knows what it knew.
LEMMA RowKept ==
  ASSUME PayInv, Grows, RewardTypeOK', NEW q \in Procs, NEW j, j \in JobRow, RowFits(q, j)
  PROVE  RowFits(q, j)'
<1>1. j.at \in PolicyPlaces => j.on \in Policies /\ policy'[j.on].status # "none" /\ j.amount \in Nat
  BY DEF Grows, RowFits
<1>2. j.at \in {"dispute"} \cup Settling =>
        /\ j.on \in Executions /\ decision[j.on] # None /\ decision'[j.on] = decision[j.on]
        /\ lock'[j.on].amount = lock[j.on].amount
  BY DEF Grows, RowFits, PayInv, LocksFit
<1>3. j.at = "expire" => j.on \in Executions /\ lock'[j.on].status # "none"
  BY DEF Grows, RowFits
<1>4. ASSUME j.at \in Settling, Ruled(j) PROVE Ruled(j)'
  BY <1>2, <1>4 DEF Grows, Ruled
<1>5. ASSUME j.at \in Settling, Matures(j) PROVE Matures(j)'
  <2>1. decision[j.on] \in DecisionRow /\ now \in Nat /\ now' \in Nat /\ now <= now'
    BY <1>2, <1>5 DEF PayInv, RewardTypeOK, Grows
  <2>2. decision[j.on].deadline \in Nat
    BY <2>1 DEF DecisionRow
  <2> QED
    BY <1>2, <1>5, <2>1, <2>2 DEF Matures
<1>6. ASSUME j.at \in {"pay", "record", "save"}, SplitFits(j) PROVE SplitFits(j)'
  BY <1>2, <1>6 DEF SplitFits, PaidOut, AgentAmount, Settling
<1>7. ASSUME j.at \in {"record", "save"}, settled[j.on] = Order(j) PROVE settled'[j.on] = Order(j)'
  <2>0. j.at \in Settling /\ j.amount \in Nat
    BY <1>7 DEF RowFits, SplitFits, Settling
  <2>1. j.intent \in {"release", "refund"}
    <3>1. CASE Matures(j)
      BY <3>1 DEF Matures
    <3>2. CASE Ruled(j)
      BY <1>2, <2>0, <3>2 DEF Ruled, PayInv, LocksFit, JobRow, RewardTypeOK, DisputeRow
    <3> QED
      BY <2>0, <3>1, <3>2 DEF RowFits
  <2>2. Order(j) # None
    BY <1>2, <1>7, <2>0, <2>1, OrderIsOne DEF PayInv, RewardTypeOK, Settling
  <2> QED
    BY <1>2, <1>7, <2>2 DEF Grows, Order, Settling
<1> QED
  BY <1>1, <1>2, <1>3, <1>4, <1>5, <1>6, <1>7 DEF RowFits

\* One handler moves, or none.
LEMMA OneMoves ==
  ASSUME PayInv, Grows, RewardTypeOK', NEW q \in Procs,
         \A o \in Procs \ {q} : job'[o] = job[o],
         job'[q] = job[q] \/ RowFits(q, job[q])'
  PROVE  JobsFit'
<1>1. ASSUME NEW o \in Procs, job'[o] = job[o] PROVE JobFits(o)'
  <2>1. RowFits(o, job[o]) /\ job[o] \in JobRow
    BY DEF PayInv, JobsFit, JobFits, RowFits, RewardTypeOK
  <2>2. PICK j : j = job[o]
    OBVIOUS
  <2>3. RowFits(o, j)'
    BY <2>1, <2>2, RowKept
  <2>4. job'[o] = j
    BY <1>1, <2>2
  <2> QED
    BY <2>3, <2>4 DEF JobFits, RowFits
<1>2. ASSUME RowFits(q, job[q])' PROVE JobFits(q)'
  BY <1>2 DEF JobFits, RowFits
<1> QED
  BY <1>1, <1>2 DEF JobsFit, JobFits, RowFits

LEMMA NoneMoves == ASSUME PayInv, Grows, RewardTypeOK', job' = job PROVE JobsFit'
BY OneMoves DEF Procs

LEMMA RoundKept ==
  ASSUME PayInv, Grows, RewardTypeOK', round'.phase = round.phase,
         round'.todo \subseteq round.todo
  PROVE  RoundFits'
<1> SUFFICES ASSUME round.phase = "release", NEW e \in round.todo
             PROVE  decision'[e] # None /\ decision'[e].deadline <= now'
  BY DEF RoundFits
<1>1. e \in Executions /\ decision[e] # None /\ decision[e].deadline <= now
  BY DEF PayInv, RoundFits, RewardTypeOK
<1>2. decision[e].deadline \in Nat /\ now \in Nat /\ now' \in Nat
  BY <1>1 DEF PayInv, RewardTypeOK, DecisionRow
<1> QED
  BY <1>1, <1>2 DEF Grows

LEMMA ReleasesKept == ASSUME PayInv, Grows, entries' = entries PROVE ReleasesFit'
<1> SUFFICES ASSUME NEW x \in entries, x.key[1] = "release"
             PROVE  /\ decision'[x.key[2]] # None /\ settled'[x.key[2]] # None
                    /\ settled'[x.key[2]].intent = "release"
                    /\ x.amount = settled'[x.key[2]].amount + decision'[x.key[2]].shares
  BY DEF ReleasesFit
<1>1. x.key[2] \in Executions
  BY DEF PayInv, RewardTypeOK, EntryRow, EntryKeys
<1> QED
  BY <1>1 DEF PayInv, ReleasesFit, Grows

LEMMA EndsKept ==
  ASSUME PayInv, Grows,
         \A e \in Executions : lock'[e].status \in {"released", "refunded"} => lock'[e].status = lock[e].status
  PROVE  EndsFit'
BY DEF PayInv, EndsFit, Grows

LEMMA LocksKept ==
  ASSUME PayInv, Grows, lock' = lock, decision' = decision, dispute' = dispute
  PROVE  LocksFit'
BY DEF PayInv, LocksFit, Grows

LEMMA FiniteKept ==
  ASSUME PayInv, entries' = entries,
         \A e \in Executions : lock'[e].status # "none" => lock[e].status # "none"
  PROVE  Finite'
<1>1. {e \in Executions : lock'[e].status # "none"} \subseteq {e \in Executions : lock[e].status # "none"}
  OBVIOUS
<1> QED
  BY <1>1, FS_Subset DEF PayInv, Finite

-----------------------------------------------------------------------------
(* The account.                                                             *)

LEMMA DeltasAreInt ==
  ASSUME NEW x \in EntryRow
  PROVE  /\ x.amount \in Nat \ {0}
         /\ AvailableDelta(x) \in Int /\ LockedDelta(x) \in Int
<1>1. x.amount \in Nat \ {0} /\ x.key \in EntryKeys
  BY DEF EntryRow
<1>2. x.key[1] \in {"topup", "lock", "release", "refund", "expire"}
  BY <1>1 DEF EntryKeys
<1>3. AvailableDelta(x) \in Int
  BY <1>1, <1>2 DEF AvailableDelta
<1>4. LockedDelta(x) \in Int
  BY <1>1, <1>2 DEF LockedDelta
<1> QED
  BY <1>1, <1>3, <1>4

LEMMA EntryIsRow ==
  ASSUME NEW k \in {"lock", "release", "refund", "expire"}, NEW e \in Executions,
         NEW n \in Nat \ {0}
  PROVE  /\ Entry(k, e, n) \in EntryRow /\ Entry(k, e, n).amount = n
         /\ Entry(k, e, n).key[1] = k /\ Entry(k, e, n).key[2] = e
BY DEF Entry, EntryRow, EntryKeys

\* Whatever is posted, the balances stay natural numbers.
LEMMA AccountTyped ==
  ASSUME account \in [available : Nat, locked : Nat], entries \subseteq EntryRow,
         NEW new \in SUBSET EntryRow, IsFiniteSet(new), ApplyEntries(new)
  PROVE  /\ account' \in [available : Nat, locked : Nat] /\ entries' \subseteq EntryRow
         /\ entries' = entries \cup Fresh(new) /\ IsFiniteSet(Fresh(new))
<1>1. Fresh(new) \subseteq EntryRow /\ IsFiniteSet(Fresh(new))
  BY FS_Subset DEF Fresh
<1>2. PICK F : F = Fresh(new)
  OBVIOUS
<1>3. PICK f, g : f = [x \in F |-> AvailableDelta(x)] /\ g = [x \in F |-> LockedDelta(x)]
  OBVIOUS
<1>4. \A x \in F : f[x] \in Int /\ g[x] \in Int
  BY <1>1, <1>2, <1>3, DeltasAreInt
<1>5. SumFunctionOnSet(f, F) \in Int /\ SumFunctionOnSet(g, F) \in Int
  BY <1>1, <1>2, <1>4, SumIsInt
<1>6. account' = [available |-> account.available + SumFunctionOnSet(f, F),
                  locked |-> account.locked + SumFunctionOnSet(g, F)]
  BY <1>2, <1>3 DEF ApplyEntries, AccountAfter
<1>7. account'.available >= 0 /\ account'.locked >= 0
  BY DEF ApplyEntries, Covered
<1>8. account.available \in Nat /\ account.locked \in Nat
  OBVIOUS
<1>9. account' \in [available : Nat, locked : Nat]
  <2>1. PICK u, v : u = SumFunctionOnSet(f, F) /\ v = SumFunctionOnSet(g, F)
    OBVIOUS
  <2>2. account' = [available |-> account.available + u, locked |-> account.locked + v]
    BY <1>6, <2>1
  <2>3. u \in Int /\ v \in Int
    BY <1>5, <2>1
  <2>4. account.available + u \in Nat /\ account.locked + v \in Nat
    BY <1>7, <1>8, <2>2, <2>3
  <2> QED
    BY <2>2, <2>4
<1> QED
  BY <1>1, <1>9 DEF ApplyEntries

-----------------------------------------------------------------------------
(* The parts of an allocation.                                              *)

LEMMA PartOf ==
  ASSUME NEW n \in Nat, NEW b \in 0 .. Scale
  PROVE  /\ ApplyBps(n, b) \in Nat /\ ApplyBps(n, b) * Scale <= n * b /\ ApplyBps(n, b) <= n
<1>1. Scale \in Nat /\ Scale > 0
  BY RewardAssumption
<1>2. n * b \in Nat
  OBVIOUS
<1>3. PICK m : m = n * b
  OBVIOUS
<1>4. PICK d : d = m \div Scale
  OBVIOUS
<1>5. m \in Nat /\ d \in Nat /\ d * Scale <= m
  BY <1>1, <1>2, <1>3, <1>4
<1>6. n * b <= n * Scale
  BY <1>1
<1>7. d * Scale <= n * Scale
  BY <1>1, <1>2, <1>3, <1>5, <1>6
<1>8. d <= n
  BY <1>1, <1>5, <1>7
<1> QED
  BY <1>3, <1>4, <1>5, <1>8 DEF ApplyBps

LEMMA TwoPartsOf ==
  ASSUME NEW n \in Nat, NEW a \in 0 .. Scale, NEW b \in 0 .. Scale, a + b <= Scale
  PROVE  ApplyBps(n, a) + ApplyBps(n, b) <= n
<1>1. Scale \in Nat /\ Scale > 0
  BY RewardAssumption
<1>2. PICK x, y : x = ApplyBps(n, a) /\ y = ApplyBps(n, b)
  OBVIOUS
<1>3. x \in Nat /\ y \in Nat /\ x * Scale <= n * a /\ y * Scale <= n * b
  BY <1>2, PartOf
<1>4. (x + y) * Scale = x * Scale + y * Scale /\ n * (a + b) = n * a + n * b
  BY <1>1, <1>3
<1>5. n * (a + b) <= n * Scale
  BY <1>1
<1>6. x * Scale \in Nat /\ y * Scale \in Nat /\ n * a \in Nat /\ n * b \in Nat /\ n * Scale \in Nat
  BY <1>1, <1>3
<1>7. (x + y) * Scale <= n * Scale
  BY <1>3, <1>4, <1>5, <1>6
<1>8. x + y <= n
  BY <1>1, <1>3, <1>7
<1> QED
  BY <1>2, <1>8

LEMMA AllocationIsNat ==
  ASSUME NEW n \in Nat, NEW t \in Terms, NEW v \in Evidence
  PROVE  /\ Allocate(n, t, v).net \in Nat /\ Allocate(n, t, v).shares \in Nat
         /\ Allocate(n, t, v).agent \in Nat
<1>1. /\ t.fee \in 0 .. Scale /\ t.reserve \in 0 .. Scale /\ t.fee + t.reserve <= Scale
      /\ t.maintainer \in 0 .. Scale /\ t.reviewer \in 0 .. Scale
      /\ t.maintainer + t.reviewer <= Scale
  BY RewardAssumption DEF ValidTerms
<1>2. v.weight \in 0 .. Scale /\ v.passed \in BOOLEAN
  BY RewardAssumption DEF ValidEvidence
<1>3. PICK fee, reserve : fee = ApplyBps(n, t.fee) /\ reserve = ApplyBps(n, t.reserve)
  OBVIOUS
<1>4. fee \in Nat /\ reserve \in Nat /\ fee + reserve <= n
  BY <1>1, <1>3, PartOf, TwoPartsOf
<1>5. PICK net : net = n - fee - reserve
  OBVIOUS
<1>6. net \in Nat
  BY <1>4, <1>5
<1>7. PICK maintainer, reviewer : maintainer = ApplyBps(net, t.maintainer) /\ reviewer = ApplyBps(net, t.reviewer)
  OBVIOUS
<1>8. maintainer \in Nat /\ reviewer \in Nat /\ maintainer + reviewer <= net
  BY <1>1, <1>6, <1>7, PartOf, TwoPartsOf
<1>9. PICK pool : pool = net - maintainer - reviewer
  OBVIOUS
<1>10. pool \in Nat
  BY <1>6, <1>8, <1>9
<1>11. ApplyBps(pool, v.weight) \in Nat
  BY <1>2, <1>10, PartOf
<1>12. Allocate(n, t, v) =
         [net |-> net, shares |-> fee + maintainer + reviewer,
          agent |-> IF v.passed THEN ApplyBps(pool, v.weight) ELSE 0]
  BY <1>3, <1>5, <1>7, <1>9 DEF Allocate
<1>13. fee + maintainer + reviewer \in Nat
  BY <1>4, <1>8
<1> QED
  BY <1>6, <1>11, <1>12, <1>13

-----------------------------------------------------------------------------
(* Each step, whatever overlaps.                                            *)

LEMMA NoJobIsRow ==
  ASSUME NEW q
  PROVE  NoJob \in JobRow /\ RowFits(q, NoJob) /\ NoJob.at = "idle"
<1>1. NoJob \in JobRow
  BY DEF NoJob, JobRow, Places
<1>2. NoJob.at = "idle"
  BY DEF NoJob
<1> QED
  BY <1>1, <1>2 DEF RowFits, PolicyPlaces, Settling

\* Steps of which locks, entries and decisions notice nothing.
LEMMA NothingPosted ==
  ASSUME PayInv, RewardTypeOK', Grows, PoliciesFit',
         lock' = lock, entries' = entries, decision' = decision, dispute' = dispute,
         JobsFit', RoundFits'
  PROVE  PayInv'
BY LocksKept, ReleasesKept, EndsKept, FiniteKept DEF PayInv

LEMMA TopUpStep == ASSUME PayInv, NEW r \in TopUps, TopUpEscrow(r) PROVE PayInv'
<1> DEFINE x == Entry("topup", r.id, r.amount)
<1>1. x \in EntryRow /\ x.key[1] = "topup"
  BY RewardAssumption DEF Entry, EntryRow, EntryKeys
<1>2. {x} \in SUBSET EntryRow /\ IsFiniteSet({x}) /\ ApplyEntries({x})
  BY <1>1, FS_Singleton DEF TopUpEscrow
<1>3. /\ account' \in [available : Nat, locked : Nat] /\ entries' \subseteq EntryRow
      /\ entries' = entries \cup Fresh({x})
  BY <1>2, AccountTyped DEF PayInv, RewardTypeOK
<1> HIDE DEF x
<1>4. Grows
  BY DEF TopUpEscrow, Grows, PayInv, RewardTypeOK
<1>5. RewardTypeOK'
  BY <1>3 DEF TopUpEscrow, PayInv, RewardTypeOK
<1>6. PoliciesFit'
  BY DEF TopUpEscrow, PayInv, PoliciesFit
<1>7. JobsFit' /\ RoundFits' /\ LocksFit' /\ EndsFit'
  BY <1>4, <1>5, NoneMoves, RoundKept, LocksKept, EndsKept DEF TopUpEscrow
<1>8. ReleasesFit'
  <2>1. \A y \in entries' : y.key[1] = "release" => y \in entries
    BY <1>1, <1>3 DEF Fresh
  <2> QED
    BY <2>1 DEF PayInv, ReleasesFit, TopUpEscrow
<1>9. Finite'
  BY <1>2, <1>3, AccountTyped, FS_Union DEF TopUpEscrow, PayInv, RewardTypeOK, Finite
<1> QED
  BY <1>5, <1>6, <1>7, <1>8, <1>9 DEF PayInv

LEMMA CreateStep ==
  ASSUME PayInv, NEW p \in Policies, NEW t \in Tasks, NEW c \in Terms,
         CreateRewardPolicy(p, t, c)
  PROVE  PayInv'
<1>1. now + c.life \in Nat
  BY RewardAssumption DEF ValidTerms, PayInv, RewardTypeOK
<1>2. policy' \in [Policies -> PolicyRow]
  BY <1>1 DEF CreateRewardPolicy, PayInv, RewardTypeOK, PolicyRow
<1>3. Grows
  BY DEF CreateRewardPolicy, Grows, PayInv, RewardTypeOK
<1>4. RewardTypeOK'
  BY <1>2 DEF CreateRewardPolicy, PayInv, RewardTypeOK
<1>5. PoliciesFit'
  BY DEF CreateRewardPolicy, PayInv, PoliciesFit, RewardTypeOK
<1> QED
  BY <1>3, <1>4, <1>5, NoneMoves, RoundKept, NothingPosted DEF CreateRewardPolicy

LEMMA FundReadStep ==
  ASSUME PayInv, NEW q \in Procs, NEW p \in Policies, NEW n \in Fundings, FundRead(q, p, n)
  PROVE  PayInv'
<1>1. PICK j : j = [NoJob EXCEPT !.at = "fund", !.on = p, !.amount = n]
  OBVIOUS
<1>2. j \in JobRow /\ j.at = "fund" /\ j.on = p /\ j.amount = n /\ n \in Nat
  BY <1>1, RewardAssumption DEF NoJob, JobRow, Places
<1>3. job' = [job EXCEPT ![q] = j]
  BY <1>1 DEF FundRead
<1>4. RewardTypeOK'
  BY <1>2, <1>3 DEF FundRead, PayInv, RewardTypeOK
<1>5. Grows
  BY DEF FundRead, Grows, PayInv, RewardTypeOK
<1>6. RowFits(q, j)'
  BY <1>2 DEF RowFits, PolicyPlaces, Settling, FundRead
<1>7. JobsFit'
  <2>1. job'[q] = j /\ \A o \in Procs \ {q} : job'[o] = job[o]
    BY <1>3 DEF PayInv, RewardTypeOK
  <2> QED
    BY <1>4, <1>5, <1>6, <2>1, OneMoves DEF RowFits
<1>8. PoliciesFit'
  BY DEF FundRead, PayInv, PoliciesFit
<1> QED
  BY <1>4, <1>5, <1>7, <1>8, RoundKept, NothingPosted DEF FundRead

LEMMA CancelReadStep ==
  ASSUME PayInv, NEW q \in Procs, NEW p \in Policies, CancelRead(q, p)
  PROVE  PayInv'
<1>0. policy[p].funded \in Nat
  BY DEF PayInv, RewardTypeOK, PolicyRow
<1>1. PICK j : j = [NoJob EXCEPT !.at = "cancel", !.on = p, !.amount = policy[p].funded]
  OBVIOUS
<1>2. j \in JobRow /\ j.at = "cancel" /\ j.on = p /\ j.amount \in Nat
  BY <1>0, <1>1 DEF NoJob, JobRow, Places
<1>3. job' = [job EXCEPT ![q] = j]
  BY <1>1 DEF CancelRead
<1>4. RewardTypeOK'
  BY <1>2, <1>3 DEF CancelRead, PayInv, RewardTypeOK
<1>5. Grows
  BY DEF CancelRead, Grows, PayInv, RewardTypeOK
<1>6. RowFits(q, j)'
  BY <1>2 DEF RowFits, PolicyPlaces, Settling, CancelRead
<1>7. JobsFit'
  <2>1. job'[q] = j /\ \A o \in Procs \ {q} : job'[o] = job[o]
    BY <1>3 DEF PayInv, RewardTypeOK
  <2> QED
    BY <1>4, <1>5, <1>6, <2>1, OneMoves DEF RowFits
<1>8. PoliciesFit'
  BY DEF CancelRead, PayInv, PoliciesFit
<1> QED
  BY <1>4, <1>5, <1>7, <1>8, RoundKept, NothingPosted DEF CancelRead

LEMMA PolicySaveStep == ASSUME PayInv, NEW q \in Procs, PolicySave(q) PROVE PayInv'
<1>1. PICK p, n, s : /\ p = job[q].on /\ n = job[q].amount
                     /\ s = IF job[q].at = "fund" THEN "funded" ELSE "cancelled"
  OBVIOUS
<1>2. p \in Policies /\ policy[p].status # "none" /\ n \in Nat
  BY <1>1 DEF PolicySave, PayInv, JobsFit, JobFits, RowFits, PolicyPlaces
<1>3. policy' = [policy EXCEPT ![p].status = s, ![p].funded = n]
  BY <1>1 DEF PolicySave
<1>4. s \in {"funded", "cancelled"}
  BY <1>1
<1>5. \A o \in Policies : policy[o] \in PolicyRow
  BY DEF PayInv, RewardTypeOK
<1>6. /\ policy'[p] = [policy[p] EXCEPT !.status = s, !.funded = n]
      /\ \A o \in Policies \ {p} : policy'[o] = policy[o]
      /\ DOMAIN policy' = Policies
  BY <1>2, <1>3 DEF PayInv, RewardTypeOK
<1>7. /\ policy'[p] \in PolicyRow /\ policy'[p].status = s
      /\ policy'[p].terms = policy[p].terms /\ policy'[p].task = policy[p].task
  BY <1>2, <1>4, <1>5, <1>6 DEF PolicyRow
<1>8. policy' \in [Policies -> PolicyRow]
  BY <1>2, <1>3, <1>5, <1>6, <1>7 DEF PayInv, RewardTypeOK
<1>9. RewardTypeOK'
  BY <1>8, NoJobIsRow DEF PolicySave, PayInv, RewardTypeOK
<1>10. Grows
  <2>1. \A o \in Policies :
          policy'[o].status \in {policy[o].status, "funded", "cancelled"}
    BY <1>4, <1>6, <1>7
  <2>2. now <= now' /\ UNCHANGED <<lock, decision, dispute, settled>>
    BY DEF PolicySave, PayInv, RewardTypeOK
  <2> QED
    BY <2>1, <2>2 DEF Grows
<1>11. PoliciesFit'
  BY <1>2, <1>6, <1>7 DEF PayInv, PoliciesFit
<1>12. JobsFit'
  <2>1. job'[q] = NoJob /\ \A o \in Procs \ {q} : job'[o] = job[o]
    BY DEF PayInv, RewardTypeOK, PolicySave
  <2>2. RowFits(q, job[q])'
    BY <2>1, NoJobIsRow DEF RowFits, PolicyPlaces, Settling
  <2> QED
    BY <1>9, <1>10, <2>1, <2>2, OneMoves
<1> QED
  BY <1>9, <1>10, <1>11, <1>12, RoundKept, NothingPosted DEF PolicySave

\* A handler moves, and nothing else but perhaps what the provider has settled
\* for the first time.
LEMMA JobMoves ==
  ASSUME PayInv, NEW q \in Procs, NEW j \in JobRow, job' = [job EXCEPT ![q] = j],
         RowFits(q, j)',
         UNCHANGED <<now, account, entries, policy, lock, decision, dispute, wallet>>,
         settled' \in [Executions -> OrderRow \cup {None}],
         \A e \in Executions : settled[e] # None => settled'[e] = settled[e],
         setting' \in [policies : SUBSET Policies, execs : SUBSET Executions,
                       requests : SUBSET Requests, disputes : BOOLEAN,
                       races : BOOLEAN, faults : Nat],
         round' \in [phase : {"decide", "release", "expire"}, todo : SUBSET Executions],
         round'.phase = round.phase, round'.todo \subseteq round.todo
  PROVE  PayInv'
<1>1. RewardTypeOK'
  BY DEF PayInv, RewardTypeOK
<1>2. Grows
  BY DEF Grows, PayInv, RewardTypeOK
<1>3. JobsFit'
  <2>1. job'[q] = j /\ \A o \in Procs \ {q} : job'[o] = job[o]
    BY DEF PayInv, RewardTypeOK
  <2> QED
    BY <1>1, <1>2, <2>1, OneMoves DEF RowFits
<1>4. PoliciesFit'
  BY DEF PayInv, PoliciesFit
<1> QED
  BY <1>1, <1>2, <1>3, <1>4, RoundKept, NothingPosted

\* A handler is done, or gives up.
LEMMA JobEnds ==
  ASSUME PayInv, NEW q \in Procs, job' = [job EXCEPT ![q] = NoJob],
         UNCHANGED <<now, account, entries, policy, lock, decision, dispute, wallet, settled>>,
         setting' \in [policies : SUBSET Policies, execs : SUBSET Executions,
                       requests : SUBSET Requests, disputes : BOOLEAN,
                       races : BOOLEAN, faults : Nat],
         round' \in [phase : {"decide", "release", "expire"}, todo : SUBSET Executions],
         round'.phase = round.phase, round'.todo \subseteq round.todo
  PROVE  PayInv'
<1>1. NoJob \in JobRow /\ RowFits(q, NoJob)'
  <2>1. NoJob \in JobRow /\ NoJob.at = "idle"
    BY NoJobIsRow
  <2> QED
    BY <2>1 DEF RowFits, PolicyPlaces, Settling
<1>2. settled' \in [Executions -> OrderRow \cup {None}]
  BY DEF PayInv, RewardTypeOK
<1> QED
  BY <1>1, <1>2, JobMoves

\* The worker takes a lock of its list.
LEMMA TakesOne ==
  ASSUME PayInv, NEW e \in Executions, NEW phase, Takes(e, phase)
  PROVE  /\ round' \in [phase : {"decide", "release", "expire"}, todo : SUBSET Executions]
         /\ round'.phase = round.phase /\ round'.todo \subseteq round.todo
         /\ round.phase = phase /\ e \in round.todo /\ job[RewardWorker] = NoJob
         /\ RewardWorker \in Procs
BY DEF Takes, PayInv, RewardTypeOK, Procs

\* Nothing about the circumstances changes, and they are as they were.
LEMMA SettingStays ==
  ASSUME PayInv, UNCHANGED <<setting, settled>>
  PROVE  /\ setting' \in [policies : SUBSET Policies, execs : SUBSET Executions,
                          requests : SUBSET Requests, disputes : BOOLEAN,
                          races : BOOLEAN, faults : Nat]
         /\ settled' \in [Executions -> OrderRow \cup {None}]
BY DEF PayInv, RewardTypeOK

LEMMA RoundStays ==
  ASSUME PayInv, round' = round
  PROVE  /\ round' \in [phase : {"decide", "release", "expire"}, todo : SUBSET Executions]
         /\ round'.phase = round.phase /\ round'.todo \subseteq round.todo
BY DEF PayInv, RewardTypeOK

LEMMA DeferredStep == ASSUME PayInv, NEW e \in Executions, Deferred(e) PROVE PayInv'
<1>1. job' = [job EXCEPT ![RewardWorker] = NoJob]
  BY TakesOne DEF Deferred, PayInv, RewardTypeOK
<1> QED
  BY <1>1, TakesOne, SettingStays, JobEnds DEF Deferred

LEMMA ReleaseStep == ASSUME PayInv, NEW e \in Executions, Release(e) PROVE PayInv'
<1>1. PICK j : j = [NoJob EXCEPT !.at = "load", !.on = e, !.intent = "release"]
  OBVIOUS
<1>2. j \in JobRow /\ j.at = "load" /\ j.on = e /\ j.intent = "release" /\ j.amount = None
  BY <1>1 DEF NoJob, JobRow, Places
<1>3. job' = [job EXCEPT ![RewardWorker] = j]
  BY <1>1 DEF Release
<1>4. decision[e] # None /\ decision[e].deadline <= now
  BY TakesOne DEF Release, PayInv, RoundFits
<1>5. RowFits(RewardWorker, j)'
  BY <1>2, <1>4 DEF RowFits, Matures, PolicyPlaces, Settling, Release
<1> QED
  BY <1>2, <1>3, <1>5, TakesOne, SettingStays, JobMoves DEF Release

LEMMA ExpireReadStep == ASSUME PayInv, NEW e \in Executions, ExpireRead(e) PROVE PayInv'
<1>0. /\ UNCHANGED <<now, account, entries, policy, lock, decision, dispute, wallet, settled, setting>>
      /\ Takes(e, "expire")
  BY DEF ExpireRead
<1>1. CASE ~MayExpire(e)
  <2>1. job' = [job EXCEPT ![RewardWorker] = NoJob]
    BY <1>1 DEF ExpireRead
  <2> QED
    BY <1>0, <2>1, TakesOne, SettingStays, JobEnds
<1>2. CASE MayExpire(e)
  <2>1. PICK j : j = [NoJob EXCEPT !.at = "expire", !.on = e]
    OBVIOUS
  <2>2. j \in JobRow /\ j.at = "expire" /\ j.on = e
    BY <2>1 DEF NoJob, JobRow, Places
  <2>3. job' = [job EXCEPT ![RewardWorker] = j]
    BY <1>2, <2>1 DEF ExpireRead
  <2>4. lock[e].status # "none"
    BY <1>2 DEF MayExpire
  <2>5. RowFits(RewardWorker, j)'
    BY <1>0, <2>2, <2>4 DEF RowFits, PolicyPlaces, Settling
  <2> QED
    BY <1>0, <2>2, <2>3, <2>5, TakesOne, SettingStays, JobMoves
<1> QED
  BY <1>1, <1>2

LEMMA DisputeReadStep ==
  ASSUME PayInv, NEW q \in Procs, NEW e \in Executions, DisputeRead(q, e)
  PROVE  PayInv'
<1>1. PICK j : j = [NoJob EXCEPT !.at = "dispute", !.on = e]
  OBVIOUS
<1>2. j \in JobRow /\ j.at = "dispute" /\ j.on = e
  BY <1>1 DEF NoJob, JobRow, Places
<1>3. job' = [job EXCEPT ![q] = j]
  BY <1>1 DEF DisputeRead
<1>4. RowFits(q, j)'
  BY <1>2 DEF RowFits, PolicyPlaces, Settling, DisputeRead
<1> QED
  BY <1>2, <1>3, <1>4, RoundStays, SettingStays, JobMoves DEF DisputeRead

\* What a settlement gives leaves nothing out of account.
LEMMA SplitIsOne ==
  ASSUME PayInv, NEW j \in JobRow, j.on \in Executions, decision[j.on] # None,
         Ruled(j) \/ Matures(j)
  PROVE  AgentAmount(j) \in Nat /\ PaidOut(j) \in Nat /\ j.intent \in {"release", "refund"}
<1>1. decision[j.on] \in DecisionRow
  BY DEF PayInv, RewardTypeOK
<1>2. decision[j.on].agent \in Nat /\ decision[j.on].shares \in Nat
  BY <1>1 DEF DecisionRow
<1>3. AgentAmount(j) \in Nat
  BY <1>2 DEF AgentAmount, JobRow
<1>4. PaidOut(j) \in Nat
  BY <1>2, <1>3 DEF PaidOut
<1>5. j.intent \in {"release", "refund"}
  <2>1. CASE Matures(j)
    BY <2>1 DEF Matures
  <2>2. CASE Ruled(j)
    BY <2>2 DEF Ruled, PayInv, LocksFit, RewardTypeOK, DisputeRow
  <2> QED
    BY <2>1, <2>2
<1> QED
  BY <1>3, <1>4, <1>5

LEMMA SettleLoadStep == ASSUME PayInv, NEW q \in Procs, SettleLoad(q) PROVE PayInv'
<1>0. PICK j : j = job[q]
  OBVIOUS
<1>1. /\ j \in JobRow /\ j.at = "load" /\ j.on \in Executions /\ decision[j.on] # None
      /\ Ruled(j) \/ Matures(j)
  BY <1>0 DEF SettleLoad, PayInv, RewardTypeOK, JobsFit, JobFits, RowFits, Settling
<1>2. AgentAmount(j) \in Nat /\ PaidOut(j) \in Nat
  BY <1>1, SplitIsOne
<1>3. lock[j.on].amount \in Nat
  BY <1>1 DEF PayInv, RewardTypeOK, LockRow
<1>4. UNCHANGED <<now, account, entries, policy, lock, decision, dispute, wallet, settled, round, setting>>
  BY DEF SettleLoad
<1>5. CASE lock[j.on].status \in Terminal \/ PaidOut(j) > lock[j.on].amount
  <2>1. job' = [job EXCEPT ![q] = NoJob]
    BY <1>0, <1>5 DEF SettleLoad
  <2> QED
    BY <1>4, <2>1, RoundStays, SettingStays, JobEnds
<1>6. CASE ~ (lock[j.on].status \in Terminal \/ PaidOut(j) > lock[j.on].amount)
  <2>1. PICK k : k = [j EXCEPT !.at = "pay", !.amount = AgentAmount(j), !.out = PaidOut(j),
                                !.back = lock[j.on].amount - PaidOut(j)]
    OBVIOUS
  <2>2. lock[j.on].amount - PaidOut(j) \in Nat
    BY <1>2, <1>3, <1>6
  <2>3. PICK a, o, b : a = AgentAmount(j) /\ o = PaidOut(j) /\ b = lock[j.on].amount - PaidOut(j)
    OBVIOUS
  <2>4. k = [j EXCEPT !.at = "pay", !.amount = a, !.out = o, !.back = b]
    BY <2>1, <2>3
  <2>5. a \in Nat /\ o \in Nat /\ b \in Nat
    BY <1>2, <2>2, <2>3
  <2>6. /\ k \in JobRow /\ k.at = "pay" /\ k.on = j.on /\ k.intent = j.intent
        /\ k.amount = a /\ k.out = o /\ k.back = b
    BY <1>1, <2>4, <2>5 DEF JobRow, Places
  <2>7. job' = [job EXCEPT ![q] = k]
    BY <1>0, <1>6, <2>1 DEF SettleLoad
  <2>8. AgentAmount(k) = a /\ PaidOut(k) = o /\ o + b = lock[k.on].amount
    <3>1. AgentAmount(k) = a
      BY <2>5, <2>6, RewardAssumption DEF AgentAmount
    <3>2. PaidOut(k) = o
      BY <2>3, <2>6, <3>1 DEF PaidOut
    <3>3. o + b = lock[k.on].amount
      BY <1>2, <1>3, <2>3, <2>6
    <3> QED
      BY <3>1, <3>2, <3>3
  <2>9. SplitFits(k)
    BY <2>5, <2>6, <2>8 DEF SplitFits
  <2>10. Ruled(k) \/ Matures(k)
    <3>1. ASSUME Ruled(j) PROVE Ruled(k)
      <4>1. dispute[j.on].amount \in Nat /\ j.amount # None
        BY <1>1, <3>1, RewardAssumption DEF Ruled, PayInv, RewardTypeOK, DisputeRow
      <4>2. a = j.amount
        BY <2>3, <4>1 DEF AgentAmount
      <4> QED
        BY <2>6, <3>1, <4>2 DEF Ruled
    <3>2. ASSUME Matures(j) PROVE Matures(k)
      <4>1. a = decision[j.on].agent
        BY <2>3, <3>2 DEF AgentAmount, Matures
      <4> QED
        BY <2>6, <3>2, <4>1 DEF Matures
    <3> QED
      BY <1>1, <3>1, <3>2
  <2>11. RowFits(q, k)
    BY <1>1, <2>6, <2>9, <2>10 DEF RowFits, PolicyPlaces, Settling
  <2>12. RowFits(q, k)'
    BY <1>4, <2>11 DEF RowFits, Ruled, Matures, SplitFits, PaidOut, AgentAmount, Order
  <2> QED
    BY <1>4, <2>6, <2>7, <2>12, RoundStays, SettingStays, JobMoves
<1> QED
  BY <1>5, <1>6

LEMMA SettlePayStep == ASSUME PayInv, NEW q \in Procs, SettlePay(q) PROVE PayInv'
<1>0. PICK j, e, o : j = job[q] /\ e = j.on /\ o = Order(j)
  OBVIOUS
<1>1. /\ j \in JobRow /\ j.at = "pay" /\ e \in Executions /\ decision[e] # None
      /\ Ruled(j) \/ Matures(j)
      /\ SplitFits(j)
  BY <1>0 DEF SettlePay, PayInv, RewardTypeOK, JobsFit, JobFits, RowFits, Settling
<1>2. j.intent \in {"release", "refund"} /\ j.amount \in Nat
  BY <1>0, <1>1, SplitIsOne DEF SplitFits
<1>3. o \in OrderRow /\ o # None
  BY <1>0, <1>1, <1>2, OrderIsOne DEF PayInv, RewardTypeOK
<1>4. UNCHANGED <<now, account, entries, policy, lock, decision, dispute, wallet, round, setting>>
  BY DEF SettlePay
<1>5. CASE ~Accepts(e, o)
  <2>1. job' = [job EXCEPT ![q] = NoJob] /\ settled' = settled
    BY <1>0, <1>5 DEF SettlePay
  <2> QED
    BY <1>4, <2>1, RoundStays, SettingStays, JobEnds
<1>6. CASE Accepts(e, o)
  <2>1. PICK k : k = [j EXCEPT !.at = "record"]
    OBVIOUS
  <2>2. /\ k \in JobRow /\ k.at = "record" /\ k.on = e /\ k.intent = j.intent
        /\ k.amount = j.amount /\ k.out = j.out /\ k.back = j.back
    BY <1>0, <1>1, <2>1 DEF JobRow, Places
  <2>3. job' = [job EXCEPT ![q] = k] /\ settled' = [settled EXCEPT ![e] = o]
    BY <1>0, <1>6, <2>1 DEF SettlePay, PayInv, RewardTypeOK
  <2>4. /\ settled' \in [Executions -> OrderRow \cup {None}]
        /\ settled'[e] = o
        /\ \A x \in Executions : settled[x] # None => settled'[x] = settled[x]
    BY <1>1, <1>3, <1>6, <2>3 DEF Accepts, PayInv, RewardTypeOK
  <2>5. Ruled(k) \/ Matures(k)
    BY <1>0, <1>1, <2>2 DEF Ruled, Matures
  <2>6. SplitFits(k)
    BY <1>0, <1>1, <2>2 DEF SplitFits, PaidOut, AgentAmount
  <2>7. Order(k) = o
    BY <1>0, <2>2 DEF Order
  <2>8. (Ruled(k) \/ Matures(k))' /\ SplitFits(k)' /\ Order(k)' = o
    BY <1>4, <2>5, <2>6, <2>7 DEF Ruled, Matures, SplitFits, PaidOut, AgentAmount, Order
  <2>9. RowFits(q, k)'
    BY <1>1, <1>4, <2>2, <2>4, <2>8 DEF RowFits, PolicyPlaces, Settling
  <2>10. setting' \in [policies : SUBSET Policies, execs : SUBSET Executions,
                       requests : SUBSET Requests, disputes : BOOLEAN,
                       races : BOOLEAN, faults : Nat]
    BY <1>4 DEF PayInv, RewardTypeOK
  <2> QED
    BY <1>4, <2>2, <2>3, <2>4, <2>9, <2>10, RoundStays, JobMoves
<1> QED
  BY <1>5, <1>6

LEMMA SettleReadStep == ASSUME PayInv, NEW q \in Procs, SettleRead(q) PROVE PayInv'
<1>0. PICK j : j = job[q]
  OBVIOUS
<1>1. j \in JobRow /\ j.at = "record" /\ RowFits(q, j) /\ j.on \in Executions
  BY <1>0 DEF SettleRead, PayInv, RewardTypeOK, JobsFit, JobFits, RowFits, Settling
<1>4. UNCHANGED <<now, account, entries, policy, lock, decision, dispute, wallet, settled, round, setting>>
  BY DEF SettleRead
<1>5. CASE ~MayApply(j.on, j.intent)
  <2>1. job' = [job EXCEPT ![q] = NoJob]
    BY <1>0, <1>5 DEF SettleRead
  <2> QED
    BY <1>4, <2>1, RoundStays, SettingStays, JobEnds
<1>6. CASE MayApply(j.on, j.intent)
  <2>1. PICK k : k = [j EXCEPT !.at = "save"]
    OBVIOUS
  <2>2. /\ k \in JobRow /\ k.at = "save" /\ k.on = j.on /\ k.intent = j.intent
        /\ k.amount = j.amount /\ k.out = j.out /\ k.back = j.back
    BY <1>1, <2>1 DEF JobRow, Places
  <2>3. job' = [job EXCEPT ![q] = k]
    BY <1>0, <1>6, <2>1 DEF SettleRead, PayInv, RewardTypeOK
  <2>5. Ruled(k) \/ Matures(k)
    BY <1>1, <2>2 DEF RowFits, Settling, Ruled, Matures
  <2>6. SplitFits(k)
    BY <1>1, <2>2 DEF RowFits, SplitFits, PaidOut, AgentAmount
  <2>7. Order(k) = settled[k.on]
    BY <1>1, <2>2 DEF RowFits, Order
  <2>8. (Ruled(k) \/ Matures(k))' /\ SplitFits(k)' /\ Order(k)' = settled'[k.on]
    BY <1>4, <2>5, <2>6, <2>7 DEF Ruled, Matures, SplitFits, PaidOut, AgentAmount, Order
  <2>9. RowFits(q, k)'
    BY <1>1, <1>4, <2>2, <2>8 DEF RowFits, PolicyPlaces, Settling
  <2> QED
    BY <1>4, <2>2, <2>3, <2>9, RoundStays, SettingStays, JobMoves
<1> QED
  BY <1>5, <1>6

LEMMA FailsStep == ASSUME PayInv, NEW q \in Procs, Fails(q) PROVE PayInv'
<1>1. setting' \in [policies : SUBSET Policies, execs : SUBSET Executions,
                    requests : SUBSET Requests, disputes : BOOLEAN,
                    races : BOOLEAN, faults : Nat]
  BY DEF Fails, PayInv, RewardTypeOK
<1> QED
  BY <1>1, RoundStays, JobEnds DEF Fails

LEMMA RefusedStep == ASSUME PayInv, NEW q \in Procs, Refused(q) PROVE PayInv'
BY RoundStays, SettingStays, JobEnds DEF Refused

\* The wallet, or the clock.
LEMMA RestStep ==
  ASSUME PayInv,
         \/ ChallengePayoutDestination \/ VerifyPayoutDestination
         \/ ChallengeLapses \/ RewardTick
  PROVE  PayInv'
<1>1. /\ UNCHANGED <<account, entries, policy, lock, decision, dispute, settled, job, round, setting>>
      /\ wallet' \in {"unbound", "challenged", "verified"}
      /\ now' \in 0 .. Horizon /\ now <= now'
  BY RewardAssumption
     DEF PayInv, RewardTypeOK, ChallengePayoutDestination, VerifyPayoutDestination,
         ChallengeLapses, RewardTick
<1>2. RewardTypeOK'
  BY <1>1 DEF PayInv, RewardTypeOK
<1>3. Grows
  BY <1>1 DEF Grows
<1>4. PoliciesFit'
  BY <1>1 DEF PayInv, PoliciesFit
<1> QED
  BY <1>1, <1>2, <1>3, <1>4, NoneMoves, RoundKept, NothingPosted

LEMMA NextPhaseStep == ASSUME PayInv, NextPhase PROVE PayInv'
<1>0. UNCHANGED <<now, account, entries, policy, lock, decision, dispute, wallet, settled, job, setting>>
  BY DEF NextPhase
<1>1. PICK phase : phase = CASE round.phase = "decide" -> "release"
                             [] round.phase = "release" -> "expire"
                             [] round.phase = "expire" -> "decide"
  OBVIOUS
<1>2. phase \in {"decide", "release", "expire"}
  BY <1>1 DEF PayInv, RewardTypeOK
<1>3. round' = [phase |-> phase, todo |-> Listing(phase)]
  BY <1>1 DEF NextPhase
<1>4. Listing(phase) \subseteq Executions
  BY DEF Listing
<1>5. RewardTypeOK'
  BY <1>0, <1>2, <1>3, <1>4 DEF PayInv, RewardTypeOK
<1>6. Grows
  BY <1>0 DEF Grows, PayInv, RewardTypeOK
<1>7. PoliciesFit'
  BY <1>0 DEF PayInv, PoliciesFit
<1>8. RoundFits'
  <2> SUFFICES ASSUME round'.phase = "release", NEW e \in round'.todo
               PROVE  decision'[e] # None /\ decision'[e].deadline <= now'
    BY DEF RoundFits
  <2>1. phase = "release" /\ e \in Executions /\ e \in Listing("release")
    BY <1>3, <1>4
  <2>2. Matured(e)
    BY <2>1 DEF Listing
  <2> QED
    BY <1>0, <2>1, <2>2 DEF Matured, PayInv, LocksFit
<1> QED
  BY <1>0, <1>5, <1>6, <1>7, <1>8, NoneMoves, NothingPosted

LEMMA ResolveStep ==
  ASSUME PayInv, NEW q \in Procs, NEW e \in Executions, NEW r,
         dispute[e].status = "open", r \in Resolutions(decision[e].net), ResolveDispute(q, e, r)
  PROVE  PayInv'
<1>0. UNCHANGED <<now, account, entries, policy, lock, decision, wallet, settled, round, setting>>
  BY DEF ResolveDispute
<1>1. decision[e] # None /\ decision[e] \in DecisionRow
  BY DEF PayInv, LocksFit, RewardTypeOK
<1>2. r.intent \in {"release", "refund"} /\ r.amount \in Nat
  BY <1>1 DEF Resolutions, DecisionRow
<1>3. PICK j, d : /\ j = [NoJob EXCEPT !.at = "load", !.on = e, !.intent = r.intent, !.amount = r.amount]
                  /\ d = [status |-> "resolved", intent |-> r.intent, amount |-> r.amount]
  OBVIOUS
<1>4. /\ j \in JobRow /\ j.at = "load" /\ j.on = e /\ j.intent = r.intent /\ j.amount = r.amount
      /\ d \in DisputeRow /\ d.status = "resolved" /\ d.intent = r.intent /\ d.amount = r.amount
  BY <1>2, <1>3 DEF NoJob, JobRow, Places, DisputeRow
<1>5. job' = [job EXCEPT ![q] = j] /\ dispute' = [dispute EXCEPT ![e] = d]
  BY <1>3 DEF ResolveDispute
<1>6. /\ dispute' \in [Executions -> DisputeRow] /\ dispute'[e] = d
      /\ \A x \in Executions \ {e} : dispute'[x] = dispute[x]
  BY <1>4, <1>5 DEF PayInv, RewardTypeOK
<1>7. RewardTypeOK'
  BY <1>0, <1>4, <1>5, <1>6 DEF PayInv, RewardTypeOK
<1>8. Grows
  BY <1>0, <1>6 DEF Grows, PayInv, RewardTypeOK
<1>9. RowFits(q, j)'
  BY <1>0, <1>1, <1>4, <1>6 DEF RowFits, Ruled, PolicyPlaces, Settling
<1>10. JobsFit'
  <2>1. job'[q] = j /\ \A o \in Procs \ {q} : job'[o] = job[o]
    BY <1>5 DEF PayInv, RewardTypeOK
  <2> QED
    BY <1>7, <1>8, <1>9, <2>1, OneMoves DEF RowFits
<1>11. PoliciesFit'
  BY <1>0 DEF PayInv, PoliciesFit
<1>12. LocksFit'
  BY <1>0, <1>1, <1>2, <1>4, <1>6 DEF PayInv, LocksFit
<1>13. RoundFits'
  BY <1>0, <1>7, <1>8, RoundKept
<1> QED
  BY <1>0, <1>7, <1>8, <1>10, <1>11, <1>12, <1>13, ReleasesKept, EndsKept, FiniteKept DEF PayInv

\* Only the status of one lock is written.
LEMMA StatusWritten ==
  ASSUME lock \in [Executions -> LockRow], NEW e \in Executions,
         NEW s \in Holding \cup Terminal,
         lock' = [lock EXCEPT ![e].status = s]
  PROVE  /\ lock' \in [Executions -> LockRow]
         /\ lock'[e].status = s /\ lock'[e].policy = lock[e].policy
         /\ lock'[e].terms = lock[e].terms /\ lock'[e].amount = lock[e].amount
         /\ \A o \in Executions \ {e} : lock'[o] = lock[o]
<1>1. lock[e] \in LockRow
  OBVIOUS
<1>2. lock'[e] = [lock[e] EXCEPT !.status = s]
  OBVIOUS
<1>3. /\ lock'[e] \in LockRow /\ lock'[e].status = s /\ lock'[e].policy = lock[e].policy
      /\ lock'[e].terms = lock[e].terms /\ lock'[e].amount = lock[e].amount
  BY <1>1, <1>2 DEF LockRow
<1> QED
  BY <1>3

LEMMA DisputeSaveStep == ASSUME PayInv, NEW q \in Procs, DisputeSave(q) PROVE PayInv'
<1>0. UNCHANGED <<now, account, entries, policy, decision, wallet, settled, round, setting>>
  BY DEF DisputeSave
<1>1. PICK e : e = job[q].on
  OBVIOUS
<1>2. e \in Executions /\ decision[e] # None /\ dispute[e].status = "none"
  BY <1>1 DEF DisputeSave, PayInv, JobsFit, JobFits, RowFits
<1>3. lock' = [lock EXCEPT ![e].status = "disputed"] /\ dispute' = [dispute EXCEPT ![e].status = "open"]
  BY <1>1 DEF DisputeSave
<1>4. /\ lock' \in [Executions -> LockRow]
      /\ lock'[e].status = "disputed" /\ lock'[e].policy = lock[e].policy
      /\ lock'[e].terms = lock[e].terms /\ lock'[e].amount = lock[e].amount
      /\ \A o \in Executions \ {e} : lock'[o] = lock[o]
  BY <1>2, <1>3, StatusWritten DEF PayInv, RewardTypeOK, Holding
<1>5. /\ dispute' \in [Executions -> DisputeRow] /\ dispute'[e].status = "open"
      /\ \A o \in Executions \ {e} : dispute'[o] = dispute[o]
  <2>1. dispute[e] \in DisputeRow /\ dispute'[e] = [dispute[e] EXCEPT !.status = "open"]
    BY <1>2, <1>3 DEF PayInv, RewardTypeOK
  <2>2. dispute'[e] \in DisputeRow /\ dispute'[e].status = "open"
    BY <2>1 DEF DisputeRow
  <2> QED
    BY <1>2, <1>3, <2>2 DEF PayInv, RewardTypeOK
<1>6. RewardTypeOK'
  BY <1>0, <1>4, <1>5, NoJobIsRow DEF DisputeSave, PayInv, RewardTypeOK
<1>7. lock[e].status # "none"
  BY <1>2 DEF PayInv, LocksFit
<1>8. Grows
  BY <1>0, <1>2, <1>4, <1>5, <1>7 DEF Grows, PayInv, RewardTypeOK
<1>9. LocksFit'
  BY <1>0, <1>2, <1>4, <1>5, <1>7 DEF PayInv, LocksFit
<1>10. JobsFit'
  <2>1. job'[q] = NoJob /\ \A o \in Procs \ {q} : job'[o] = job[o]
    BY DEF DisputeSave, PayInv, RewardTypeOK
  <2>2. RowFits(q, job[q])'
    BY <2>1, NoJobIsRow DEF RowFits, PolicyPlaces, Settling
  <2> QED
    BY <1>6, <1>8, <2>1, <2>2, OneMoves
<1>11. PoliciesFit'
  BY <1>0 DEF PayInv, PoliciesFit
<1>12. EndsFit'
  BY <1>4, <1>8, EndsKept
<1>13. Finite'
  BY <1>0, <1>4, <1>7, FiniteKept
<1> QED
  BY <1>0, <1>6, <1>8, <1>9, <1>10, <1>11, <1>12, <1>13, RoundKept, ReleasesKept DEF PayInv

LEMMA DecideStep ==
  ASSUME PayInv, NEW e \in Executions, NEW v \in Evidence, Decide(e, v)
  PROVE  PayInv'
<1>0. UNCHANGED <<now, account, entries, policy, dispute, wallet, settled, job, setting>>
  BY DEF Decide
<1>1. lock[e].status = "locked" /\ lock[e].terms \in Terms /\ lock[e].amount \in Nat /\ decision[e] = None
  BY DEF Decide, PayInv, LocksFit, RewardTypeOK, LockRow
<1>2. PICK a : a = Allocate(lock[e].amount, lock[e].terms, v)
  OBVIOUS
<1>3. a.net \in Nat /\ a.shares \in Nat /\ a.agent \in Nat
  BY <1>1, <1>2, AllocationIsNat
<1>4. lock[e].terms.period \in Nat /\ now \in Nat
  BY <1>1, RewardAssumption DEF ValidTerms, PayInv, RewardTypeOK
<1>5. PICK d : d = NewDecision(e, a)
  OBVIOUS
<1>6. d \in DecisionRow /\ d # None
  BY <1>3, <1>4, <1>5, RewardAssumption DEF NewDecision, DecisionRow
<1>7. decision' = [decision EXCEPT ![e] = d] /\ lock' = [lock EXCEPT ![e].status = "releasable"]
  BY <1>2, <1>5 DEF Decide
<1>8. /\ decision' \in [Executions -> DecisionRow \cup {None}] /\ decision'[e] = d
      /\ \A o \in Executions \ {e} : decision'[o] = decision[o]
  BY <1>6, <1>7 DEF PayInv, RewardTypeOK
<1>9. /\ lock' \in [Executions -> LockRow]
      /\ lock'[e].status = "releasable" /\ lock'[e].policy = lock[e].policy
      /\ lock'[e].terms = lock[e].terms /\ lock'[e].amount = lock[e].amount
      /\ \A o \in Executions \ {e} : lock'[o] = lock[o]
  BY <1>7, StatusWritten DEF PayInv, RewardTypeOK, Holding
<1>10. /\ round' \in [phase : {"decide", "release", "expire"}, todo : SUBSET Executions]
       /\ round'.phase = round.phase /\ round'.todo \subseteq round.todo
  BY TakesOne DEF Decide
<1>11. RewardTypeOK'
  BY <1>0, <1>8, <1>9, <1>10 DEF PayInv, RewardTypeOK
<1>12. Grows
  BY <1>0, <1>1, <1>8, <1>9 DEF Grows, PayInv, RewardTypeOK
<1>13. LocksFit'
  BY <1>0, <1>1, <1>6, <1>8, <1>9 DEF PayInv, LocksFit
<1>14. PoliciesFit'
  BY <1>0 DEF PayInv, PoliciesFit
<1>15. EndsFit'
  BY <1>9, <1>12, EndsKept
<1>16. Finite'
  BY <1>0, <1>1, <1>9, FiniteKept
<1> QED
  BY <1>0, <1>10, <1>11, <1>12, <1>13, <1>14, <1>15, <1>16, NoneMoves, RoundKept,
     ReleasesKept DEF PayInv

-----------------------------------------------------------------------------
(* The steps that post entries.                                             *)

\* What is added to the entries may add a release that fits.
LEMMA ReleasesPosted ==
  ASSUME PayInv, Grows, NEW new, entries' = entries \cup Fresh(new),
         \A x \in new : x.key[1] = "release" =>
           /\ decision'[x.key[2]] # None /\ settled'[x.key[2]] # None
           /\ settled'[x.key[2]].intent = "release"
           /\ x.amount = settled'[x.key[2]].amount + decision'[x.key[2]].shares
  PROVE  ReleasesFit'
<1> SUFFICES ASSUME NEW x \in entries', x.key[1] = "release"
             PROVE  /\ decision'[x.key[2]] # None /\ settled'[x.key[2]] # None
                    /\ settled'[x.key[2]].intent = "release"
                    /\ x.amount = settled'[x.key[2]].amount + decision'[x.key[2]].shares
  BY DEF ReleasesFit
<1>1. CASE x \in new
  BY <1>1
<1>2. CASE x \in entries
  <2>1. x.key[2] \in Executions
    BY <1>2 DEF PayInv, RewardTypeOK, EntryRow, EntryKeys
  <2> QED
    BY <1>2, <2>1 DEF PayInv, ReleasesFit, Grows
<1> QED
  BY <1>1, <1>2 DEF Fresh

\* A lock that there is ends, and what that takes is posted.
LEMMA LockEndsSo ==
  ASSUME PayInv, NEW q \in Procs, NEW e \in Executions, lock[e].status # "none",
         NEW s \in Terminal, lock' = [lock EXCEPT ![e].status = s],
         NEW new \in SUBSET EntryRow, IsFiniteSet(new), ApplyEntries(new),
         job' = [job EXCEPT ![q] = NoJob],
         UNCHANGED <<now, policy, decision, dispute, wallet, settled, round, setting>>,
         s = "released" => settled[e] # None /\ settled[e].intent = "release",
         s = "refunded" => settled[e] # None /\ settled[e].intent = "refund",
         \A x \in new : x.key[1] = "release" =>
           /\ decision[x.key[2]] # None /\ settled[x.key[2]] # None
           /\ settled[x.key[2]].intent = "release"
           /\ x.amount = settled[x.key[2]].amount + decision[x.key[2]].shares
  PROVE  PayInv'
<1>1. /\ lock' \in [Executions -> LockRow]
      /\ lock'[e].status = s /\ lock'[e].policy = lock[e].policy
      /\ lock'[e].terms = lock[e].terms /\ lock'[e].amount = lock[e].amount
      /\ \A o \in Executions \ {e} : lock'[o] = lock[o]
  BY StatusWritten DEF PayInv, RewardTypeOK
<1>2. /\ account' \in [available : Nat, locked : Nat] /\ entries' \subseteq EntryRow
      /\ entries' = entries \cup Fresh(new) /\ IsFiniteSet(Fresh(new))
  BY AccountTyped DEF PayInv, RewardTypeOK
<1>3. RewardTypeOK'
  BY <1>1, <1>2, NoJobIsRow DEF PayInv, RewardTypeOK
<1>4. s \notin {"none", "locked", "releasable", "disputed"}
  BY DEF Terminal
<1>5. Grows
  BY <1>1, <1>4 DEF Grows, PayInv, RewardTypeOK
<1>6. JobsFit'
  <2>1. job'[q] = NoJob /\ \A o \in Procs \ {q} : job'[o] = job[o]
    BY DEF PayInv, RewardTypeOK
  <2>2. RowFits(q, job[q])'
    BY <2>1, NoJobIsRow DEF RowFits, PolicyPlaces, Settling
  <2> QED
    BY <1>3, <1>5, <2>1, <2>2, OneMoves
<1>7. LocksFit'
  BY <1>1, <1>4 DEF PayInv, LocksFit
<1>8. PoliciesFit'
  BY DEF PayInv, PoliciesFit
<1>9. ReleasesFit'
  BY <1>2, <1>5, ReleasesPosted
<1>10. EndsFit'
  BY <1>1 DEF PayInv, EndsFit
<1>11. Finite'
  <2>1. IsFiniteSet(entries')
    BY <1>2, FS_Union DEF PayInv, Finite
  <2>2. {o \in Executions : lock'[o].status # "none"} \subseteq {o \in Executions : lock[o].status # "none"}
    BY <1>1
  <2> QED
    BY <2>1, <2>2, FS_Subset DEF PayInv, Finite
<1>12. RoundFits'
  BY <1>3, <1>5, RoundKept
<1> QED
  BY <1>3, <1>6, <1>7, <1>8, <1>9, <1>10, <1>11, <1>12 DEF PayInv

LEMMA ExpireSaveStep == ASSUME PayInv, ExpireSave PROVE PayInv'
<1>1. PICK e, n : e = job[RewardWorker].on /\ n = lock[e].amount
  OBVIOUS
<1>2. RewardWorker \in Procs /\ e \in Executions /\ lock[e].status # "none"
  BY <1>1 DEF Procs, ExpireSave, PayInv, JobsFit, JobFits, RowFits
<1>3. n \in Nat \ {0}
  BY <1>1, <1>2 DEF PayInv, LocksFit, RewardTypeOK, LockRow
<1>4. PICK x : x = Entry("expire", e, n)
  OBVIOUS
<1>5. x \in EntryRow /\ x.key[1] = "expire"
  BY <1>2, <1>3, <1>4, EntryIsRow
<1>6. PICK new : new = {x}
  OBVIOUS
<1>7. new \in SUBSET EntryRow /\ IsFiniteSet(new)
  BY <1>5, <1>6, FS_Singleton
<1>8. \A y \in new : y.key[1] = "release" => FALSE
  BY <1>5, <1>6
<1>9. lock' = [lock EXCEPT ![e].status = "expired"] /\ ApplyEntries(new)
  BY <1>1, <1>4, <1>6 DEF ExpireSave
<1>10. /\ job' = [job EXCEPT ![RewardWorker] = NoJob]
       /\ UNCHANGED <<now, policy, decision, dispute, wallet, settled, round, setting>>
  BY DEF ExpireSave
<1>11. PICK s : s = "expired"
  OBVIOUS
<1>12. s \in Terminal /\ s # "released" /\ s # "refunded" /\ lock' = [lock EXCEPT ![e].status = s]
  BY <1>9, <1>11 DEF Terminal
<1> QED
  BY <1>2, <1>7, <1>8, <1>9, <1>10, <1>12, LockEndsSo

\* The entries of a settlement.
LEMMA SettlementRows ==
  ASSUME PayInv, NEW q \in Procs, NEW j, j = job[q], j.at = "save"
  PROVE  /\ j.on \in Executions /\ decision[j.on] # None /\ settled[j.on] # None
         /\ j.intent \in {"release", "refund"} /\ settled[j.on].intent = j.intent
         /\ j.out \in Nat /\ j.back \in Nat /\ j.out + j.back = lock[j.on].amount
         /\ j.intent = "refund" => j.out = 0
         /\ j.intent = "release" => j.out = settled[j.on].amount + decision[j.on].shares
         /\ SettlementEntries(j) \subseteq EntryRow /\ IsFiniteSet(SettlementEntries(j))
         /\ \A x \in SettlementEntries(j) : x.key = <<"release", j.on>> \/ x.key = <<"refund", j.on>>
         /\ \A x \in SettlementEntries(j) : x.key = <<"release", j.on>> => x.amount = j.out /\ j.out > 0
<1>1. /\ j \in JobRow /\ j.on \in Executions /\ decision[j.on] # None
      /\ Ruled(j) \/ Matures(j)
      /\ SplitFits(j) /\ settled[j.on] = Order(j)
  BY DEF PayInv, RewardTypeOK, JobsFit, JobFits, RowFits, Settling
<1>2. j.intent \in {"release", "refund"} /\ j.amount \in Nat /\ j.out \in Nat /\ j.back \in Nat
  BY <1>1, SplitIsOne DEF SplitFits, JobRow
<1>3. settled[j.on] # None /\ settled[j.on].intent = j.intent
  BY <1>1, <1>2, OrderIsOne DEF PayInv, RewardTypeOK, Order
<1>4. j.intent = "refund" => j.out = 0
  BY <1>1 DEF SplitFits, PaidOut
<1>5. j.intent = "release" => j.out = settled[j.on].amount + decision[j.on].shares
  <2>1. ASSUME j.intent = "release" PROVE j.out = settled[j.on].amount + decision[j.on].shares
    <3>1. settled[j.on].amount = j.amount
      BY <1>1, <2>1 DEF Order
    <3>2. AgentAmount(j) = j.amount
      BY <1>2, RewardAssumption DEF AgentAmount
    <3> QED
      BY <1>1, <2>1, <3>1, <3>2 DEF SplitFits, PaidOut
  <2> QED
    BY <2>1
<1>6. PICK a, b : a = Entry("release", j.on, j.out) /\ b = Entry("refund", j.on, j.back)
  OBVIOUS
<1>7. a.amount = j.out /\ b.amount = j.back /\ a.key = <<"release", j.on>> /\ b.key = <<"refund", j.on>>
  BY <1>6 DEF Entry
<1>8. SettlementEntries(j) \subseteq {a, b} /\ \A x \in SettlementEntries(j) : x.amount > 0
  BY <1>6 DEF SettlementEntries
<1>9. SettlementEntries(j) \subseteq EntryRow
  <2> SUFFICES ASSUME NEW x \in SettlementEntries(j) PROVE x \in EntryRow
    OBVIOUS
  <2>1. CASE x = a
    <3>1. j.out > 0
      BY <1>7, <1>8, <2>1
    <3>2. j.out \in Nat \ {0}
      BY <1>2, <3>1
    <3> QED
      BY <1>1, <1>6, <2>1, <3>2, EntryIsRow
  <2>2. CASE x = b
    <3>1. j.back > 0
      BY <1>7, <1>8, <2>2
    <3>2. j.back \in Nat \ {0}
      BY <1>2, <3>1
    <3> QED
      BY <1>1, <1>6, <2>2, <3>2, EntryIsRow
  <2> QED
    BY <1>8, <2>1, <2>2
<1>10. IsFiniteSet(SettlementEntries(j))
  <2>1. IsFiniteSet({a}) /\ IsFiniteSet({b}) /\ {a, b} = {a} \cup {b}
    BY FS_Singleton
  <2>2. IsFiniteSet({a, b})
    BY <2>1, FS_Union
  <2> QED
    BY <1>8, <2>2, FS_Subset
<1>11. \A x \in SettlementEntries(j) : x.key = <<"release", j.on>> \/ x.key = <<"refund", j.on>>
  BY <1>7, <1>8
<1>12. a.key # b.key
  BY <1>7
<1>13. \A x \in SettlementEntries(j) : x.key = <<"release", j.on>> => x.amount = j.out /\ j.out > 0
  BY <1>7, <1>8, <1>12
<1>14. j.out + j.back = lock[j.on].amount
  BY <1>1 DEF SplitFits
<1> QED
  BY <1>1, <1>2, <1>3, <1>4, <1>5, <1>9, <1>10, <1>11, <1>13, <1>14

LEMMA SettleSaveStep == ASSUME PayInv, NEW q \in Procs, SettleSave(q) PROVE PayInv'
<1>1. PICK j, s, new : /\ j = job[q] /\ new = SettlementEntries(j)
                       /\ s = IF j.intent = "release" THEN "released" ELSE "refunded"
  OBVIOUS
<1>2. j.at = "save"
  BY <1>1 DEF SettleSave
<1>3. /\ j.on \in Executions /\ decision[j.on] # None /\ settled[j.on] # None
      /\ j.intent \in {"release", "refund"} /\ settled[j.on].intent = j.intent
      /\ j.intent = "refund" => j.out = 0
      /\ j.intent = "release" => j.out = settled[j.on].amount + decision[j.on].shares
      /\ new \in SUBSET EntryRow /\ IsFiniteSet(new)
      /\ \A x \in new : x.key = <<"release", j.on>> \/ x.key = <<"refund", j.on>>
      /\ \A x \in new : x.key = <<"release", j.on>> => x.amount = j.out /\ j.out > 0
  BY <1>1, <1>2, SettlementRows
<1>4. lock[j.on].status # "none"
  BY <1>3 DEF PayInv, LocksFit
<1>5. lock' = [lock EXCEPT ![j.on].status = s] /\ ApplyEntries(new)
  BY <1>1 DEF SettleSave
<1>6. ASSUME NEW x \in new, x.key[1] = "release"
      PROVE  /\ decision[x.key[2]] # None /\ settled[x.key[2]] # None
             /\ settled[x.key[2]].intent = "release"
             /\ x.amount = settled[x.key[2]].amount + decision[x.key[2]].shares
  <2>1. x.key = <<"release", j.on>> /\ x.key[2] = j.on
    BY <1>3, <1>6
  <2>2. x.amount = j.out /\ j.out > 0
    BY <1>3, <2>1
  <2>3. j.intent = "release"
    BY <1>3, <2>2
  <2> QED
    BY <1>3, <2>1, <2>2, <2>3
<1>7. /\ s \in Terminal
      /\ s = "released" => settled[j.on].intent = "release"
      /\ s = "refunded" => settled[j.on].intent = "refund"
  BY <1>1, <1>3 DEF Terminal
<1> QED
  BY <1>1, <1>3, <1>4, <1>5, <1>6, <1>7, LockEndsSo DEF SettleSave

-----------------------------------------------------------------------------
(* The claim.                                                               *)

LEMMA MinIs ==
  ASSUME NEW S, \E x \in S : \A y \in S : x <= y
  PROVE  Min(S) \in S /\ \A y \in S : Min(S) <= y
BY DEF Min

LEMMA MinOfTwo ==
  ASSUME NEW a \in Int, NEW b \in Int
  PROVE  Min({a, b}) \in Int /\ Min({a, b}) <= a /\ Min({a, b}) <= b
<1>1. \E x \in {a, b} : \A y \in {a, b} : x <= y
  OBVIOUS
<1> QED
  BY <1>1, MinIs

LEMMA MinOfThree ==
  ASSUME NEW a \in Nat, NEW b \in Nat, NEW c \in Nat
  PROVE  Min({a, b, c}) \in Nat
<1>1. \E x \in {a, b, c} : \A y \in {a, b, c} : x <= y
  <2>1. \/ a <= b /\ a <= c
        \/ b <= a /\ b <= c
        \/ c <= a /\ c <= b
    OBVIOUS
  <2> QED
    BY <2>1
<1> QED
  BY <1>1, MinIs

HeldUnder(p) == {e \in Executions : lock[e].policy = p /\ lock[e].status \in Holding}

LEMMA HeldIsInt ==
  ASSUME PayInv, NEW p
  PROVE  IsFiniteSet(HeldUnder(p)) /\ LockedAmount(p) \in Int
<1>1. HeldUnder(p) \subseteq {e \in Executions : lock[e].status # "none"}
  BY DEF HeldUnder, Holding
<1>2. IsFiniteSet(HeldUnder(p))
  BY <1>1, FS_Subset DEF PayInv, Finite
<1>3. PICK f : f = [e \in Executions |-> lock[e].amount]
  OBVIOUS
<1>4. \A e \in HeldUnder(p) : f[e] \in Int
  BY <1>3 DEF HeldUnder, PayInv, RewardTypeOK, LockRow
<1>5. SumFunctionOnSet(f, HeldUnder(p)) \in Int
  BY <1>2, <1>4, SumIsInt
<1> QED
  BY <1>2, <1>3, <1>5 DEF LockedAmount, HeldUnder

\* What a claim may put on a lock.
LEMMA ClaimIsNat ==
  ASSUME PayInv, NEW e \in Executions, NEW p \in Policies, OnClaim(e, p)
  PROVE  /\ Uncommitted(p) \in Nat \ {0} /\ Uncommitted(p) <= policy[p].funded - LockedAmount(p)
         /\ Min({now + LockTTL, policy[p].expires, Deadline[policy[p].task]}) \in Nat
<1>1. policy[p] \in PolicyRow /\ policy[p].status = "funded"
  BY DEF OnClaim, PayInv, RewardTypeOK
<1>2. policy[p].terms \in Terms /\ policy[p].task \in Tasks
  BY <1>1 DEF PayInv, PoliciesFit
<1>3. policy[p].funded \in Nat /\ policy[p].expires \in Nat
  BY <1>1 DEF PolicyRow
<1>4. policy[p].terms.gross \in Nat /\ Deadline[policy[p].task] \in Nat /\ LockTTL \in Nat
  BY <1>2, RewardAssumption DEF ValidTerms
<1>5. now + LockTTL \in Nat
  BY <1>4 DEF PayInv, RewardTypeOK
<1>6. PICK m : m = LockedAmount(p)
  OBVIOUS
<1>7. m \in Int
  BY <1>6, HeldIsInt
<1>8. policy[p].funded - m \in Int
  BY <1>3, <1>7
<1>9. /\ Min({policy[p].funded - m, policy[p].terms.gross}) \in Int
      /\ Min({policy[p].funded - m, policy[p].terms.gross}) <= policy[p].funded - m
  <2>1. PICK d, g : d = policy[p].funded - m /\ g = policy[p].terms.gross
    OBVIOUS
  <2>2. d \in Int /\ g \in Int
    BY <1>4, <1>8, <2>1
  <2>3. Min({d, g}) \in Int /\ Min({d, g}) <= d
    BY <2>2, MinOfTwo
  <2> QED
    BY <2>1, <2>3
<1>10. PICK n : n = Uncommitted(p)
  OBVIOUS
<1>11. n \in Int /\ n <= policy[p].funded - m
  BY <1>6, <1>9, <1>10 DEF Uncommitted
<1>12. n > 0
  BY <1>10 DEF OnClaim
<1>13. n \in Nat \ {0}
  BY <1>11, <1>12
<1> QED
  BY <1>3, <1>4, <1>5, <1>6, <1>10, <1>11, <1>13, MinOfThree

\* The new lock: what a claim does to the rows, n being what it locks.
LockStarts(e, p, n) ==
  /\ n \in Nat \ {0} /\ n <= policy[p].funded - LockedAmount(p)
  /\ lock[e].status = "none" /\ policy[p].status = "funded" /\ policy[p].terms \in Terms
  /\ lock' \in [Executions -> LockRow]
  /\ lock'[e].status = "locked" /\ lock'[e].policy = p
  /\ lock'[e].terms = policy[p].terms /\ lock'[e].amount = n
  /\ \A o \in Executions \ {e} : lock'[o] = lock[o]
  /\ ApplyEntries({Entry("lock", e, n)})
  /\ Entry("lock", e, n) \in EntryRow
  /\ UNCHANGED <<now, policy, decision, dispute, wallet, settled, job, round, setting>>

LEMMA LockBegins ==
  ASSUME PayInv, NEW e \in Executions, NEW p \in Policies, OnClaim(e, p)
  PROVE  \E n : LockStarts(e, p, n)
<1> SUFFICES ASSUME NEW n, n = Uncommitted(p) PROVE LockStarts(e, p, n)
  OBVIOUS
<1>1. n \in Nat \ {0} /\ n <= policy[p].funded - LockedAmount(p)
  BY ClaimIsNat
<1>2. PICK t : t = Min({now + LockTTL, policy[p].expires, Deadline[policy[p].task]})
  OBVIOUS
<1>3. t \in Nat
  BY <1>2, ClaimIsNat
<1>4. lock[e].status = "none"
  <2>1. lock[e] = NoLock
    BY DEF OnClaim
  <2> QED
    BY <2>1 DEF NoLock
<1>5. policy[p].status = "funded" /\ policy[p].terms \in Terms
  BY DEF OnClaim, PayInv, PoliciesFit
<1>6. PICK c : c = policy[p].terms
  OBVIOUS
<1>7. PICK r : r = [status |-> "locked", policy |-> p, terms |-> c, amount |-> n, expires |-> t]
  OBVIOUS
<1>8. /\ r \in LockRow /\ r.status = "locked" /\ r.policy = p /\ r.terms = c /\ r.amount = n
  BY <1>1, <1>3, <1>5, <1>6, <1>7 DEF LockRow, Holding
<1>9. lock' = [lock EXCEPT ![e] = r]
  BY <1>2, <1>6, <1>7 DEF OnClaim
<1>10. /\ lock' \in [Executions -> LockRow] /\ lock'[e] = r
       /\ \A o \in Executions \ {e} : lock'[o] = lock[o]
  BY <1>8, <1>9 DEF PayInv, RewardTypeOK
<1>11. ApplyEntries({Entry("lock", e, n)})
  BY DEF OnClaim
<1>12. Entry("lock", e, n) \in EntryRow
  BY <1>1, EntryIsRow
<1>13. UNCHANGED <<now, policy, decision, dispute, wallet, settled, job, round, setting>>
  BY DEF OnClaim
<1> QED
  BY <1>1, <1>4, <1>5, <1>6, <1>8, <1>10, <1>11, <1>12, <1>13 DEF LockStarts

LEMMA OnClaimStep ==
  ASSUME PayInv, NEW e \in Executions, NEW p \in Policies, OnClaim(e, p)
  PROVE  PayInv'
<1>1. PICK n : LockStarts(e, p, n)
  BY LockBegins
<1>2. /\ n \in Nat \ {0}
      /\ lock[e].status = "none" /\ policy[p].status = "funded" /\ policy[p].terms \in Terms
      /\ lock' \in [Executions -> LockRow]
      /\ lock'[e].status = "locked" /\ lock'[e].policy = p
      /\ lock'[e].terms = policy[p].terms /\ lock'[e].amount = n
      /\ \A o \in Executions \ {e} : lock'[o] = lock[o]
      /\ ApplyEntries({Entry("lock", e, n)})
      /\ Entry("lock", e, n) \in EntryRow
  BY <1>1 DEF LockStarts
<1>3. UNCHANGED <<now, policy, decision, dispute, wallet, settled, job, round, setting>>
  BY <1>1 DEF LockStarts
<1>4. PICK x, new : x = Entry("lock", e, n) /\ new = {x}
  OBVIOUS
<1>5. /\ x \in EntryRow /\ x.key[1] = "lock" /\ new \in SUBSET EntryRow /\ IsFiniteSet(new)
      /\ ApplyEntries(new)
  <2>1. x \in EntryRow /\ x.key[1] = "lock" /\ ApplyEntries({x})
    BY <1>2, <1>4 DEF Entry
  <2> QED
    BY <1>4, <2>1, FS_Singleton
<1>6. /\ account' \in [available : Nat, locked : Nat] /\ entries' \subseteq EntryRow
      /\ entries' = entries \cup Fresh(new) /\ IsFiniteSet(Fresh(new))
  BY <1>5, AccountTyped DEF PayInv, RewardTypeOK
<1>7. RewardTypeOK'
  BY <1>2, <1>3, <1>6 DEF PayInv, RewardTypeOK
<1>8. Grows
  BY <1>2, <1>3 DEF Grows, PayInv, RewardTypeOK
<1>9. LocksFit'
  <2>1. decision[e] = None /\ dispute[e].status = "none"
    BY <1>2 DEF PayInv, LocksFit, RewardTypeOK, DisputeRow
  <2> QED
    BY <1>2, <1>3, <2>1 DEF PayInv, LocksFit
<1>10. PoliciesFit'
  BY <1>3 DEF PayInv, PoliciesFit
<1>11. ReleasesFit'
  <2>1. \A y \in new : y.key[1] = "release" => FALSE
    BY <1>4, <1>5
  <2> QED
    BY <1>6, <1>8, <2>1, ReleasesPosted
<1>12. EndsFit'
  <2>1. \A o \in Executions :
          lock'[o].status \in {"released", "refunded"} => lock'[o].status = lock[o].status
    BY <1>2
  <2> QED
    BY <1>8, <2>1, EndsKept
<1>13. Finite'
  <2>1. IsFiniteSet(entries')
    BY <1>6, FS_Union DEF PayInv, Finite
  <2>2. PICK T : T = {o \in Executions : lock[o].status # "none"}
    OBVIOUS
  <2>3. IsFiniteSet(T \cup {e})
    BY <2>2, FS_AddElement DEF PayInv, Finite
  <2>4. {o \in Executions : lock'[o].status # "none"} \subseteq T \cup {e}
    BY <1>2, <2>2
  <2> QED
    BY <2>1, <2>3, <2>4, FS_Subset DEF Finite
<1>14. JobsFit' /\ RoundFits'
  BY <1>3, <1>7, <1>8, NoneMoves, RoundKept
<1> QED
  BY <1>7, <1>9, <1>10, <1>11, <1>12, <1>13, <1>14 DEF PayInv

-----------------------------------------------------------------------------

LEMMA PayInit == ASSUME RewardInit PROVE PayInv
<1>1. RewardTypeOK
  <2>1. /\ NoPolicy \in PolicyRow /\ NoLock \in LockRow /\ NoDispute \in DisputeRow /\ NoJob \in JobRow
    BY DEF NoPolicy, NoLock, NoDispute, NoJob, PolicyRow, LockRow, DisputeRow, JobRow, Places
  <2>2. now \in 0 .. Horizon /\ account \in [available : Nat, locked : Nat] /\ entries \subseteq EntryRow
    BY RewardAssumption DEF RewardInit
  <2>3. setting \in [policies : SUBSET Policies, execs : SUBSET Executions,
                     requests : SUBSET Requests, disputes : BOOLEAN,
                     races : BOOLEAN, faults : Nat]
    BY RewardAssumption DEF RewardInit
  <2> QED
    BY <2>1, <2>2, <2>3 DEF RewardInit, RewardTypeOK
<1>2. PoliciesFit /\ LocksFit /\ EndsFit
  BY DEF RewardInit, PoliciesFit, LocksFit, EndsFit, NoPolicy, NoLock, NoDispute
<1>3. JobsFit
  BY DEF RewardInit, JobsFit, JobFits, RowFits, NoJob, PolicyPlaces, Settling
<1>4. RoundFits /\ ReleasesFit
  BY DEF RewardInit, RoundFits, ReleasesFit
<1>5. Finite
  <2>1. {e \in Executions : lock[e].status # "none"} = {}
    BY DEF RewardInit, NoLock
  <2> QED
    BY <2>1, FS_EmptySet DEF RewardInit, Finite
<1> QED
  BY <1>1, <1>2, <1>3, <1>4, <1>5 DEF PayInv

LEMMA ContinueStep == ASSUME PayInv, NEW q \in Procs, Continue(q) PROVE PayInv'
BY PolicySaveStep, DisputeSaveStep, RefusedStep, SettleLoadStep, SettlePayStep, SettleReadStep,
   SettleSaveStep
   DEF Continue

LEMMA WorkerMoves == ASSUME PayInv, WorkerStep PROVE PayInv'
<1>1. CASE NextPhase \/ ExpireSave
  BY <1>1, NextPhaseStep, ExpireSaveStep
<1>2. CASE Continue(RewardWorker)
  BY <1>2, ContinueStep DEF Procs
<1>3. ASSUME NEW e \in Executions,
             (\E v \in Evidence : Decide(e, v)) \/ Deferred(e) \/ Release(e) \/ ExpireRead(e)
      PROVE  PayInv'
  BY <1>3, DecideStep, DeferredStep, ReleaseStep, ExpireReadStep
<1> QED
  BY <1>1, <1>2, <1>3 DEF WorkerStep

LEMMA RequestMoves == ASSUME PayInv, NEW q \in setting.requests, Request(q) PROVE PayInv'
<1>0. q \in Procs
  BY DEF PayInv, RewardTypeOK, Procs
<1>1. ASSUME NEW p \in Policies, CancelRead(q, p) \/ \E n \in Fundings : FundRead(q, p, n) PROVE PayInv'
  BY <1>0, <1>1, CancelReadStep, FundReadStep
<1>2. ASSUME NEW e \in Executions, DisputeRead(q, e) PROVE PayInv'
  BY <1>0, <1>2, DisputeReadStep
<1>3. ASSUME NEW e \in Executions, dispute[e].status = "open",
             NEW r \in Resolutions(decision[e].net), ResolveDispute(q, e, r)
      PROVE  PayInv'
  BY <1>0, <1>3, ResolveStep
<1> QED
  BY <1>1, <1>2, <1>3 DEF Request

LEMMA PayNext == ASSUME PayInv, RewardNext PROVE PayInv'
<1>1. ASSUME NEW r \in TopUps, TopUpEscrow(r) PROVE PayInv'
  BY <1>1, TopUpStep
<1>2. ASSUME NEW p \in Policies, NEW t \in Tasks, NEW c \in Terms,
             CreateRewardPolicy(p, t, c) PROVE PayInv'
  BY <1>2, CreateStep
<1>3. ASSUME NEW e \in Executions, NEW p \in Policies, OnClaim(e, p) PROVE PayInv'
  BY <1>3, OnClaimStep
<1>4. ASSUME NEW q \in setting.requests, Request(q) PROVE PayInv'
  BY <1>4, RequestMoves
<1>5. ASSUME NEW q \in Requests, Continue(q) PROVE PayInv'
  BY <1>5, ContinueStep DEF Procs
<1>6. CASE WorkerStep
  BY <1>6, WorkerMoves
<1>7. ASSUME NEW q \in Procs, Fails(q) PROVE PayInv'
  BY <1>7, FailsStep
<1>8. CASE ChallengePayoutDestination \/ VerifyPayoutDestination \/ ChallengeLapses \/ RewardTick
  BY <1>8, RestStep
<1> QED
  BY <1>1, <1>2, <1>3, <1>4, <1>5, <1>6, <1>7, <1>8, Zenon DEF RewardNext

LEMMA PayStutter == ASSUME PayInv, UNCHANGED rewardVars PROVE PayInv'
<1>1. UNCHANGED <<now, account, entries, policy, lock, decision, dispute, wallet,
                  settled, job, round, setting>>
  BY DEF rewardVars
<1>2. RewardTypeOK' /\ PoliciesFit' /\ LocksFit'
  BY <1>1 DEF PayInv, RewardTypeOK, PoliciesFit, LocksFit
<1>3. Grows
  BY <1>1 DEF Grows, PayInv, RewardTypeOK
<1>4. JobsFit'
  <2>1. RewardWorker \in Procs
    BY DEF Procs
  <2> QED
    BY <1>1, <1>2, <1>3, <2>1, OneMoves
<1>5. RoundFits'
  BY <1>1, <1>2, <1>3, RoundKept
<1> QED
  BY <1>1, <1>2, <1>3, <1>4, <1>5, NothingPosted

\* The invariant of the settlements holds in every reachable state, whatever
\* transactions overlap, whatever fails and whoever asks.
THEOREM PayHolds == RewardSpec => []PayInv
<1>1. PayInv /\ [RewardNext]_rewardVars => PayInv'
  BY PayNext, PayStutter
<1> QED
  BY <1>1, PayInit, PTL DEF RewardSpec

\* A lock is released or refunded only with what the provider has settled for
\* it, and the release entry is the amount settled with the shares and the fee
\* (recordSettlement), also when transactions overlap.
THEOREM ProviderAlwaysAgrees == RewardSpec => []ProviderAgrees
<1>1. PayInv => ProviderAgrees
  <2> SUFFICES ASSUME PayInv, NEW e \in Executions
               PROVE  /\ lock[e].status = "released" =>
                         /\ settled[e] # None /\ settled[e].intent = "release"
                         /\ \A x \in entries : x.key = <<"release", e>> =>
                              x.amount = settled[e].amount + decision[e].shares
                      /\ lock[e].status = "refunded" => settled[e] # None /\ settled[e].intent = "refund"
    BY DEF ProviderAgrees
  <2>1. ASSUME NEW x \in entries, x.key = <<"release", e>>
        PROVE  x.amount = settled[e].amount + decision[e].shares
    <3>1. x.key[1] = "release" /\ x.key[2] = e
      BY <2>1
    <3> QED
      BY <3>1 DEF PayInv, ReleasesFit
  <2> QED
    BY <2>1 DEF PayInv, EndsFit
<1> QED
  BY <1>1, PayHolds, PTL

\* A payment step follows a ruling or a decision nobody disputed in time.
PaymentDue ==
  \A e \in Executions : settled'[e] # settled[e] =>
       \/ /\ dispute[e].status = "resolved"
          /\ settled'[e].intent = dispute[e].intent
          /\ dispute[e].intent = "release" => settled'[e].amount = dispute[e].amount
       \/ /\ settled'[e].intent = "release"
          /\ decision[e].deadline <= now
          /\ settled'[e].amount = decision[e].agent

LEMMA PayIsDue == ASSUME PayInv, NEW q \in Procs, SettlePay(q) PROVE PaymentDue
<1>0. PICK j : j = job[q]
  OBVIOUS
<1>1. /\ j \in JobRow /\ j.at = "pay" /\ j.on \in Executions
      /\ Ruled(j) \/ Matures(j)
  BY <1>0 DEF SettlePay, PayInv, RewardTypeOK, JobsFit, JobFits, RowFits, Settling
<1> SUFFICES ASSUME NEW e \in Executions, settled'[e] # settled[e]
             PROVE  \/ /\ dispute[e].status = "resolved"
                       /\ settled'[e].intent = dispute[e].intent
                       /\ dispute[e].intent = "release" => settled'[e].amount = dispute[e].amount
                    \/ /\ settled'[e].intent = "release"
                       /\ decision[e].deadline <= now
                       /\ settled'[e].amount = decision[e].agent
  BY DEF PaymentDue
<1>2. settled' = [settled EXCEPT ![j.on] = Order(j)]
  BY <1>0 DEF SettlePay
<1>3. e = j.on /\ settled'[e] = Order(j)
  BY <1>1, <1>2 DEF PayInv, RewardTypeOK
<1>4. Order(j).intent = j.intent /\ (j.intent = "release" => Order(j).amount = j.amount)
  BY DEF Order
<1>5. CASE Ruled(j)
  BY <1>3, <1>4, <1>5 DEF Ruled
<1>6. CASE Matures(j)
  <2>1. j.intent = "release" /\ decision[j.on].deadline <= now /\ j.amount = decision[j.on].agent
    BY <1>1, <1>6 DEF Matures
  <2> QED
    BY <1>3, <1>4, <2>1
<1> QED
  BY <1>1, <1>5, <1>6

LEMMA SettledMoves ==
  ASSUME RewardNext, settled' # settled
  PROVE  \E q \in Procs : SettlePay(q)
BY DEF RewardNext, Request, Continue, WorkerStep, Procs, TopUpEscrow, CreateRewardPolicy,
   OnClaim,
       CancelRead, FundRead, DisputeRead, ResolveDispute, PolicySave, DisputeSave, Refused, SettleLoad,
       SettleRead, SettleSave, NextPhase, ExpireSave, Decide, Deferred, Release, ExpireRead, Fails,
       ChallengePayoutDestination, VerifyPayoutDestination, ChallengeLapses, RewardTick

\* Money goes to the agent only when the decision can no longer be disputed, or
\* by a ruling, in the amount decided or ruled; it goes back by a ruling only
\* (Release, Refund, ResolveDispute), whatever overlaps or fails.
THEOREM PaymentsAreDue == RewardSpec => PaymentIsDue
<1>1. PayInv /\ [RewardNext]_rewardVars => [PaymentDue]_rewardVars
  <2> SUFFICES ASSUME PayInv, RewardNext PROVE PaymentDue
    OBVIOUS
  <2>1. CASE settled' = settled
    BY <2>1 DEF PaymentDue
  <2>2. CASE settled' # settled
    BY <2>2, SettledMoves, PayIsDue
  <2> QED
    BY <2>1, <2>2
<1>2. RewardSpec => [][PaymentDue]_rewardVars
  BY <1>1, PayHolds, PTL DEF RewardSpec
<1>3. [PaymentDue]_rewardVars => [\A e \in Executions : settled'[e] # settled[e] =>
       \/ /\ dispute[e].status = "resolved"
          /\ settled'[e].intent = dispute[e].intent
          /\ dispute[e].intent = "release" => settled'[e].amount = dispute[e].amount
       \/ /\ settled'[e].intent = "release"
          /\ decision[e].deadline <= now
          /\ settled'[e].amount = decision[e].agent]_rewardVars
  BY DEF PaymentDue
<1> QED
  BY <1>2, <1>3, PTL DEF PaymentIsDue, PaymentDue

-----------------------------------------------------------------------------
(* What the locks hold.                                                     *)

\* Sums over the locks, for any set of them.
Amounts == [e \in Executions |-> lock[e].amount]
HeldLocks == {e \in Executions : lock[e].status \in Holding}

LEMMA HeldIsFinite ==
  ASSUME PayInv
  PROVE  /\ IsFiniteSet(HeldLocks) /\ \A e \in Executions : Amounts[e] \in Nat
         /\ HeldInAll \in Int
<1>1. HeldLocks \subseteq {e \in Executions : lock[e].status # "none"}
  BY DEF HeldLocks, Holding
<1>2. IsFiniteSet(HeldLocks)
  BY <1>1, FS_Subset DEF PayInv, Finite
<1>3. \A e \in Executions : Amounts[e] \in Nat
  BY DEF Amounts, PayInv, RewardTypeOK, LockRow
<1>4. PICK f, S : f = Amounts /\ S = HeldLocks
  OBVIOUS
<1>5. S \subseteq Executions
  BY <1>4 DEF HeldLocks
<1>6. SumFunctionOnSet(f, S) \in Int
  BY <1>2, <1>3, <1>4, <1>5, SumIsInt
<1> QED
  BY <1>2, <1>3, <1>4, <1>6 DEF HeldInAll, Amounts, HeldLocks

\* The locks that hold money stay the same, with the same money.
LEMMA HoldingKept ==
  ASSUME PayInv,
         \A e \in Executions :
           /\ lock'[e].status \in Holding <=> lock[e].status \in Holding
           /\ lock[e].status \in Holding =>
                lock'[e].amount = lock[e].amount /\ lock'[e].policy = lock[e].policy
  PROVE  /\ HeldInAll' = HeldInAll
         /\ \A p : LockedAmount(p)' = LockedAmount(p)
<1>1. PICK f, g : f = Amounts /\ g = [e \in Executions |-> lock'[e].amount]
  OBVIOUS
<1>2. PICK S : S = HeldLocks
  OBVIOUS
<1>3. S = {e \in Executions : lock'[e].status \in Holding}
  BY <1>2 DEF HeldLocks
<1>4. S \subseteq Executions /\ IsFiniteSet(S) /\ \A e \in S : f[e] = g[e]
  BY <1>1, <1>2, HeldIsFinite DEF HeldLocks, Amounts
<1>5. SumFunctionOnSet(f, S) = SumFunctionOnSet(g, S)
  BY <1>4, SumEqual
<1>6. HeldInAll' = HeldInAll
  BY <1>1, <1>2, <1>3, <1>5 DEF HeldInAll, Amounts, HeldLocks
<1>7. ASSUME NEW p PROVE LockedAmount(p)' = LockedAmount(p)
  <2>1. PICK T : T = HeldUnder(p)
    OBVIOUS
  <2>2. T = {e \in Executions : lock'[e].policy = p /\ lock'[e].status \in Holding}
    BY <2>1 DEF HeldUnder
  <2>3. IsFiniteSet(T) /\ T \subseteq S
    BY <1>2, <2>1, HeldIsInt DEF HeldUnder, HeldLocks
  <2>4. SumFunctionOnSet(f, T) = SumFunctionOnSet(g, T)
    BY <1>4, <2>3, SumEqual
  <2> QED
    BY <1>1, <2>1, <2>2, <2>4 DEF LockedAmount, Amounts, HeldUnder
<1> QED
  BY <1>6, <1>7

\* One lock begins to hold money.
LEMMA HoldingBegins ==
  ASSUME PayInv, NEW e \in Executions, NEW p, NEW n \in Nat,
         lock[e].status \notin Holding, lock'[e].status \in Holding,
         lock'[e].policy = p, lock'[e].amount = n,
         \A o \in Executions \ {e} : lock'[o] = lock[o]
  PROVE  /\ HeldInAll' = HeldInAll + n
         /\ LockedAmount(p)' = LockedAmount(p) + n
         /\ \A o : o # p => LockedAmount(o)' = LockedAmount(o)
<1>1. PICK f, g : f = Amounts /\ g = [o \in Executions |-> lock'[o].amount]
  OBVIOUS
<1>2. /\ \A o \in Executions : f[o] \in Int /\ g[o] \in Int
      /\ \A o \in Executions \ {e} : g[o] = f[o]
      /\ g[e] = n
  BY <1>1, HeldIsFinite DEF Amounts
<1>3. ASSUME NEW S \in SUBSET Executions, IsFiniteSet(S), e \notin S
      PROVE  SumFunctionOnSet(g, S \cup {e}) = SumFunctionOnSet(f, S) + n
  <2>1. SumFunctionOnSet(g, S) = SumFunctionOnSet(f, S)
    <3>1. \A x \in S : g[x] = f[x]
      BY <1>2, <1>3
    <3> QED
      BY <1>3, <3>1, SumEqual
  <2>2. \A x \in S \cup {e} : g[x] \in Int
    BY <1>2
  <2>3. SumFunctionOnSet(g, S \cup {e}) = SumFunctionOnSet(g, S) + g[e]
    BY <1>3, <2>2, SumOfOneMore
  <2> QED
    BY <1>2, <2>1, <2>3
<1>4. HeldInAll' = HeldInAll + n
  <2>1. PICK S : S = HeldLocks
    OBVIOUS
  <2>2. S \in SUBSET Executions /\ IsFiniteSet(S) /\ e \notin S
    BY <2>1, HeldIsFinite DEF HeldLocks
  <2>3. S \cup {e} = {o \in Executions : lock'[o].status \in Holding}
    BY <2>1 DEF HeldLocks
  <2>4. SumFunctionOnSet(g, S \cup {e}) = SumFunctionOnSet(f, S) + n
    BY <1>3, <2>2
  <2> QED
    BY <1>1, <2>1, <2>3, <2>4 DEF HeldInAll, Amounts, HeldLocks
<1>5. LockedAmount(p)' = LockedAmount(p) + n
  <2>1. PICK S : S = HeldUnder(p)
    OBVIOUS
  <2>2. S \in SUBSET Executions /\ IsFiniteSet(S) /\ e \notin S
    BY <2>1, HeldIsInt DEF HeldUnder
  <2>3. S \cup {e} = {o \in Executions : lock'[o].policy = p /\ lock'[o].status \in Holding}
    BY <2>1 DEF HeldUnder
  <2>4. SumFunctionOnSet(g, S \cup {e}) = SumFunctionOnSet(f, S) + n
    BY <1>3, <2>2
  <2> QED
    BY <1>1, <2>1, <2>3, <2>4 DEF LockedAmount, Amounts, HeldUnder
<1>6. ASSUME NEW o, o # p PROVE LockedAmount(o)' = LockedAmount(o)
  <2>1. PICK S : S = HeldUnder(o)
    OBVIOUS
  <2>2. S \in SUBSET Executions /\ IsFiniteSet(S) /\ e \notin S
    BY <2>1, HeldIsInt DEF HeldUnder
  <2>3. S = {x \in Executions : lock'[x].policy = o /\ lock'[x].status \in Holding}
    BY <1>6, <2>1 DEF HeldUnder
  <2>4. SumFunctionOnSet(g, S) = SumFunctionOnSet(f, S)
    <3>1. \A x \in S : g[x] = f[x]
      BY <1>2, <2>2
    <3> QED
      BY <2>2, <3>1, SumEqual
  <2> QED
    BY <1>1, <2>1, <2>3, <2>4 DEF LockedAmount, Amounts, HeldUnder
<1> QED
  BY <1>4, <1>5, <1>6

\* One lock holds money no longer.
LEMMA HoldingEnds ==
  ASSUME PayInv, NEW e \in Executions, NEW n, n = lock[e].amount,
         lock[e].status \in Holding, lock'[e].status \notin Holding,
         lock'[e].amount = lock[e].amount, lock'[e].policy = lock[e].policy,
         \A o \in Executions \ {e} : lock'[o] = lock[o]
  PROVE  /\ HeldInAll' = HeldInAll - n
         /\ \A p : LockedAmount(p)' \in Int /\ LockedAmount(p)' <= LockedAmount(p)
<1>1. PICK f, g : f = Amounts /\ g = [o \in Executions |-> lock'[o].amount]
  OBVIOUS
<1>2. /\ \A o \in Executions : f[o] \in Int /\ g[o] = f[o]
      /\ f[e] = n /\ n \in Nat
  BY <1>1, HeldIsFinite DEF Amounts
<1>3. ASSUME NEW S \in SUBSET Executions, IsFiniteSet(S), e \in S
      PROVE  SumFunctionOnSet(g, S \ {e}) = SumFunctionOnSet(f, S) - n
  <2>1. SumFunctionOnSet(f, S \ {e}) = SumFunctionOnSet(f, S) - f[e]
    <3>1. \A x \in S : f[x] \in Int
      BY <1>2
    <3> QED
      BY <1>3, <3>1, SumOfOneLess
  <2>2. SumFunctionOnSet(g, S \ {e}) = SumFunctionOnSet(f, S \ {e})
    <3>1. IsFiniteSet(S \ {e}) /\ \A x \in S \ {e} : g[x] = f[x]
      BY <1>2, <1>3, FS_RemoveElement
    <3> QED
      BY <3>1, SumEqual
  <2> QED
    BY <1>2, <2>1, <2>2
<1>4. HeldInAll' = HeldInAll - n
  <2>1. PICK S : S = HeldLocks
    OBVIOUS
  <2>2. S \in SUBSET Executions /\ IsFiniteSet(S) /\ e \in S
    BY <2>1, HeldIsFinite DEF HeldLocks
  <2>3. S \ {e} = {o \in Executions : lock'[o].status \in Holding}
    BY <2>1 DEF HeldLocks
  <2>4. SumFunctionOnSet(g, S \ {e}) = SumFunctionOnSet(f, S) - n
    BY <1>3, <2>2
  <2> QED
    BY <1>1, <2>1, <2>3, <2>4 DEF HeldInAll, Amounts, HeldLocks
<1>5. ASSUME NEW p PROVE LockedAmount(p)' \in Int /\ LockedAmount(p)' <= LockedAmount(p)
  <2>1. PICK S : S = HeldUnder(p)
    OBVIOUS
  <2>2. S \in SUBSET Executions /\ IsFiniteSet(S)
    BY <2>1, HeldIsInt DEF HeldUnder
  <2>3. S \ {e} = {o \in Executions : lock'[o].policy = p /\ lock'[o].status \in Holding}
    BY <2>1 DEF HeldUnder
  <2>4. PICK a, b : a = LockedAmount(p) /\ b = LockedAmount(p)'
    OBVIOUS
  <2>5. a = SumFunctionOnSet(f, S) /\ b = SumFunctionOnSet(g, S \ {e})
    BY <1>1, <2>1, <2>3, <2>4 DEF LockedAmount, Amounts, HeldUnder
  <2>6. a \in Int
    BY <2>4, HeldIsInt
  <2>7. CASE e \in S
    <3>1. b = a - n
      BY <1>3, <2>2, <2>5, <2>7
    <3> QED
      BY <1>2, <2>4, <2>6, <3>1
  <2>8. CASE e \notin S
    <3>1. S \ {e} = S /\ \A x \in S : f[x] = g[x]
      BY <1>2, <2>2, <2>8
    <3>2. b = a
      BY <2>2, <2>5, <3>1, SumEqual
    <3> QED
      BY <2>4, <2>6, <3>2
  <2> QED
    BY <2>7, <2>8
<1> QED
  BY <1>4, <1>5

-----------------------------------------------------------------------------
(* What an entry moves.                                                     *)

\* The entries of one kind among some.
OfKind(E, k) == {x \in E : x.key[1] = k}
PostedIn(E, k) == SumFunctionOnSet([x \in E |-> x.amount], OfKind(E, k))

\* What an entry adds to the entries of a kind.
Adds(x, k) == IF x.key[1] = k THEN x.amount ELSE 0

LEMMA PostedMore ==
  ASSUME NEW E \in SUBSET EntryRow, IsFiniteSet(E), NEW x \in EntryRow, x \notin E, NEW k
  PROVE  /\ PostedIn(E \cup {x}, k) = PostedIn(E, k) + Adds(x, k)
         /\ PostedIn(E, k) \in Int
<1>1. PICK F : F = E \cup {x}
  OBVIOUS
<1>2. PICK f, g : f = [y \in E |-> y.amount] /\ g = [y \in F |-> y.amount]
  OBVIOUS
<1>3. PICK S : S = OfKind(E, k)
  OBVIOUS
<1>4. \A y \in EntryRow : y.amount \in Nat
  BY DEF EntryRow
<1>5. S \subseteq E /\ IsFiniteSet(S) /\ x \notin S
  BY <1>3, FS_Subset DEF OfKind
<1>6. (\A y \in S : f[y] \in Int /\ f[y] = g[y]) /\ (\A y \in S \cup {x} : g[y] \in Int) /\ g[x] = x.amount
  BY <1>1, <1>2, <1>4, <1>5
<1>7. SumFunctionOnSet(f, S) = SumFunctionOnSet(g, S) /\ SumFunctionOnSet(f, S) \in Int
  BY <1>5, <1>6, SumEqual, SumIsInt
<1>8. CASE x.key[1] = k
  <2>1. OfKind(F, k) = S \cup {x}
    BY <1>1, <1>3, <1>8 DEF OfKind
  <2>2. SumFunctionOnSet(g, S \cup {x}) = SumFunctionOnSet(g, S) + g[x]
    BY <1>5, <1>6, SumOfOneMore
  <2> QED
    BY <1>1, <1>2, <1>3, <1>6, <1>7, <1>8, <2>1, <2>2 DEF PostedIn, Adds
<1>9. CASE x.key[1] # k
  <2>1. OfKind(F, k) = S
    BY <1>1, <1>3, <1>9 DEF OfKind
  <2>2. Adds(x, k) = 0
    BY <1>9 DEF Adds
  <2>3. PICK m : m = SumFunctionOnSet(f, S)
    OBVIOUS
  <2>4. PostedIn(F, k) = m /\ PostedIn(E, k) = m /\ m \in Int
    BY <1>2, <1>3, <1>7, <2>1, <2>3 DEF PostedIn
  <2> QED
    BY <1>1, <2>2, <2>4
<1> QED
  BY <1>8, <1>9

\* What an entry moves out of the account is what has been paid out, and what
\* it moves into it has been topped up.
LEMMA EntryBalances ==
  ASSUME NEW x \in EntryRow
  PROVE  /\ Adds(x, "release") \in Int /\ Adds(x, "topup") \in Int
         /\ AvailableDelta(x) \in Int /\ LockedDelta(x) \in Int
         /\ AvailableDelta(x) + LockedDelta(x) + Adds(x, "release") = Adds(x, "topup")
<1>1. x.amount \in Nat /\ x.key \in EntryKeys
  BY DEF EntryRow
<1>2. x.key[1] \in {"topup", "lock", "release", "refund", "expire"}
  BY <1>1 DEF EntryKeys
<1>3. PICK n, k : n = x.amount /\ k = x.key[1]
  OBVIOUS
<1>4. CASE k = "topup"
  <2>1. /\ AvailableDelta(x) = n /\ LockedDelta(x) = 0
        /\ Adds(x, "release") = 0 /\ Adds(x, "topup") = n
    BY <1>3, <1>4 DEF AvailableDelta, LockedDelta, Adds
  <2> QED
    BY <1>1, <1>3, <2>1
<1>5. CASE k = "lock"
  <2>1. /\ AvailableDelta(x) = - n /\ LockedDelta(x) = n
        /\ Adds(x, "release") = 0 /\ Adds(x, "topup") = 0
    BY <1>3, <1>5 DEF AvailableDelta, LockedDelta, Adds
  <2> QED
    BY <1>1, <1>3, <2>1
<1>6. CASE k = "release"
  <2>1. /\ AvailableDelta(x) = 0 /\ LockedDelta(x) = - n
        /\ Adds(x, "release") = n /\ Adds(x, "topup") = 0
    BY <1>3, <1>6 DEF AvailableDelta, LockedDelta, Adds
  <2> QED
    BY <1>1, <1>3, <2>1
<1>7. CASE k \in {"refund", "expire"}
  <2>1. /\ AvailableDelta(x) = n /\ LockedDelta(x) = - n
        /\ Adds(x, "release") = 0 /\ Adds(x, "topup") = 0
    BY <1>3, <1>7 DEF AvailableDelta, LockedDelta, Adds
  <2> QED
    BY <1>1, <1>3, <2>1
<1> QED
  BY <1>2, <1>3, <1>4, <1>5, <1>6, <1>7

\* No entry has this key yet.
NewKey(x) == \A y \in entries : y.key # x.key

\* An entry that is new to the ledger.
LEMMA OnePosted ==
  ASSUME PayInv, NEW x \in EntryRow, NewKey(x), ApplyEntries({x})
  PROVE  /\ account'.locked = account.locked + LockedDelta(x)
         /\ entries' = entries \cup {x}
         /\ LedgerBalances =>
              account'.available + account'.locked + Posted("release")' = Posted("topup")'
<1>1. Fresh({x}) = {x} /\ x \notin entries
  BY DEF Fresh, NewKey
<1>2. entries' = entries \cup {x}
  BY <1>1 DEF ApplyEntries
<1>3. PICK f, g : f = [y \in {x} |-> AvailableDelta(y)] /\ g = [y \in {x} |-> LockedDelta(y)]
  OBVIOUS
<1>4. f[x] = AvailableDelta(x) /\ g[x] = LockedDelta(x) /\ f[x] \in Int /\ g[x] \in Int
  BY <1>3, DeltasAreInt
<1>5. SumFunctionOnSet(f, {x}) = f[x] /\ SumFunctionOnSet(g, {x}) = g[x]
  <2>1. {x} = {} \cup {x} /\ IsFiniteSet({}) /\ x \notin {}
    BY FS_EmptySet
  <2>2. /\ SumFunctionOnSet(f, {} \cup {x}) = SumFunctionOnSet(f, {}) + f[x]
        /\ SumFunctionOnSet(g, {} \cup {x}) = SumFunctionOnSet(g, {}) + g[x]
    BY <1>4, <2>1, SumOfOneMore
  <2>3. SumFunctionOnSet(f, {}) = 0 /\ SumFunctionOnSet(g, {}) = 0
    BY SumOfNone
  <2> QED
    BY <1>4, <2>1, <2>2, <2>3
<1>6. account' = [available |-> account.available + AvailableDelta(x),
                  locked |-> account.locked + LockedDelta(x)]
  BY <1>1, <1>3, <1>4, <1>5 DEF ApplyEntries, AccountAfter
<1>7. ASSUME NEW k PROVE Posted(k)' = Posted(k) + Adds(x, k) /\ Posted(k) \in Int
  <2>1. entries \in SUBSET EntryRow /\ IsFiniteSet(entries)
    BY DEF PayInv, RewardTypeOK, Finite
  <2>2. /\ PostedIn(entries \cup {x}, k) = PostedIn(entries, k) + Adds(x, k)
        /\ PostedIn(entries, k) \in Int
    BY <1>1, <2>1, PostedMore
  <2>3. Posted(k) = PostedIn(entries, k) /\ Posted(k)' = PostedIn(entries', k)
    BY DEF Posted, PostedIn, OfKind
  <2> QED
    BY <1>2, <2>2, <2>3
<1>8. ASSUME LedgerBalances
      PROVE  account'.available + account'.locked + Posted("release")' = Posted("topup")'
  <2>1. PICK a, l, r, t : /\ a = account.available /\ l = account.locked
                          /\ r = Posted("release") /\ t = Posted("topup")
    OBVIOUS
  <2>2. PICK da, dl, dr, dt : /\ da = AvailableDelta(x) /\ dl = LockedDelta(x)
                              /\ dr = Adds(x, "release") /\ dt = Adds(x, "topup")
    OBVIOUS
  <2>3. a \in Nat /\ l \in Nat /\ r \in Int /\ t \in Int
    BY <1>7, <2>1 DEF PayInv, RewardTypeOK
  <2>4. da \in Int /\ dl \in Int /\ dr \in Int /\ dt \in Int /\ da + dl + dr = dt
    BY <2>2, EntryBalances
  <2>5. a + l + r = t
    BY <1>8, <2>1 DEF LedgerBalances
  <2>6. (a + da) + (l + dl) + (r + dr) = t + dt
    BY <2>3, <2>4, <2>5
  <2>7. /\ account'.available = a + da /\ account'.locked = l + dl
        /\ Posted("release")' = r + dr /\ Posted("topup")' = t + dt
    BY <1>6, <1>7, <2>1, <2>2
  <2> QED
    BY <2>6, <2>7
<1> QED
  BY <1>2, <1>6, <1>8

\* Two entries that are new to the ledger, under different keys.
LEMMA TwoPosted ==
  ASSUME PayInv, NEW x \in EntryRow, NEW y \in EntryRow, x.key # y.key, NewKey(x), NewKey(y),
         ApplyEntries({x, y})
  PROVE  /\ account'.locked = account.locked + LockedDelta(x) + LockedDelta(y)
         /\ entries' = entries \cup {x, y}
         /\ LedgerBalances =>
              account'.available + account'.locked + Posted("release")' = Posted("topup")'
<1>1. Fresh({x, y}) = {x, y} /\ x \notin entries /\ y \notin entries /\ x # y
  BY DEF Fresh, NewKey
<1>2. entries' = entries \cup {x, y}
  BY <1>1 DEF ApplyEntries
<1>3. PICK f, g : f = [z \in {x, y} |-> AvailableDelta(z)] /\ g = [z \in {x, y} |-> LockedDelta(z)]
  OBVIOUS
<1>4. /\ f[x] = AvailableDelta(x) /\ g[x] = LockedDelta(x) /\ f[x] \in Int /\ g[x] \in Int
      /\ f[y] = AvailableDelta(y) /\ g[y] = LockedDelta(y) /\ f[y] \in Int /\ g[y] \in Int
  BY <1>3, DeltasAreInt
<1>5. /\ SumFunctionOnSet(f, {x, y}) = f[x] + f[y]
      /\ SumFunctionOnSet(g, {x, y}) = g[x] + g[y]
  <2>1. {x} = {} \cup {x} /\ IsFiniteSet({}) /\ x \notin {}
    BY FS_EmptySet
  <2>2. /\ SumFunctionOnSet(f, {} \cup {x}) = SumFunctionOnSet(f, {}) + f[x]
        /\ SumFunctionOnSet(g, {} \cup {x}) = SumFunctionOnSet(g, {}) + g[x]
    BY <1>4, <2>1, SumOfOneMore
  <2>3. SumFunctionOnSet(f, {}) = 0 /\ SumFunctionOnSet(g, {}) = 0
    BY SumOfNone
  <2>4. SumFunctionOnSet(f, {x}) = f[x] /\ SumFunctionOnSet(g, {x}) = g[x]
    BY <1>4, <2>1, <2>2, <2>3
  <2>5. {x, y} = {x} \cup {y} /\ y \notin {x} /\ IsFiniteSet({x})
    BY <1>1, FS_Singleton
  <2>6. /\ SumFunctionOnSet(f, {x} \cup {y}) = SumFunctionOnSet(f, {x}) + f[y]
        /\ SumFunctionOnSet(g, {x} \cup {y}) = SumFunctionOnSet(g, {x}) + g[y]
    BY <1>4, <2>5, SumOfOneMore
  <2> QED
    BY <2>4, <2>5, <2>6
<1>6. account' = [available |-> account.available + (AvailableDelta(x) + AvailableDelta(y)),
                  locked |-> account.locked + (LockedDelta(x) + LockedDelta(y))]
  BY <1>1, <1>3, <1>4, <1>5 DEF ApplyEntries, AccountAfter
<1>7. ASSUME NEW k
      PROVE  /\ Posted(k)' = (Posted(k) + Adds(x, k)) + Adds(y, k)
             /\ Posted(k) \in Int
  <2>1. entries \in SUBSET EntryRow /\ IsFiniteSet(entries)
    BY DEF PayInv, RewardTypeOK, Finite
  <2>2. /\ PostedIn(entries \cup {x}, k) = PostedIn(entries, k) + Adds(x, k)
        /\ PostedIn(entries, k) \in Int
    BY <1>1, <2>1, PostedMore
  <2>3. PICK E : E = entries \cup {x}
    OBVIOUS
  <2>4. E \in SUBSET EntryRow /\ IsFiniteSet(E) /\ y \notin E
    BY <1>1, <2>1, <2>3, FS_AddElement
  <2>5. PostedIn(E \cup {y}, k) = PostedIn(E, k) + Adds(y, k)
    BY <2>4, PostedMore
  <2>6. E \cup {y} = entries'
    BY <1>2, <2>3
  <2>7. Posted(k) = PostedIn(entries, k) /\ Posted(k)' = PostedIn(entries', k)
    BY DEF Posted, PostedIn, OfKind
  <2> QED
    BY <2>2, <2>3, <2>5, <2>6, <2>7
<1>8. ASSUME LedgerBalances
      PROVE  account'.available + account'.locked + Posted("release")' = Posted("topup")'
  <2>1. PICK a, l, r, t : /\ a = account.available /\ l = account.locked
                          /\ r = Posted("release") /\ t = Posted("topup")
    OBVIOUS
  <2>2. PICK da, dl, dr, dt : /\ da = AvailableDelta(x) /\ dl = LockedDelta(x)
                              /\ dr = Adds(x, "release") /\ dt = Adds(x, "topup")
    OBVIOUS
  <2>3. PICK ea, el, er, et : /\ ea = AvailableDelta(y) /\ el = LockedDelta(y)
                              /\ er = Adds(y, "release") /\ et = Adds(y, "topup")
    OBVIOUS
  <2>4. a \in Nat /\ l \in Nat /\ r \in Int /\ t \in Int
    BY <1>7, <2>1 DEF PayInv, RewardTypeOK
  <2>5. da \in Int /\ dl \in Int /\ dr \in Int /\ dt \in Int /\ da + dl + dr = dt
    BY <2>2, EntryBalances
  <2>6. ea \in Int /\ el \in Int /\ er \in Int /\ et \in Int /\ ea + el + er = et
    BY <2>3, EntryBalances
  <2>7. a + l + r = t
    BY <1>8, <2>1 DEF LedgerBalances
  <2>8. (a + (da + ea)) + (l + (dl + el)) + ((r + dr) + er) = (t + dt) + et
    BY <2>4, <2>5, <2>6, <2>7
  <2>9. /\ account'.available = a + (da + ea) /\ account'.locked = l + (dl + el)
        /\ Posted("release")' = (r + dr) + er /\ Posted("topup")' = (t + dt) + et
    BY <1>6, <1>7, <2>1, <2>2, <2>3
  <2> QED
    BY <2>8, <2>9
<1>9. account'.locked = account.locked + LockedDelta(x) + LockedDelta(y)
  <2>1. PICK l, dl, el : l = account.locked /\ dl = LockedDelta(x) /\ el = LockedDelta(y)
    OBVIOUS
  <2>2. l \in Nat /\ dl \in Int /\ el \in Int
    BY <2>1, DeltasAreInt DEF PayInv, RewardTypeOK
  <2>3. account'.locked = l + (dl + el)
    BY <1>6, <2>1
  <2>4. l + (dl + el) = l + dl + el
    BY <2>2
  <2> QED
    BY <2>1, <2>3, <2>4
<1> QED
  BY <1>2, <1>8, <1>9

\* No entries, and no lock that holds money otherwise.
LEMMA LedgerKept ==
  ASSUME PayInv, Books, account' = account, entries' = entries,
         \A e \in Executions :
           /\ lock'[e].status \in Holding <=> lock[e].status \in Holding
           /\ lock[e].status \in Holding =>
                lock'[e].amount = lock[e].amount /\ lock'[e].policy = lock[e].policy
  PROVE  LedgerBalances'
<1>1. HeldInAll' = HeldInAll
  BY HoldingKept
<1>2. Posted("release")' = Posted("release") /\ Posted("topup")' = Posted("topup")
  BY DEF Posted
<1> QED
  BY <1>1, <1>2 DEF Books, LedgerBalances

-----------------------------------------------------------------------------
(* Each step, when no two transactions are at one row.                      *)

\* Every handler has the row it had, or none, and nobody has written its row.
LEMMA RowsStay ==
  ASSUME PayInv, Books,
         \A o \in Procs : job'[o] = job[o] \/ job'[o] = NoJob,
         \A o \in Procs : job[o].at \in LockPlaces /\ job'[o] = job[o] => lock'[job[o].on] = lock[job[o].on],
         \A o \in Procs : job[o].at \in PolicyPlaces /\ job'[o] = job[o] => policy'[job[o].on] = policy[job[o].on]
  PROVE  Alone' /\ RowsAreCurrent'
<1>0. NoJob.at = "idle"
  BY DEF NoJob
<1>1. Alone'
  BY <1>0 DEF Books, Alone, LockPlaces, PolicyPlaces
<1>2. ASSUME NEW o \in Procs PROVE RowIsCurrent(job[o])'
  <2>1. CASE job'[o] = NoJob
    BY <1>0, <2>1 DEF RowIsCurrent
  <2>2. CASE job'[o] = job[o]
    <3>1. RowIsCurrent(job[o])
      BY DEF Books, RowsAreCurrent
    <3>2. job[o].at \in {"dispute", "expire", "save"} => lock'[job[o].on] = lock[job[o].on]
      BY <2>2 DEF LockPlaces
    <3>3. job[o].at \in {"fund", "cancel"} => policy'[job[o].on] = policy[job[o].on]
      BY <2>2 DEF PolicyPlaces
    <3> QED
      BY <2>2, <3>1, <3>2, <3>3 DEF RowIsCurrent
  <2> QED
    BY <2>1, <2>2
<1> QED
  BY <1>1, <1>2 DEF RowsAreCurrent

\* A handler takes a row that no other handler has.
LEMMA RowTaken ==
  ASSUME PayInv, Books, NEW q \in Procs, NEW j, job' = [job EXCEPT ![q] = j], lock' = lock,
         policy' = policy,
         RowIsCurrent(j),
         \A o \in Procs \ {q} :
           /\ j.at \in LockPlaces /\ job[o].at \in LockPlaces => j.on # job[o].on
           /\ j.at \in PolicyPlaces /\ job[o].at \in PolicyPlaces => j.on # job[o].on
  PROVE  Alone' /\ RowsAreCurrent'
<1>1. job'[q] = j /\ \A o \in Procs \ {q} : job'[o] = job[o]
  BY DEF PayInv, RewardTypeOK
<1>2. Alone'
  BY <1>1 DEF Books, Alone
<1>3. ASSUME NEW o \in Procs PROVE RowIsCurrent(job[o])'
  BY <1>1 DEF Books, RowsAreCurrent, RowIsCurrent
<1> QED
  BY <1>2, <1>3 DEF RowsAreCurrent

\* The money stays where it is when nobody writes the accounts, locks or policies.
LEMMA MoneyStays ==
  ASSUME PayInv, Books, UNCHANGED <<account, entries, lock, policy>>, Alone', RowsAreCurrent'
  PROVE  Books'
<1>1. LedgerBalances'
  BY LedgerKept
<1>2. NotOvercommitted'
  <2>1. \A p : LockedAmount(p)' = LockedAmount(p)
    BY HoldingKept
  <2> QED
    BY <2>1 DEF Books, NotOvercommitted
<1>3. EntriesFit'
  BY DEF Books, EntriesFit
<1> QED
  BY <1>1, <1>2, <1>3 DEF Books

LEMMA JobDone ==
  ASSUME PayInv, Books, NEW q \in Procs, job' = [job EXCEPT ![q] = NoJob] \/ job' = job,
         UNCHANGED <<account, entries, lock, policy>>
  PROVE  Books'
<1>1. \A o \in Procs : job'[o] = job[o] \/ job'[o] = NoJob
  BY DEF PayInv, RewardTypeOK
<1>2. Alone' /\ RowsAreCurrent'
  BY <1>1, RowsStay
<1> QED
  BY <1>2, MoneyStays

LEMMA JobTaken ==
  ASSUME PayInv, Books, NEW q \in Procs, NEW j, job' = [job EXCEPT ![q] = j],
         UNCHANGED <<account, entries, lock, policy>>,
         RowIsCurrent(j),
         \A o \in Procs \ {q} :
           /\ j.at \in LockPlaces /\ job[o].at \in LockPlaces => j.on # job[o].on
           /\ j.at \in PolicyPlaces /\ job[o].at \in PolicyPlaces => j.on # job[o].on
  PROVE  Books'
<1>1. Alone' /\ RowsAreCurrent'
  BY RowTaken
<1> QED
  BY <1>1, MoneyStays

\* A handler whose place is at no row.
LEMMA JobAway ==
  ASSUME PayInv, Books, NEW q \in Procs, NEW j, job' = [job EXCEPT ![q] = j],
         UNCHANGED <<account, entries, lock, policy>>, j.at \in {"load", "pay", "record"}
  PROVE  Books'
<1>1. RowIsCurrent(j) /\ j.at \notin LockPlaces /\ j.at \notin PolicyPlaces
  BY DEF RowIsCurrent, LockPlaces, PolicyPlaces
<1> QED
  BY <1>1, JobTaken

LEMMA NobodyAt ==
  ASSUME ~setting.races, NEW e, NEW q \in Procs, Unshared(e, q)
  PROVE  \A o \in Procs \ {q} : job[o].at \in LockPlaces => e # job[o].on
BY DEF Unshared, InUse, LockPlaces

LEMMA BooksTopUp == ASSUME PayInv, Books, NEW r \in TopUps, TopUpEscrow(r) PROVE Books'
<1>1. PICK x : x = Entry("topup", r.id, r.amount)
  OBVIOUS
<1>2. x \in EntryRow /\ x.key[1] = "topup"
  BY <1>1, RewardAssumption DEF Entry, EntryRow, EntryKeys
<1>3. NewKey(x) /\ ApplyEntries({x})
  BY <1>1 DEF TopUpEscrow, Fresh, NewKey
<1>4. /\ account'.locked = account.locked + LockedDelta(x)
      /\ entries' = entries \cup {x}
      /\ LedgerBalances =>
           account'.available + account'.locked + Posted("release")' = Posted("topup")'
  BY <1>2, <1>3, OnePosted
<1>5. account'.locked = account.locked
  <2>1. LockedDelta(x) = 0 /\ account.locked \in Nat
    BY <1>2 DEF LockedDelta, PayInv, RewardTypeOK
  <2> QED
    BY <1>4, <2>1
<1>6. HeldInAll' = HeldInAll /\ \A p : LockedAmount(p)' = LockedAmount(p)
  BY HoldingKept DEF TopUpEscrow
<1>7. LedgerBalances'
  BY <1>4, <1>5, <1>6 DEF Books, LedgerBalances
<1>8. NotOvercommitted'
  BY <1>6 DEF Books, NotOvercommitted, TopUpEscrow
<1>9. EntriesFit'
  BY <1>2, <1>4 DEF Books, EntriesFit, TopUpEscrow
<1>10. Alone' /\ RowsAreCurrent'
  BY RowsStay DEF TopUpEscrow
<1> QED
  BY <1>7, <1>8, <1>9, <1>10 DEF Books

\* A policy that no lock has been put under holds nothing.
LEMMA NothingHeld ==
  ASSUME PayInv, NEW p \in Policies, policy[p].status \in {"none", "unfunded"}
  PROVE  LockedAmount(p) = 0
<1>1. HeldUnder(p) = {}
  BY DEF HeldUnder, Holding, PayInv, LocksFit
<1> QED
  BY <1>1, SumOfNone DEF LockedAmount, HeldUnder

LEMMA BooksCreate ==
  ASSUME PayInv, Books, NEW p \in Policies, NEW t \in Tasks, NEW c \in Terms,
         CreateRewardPolicy(p, t, c)
  PROVE  Books'
<1>0. UNCHANGED <<account, entries, lock, job>> /\ policy[p].status = "none"
  BY DEF CreateRewardPolicy
<1>1. policy'[p].funded = 0 /\ \A o \in Policies \ {p} : policy'[o] = policy[o]
  BY DEF CreateRewardPolicy, PayInv, RewardTypeOK
<1>2. \A o : LockedAmount(o)' = LockedAmount(o)
  BY <1>0, HoldingKept
<1>3. NotOvercommitted'
  <2> SUFFICES ASSUME NEW o \in Policies PROVE LockedAmount(o)' <= policy'[o].funded
    BY DEF NotOvercommitted
  <2>1. CASE o = p
    <3>1. LockedAmount(p)' = 0
      BY <1>0, <1>2, NothingHeld
    <3> QED
      BY <1>1, <2>1, <3>1
  <2>2. CASE o # p
    BY <1>1, <1>2, <2>2 DEF Books, NotOvercommitted
  <2> QED
    BY <2>1, <2>2
<1>4. LedgerBalances'
  BY <1>0, LedgerKept
<1>5. EntriesFit'
  BY <1>0 DEF Books, EntriesFit
<1>6. Alone' /\ RowsAreCurrent'
  <2>1. \A o \in Procs : job[o].at \in PolicyPlaces => job[o].on \in Policies /\ job[o].on # p
    BY <1>0 DEF PayInv, JobsFit, JobFits, RowFits
  <2>2. \A o \in Procs : job[o].at \in PolicyPlaces => policy'[job[o].on] = policy[job[o].on]
    BY <1>1, <2>1
  <2> QED
    BY <1>0, <2>2, RowsStay
<1> QED
  BY <1>3, <1>4, <1>5, <1>6 DEF Books

LEMMA BooksFundRead ==
  ASSUME PayInv, Books, ~setting.races, NEW q \in Procs, NEW p \in Policies,
         NEW n \in Fundings, FundRead(q, p, n)
  PROVE  Books'
<1>1. PICK j : j = [NoJob EXCEPT !.at = "fund", !.on = p, !.amount = n]
  OBVIOUS
<1>2. j.at = "fund" /\ j.on = p
  BY <1>1 DEF NoJob
<1>3. job' = [job EXCEPT ![q] = j] /\ UNCHANGED <<account, entries, lock, policy>>
  BY <1>1 DEF FundRead
<1>4. RowIsCurrent(j)
  BY <1>2 DEF RowIsCurrent, FundRead
<1>5. \A o \in Procs \ {q} : job[o].at \in PolicyPlaces => j.on # job[o].on
  BY <1>2 DEF FundRead, PolicyInUse, PolicyPlaces
<1>6. j.at \notin LockPlaces
  BY <1>2 DEF LockPlaces
<1> QED
  BY <1>3, <1>4, <1>5, <1>6, JobTaken

LEMMA BooksCancelRead ==
  ASSUME PayInv, Books, ~setting.races, NEW q \in Procs, NEW p \in Policies, CancelRead(q, p)
  PROVE  Books'
<1>1. PICK j : j = [NoJob EXCEPT !.at = "cancel", !.on = p, !.amount = policy[p].funded]
  OBVIOUS
<1>2. j.at = "cancel" /\ j.on = p /\ j.amount = policy[p].funded
  BY <1>1 DEF NoJob
<1>3. job' = [job EXCEPT ![q] = j] /\ UNCHANGED <<account, entries, lock, policy>>
  BY <1>1 DEF CancelRead
<1>4. RowIsCurrent(j)
  BY <1>2 DEF RowIsCurrent
<1>5. \A o \in Procs \ {q} : job[o].at \in PolicyPlaces => j.on # job[o].on
  BY <1>2 DEF CancelRead, PolicyInUse, PolicyPlaces
<1>6. j.at \notin LockPlaces
  BY <1>2 DEF LockPlaces
<1> QED
  BY <1>3, <1>4, <1>5, <1>6, JobTaken

LEMMA BooksPolicySave == ASSUME PayInv, Books, NEW q \in Procs, PolicySave(q) PROVE Books'
<1>0. UNCHANGED <<account, entries, lock>> /\ job[q].at \in PolicyPlaces
  BY DEF PolicySave, PolicyPlaces
<1>1. PICK p, n, s : /\ p = job[q].on /\ n = job[q].amount
                     /\ s = IF job[q].at = "fund" THEN "funded" ELSE "cancelled"
  OBVIOUS
<1>2. p \in Policies /\ policy[p].status # "none" /\ n \in Nat
  BY <1>0, <1>1 DEF PayInv, JobsFit, JobFits, RowFits
<1>3. policy' = [policy EXCEPT ![p].status = s, ![p].funded = n]
  BY <1>1 DEF PolicySave
<1>4. /\ policy'[p] = [policy[p] EXCEPT !.status = s, !.funded = n]
      /\ \A o \in Policies \ {p} : policy'[o] = policy[o]
  BY <1>2, <1>3 DEF PayInv, RewardTypeOK
<1>5. policy'[p].funded = n
  <2>1. policy[p] \in PolicyRow
    BY <1>2 DEF PayInv, RewardTypeOK
  <2> QED
    BY <1>4, <2>1 DEF PolicyRow
<1>6. LockedAmount(p) <= n
  <2>1. RowIsCurrent(job[q])
    BY DEF Books, RowsAreCurrent
  <2>2. CASE job[q].at = "fund"
    <3>1. LockedAmount(p) = 0
      BY <1>1, <1>2, <2>1, <2>2, NothingHeld DEF RowIsCurrent
    <3> QED
      BY <1>2, <3>1
  <2>3. CASE job[q].at = "cancel"
    BY <1>1, <1>2, <2>1, <2>3 DEF RowIsCurrent, Books, NotOvercommitted
  <2> QED
    BY <1>0, <2>2, <2>3 DEF PolicyPlaces
<1>7. \A o : LockedAmount(o)' = LockedAmount(o)
  BY <1>0, HoldingKept
<1>8. NotOvercommitted'
  BY <1>4, <1>5, <1>6, <1>7 DEF Books, NotOvercommitted
<1>9. LedgerBalances'
  BY <1>0, LedgerKept
<1>10. EntriesFit'
  BY <1>0 DEF Books, EntriesFit
<1>11. Alone' /\ RowsAreCurrent'
  <2>1. job'[q] = NoJob /\ \A o \in Procs \ {q} : job'[o] = job[o]
    BY DEF PolicySave, PayInv, RewardTypeOK
  <2>2. NoJob.at = "idle"
    BY DEF NoJob
  <2>3. \A o \in Procs : job[o].at \in PolicyPlaces /\ job'[o] = job[o] => job[o].on \in Policies \ {p}
    BY <1>0, <1>1, <2>1, <2>2 DEF Books, Alone, PayInv, JobsFit, JobFits, RowFits, PolicyPlaces
  <2>4. \A o \in Procs : job[o].at \in PolicyPlaces /\ job'[o] = job[o] => policy'[job[o].on] = policy[job[o].on]
    BY <1>4, <2>3
  <2> QED
    BY <1>0, <2>1, <2>4, RowsStay
<1> QED
  BY <1>8, <1>9, <1>10, <1>11 DEF Books

LEMMA BooksDecide ==
  ASSUME PayInv, Books, NEW e \in Executions, NEW v \in Evidence, Decide(e, v) PROVE Books'
<1>0. UNCHANGED <<account, entries, policy, job>> /\ lock[e].status = "locked" /\ job[RewardWorker] = NoJob
  BY TakesOne DEF Decide
<1>1. lock' = [lock EXCEPT ![e].status = "releasable"]
  BY DEF Decide
<1>2. /\ lock'[e].status = "releasable" /\ lock'[e].policy = lock[e].policy
      /\ lock'[e].amount = lock[e].amount
      /\ \A o \in Executions \ {e} : lock'[o] = lock[o]
  BY <1>1, StatusWritten DEF PayInv, RewardTypeOK, Holding
<1>3. \A o \in Executions :
        /\ lock'[o].status \in Holding <=> lock[o].status \in Holding
        /\ lock[o].status \in Holding => lock'[o].amount = lock[o].amount /\ lock'[o].policy = lock[o].policy
  BY <1>0, <1>2 DEF Holding
<1>4. LedgerBalances'
  BY <1>0, <1>3, LedgerKept
<1>5. NotOvercommitted'
  <2>1. \A p : LockedAmount(p)' = LockedAmount(p)
    BY <1>3, HoldingKept
  <2> QED
    BY <1>0, <2>1 DEF Books, NotOvercommitted
<1>6. EntriesFit'
  <2>1. \A x \in entries : x.key[1] \in {"lock", "release", "refund", "expire"} => x.key[2] \in Executions
    BY DEF PayInv, RewardTypeOK, EntryRow, EntryKeys
  <2> QED
    BY <1>0, <1>2, <2>1 DEF Books, EntriesFit, Terminal
<1>7. Alone' /\ RowsAreCurrent'
  <2>1. \A o \in Procs : job[o].at \in LockPlaces => job[o].on \in Executions /\ job[o].on # e
    <3> SUFFICES ASSUME NEW o \in Procs, job[o].at \in LockPlaces
                 PROVE  job[o].on \in Executions /\ job[o].on # e
      OBVIOUS
    <3>1. job[o].on \in Executions
      BY DEF PayInv, JobsFit, JobFits, RowFits, LockPlaces, Settling
    <3>2. job[o].at # "expire"
      <4>1. NoJob.at = "idle"
        BY DEF NoJob
      <4> QED
        BY <1>0, <4>1 DEF PayInv, JobsFit, JobFits, RowFits
    <3>3. RowIsCurrent(job[o])
      BY DEF Books, RowsAreCurrent
    <3> QED
      BY <1>0, <3>1, <3>2, <3>3 DEF RowIsCurrent, LockPlaces
  <2>2. \A o \in Procs : job[o].at \in LockPlaces => lock'[job[o].on] = lock[job[o].on]
    BY <1>2, <2>1
  <2> QED
    BY <1>0, <2>2, RowsStay
<1> QED
  BY <1>4, <1>5, <1>6, <1>7 DEF Books

LEMMA BooksDeferred ==
  ASSUME PayInv, Books, NEW e \in Executions, Deferred(e)
  PROVE  Books'
BY TakesOne, JobDone DEF Deferred

LEMMA BooksRelease == ASSUME PayInv, Books, NEW e \in Executions, Release(e) PROVE Books'
<1>1. PICK j : j = [NoJob EXCEPT !.at = "load", !.on = e, !.intent = "release"]
  OBVIOUS
<1>2. j.at = "load" /\ job' = [job EXCEPT ![RewardWorker] = j]
  BY <1>1 DEF NoJob, Release
<1> QED
  BY <1>2, JobAway DEF Release, Procs

LEMMA BooksExpireRead ==
  ASSUME PayInv, Books, ~setting.races, NEW e \in Executions, ExpireRead(e) PROVE Books'
<1>0. UNCHANGED <<account, entries, lock, policy>> /\ RewardWorker \in Procs
  BY DEF ExpireRead, Procs
<1>1. CASE ~MayExpire(e)
  <2>1. job' = [job EXCEPT ![RewardWorker] = NoJob]
    BY <1>1 DEF ExpireRead
  <2> QED
    BY <1>0, <2>1, JobDone
<1>2. CASE MayExpire(e)
  <2>1. PICK j : j = [NoJob EXCEPT !.at = "expire", !.on = e]
    OBVIOUS
  <2>2. j.at = "expire" /\ j.on = e
    BY <2>1 DEF NoJob
  <2>3. job' = [job EXCEPT ![RewardWorker] = j]
    BY <1>2, <2>1 DEF ExpireRead
  <2>4. RowIsCurrent(j)
    BY <1>2, <2>2 DEF RowIsCurrent, MayExpire
  <2>5. \A o \in Procs \ {RewardWorker} : job[o].at \in LockPlaces => j.on # job[o].on
    BY <1>0, <2>2, NobodyAt DEF ExpireRead
  <2>6. j.at \notin PolicyPlaces
    BY <2>2 DEF PolicyPlaces
  <2> QED
    BY <1>0, <2>3, <2>4, <2>5, <2>6, JobTaken
<1> QED
  BY <1>1, <1>2

LEMMA BooksDisputeRead ==
  ASSUME PayInv, Books, ~setting.races, NEW q \in Procs, NEW e \in Executions,
         DisputeRead(q, e) PROVE Books'
<1>0. UNCHANGED <<account, entries, lock, policy>>
  BY DEF DisputeRead
<1>1. PICK j : j = [NoJob EXCEPT !.at = "dispute", !.on = e]
  OBVIOUS
<1>2. j.at = "dispute" /\ j.on = e /\ job' = [job EXCEPT ![q] = j]
  BY <1>1 DEF NoJob, DisputeRead
<1>3. RowIsCurrent(j)
  <2>1. lock[e].status \in {"locked", "releasable"} /\ decision[e] # None
    BY DEF DisputeRead, MayDispute
  <2>2. lock[e].status = "releasable"
    BY <2>1 DEF PayInv, LocksFit
  <2> QED
    BY <1>2, <2>2 DEF RowIsCurrent
<1>4. \A o \in Procs \ {q} : job[o].at \in LockPlaces => j.on # job[o].on
  BY <1>2, NobodyAt DEF DisputeRead
<1>5. j.at \notin PolicyPlaces
  BY <1>2 DEF PolicyPlaces
<1> QED
  BY <1>0, <1>2, <1>3, <1>4, <1>5, JobTaken

\* The handler that writes a lock is the only one that has it.
LEMMA OnlyOne ==
  ASSUME PayInv, Books, NEW q \in Procs, NEW e \in Executions, job[q].at \in LockPlaces,
         job[q].on = e,
         job' = [job EXCEPT ![q] = NoJob], policy' = policy,
         \A o \in Executions \ {e} : lock'[o] = lock[o]
  PROVE  Alone' /\ RowsAreCurrent'
<1>1. job'[q] = NoJob /\ \A o \in Procs \ {q} : job'[o] = job[o]
  BY DEF PayInv, RewardTypeOK
<1>2. NoJob.at = "idle"
  BY DEF NoJob
<1>3. \A o \in Procs : job[o].at \in LockPlaces /\ job'[o] = job[o] => job[o].on \in Executions \ {e}
  <2> SUFFICES ASSUME NEW o \in Procs, job[o].at \in LockPlaces, job'[o] = job[o]
               PROVE  job[o].on \in Executions \ {e}
    OBVIOUS
  <2>1. o # q
    BY <1>1, <1>2 DEF LockPlaces
  <2>2. job[o].on \in Executions
    BY DEF PayInv, JobsFit, JobFits, RowFits, LockPlaces, Settling
  <2> QED
    BY <2>1, <2>2 DEF Books, Alone
<1>4. \A o \in Procs : job[o].at \in LockPlaces /\ job'[o] = job[o] => lock'[job[o].on] = lock[job[o].on]
  BY <1>3
<1> QED
  BY <1>1, <1>4, RowsStay

LEMMA BooksDisputeSave ==
  ASSUME PayInv, Books, NEW q \in Procs, DisputeSave(q)
  PROVE  Books'
<1>0. UNCHANGED <<account, entries, policy>> /\ job' = [job EXCEPT ![q] = NoJob] /\ job[q].at = "dispute"
  BY DEF DisputeSave
<1>1. PICK e : e = job[q].on
  OBVIOUS
<1>2. e \in Executions /\ lock[e].status = "releasable"
  <2>1. e \in Executions
    BY <1>0, <1>1 DEF PayInv, JobsFit, JobFits, RowFits
  <2>2. RowIsCurrent(job[q])
    BY DEF Books, RowsAreCurrent
  <2> QED
    BY <1>0, <1>1, <2>1, <2>2 DEF RowIsCurrent
<1>3. lock' = [lock EXCEPT ![e].status = "disputed"]
  BY <1>1 DEF DisputeSave
<1>4. /\ lock'[e].status = "disputed" /\ lock'[e].policy = lock[e].policy
      /\ lock'[e].amount = lock[e].amount
      /\ \A o \in Executions \ {e} : lock'[o] = lock[o]
  BY <1>2, <1>3, StatusWritten DEF PayInv, RewardTypeOK, Holding
<1>5. \A o \in Executions :
        /\ lock'[o].status \in Holding <=> lock[o].status \in Holding
        /\ lock[o].status \in Holding => lock'[o].amount = lock[o].amount /\ lock'[o].policy = lock[o].policy
  BY <1>2, <1>4 DEF Holding
<1>6. LedgerBalances'
  BY <1>0, <1>5, LedgerKept
<1>7. NotOvercommitted'
  <2>1. \A p : LockedAmount(p)' = LockedAmount(p)
    BY <1>5, HoldingKept
  <2> QED
    BY <1>0, <2>1 DEF Books, NotOvercommitted
<1>8. EntriesFit'
  <2>1. \A x \in entries : x.key[1] \in {"lock", "release", "refund", "expire"} => x.key[2] \in Executions
    BY DEF PayInv, RewardTypeOK, EntryRow, EntryKeys
  <2> QED
    BY <1>0, <1>2, <1>4, <2>1 DEF Books, EntriesFit, Terminal
<1>9. Alone' /\ RowsAreCurrent'
  <2>1. job[q].at \in LockPlaces
    BY <1>0 DEF LockPlaces
  <2> QED
    BY <1>0, <1>1, <1>2, <1>4, <2>1, OnlyOne
<1> QED
  BY <1>6, <1>7, <1>8, <1>9 DEF Books

\* A lock ends, and what it held is posted.
LEMMA BooksLockEnds ==
  ASSUME PayInv, Books, NEW q \in Procs, NEW e \in Executions, job[q].at \in LockPlaces,
         job[q].on = e,
         lock[e].status \in Holding, NEW s \in Terminal, lock' = [lock EXCEPT ![e].status = s],
         job' = [job EXCEPT ![q] = NoJob], policy' = policy,
         account'.locked = account.locked - lock[e].amount,
         account'.available + account'.locked + Posted("release")' = Posted("topup")',
         NEW new, entries' = entries \cup new,
         \A x \in new : x.key[1] \in {"release", "refund", "expire"} /\ x.key[2] = e
  PROVE  Books'
<1>1. PICK n : n = lock[e].amount
  OBVIOUS
<1>2. s \notin Holding /\ s # "none" /\ n \in Nat
  BY <1>1 DEF Holding, Terminal, PayInv, RewardTypeOK, LockRow
<1>3. /\ lock'[e].status = s /\ lock'[e].policy = lock[e].policy
      /\ lock'[e].amount = lock[e].amount
      /\ \A o \in Executions \ {e} : lock'[o] = lock[o]
  BY StatusWritten DEF PayInv, RewardTypeOK
<1>4. HeldInAll' = HeldInAll - n /\ \A p : LockedAmount(p)' \in Int /\ LockedAmount(p)' <= LockedAmount(p)
  BY <1>1, <1>2, <1>3, HoldingEnds
<1>5. LedgerBalances'
  BY <1>1, <1>4 DEF Books, LedgerBalances
<1>6. NotOvercommitted'
  <2> SUFFICES ASSUME NEW p \in Policies PROVE LockedAmount(p)' <= policy[p].funded
    BY DEF NotOvercommitted
  <2>1. PICK a, b : a = LockedAmount(p) /\ b = LockedAmount(p)'
    OBVIOUS
  <2>2. b <= a /\ a <= policy[p].funded /\ b \in Int
    BY <1>4, <2>1 DEF Books, NotOvercommitted
  <2>3. a \in Int /\ policy[p].funded \in Nat
    BY <2>1, HeldIsInt DEF PayInv, RewardTypeOK, PolicyRow
  <2>4. b <= policy[p].funded
    BY <2>2, <2>3
  <2> QED
    BY <2>1, <2>4
<1>7. EntriesFit'
  <2> SUFFICES ASSUME NEW x \in entries'
               PROVE  /\ x.key[1] = "lock" => lock'[x.key[2]].status # "none"
                      /\ x.key[1] \in {"release", "refund", "expire"} => lock'[x.key[2]].status \in Terminal
    BY DEF EntriesFit
  <2>1. CASE x \in new
    BY <1>3, <2>1
  <2>2. CASE x \in entries
    <3>1. x.key[1] \in {"lock", "release", "refund", "expire"} => x.key[2] \in Executions
      BY <2>2 DEF PayInv, RewardTypeOK, EntryRow, EntryKeys
    <3>2. /\ x.key[1] = "lock" => lock[x.key[2]].status # "none"
          /\ x.key[1] \in {"release", "refund", "expire"} => lock[x.key[2]].status \in Terminal
      BY <2>2 DEF Books, EntriesFit
    <3>3. CASE x.key[2] = e
      BY <1>2, <1>3, <3>1, <3>2, <3>3
    <3>4. CASE x.key[2] # e
      BY <1>3, <3>1, <3>2, <3>4
    <3> QED
      BY <3>3, <3>4
  <2> QED
    BY <2>1, <2>2
<1>8. Alone' /\ RowsAreCurrent'
  BY <1>3, OnlyOne
<1> QED
  BY <1>5, <1>6, <1>7, <1>8 DEF Books

\* Nothing has been posted yet for the end of a lock that holds money.
LEMMA EndIsNew ==
  ASSUME Books, NEW e, lock[e].status \in Holding, NEW x,
         NEW k \in {"release", "refund", "expire"},
         x.key = <<k, e>>
  PROVE  NewKey(x)
<1> SUFFICES ASSUME NEW y \in entries, y.key = x.key PROVE FALSE
  BY DEF NewKey
<1>1. y.key[1] = k /\ y.key[2] = e
  OBVIOUS
<1>2. lock[e].status \in Terminal
  BY <1>1 DEF Books, EntriesFit
<1> QED
  BY <1>2 DEF Holding, Terminal

LEMMA BooksExpireSave == ASSUME PayInv, Books, ExpireSave PROVE Books'
<1>0. /\ RewardWorker \in Procs /\ job[RewardWorker].at = "expire" /\ policy' = policy
      /\ job' = [job EXCEPT ![RewardWorker] = NoJob]
  BY DEF Procs, ExpireSave
<1>1. PICK e, n : e = job[RewardWorker].on /\ n = lock[e].amount
  OBVIOUS
<1>2. e \in Executions /\ lock[e].status \in Holding
  <2>1. e \in Executions
    BY <1>0, <1>1 DEF PayInv, JobsFit, JobFits, RowFits
  <2>2. RowIsCurrent(job[RewardWorker])
    BY <1>0 DEF Books, RowsAreCurrent
  <2> QED
    BY <1>0, <1>1, <2>1, <2>2 DEF RowIsCurrent, Holding
<1>3. n \in Nat \ {0}
  <2>1. lock[e].status # "none"
    BY <1>2 DEF Holding
  <2> QED
    BY <1>1, <1>2, <2>1 DEF PayInv, LocksFit, RewardTypeOK, LockRow
<1>4. PICK x : x = Entry("expire", e, n)
  OBVIOUS
<1>5. x \in EntryRow /\ x.key[1] = "expire" /\ x.key[2] = e /\ x.amount = n /\ x.key = <<"expire", e>>
  <2>1. x.key = <<"expire", e>>
    BY <1>4 DEF Entry
  <2> QED
    BY <1>2, <1>3, <1>4, <2>1, EntryIsRow
<1>6. ApplyEntries({x}) /\ lock' = [lock EXCEPT ![e].status = "expired"]
  BY <1>1, <1>4 DEF ExpireSave
<1>7. NewKey(x)
  BY <1>2, <1>5, EndIsNew
<1>8. /\ account'.locked = account.locked + LockedDelta(x)
      /\ entries' = entries \cup {x}
      /\ account'.available + account'.locked + Posted("release")' = Posted("topup")'
  BY <1>5, <1>6, <1>7, OnePosted DEF Books
<1>9. account'.locked = account.locked - lock[e].amount
  <2>1. LockedDelta(x) = - n /\ account.locked \in Nat
    BY <1>5 DEF LockedDelta, PayInv, RewardTypeOK
  <2> QED
    BY <1>1, <1>3, <1>8, <2>1
<1>10. PICK new : new = {x}
  OBVIOUS
<1>11. entries' = entries \cup new /\ \A y \in new : y.key[1] \in {"release", "refund", "expire"} /\ y.key[2] = e
  BY <1>5, <1>8, <1>10
<1>12. PICK s : s = "expired"
  OBVIOUS
<1>13. s \in Terminal /\ lock' = [lock EXCEPT ![e].status = s] /\ job[RewardWorker].at \in LockPlaces
  BY <1>0, <1>6, <1>12 DEF Terminal, LockPlaces
<1> QED
  BY <1>0, <1>1, <1>2, <1>8, <1>9, <1>11, <1>13, BooksLockEnds

LEMMA BooksSettleSave == ASSUME PayInv, Books, NEW q \in Procs, SettleSave(q) PROVE Books'
<1>0. /\ job[q].at = "save" /\ policy' = policy /\ job' = [job EXCEPT ![q] = NoJob]
  BY DEF SettleSave
<1>1. PICK j, e, s, new : /\ j = job[q] /\ e = j.on /\ new = SettlementEntries(j)
                          /\ s = IF j.intent = "release" THEN "released" ELSE "refunded"
  OBVIOUS
<1>2. /\ e \in Executions /\ j.out \in Nat /\ j.back \in Nat /\ j.out + j.back = lock[e].amount
  BY <1>0, <1>1, SettlementRows
<1>3. lock[e].status \in Holding
  <2>1. RowIsCurrent(job[q])
    BY DEF Books, RowsAreCurrent
  <2> QED
    BY <1>0, <1>1, <2>1 DEF RowIsCurrent, Holding
<1>4. lock[e].amount # 0
  <2>1. lock[e].status # "none"
    BY <1>3 DEF Holding
  <2> QED
    BY <1>2, <2>1 DEF PayInv, LocksFit
<1>5. PICK o, b : o = j.out /\ b = j.back
  OBVIOUS
<1>6. o \in Nat /\ b \in Nat /\ o + b = lock[e].amount
  BY <1>2, <1>5
<1>7. PICK x, y : x = Entry("release", e, o) /\ y = Entry("refund", e, b)
  OBVIOUS
<1>8. /\ x.key = <<"release", e>> /\ y.key = <<"refund", e>> /\ x.amount = o /\ y.amount = b
      /\ x.key[1] = "release" /\ x.key[2] = e /\ y.key[1] = "refund" /\ y.key[2] = e
  BY <1>7 DEF Entry
<1>9. new = {z \in {x, y} : z.amount > 0}
  BY <1>1, <1>5, <1>7 DEF SettlementEntries
<1>10. NewKey(x) /\ NewKey(y) /\ x.key # y.key
  BY <1>3, <1>8, EndIsNew
<1>11. /\ o # 0 => x \in EntryRow
       /\ b # 0 => y \in EntryRow
       /\ LockedDelta(x) = - o /\ LockedDelta(y) = - b
  <2>1. ASSUME o # 0 PROVE x \in EntryRow
    BY <1>2, <1>6, <1>7, <2>1, EntryIsRow
  <2>2. ASSUME b # 0 PROVE y \in EntryRow
    BY <1>2, <1>6, <1>7, <2>2, EntryIsRow
  <2>3. LockedDelta(x) = - o /\ LockedDelta(y) = - b
    BY <1>8 DEF LockedDelta
  <2> QED
    BY <2>1, <2>2, <2>3
<1>12. ApplyEntries(new) /\ lock' = [lock EXCEPT ![e].status = s]
  BY <1>1 DEF SettleSave
<1>13. LedgerBalances
  BY DEF Books
<1>14. account.locked \in Nat
  BY DEF PayInv, RewardTypeOK
<1>15. /\ account'.locked = account.locked - lock[e].amount
       /\ entries' = entries \cup new
       /\ account'.available + account'.locked + Posted("release")' = Posted("topup")'
  <2>1. CASE o # 0 /\ b # 0
    <3>1. new = {x, y}
      BY <1>6, <1>8, <1>9, <2>1
    <3>2. /\ account'.locked = account.locked + LockedDelta(x) + LockedDelta(y)
          /\ entries' = entries \cup {x, y}
          /\ account'.available + account'.locked + Posted("release")' = Posted("topup")'
      BY <1>10, <1>11, <1>12, <1>13, <2>1, <3>1, TwoPosted
    <3>3. account'.locked = account.locked - lock[e].amount
      BY <1>6, <1>11, <1>14, <3>2
    <3> QED
      BY <3>1, <3>2, <3>3
  <2>2. CASE o # 0 /\ b = 0
    <3>1. new = {x}
      BY <1>6, <1>8, <1>9, <2>2
    <3>2. /\ account'.locked = account.locked + LockedDelta(x)
          /\ entries' = entries \cup {x}
          /\ account'.available + account'.locked + Posted("release")' = Posted("topup")'
      BY <1>10, <1>11, <1>12, <1>13, <2>2, <3>1, OnePosted
    <3>3. account'.locked = account.locked - lock[e].amount
      BY <1>6, <1>11, <1>14, <2>2, <3>2
    <3> QED
      BY <3>1, <3>2, <3>3
  <2>3. CASE o = 0 /\ b # 0
    <3>1. new = {y}
      BY <1>6, <1>8, <1>9, <2>3
    <3>2. /\ account'.locked = account.locked + LockedDelta(y)
          /\ entries' = entries \cup {y}
          /\ account'.available + account'.locked + Posted("release")' = Posted("topup")'
      BY <1>10, <1>11, <1>12, <1>13, <2>3, <3>1, OnePosted
    <3>3. account'.locked = account.locked - lock[e].amount
      BY <1>6, <1>11, <1>14, <2>3, <3>2
    <3> QED
      BY <3>1, <3>2, <3>3
  <2>4. ~ (o = 0 /\ b = 0)
    BY <1>4, <1>6
  <2> QED
    BY <2>1, <2>2, <2>3, <2>4
<1>16. \A z \in new : z.key[1] \in {"release", "refund", "expire"} /\ z.key[2] = e
  BY <1>8, <1>9
<1>17. s \in Terminal /\ job[q].at \in LockPlaces /\ job[q].on = e
  BY <1>0, <1>1 DEF Terminal, LockPlaces
<1> QED
  BY <1>0, <1>2, <1>3, <1>12, <1>15, <1>16, <1>17, BooksLockEnds

LEMMA BooksOnClaim ==
  ASSUME PayInv, Books, NEW e \in Executions, NEW p \in Policies, OnClaim(e, p) PROVE Books'
<1>1. PICK n, x : LockStarts(e, p, n) /\ x = Entry("lock", e, n)
  BY LockBegins
<1>2. /\ n \in Nat \ {0} /\ n <= policy[p].funded - LockedAmount(p)
      /\ lock[e].status = "none"
      /\ lock'[e].status = "locked" /\ lock'[e].policy = p /\ lock'[e].amount = n
      /\ \A o \in Executions \ {e} : lock'[o] = lock[o]
      /\ ApplyEntries({x}) /\ x \in EntryRow
      /\ UNCHANGED <<policy, job>>
  BY <1>1 DEF LockStarts
<1>3. x.key = <<"lock", e>> /\ x.key[1] = "lock" /\ x.key[2] = e /\ x.amount = n
  BY <1>1 DEF Entry
<1>4. NewKey(x)
  <2> SUFFICES ASSUME NEW y \in entries, y.key = x.key PROVE FALSE
    BY DEF NewKey
  <2>1. y.key[1] = "lock" /\ y.key[2] = e
    BY <1>3
  <2> QED
    BY <1>2, <2>1 DEF Books, EntriesFit
<1>5. /\ account'.locked = account.locked + LockedDelta(x)
      /\ entries' = entries \cup {x}
      /\ account'.available + account'.locked + Posted("release")' = Posted("topup")'
  BY <1>2, <1>4, OnePosted DEF Books
<1>6. LockedDelta(x) = n
  BY <1>3 DEF LockedDelta
<1>7. /\ HeldInAll' = HeldInAll + n
      /\ LockedAmount(p)' = LockedAmount(p) + n
      /\ \A o : o # p => LockedAmount(o)' = LockedAmount(o)
  <2>1. lock[e].status \notin Holding /\ lock'[e].status \in Holding /\ n \in Nat
    BY <1>2 DEF Holding
  <2> QED
    BY <1>2, <2>1, HoldingBegins
<1>8. LedgerBalances'
  BY <1>5, <1>6, <1>7 DEF Books, LedgerBalances
<1>9. NotOvercommitted'
  <2> SUFFICES ASSUME NEW o \in Policies PROVE LockedAmount(o)' <= policy[o].funded
    BY <1>2 DEF NotOvercommitted
  <2>1. CASE o = p
    <3>1. PICK a : a = LockedAmount(p)
      OBVIOUS
    <3>2. a \in Int /\ policy[p].funded \in Nat
      BY <3>1, HeldIsInt DEF PayInv, RewardTypeOK, PolicyRow
    <3>3. a + n <= policy[p].funded
      BY <1>2, <3>1, <3>2
    <3> QED
      BY <1>7, <2>1, <3>1, <3>3
  <2>2. CASE o # p
    BY <1>7, <2>2 DEF Books, NotOvercommitted
  <2> QED
    BY <2>1, <2>2
<1>10. EntriesFit'
  <2>1. \A y \in entries : y.key[1] \in {"lock", "release", "refund", "expire"} => y.key[2] \in Executions
    BY DEF PayInv, RewardTypeOK, EntryRow, EntryKeys
  <2>2. \A y \in entries : y.key[1] \in {"release", "refund", "expire"} => y.key[2] # e
    BY <1>2 DEF Books, EntriesFit, Terminal
  <2> QED
    BY <1>2, <1>3, <1>5, <2>1, <2>2 DEF Books, EntriesFit
<1>11. Alone' /\ RowsAreCurrent'
  <2>1. \A o \in Procs : job[o].at \in LockPlaces => job[o].on \in Executions /\ job[o].on # e
    <3> SUFFICES ASSUME NEW o \in Procs, job[o].at \in LockPlaces
                 PROVE  job[o].on \in Executions /\ job[o].on # e
      OBVIOUS
    <3>1. job[o].on \in Executions
      BY DEF PayInv, JobsFit, JobFits, RowFits, LockPlaces, Settling
    <3>2. RowIsCurrent(job[o])
      BY DEF Books, RowsAreCurrent
    <3> QED
      BY <1>2, <3>1, <3>2 DEF RowIsCurrent, LockPlaces
  <2>2. \A o \in Procs : job[o].at \in LockPlaces => lock'[job[o].on] = lock[job[o].on]
    BY <1>2, <2>1
  <2> QED
    BY <1>2, <2>2, RowsStay
<1> QED
  BY <1>8, <1>9, <1>10, <1>11 DEF Books

LEMMA BooksResolve ==
  ASSUME PayInv, Books, NEW q \in Procs, NEW e \in Executions, NEW r,
         ResolveDispute(q, e, r) PROVE Books'
<1>1. PICK j : j = [NoJob EXCEPT !.at = "load", !.on = e, !.intent = r.intent, !.amount = r.amount]
  OBVIOUS
<1>2. j.at = "load" /\ job' = [job EXCEPT ![q] = j]
  BY <1>1 DEF NoJob, ResolveDispute
<1> QED
  BY <1>2, JobAway DEF ResolveDispute

LEMMA BooksSettleLoad == ASSUME PayInv, Books, NEW q \in Procs, SettleLoad(q) PROVE Books'
<1>0. UNCHANGED <<account, entries, lock, policy>>
  BY DEF SettleLoad
<1>1. PICK j : j = job[q]
  OBVIOUS
<1>2. j \in JobRow
  BY <1>1 DEF PayInv, RewardTypeOK
<1>3. PICK k : k = [j EXCEPT !.at = "pay", !.amount = AgentAmount(j), !.out = PaidOut(j),
                             !.back = lock[j.on].amount - PaidOut(j)]
  OBVIOUS
<1>4. job' = [job EXCEPT ![q] = NoJob] \/ job' = [job EXCEPT ![q] = k]
  BY <1>1, <1>3 DEF SettleLoad
<1>5. k.at = "pay"
  BY <1>2, <1>3 DEF JobRow
<1> QED
  BY <1>0, <1>4, <1>5, JobDone, JobAway

LEMMA BooksSettlePay == ASSUME PayInv, Books, NEW q \in Procs, SettlePay(q) PROVE Books'
<1>0. UNCHANGED <<account, entries, lock, policy>>
  BY DEF SettlePay
<1>1. PICK j, k : j = job[q] /\ k = [j EXCEPT !.at = "record"]
  OBVIOUS
<1>2. k.at = "record"
  <2>1. j \in JobRow
    BY <1>1 DEF PayInv, RewardTypeOK
  <2> QED
    BY <1>1, <2>1 DEF JobRow
<1>3. job' = [job EXCEPT ![q] = NoJob] \/ job' = [job EXCEPT ![q] = k]
  BY <1>1 DEF SettlePay, PayInv, RewardTypeOK
<1> QED
  BY <1>0, <1>2, <1>3, JobDone, JobAway

LEMMA BooksSettleRead ==
  ASSUME PayInv, Books, ~setting.races, NEW q \in Procs, SettleRead(q)
  PROVE  Books'
<1>0. UNCHANGED <<account, entries, lock, policy>>
  BY DEF SettleRead
<1>1. PICK j, k : j = job[q] /\ k = [j EXCEPT !.at = "save"]
  OBVIOUS
<1>2. k.at = "save" /\ k.on = j.on /\ k.intent = j.intent
  <2>1. j \in JobRow
    BY <1>1 DEF PayInv, RewardTypeOK
  <2> QED
    BY <1>1, <2>1 DEF JobRow
<1>3. CASE ~MayApply(j.on, j.intent)
  <2>1. job' = [job EXCEPT ![q] = NoJob]
    BY <1>1, <1>3 DEF SettleRead
  <2> QED
    BY <1>0, <2>1, JobDone
<1>4. CASE MayApply(j.on, j.intent)
  <2>1. job' = [job EXCEPT ![q] = k]
    BY <1>1, <1>4 DEF SettleRead, PayInv, RewardTypeOK
  <2>2. lock[j.on].status \in {"releasable", "disputed"}
    <3>1. lock[j.on].status \in {"releasable", "disputed", "locked"}
      BY <1>4 DEF MayApply
    <3>2. j.on \in Executions /\ decision[j.on] # None
      BY <1>1 DEF SettleRead, PayInv, JobsFit, JobFits, RowFits, Settling
    <3> QED
      BY <3>1, <3>2 DEF PayInv, LocksFit
  <2>3. RowIsCurrent(k)
    BY <1>2, <2>2 DEF RowIsCurrent
  <2>4. \A o \in Procs \ {q} : job[o].at \in LockPlaces => k.on # job[o].on
    BY <1>1, <1>2, NobodyAt DEF SettleRead
  <2>5. k.at \notin PolicyPlaces
    BY <1>2 DEF PolicyPlaces
  <2> QED
    BY <1>0, <2>1, <2>3, <2>4, <2>5, JobTaken
<1> QED
  BY <1>3, <1>4

\* A handler gives up, or no handler moves.
LEMMA BooksRest ==
  ASSUME PayInv, Books,
         \/ \E q \in Procs : Fails(q) \/ Refused(q)
         \/ NextPhase \/ ChallengePayoutDestination \/ VerifyPayoutDestination
         \/ ChallengeLapses \/ RewardTick
  PROVE  Books'
<1>1. ASSUME NEW q \in Procs, Fails(q) \/ Refused(q) PROVE Books'
  BY <1>1, JobDone DEF Fails, Refused
<1>2. ASSUME \/ NextPhase \/ ChallengePayoutDestination \/ VerifyPayoutDestination
             \/ ChallengeLapses \/ RewardTick
      PROVE  Books'
  <2>1. UNCHANGED <<account, entries, lock, policy, job>>
    BY <1>2 DEF NextPhase, ChallengePayoutDestination, VerifyPayoutDestination,
       ChallengeLapses, RewardTick
  <2> QED
    BY <2>1, JobDone DEF Procs
<1> QED
  BY <1>1, <1>2

-----------------------------------------------------------------------------

LEMMA BooksContinue ==
  ASSUME PayInv, Books, ~setting.races, NEW q \in Procs, Continue(q)
  PROVE  Books'
BY BooksPolicySave, BooksDisputeSave, BooksRest, BooksSettleLoad, BooksSettlePay,
   BooksSettleRead,
   BooksSettleSave
   DEF Continue

LEMMA BooksWorker == ASSUME PayInv, Books, ~setting.races, WorkerStep PROVE Books'
<1>1. CASE NextPhase \/ ExpireSave
  BY <1>1, BooksRest, BooksExpireSave
<1>2. CASE Continue(RewardWorker)
  BY <1>2, BooksContinue DEF Procs
<1>3. ASSUME NEW e \in Executions,
             (\E v \in Evidence : Decide(e, v)) \/ Deferred(e) \/ Release(e) \/ ExpireRead(e)
      PROVE  Books'
  BY <1>3, BooksDecide, BooksDeferred, BooksRelease, BooksExpireRead
<1> QED
  BY <1>1, <1>2, <1>3 DEF WorkerStep

LEMMA BooksRequest ==
  ASSUME PayInv, Books, ~setting.races, NEW q \in setting.requests, Request(q)
  PROVE  Books'
<1>0. q \in Procs
  BY DEF PayInv, RewardTypeOK, Procs
<1>1. ASSUME NEW p \in Policies, CancelRead(q, p) \/ \E n \in Fundings : FundRead(q, p, n) PROVE Books'
  BY <1>0, <1>1, BooksCancelRead, BooksFundRead
<1>2. ASSUME NEW e \in Executions, DisputeRead(q, e) PROVE Books'
  BY <1>0, <1>2, BooksDisputeRead
<1>3. ASSUME NEW e \in Executions, NEW r \in Resolutions(decision[e].net),
             ResolveDispute(q, e, r)
      PROVE  Books'
  BY <1>0, <1>3, BooksResolve
<1> QED
  BY <1>1, <1>2, <1>3 DEF Request

LEMMA BooksNext == ASSUME PayInv, Books, ~setting.races, RewardNext PROVE Books'
<1>1. ASSUME NEW r \in TopUps, TopUpEscrow(r) PROVE Books'
  BY <1>1, BooksTopUp
<1>2. ASSUME NEW p \in Policies, NEW t \in Tasks, NEW c \in Terms,
             CreateRewardPolicy(p, t, c) PROVE Books'
  BY <1>2, BooksCreate
<1>3. ASSUME NEW e \in Executions, NEW p \in Policies, OnClaim(e, p) PROVE Books'
  BY <1>3, BooksOnClaim
<1>4. ASSUME NEW q \in setting.requests, Request(q) PROVE Books'
  BY <1>4, BooksRequest
<1>5. ASSUME NEW q \in Requests, Continue(q) PROVE Books'
  BY <1>5, BooksContinue DEF Procs
<1>6. CASE WorkerStep
  BY <1>6, BooksWorker
<1>7. ASSUME NEW q \in Procs, Fails(q) PROVE Books'
  BY <1>7, BooksRest
<1>8. CASE ChallengePayoutDestination \/ VerifyPayoutDestination \/ ChallengeLapses \/ RewardTick
  BY <1>8, BooksRest
<1> QED
  BY <1>1, <1>2, <1>3, <1>4, <1>5, <1>6, <1>7, <1>8 DEF RewardNext

\* Whether transactions overlap is not for a step to change.
LEMMA RacesStay == ASSUME PayInv, RewardNext PROVE setting'.races = setting.races
<1>1. setting' = setting \/ setting' = [setting EXCEPT !.faults = @ - 1]
  BY DEF RewardNext, Request, Continue, WorkerStep, TopUpEscrow, CreateRewardPolicy, OnClaim,
         CancelRead, FundRead, DisputeRead, ResolveDispute, PolicySave, DisputeSave, Refused, SettleLoad,
         SettlePay, SettleRead, SettleSave, NextPhase, ExpireSave, Decide, Deferred, Release, ExpireRead, Fails,
         ChallengePayoutDestination, VerifyPayoutDestination, ChallengeLapses, RewardTick
<1> QED
  BY <1>1 DEF PayInv, RewardTypeOK

LEMMA BooksInit == ASSUME RewardInit PROVE Books
<1>1. Alone /\ RowsAreCurrent
  BY DEF RewardInit, NoJob, Alone, RowsAreCurrent, RowIsCurrent, LockPlaces, PolicyPlaces
<1>2. EntriesFit
  BY DEF RewardInit, EntriesFit
<1>3. {e \in Executions : lock[e].status \in Holding} = {}
  BY DEF RewardInit, NoLock, Holding
<1>4. HeldInAll = 0
  BY <1>3, SumOfNone DEF HeldInAll
<1>5. ASSUME NEW k PROVE Posted(k) = 0
  <2>1. {x \in entries : x.key[1] = k} = {}
    BY DEF RewardInit
  <2> QED
    BY <2>1, SumOfNone DEF Posted
<1>6. LedgerBalances
  BY <1>4, <1>5 DEF RewardInit, LedgerBalances
<1>7. NotOvercommitted
  <2> SUFFICES ASSUME NEW p \in Policies PROVE LockedAmount(p) <= policy[p].funded
    BY DEF NotOvercommitted
  <2>1. {e \in Executions : lock[e].policy = p /\ lock[e].status \in Holding} = {}
    BY <1>3
  <2>2. LockedAmount(p) = 0
    BY <2>1, SumOfNone DEF LockedAmount
  <2> QED
    BY <2>2 DEF RewardInit, NoPolicy
<1> QED
  BY <1>1, <1>2, <1>6, <1>7 DEF Books

LEMMA BooksStutter == ASSUME PayInv, Books, UNCHANGED rewardVars PROVE Books'
<1>1. UNCHANGED <<account, entries, lock, policy, job>>
  BY DEF rewardVars
<1> QED
  BY <1>1, JobDone DEF Procs

\* As long as no two transactions are at one row, what a handler has loaded is
\* what the row holds when it writes it, and the books balance.
THEOREM BooksHold == RewardSpec => []BooksInv
<1>1. RewardInit => BooksInv
  BY PayInit, BooksInit DEF BooksInv
<1>2. BooksInv /\ [RewardNext]_rewardVars => BooksInv'
  <2> SUFFICES ASSUME BooksInv, [RewardNext]_rewardVars PROVE BooksInv'
    OBVIOUS
  <2>1. PayInv'
    BY PayNext, PayStutter DEF BooksInv
  <2>2. setting'.races = setting.races
    BY RacesStay DEF BooksInv, rewardVars
  <2>3. ~setting.races => Books'
    BY BooksNext, BooksStutter DEF BooksInv
  <2> QED
    BY <2>1, <2>2, <2>3 DEF BooksInv
<1> QED
  BY <1>1, <1>2, PTL DEF RewardSpec

\* The account's locked balance is what the locks that still hold money add up
\* to, what was topped up is available, locked or paid out, no policy has more
\* locked than it was funded with (ApplyEntries, OnClaim, recordSettlement,
\* ExpireLock), and the provider agrees.
THEOREM BooksAlwaysBalance == RewardSpec => []BooksBalance
<1>1. BooksInv => LedgerMatchesLocks /\ PolicyNotOvercommitted
  BY DEF BooksInv, Books, LedgerBalances, HeldInAll, NotOvercommitted, LedgerMatchesLocks,
         PolicyNotOvercommitted
<1>2. BooksInv /\ ProviderAgrees => BooksBalance
  BY <1>1 DEF BooksBalance
<1> QED
  BY <1>2, BooksHold, ProviderAlwaysAgrees, PTL

\* A lock that has ended is not written again.
LockStays == ~setting.races => \A e \in Executions : lock[e].status \in Terminal => lock'[e] = lock[e]

LEMMA TerminalStays ==
  ASSUME PayInv, Books, RewardNext
  PROVE  \A e \in Executions : lock[e].status \in Terminal => lock'[e] = lock[e]
<1>1. \/ lock' = lock
      \/ \E e \in Executions, p \in Policies : OnClaim(e, p)
      \/ \E e \in Executions, v \in Evidence : Decide(e, v)
      \/ ExpireSave
      \/ \E q \in Procs : DisputeSave(q) \/ SettleSave(q)
  BY DEF RewardNext, Request, Continue, WorkerStep, Procs, TopUpEscrow, CreateRewardPolicy,
         CancelRead, FundRead, DisputeRead, ResolveDispute, PolicySave, Refused, SettleLoad,
         SettlePay, SettleRead, NextPhase, Deferred, Release, ExpireRead, Fails,
         ChallengePayoutDestination, VerifyPayoutDestination, ChallengeLapses, RewardTick
<1>2. ASSUME NEW o \in Executions, lock[o].status \notin Terminal,
             \A e \in Executions \ {o} : lock'[e] = lock[e]
      PROVE  \A e \in Executions : lock[e].status \in Terminal => lock'[e] = lock[e]
  BY <1>2
<1>3. ASSUME NEW q \in Procs, job[q].at \in LockPlaces
      PROVE  job[q].on \in Executions /\ lock[job[q].on].status \notin Terminal
  <2>1. job[q].on \in Executions
    BY <1>3 DEF PayInv, JobsFit, JobFits, RowFits, LockPlaces, Settling
  <2>2. RowIsCurrent(job[q])
    BY DEF Books, RowsAreCurrent
  <2> QED
    BY <1>3, <2>1, <2>2 DEF RowIsCurrent, LockPlaces, Terminal
<1>4. ASSUME NEW e \in Executions, NEW p \in Policies, OnClaim(e, p)
      PROVE  lock[e].status \notin Terminal /\ \A o \in Executions \ {e} : lock'[o] = lock[o]
  <2>1. PICK n : LockStarts(e, p, n)
    BY <1>4, LockBegins
  <2> QED
    BY <2>1 DEF LockStarts, Terminal
<1>5. ASSUME NEW e \in Executions, NEW v \in Evidence, Decide(e, v)
      PROVE  lock[e].status \notin Terminal /\ \A o \in Executions \ {e} : lock'[o] = lock[o]
  BY <1>5 DEF Decide, Terminal, PayInv, RewardTypeOK
<1>6. ASSUME NEW q \in Procs, DisputeSave(q) \/ SettleSave(q) \/ (ExpireSave /\ q = RewardWorker)
      PROVE  job[q].at \in LockPlaces /\ \A o \in Executions \ {job[q].on} : lock'[o] = lock[o]
  BY <1>6 DEF DisputeSave, SettleSave, ExpireSave, LockPlaces, PayInv, RewardTypeOK
<1>7. CASE \E q \in Procs : DisputeSave(q) \/ SettleSave(q) \/ (ExpireSave /\ q = RewardWorker)
  BY <1>2, <1>3, <1>6, <1>7
<1> QED
  BY <1>1, <1>2, <1>4, <1>5, <1>7 DEF Procs

\* A lock that is released, refunded or expired is not written again
\* (Lock.Apply), as long as no two transactions are at one lock.
THEOREM EndedLocksStay == RewardSpec => SettledStays
<1>1. BooksInv /\ [RewardNext]_rewardVars => [LockStays]_rewardVars
  BY TerminalStays DEF BooksInv, LockStays
<1>2. RewardSpec => [][LockStays]_rewardVars
  BY <1>1, BooksHold, PTL DEF RewardSpec
<1> QED
  BY <1>2, PTL DEF SettledStays, LockStays

\* Money moves when it is due, and then it has moved.
THEOREM MoneyAlwaysMovesWhenDue == RewardSpec => MoneyMovesWhenDue
BY PaymentsAreDue, EndedLocksStay, PTL DEF MoneyMovesWhenDue

\* A policy becomes funded only while it is unfunded: funding it again, or after
\* it was cancelled, is a conflict.  Save does not see what another request has
\* written since the load, so this is for requests that do not overlap.
FundedOnce ==
  [][~setting.races =>
       \A p \in Policies :
         policy'[p] # policy[p] /\ policy'[p].status = "funded" =>
           policy[p].status = "unfunded"]_rewardVars

FundsUnfunded ==
  \A p \in Policies :
    policy'[p] # policy[p] /\ policy'[p].status = "funded" => policy[p].status = "unfunded"

LEMMA PolicyMoves == ASSUME PayInv, Books, RewardNext PROVE FundsUnfunded
<1>1. \/ policy' = policy
      \/ \E p \in Policies, t \in Tasks, c \in Terms : CreateRewardPolicy(p, t, c)
      \/ \E q \in Procs : PolicySave(q)
  BY DEF RewardNext, Request, Continue, WorkerStep, Procs, TopUpEscrow, OnClaim,
         CancelRead, FundRead, DisputeRead, ResolveDispute, DisputeSave, Refused, SettleLoad,
         SettlePay, SettleRead, SettleSave, NextPhase, ExpireSave, Decide, Deferred, Release, ExpireRead, Fails,
         ChallengePayoutDestination, VerifyPayoutDestination, ChallengeLapses, RewardTick
<1>2. ASSUME NEW p \in Policies, NEW t \in Tasks, NEW c \in Terms, CreateRewardPolicy(p, t, c)
      PROVE  FundsUnfunded
  <2>1. policy'[p].status = "unfunded" /\ \A o \in Policies \ {p} : policy'[o] = policy[o]
    BY <1>2 DEF CreateRewardPolicy, PayInv, RewardTypeOK
  <2> QED
    BY <2>1 DEF FundsUnfunded
<1>3. ASSUME NEW q \in Procs, PolicySave(q) PROVE FundsUnfunded
  <2>1. PICK p, s : p = job[q].on /\ s = IF job[q].at = "fund" THEN "funded" ELSE "cancelled"
    OBVIOUS
  <2>2. p \in Policies /\ policy[p] \in PolicyRow
    BY <1>3, <2>1 DEF PolicySave, PolicyPlaces, PayInv, JobsFit, JobFits, RowFits, RewardTypeOK
  <2>3. policy' = [policy EXCEPT ![p].status = s, ![p].funded = job[q].amount]
    BY <1>3, <2>1 DEF PolicySave
  <2>4. /\ policy'[p] = [policy[p] EXCEPT !.status = s, !.funded = job[q].amount]
        /\ \A o \in Policies \ {p} : policy'[o] = policy[o]
    BY <2>2, <2>3 DEF PayInv, RewardTypeOK
  <2>5. policy'[p].status = s
    BY <2>2, <2>4 DEF PolicyRow
  <2>6. s = "funded" => policy[p].status = "unfunded"
    BY <1>3, <2>1 DEF Books, RowsAreCurrent, RowIsCurrent
  <2> QED
    BY <2>4, <2>5, <2>6 DEF FundsUnfunded
<1> QED
  BY <1>1, <1>2, <1>3 DEF FundsUnfunded

\* FundRewardPolicy funds a policy once, as the service's comment says, as long
\* as requests at one policy do not overlap.
THEOREM PoliciesFundedOnce == RewardSpec => FundedOnce
<1>1. BooksInv /\ [RewardNext]_rewardVars => [~setting.races => FundsUnfunded]_rewardVars
  BY PolicyMoves DEF BooksInv
<1>2. RewardSpec => [][~setting.races => FundsUnfunded]_rewardVars
  BY <1>1, BooksHold, PTL DEF RewardSpec
<1> QED
  BY <1>2, PTL DEF FundedOnce, FundsUnfunded

=============================================================================
