----------------------------- MODULE TaskProofs -----------------------------
(* What the stack of tasks keeps to, for every set of tasks, rules and groups. *)
EXTENDS TaskEngine, FiniteSetTheorems, NaturalsInduction, SequenceTheorems, WellFoundedInduction, TLAPS

LEMMA Least ==
    ASSUME NEW T \in SUBSET Nat, T # {}
    PROVE  \E m \in T : \A k \in T : m <= k
<1>1. PICK m \in T : \A k \in T : ~(<<k, m>> \in OpToRel(<, Nat))
  BY WFMin, NatLessThanWellFounded, Zenon
<1>2. \A k \in T : ~(k < m)
  BY <1>1, Zenon DEF OpToRel
<1> QED BY <1>2

LEMMA Interval == \A n \in Nat : IsFiniteSet(1..n) /\ Cardinality(1..n) = n
<1> TAKE n \in Nat
<1> QED BY FS_Interval

(* How many positions of K there are up to n grows by one where n is in K. *)
LEMMA CountStep ==
    ASSUME NEW K \in SUBSET Nat, NEW n \in Nat \ {0}
    PROVE  /\ n \in K => Cardinality(K \cap 1..n) = Cardinality(K \cap 1..n - 1) + 1
           /\ n \notin K => Cardinality(K \cap 1..n) = Cardinality(K \cap 1..n - 1)
<1> DEFINE B == K \cap 1..n - 1
<1>1. IsFiniteSet(B) /\ Cardinality(B) \in Nat
  <2>1. B \in SUBSET (1..n - 1) /\ IsFiniteSet(1..n - 1)
    BY Interval
  <2> QED BY <2>1, FS_Subset, FS_CardinalityType
<1>2. CASE n \in K
  <2>1. K \cap 1..n = B \cup {n} /\ n \notin B
    BY <1>2
  <2>2. Cardinality(B \cup {n}) = Cardinality(B) + 1
    <3> HIDE DEF B
    <3> QED BY <1>1, <2>1, FS_AddElement
  <2> QED BY <1>2, <2>1, <2>2
<1>3. CASE n \notin K
  <2>1. K \cap 1..n = B
    BY <1>3
  <2> QED BY <1>3, <2>1
<1> QED BY <1>2, <1>3

LEMMA CountMonotone ==
    ASSUME NEW K \in SUBSET Nat, NEW m \in Nat, NEW n \in Nat, m <= n
    PROVE  /\ Cardinality(K \cap 1..m) \in Nat /\ Cardinality(K \cap 1..n) \in Nat
           /\ Cardinality(K \cap 1..m) <= Cardinality(K \cap 1..n)
<1>1. K \cap 1..n \in SUBSET (1..n) /\ K \cap 1..m \in SUBSET (K \cap 1..n)
  OBVIOUS
<1>2. IsFiniteSet(K \cap 1..n)
  BY <1>1, Interval, FS_Subset
<1> QED BY <1>1, <1>2, FS_Subset, FS_CardinalityType

(* Each of the numbers up to the size of K is the count at a member of K. *)
LEMMA CountReaches ==
    ASSUME NEW N \in Nat, NEW K \in SUBSET (1..N), NEW j \in 1..Cardinality(K)
    PROVE  \E i \in K : Cardinality(K \cap 1..i) = j
<1> DEFINE C(i) == Cardinality(K \cap 1..i)
           T == {i \in Nat : C(i) >= j}
<1>1. C(N) = Cardinality(K) /\ C(0) = 0
  <2>1. K \cap 1..N = K
    OBVIOUS
  <2>2. K \cap 1..0 = {}
    OBVIOUS
  <2> QED BY <2>1, <2>2, FS_EmptySet
<1>2. Cardinality(K) \in Nat
  BY Interval, FS_Subset, FS_CardinalityType
<1>3. N \in T
  BY <1>1, <1>2
<1>4. PICK i \in T : \A k \in T : i <= k
  <2> HIDE DEF T
  <2>1. T \in SUBSET Nat
    BY DEF T
  <2> QED BY <1>3, <2>1, Least
<1>5. i \in Nat \ {0} /\ C(i) >= j
  BY <1>1, <1>4
<1>6. /\ C(i) \in Nat /\ C(i - 1) \in Nat
      /\ i \in K => C(i) = C(i - 1) + 1
      /\ i \notin K => C(i) = C(i - 1)
  <2>1. K \in SUBSET Nat /\ i - 1 \in Nat /\ i \in Nat
    BY <1>5
  <2>2. C(i) \in Nat /\ C(i - 1) \in Nat
    BY <2>1, CountMonotone
  <2>3. (i \in K => C(i) = C(i - 1) + 1) /\ (i \notin K => C(i) = C(i - 1))
    BY <1>5, <2>1, CountStep
  <2> QED BY <2>2, <2>3
<1>7. ~(C(i - 1) >= j)
  BY <1>4, <1>5
<1>8. i \in K /\ C(i) = j
  <2> HIDE DEF C
  <2> QED BY <1>2, <1>5, <1>6, <1>7
<1> QED BY <1>8

(* The n-th of those that stay is one of them, and n is how many stay up to it. *)
LEMMA KeptAsType ==
    ASSUME NEW stack \in Seq(TaskRuntime), NEW owners,
           NEW n \in 1..Cardinality(Kept(stack, owners))
    PROVE  /\ KeptAs(Kept(stack, owners), n) \in Kept(stack, owners)
           /\ Cardinality(Kept(stack, owners) \cap 1..KeptAs(Kept(stack, owners), n)) = n
<1>1. Kept(stack, owners) \in SUBSET (1..Len(stack)) /\ Len(stack) \in Nat
  BY DEF Kept
<1>2. \E i \in Kept(stack, owners) : Cardinality(Kept(stack, owners) \cap 1..i) = n
  <2> HIDE DEF Kept
  <2> QED BY <1>1, CountReaches
<1> QED BY <1>2 DEF KeptAs

LEMMA KeptAsOrder ==
    ASSUME NEW stack \in Seq(TaskRuntime), NEW owners,
           NEW m \in 1..Cardinality(Kept(stack, owners)),
           NEW n \in 1..Cardinality(Kept(stack, owners)), m < n
    PROVE  KeptAs(Kept(stack, owners), m) < KeptAs(Kept(stack, owners), n)
<1> DEFINE K == Kept(stack, owners)
           i == KeptAs(Kept(stack, owners), m)
           k == KeptAs(Kept(stack, owners), n)
<1>1. K \in SUBSET Nat
  BY DEF Kept
<1>2. i \in K /\ k \in K /\ Cardinality(K \cap 1..i) = m /\ Cardinality(K \cap 1..k) = n
  BY KeptAsType
<1> HIDE DEF K, i, k
<1>3. i \in Nat /\ k \in Nat
  BY <1>1, <1>2
<1>4. ~(k <= i)
  <2>1. k <= i => Cardinality(K \cap 1..k) <= Cardinality(K \cap 1..i)
    BY <1>1, <1>3, CountMonotone
  <2> QED BY <1>2, <2>1
<1> QED BY <1>3, <1>4 DEF i, k

LEMMA WithoutType ==
    ASSUME NEW stack \in Seq(TaskRuntime), NEW owners
    PROVE  /\ Without(stack, owners) \in Seq(TaskRuntime)
           /\ Len(Without(stack, owners)) = Cardinality(Kept(stack, owners))
           /\ Len(Without(stack, owners)) \in 0..Len(stack)
           /\ \A n \in 1..Len(Without(stack, owners)) :
                  /\ KeptAs(Kept(stack, owners), n) \in 1..Len(stack)
                  /\ Without(stack, owners)[n] = stack[KeptAs(Kept(stack, owners), n)]
                  /\ Group(Without(stack, owners)[n]) \notin owners
<1> DEFINE c == Cardinality(Kept(stack, owners))
<1>1. Kept(stack, owners) \in SUBSET (1..Len(stack)) /\ Len(stack) \in Nat
  BY DEF Kept
<1>2. c \in 0..Len(stack)
  <2>1. IsFiniteSet(1..Len(stack)) /\ Cardinality(1..Len(stack)) = Len(stack)
    BY <1>1, Interval
  <2> QED BY <1>1, <2>1, FS_Subset, FS_CardinalityType
<1>3. \A n \in 1..c : /\ KeptAs(Kept(stack, owners), n) \in 1..Len(stack)
                       /\ Group(stack[KeptAs(Kept(stack, owners), n)]) \notin owners
                       /\ stack[KeptAs(Kept(stack, owners), n)] \in TaskRuntime
  <2> TAKE n \in 1..c
  <2>1. KeptAs(Kept(stack, owners), n) \in Kept(stack, owners)
    BY KeptAsType
  <2>2. /\ KeptAs(Kept(stack, owners), n) \in 1..Len(stack)
        /\ Group(stack[KeptAs(Kept(stack, owners), n)]) \notin owners
    BY <2>1 DEF Kept
  <2> QED BY <2>2, ElementOfSeq
<1> HIDE DEF c
<1>4. Without(stack, owners) = [n \in 1..c |-> stack[KeptAs(Kept(stack, owners), n)]]
  BY DEF Without, c
<1>5. Without(stack, owners) \in [1..c -> TaskRuntime]
  BY <1>3, <1>4
<1>6. Without(stack, owners) \in Seq(TaskRuntime) /\ Len(Without(stack, owners)) = c
  BY <1>2, <1>5
<1> QED BY <1>2, <1>3, <1>4, <1>6 DEF c

(* With what an owner's runtimes leave: nothing when it had none, else the  *)
(* bottom one stays or another owner's comes to the bottom.                 *)
LEMMA WithoutAll ==
    ASSUME NEW stack \in Seq(TaskRuntime), NEW owners,
           Len(Without(stack, owners)) = Len(stack)
    PROVE  Without(stack, owners) = stack
<1> DEFINE K == Kept(stack, owners)
           L == Len(stack)
<1>0. \A n \in 1..Cardinality(K) : KeptAs(K, n) \in K /\ Cardinality(K \cap 1..KeptAs(K, n)) = n
  BY KeptAsType
<1>1. K \in SUBSET (1..L) /\ L \in Nat
  BY DEF Kept
<1>2. Cardinality(K) = L
  BY WithoutType
<1> HIDE DEF K, L
<1>3. K = 1..L
  <2>1. IsFiniteSet(1..L) /\ Cardinality(1..L) = L
    BY <1>1, Interval
  <2> QED BY <1>1, <1>2, <2>1, FS_Subset
<1>4. \A n \in 1..L : KeptAs(K, n) = n
  <2> TAKE n \in 1..L
  <2> DEFINE i == KeptAs(K, n)
  <2>1. i \in K /\ Cardinality(K \cap 1..i) = n
    BY <1>2, <1>0
  <2> HIDE DEF i
  <2>2. i \in 1..L
    BY <1>3, <2>1
  <2>3. K \cap 1..i = 1..i
    BY <1>1, <1>3, <2>2
  <2>4. i \in Nat /\ Cardinality(1..i) = i
    BY <1>1, <2>2, Interval
  <2> QED BY <2>1, <2>3, <2>4 DEF i
<1>5. \A n \in 1..L : Without(stack, owners)[n] = stack[n]
  BY <1>4, WithoutType DEF K, L
<1> QED BY <1>5, WithoutType, SeqEqual DEF L

LEMMA WithoutFirst ==
    ASSUME NEW stack \in Seq(TaskRuntime), NEW owners,
           Without(stack, owners) # <<>>
    PROVE  /\ stack # <<>>
           /\ \/ Without(stack, owners)[1] = stack[1]
              \/ Without(stack, owners)[1].def_id # stack[1].def_id
<1> DEFINE left == Without(stack, owners)
           K == Kept(stack, owners)
           i == KeptAs(Kept(stack, owners), 1)
<1>1. left \in Seq(TaskRuntime) /\ Len(left) = Cardinality(K) /\ Len(left) \in 0..Len(stack)
  BY WithoutType
<1>2. Len(left) \in Nat \ {0} /\ Len(stack) \in Nat \ {0}
  <2> HIDE DEF left
  <2> QED BY <1>1, EmptySeq DEF left
<1>3. 1 \in 1..Cardinality(K) /\ 1 \in 1..Len(left)
  BY <1>1, <1>2
<1>4. i \in 1..Len(stack) /\ left[1] = stack[i] /\ Group(left[1]) \notin owners
  BY <1>3, WithoutType
<1>5. i \in K /\ Cardinality(K \cap 1..i) = 1
  BY <1>3, KeptAsType
<1>6. CASE Group(stack[1]) \in owners
  BY <1>2, <1>4, <1>6 DEF Group
<1>7. CASE Group(stack[1]) \notin owners
  <2>1. 1 \in K
    BY <1>2, <1>7 DEF Kept
  <2>2. K \in SUBSET Nat
    BY DEF Kept
  <2> HIDE DEF K, i
  <2>3. i = 1
    <3> SUFFICES ASSUME i # 1 PROVE FALSE
      OBVIOUS
    <3>1. i \in Nat \ {0} /\ i - 1 \in Nat /\ 1 <= i - 1
      BY <1>4
    <3>2. Cardinality(K \cap 1..i) = Cardinality(K \cap 1..i - 1) + 1
      BY <1>5, <2>2, <3>1, CountStep
    <3>3. Cardinality(K \cap 1..1) <= Cardinality(K \cap 1..i - 1) /\ Cardinality(K \cap 1..i - 1) \in Nat
      BY <2>2, <3>1, CountMonotone
    <3>4. K \cap 1..1 = {1}
      BY <2>1
    <3>5. Cardinality(K \cap 1..1) = 1
      BY <3>4, FS_Singleton
    <3> QED BY <1>5, <3>2, <3>3, <3>5
  <2> QED BY <1>2, <1>4, <2>3
<1> QED BY <1>2, <1>6, <1>7

-----------------------------------------------------------------------------
(* The invariant, as a predicate on engines: Gate leaves out the owners     *)
(* whose runtimes are about to leave.                                       *)
EngineType == [stack : Seq(TaskRuntime), hunt : BOOLEAN, open : SUBSET Groups,
               on : SUBSET TopLevelRules, inGame : BOOLEAN, filed : BOOLEAN]
Within(e) == \A i \in 1..Len(e.stack) : e.stack[i].step_idx <= e.stack[i].steps
Gate(e, owners) ==
    \A i \in 1..Len(e.stack) :
        e.stack[i].by = "start" /\ Group(e.stack[i]) \notin owners => GroupOpen(e, e.stack[i].def_id)
Alone(e) == Crowded(e.open) => e.filed
Once(e) ==
    \A i, j \in 1..Len(e.stack) :
        i < j /\ e.stack[i].def_id = e.stack[j].def_id => e.stack[j].by = "rule"
Sound(e) == e \in EngineType /\ Within(e) /\ Gate(e, {}) /\ Alone(e) /\ Once(e)

(* What becomes of the bottom of the stack and of hunt when e becomes f:    *)
(* the first to come snapshots hunt, the last to leave gives it back.       *)
Handed(e, f) ==
    /\ e.stack = <<>> /\ f.stack # <<>> => f.stack[1].hunt_before = e.hunt
    /\ e.stack # <<>> /\ f.stack # <<>> /\ f.stack[1].def_id = e.stack[1].def_id
         => f.stack[1].hunt_before = e.stack[1].hunt_before
    /\ e.stack # <<>> /\ f.stack = <<>> => f.hunt = e.stack[1].hunt_before

(* The runtime on top stands where it stood, or has left. *)
TopStays(e, f) ==
    LET n == Len(e.stack)
    IN  n \in 1..Len(f.stack) =>
            f.stack[n].step_idx = e.stack[n].step_idx /\ f.stack[n].steps = e.stack[n].steps

LEMMA FirstRuntime ==
    ASSUME NEW s \in Seq(TaskRuntime), s # <<>>
    PROVE  1 \in 1..Len(s) /\ Len(s) \in Nat \ {0} /\ s[1] \in TaskRuntime /\ s[Len(s)] \in TaskRuntime
BY EmptySeq, ElementOfSeq

LEMMA RemoveFields ==
    ASSUME NEW e \in EngineType, NEW owners
    PROVE  LET f == Remove(e, owners)
           IN  /\ f \in EngineType /\ f.stack = Without(e.stack, owners)
               /\ f.open = e.open /\ f.on = e.on /\ f.inGame = e.inGame /\ f.filed = e.filed
               /\ f.hunt = IF f.stack = <<>> /\ e.stack # <<>> THEN e.stack[1].hunt_before ELSE e.hunt
<1>1. Without(e.stack, owners) \in Seq(TaskRuntime)
  BY WithoutType DEF EngineType
<1>2. e.stack # <<>> => e.stack[1].hunt_before \in BOOLEAN
  BY FirstRuntime DEF EngineType, TaskRuntime
<1>3. CASE Without(e.stack, owners) = <<>> /\ e.stack # <<>>
  BY <1>1, <1>2, <1>3 DEF Remove, EngineType
<1>4. CASE ~(Without(e.stack, owners) = <<>> /\ e.stack # <<>>)
  BY <1>1, <1>4 DEF Remove, EngineType
<1> QED BY <1>3, <1>4

LEMMA RemoveHands ==
    ASSUME NEW e \in EngineType, NEW owners
    PROVE  Handed(e, Remove(e, owners)) /\ TopStays(e, Remove(e, owners))
<1> DEFINE f == Remove(e, owners)
<1>1. e.stack \in Seq(TaskRuntime) /\ f.stack = Without(e.stack, owners)
  BY RemoveFields DEF EngineType
<1>2. e.stack # <<>> /\ f.stack = <<>> => f.hunt = e.stack[1].hunt_before
  BY RemoveFields
<1>3. f.stack # <<>> => /\ e.stack # <<>>
                        /\ \/ f.stack[1] = e.stack[1]
                           \/ f.stack[1].def_id # e.stack[1].def_id
  BY <1>1, WithoutFirst
<1>4. TopStays(e, f)
  <2>1. Len(f.stack) \in 0..Len(e.stack) /\ Len(e.stack) \in Nat
    BY <1>1, WithoutType
  <2>2. Len(e.stack) \in 1..Len(f.stack) => f.stack = e.stack
    BY <1>1, <2>1, WithoutAll
  <2> QED BY <2>2 DEF TopStays
<1> HIDE DEF f
<1>5. Handed(e, f)
  BY <1>2, <1>3 DEF Handed
<1> QED BY <1>4, <1>5 DEF f

LEMMA RemoveSound ==
    ASSUME NEW e \in EngineType, NEW owners, Within(e), Gate(e, owners), Alone(e), Once(e)
    PROVE  Sound(Remove(e, owners))
<1> DEFINE f == Remove(e, owners)
           K(n) == KeptAs(Kept(e.stack, owners), n)
<1>1. /\ e.stack \in Seq(TaskRuntime) /\ f.stack = Without(e.stack, owners)
      /\ f \in EngineType /\ f.open = e.open /\ f.filed = e.filed
  BY RemoveFields DEF EngineType
<1>2. \A n \in 1..Len(f.stack) : /\ K(n) \in 1..Len(e.stack) /\ f.stack[n] = e.stack[K(n)]
                                 /\ Group(f.stack[n]) \notin owners
  BY <1>1, WithoutType
<1>3. \A m, n \in 1..Len(f.stack) : m < n => K(m) < K(n)
  BY <1>1, WithoutType, KeptAsOrder
<1> HIDE DEF f, K
<1>4. Within(f)
  BY <1>2 DEF Within
<1>5. Gate(f, {})
  BY <1>1, <1>2 DEF Gate, GroupOpen
<1>6. Alone(f)
  BY <1>1 DEF Alone
<1>7. Once(f)
  BY <1>2, <1>3 DEF Once
<1> QED BY <1>1, <1>4, <1>5, <1>6, <1>7 DEF Sound, f

-----------------------------------------------------------------------------
(* The operations.                                                          *)
LEMMA CloseGroupsSound ==
    ASSUME NEW e, Sound(e), NEW gs
    PROVE  LET f == CloseGroups(e, gs)
           IN  Sound(f) /\ Handed(e, f) /\ TopStays(e, f) /\ f.open = e.open \ gs /\ f.filed = e.filed
<1> DEFINE d == [e EXCEPT !.open = @ \ gs]
<1>1. e \in EngineType /\ d \in EngineType /\ d.stack = e.stack /\ d.hunt = e.hunt /\ d.open = e.open \ gs
      /\ d.filed = e.filed
  BY DEF Sound, EngineType
<1>2. Within(d) /\ Once(d) /\ Alone(d)
  BY <1>1 DEF Sound, Within, Once, Alone, Crowded
<1>3. Gate(d, gs \cap e.open)
  BY <1>1 DEF Sound, Gate, GroupOpen, Group
<1> HIDE DEF d
<1>4. Sound(Remove(d, gs \cap e.open))
  BY <1>1, <1>2, <1>3, RemoveSound
<1>5. Handed(d, Remove(d, gs \cap e.open)) /\ TopStays(d, Remove(d, gs \cap e.open))
  BY <1>1, RemoveHands
<1>6. Remove(d, gs \cap e.open).open = e.open \ gs /\ Remove(d, gs \cap e.open).filed = e.filed
  BY <1>1, RemoveFields
<1>7. Handed(e, Remove(d, gs \cap e.open)) /\ TopStays(e, Remove(d, gs \cap e.open))
  BY <1>1, <1>5 DEF Handed, TopStays
<1>8. CloseGroups(e, gs) = Remove(d, gs \cap e.open)
  BY DEF CloseGroups, d
<1> QED BY <1>4, <1>6, <1>7, <1>8

LEMMA GroupOpenCmdSound ==
    ASSUME NEW e, Sound(e), NEW g \in Groups
    PROVE  LET f == GroupOpenCmd(e, g)
           IN  Sound(f) /\ Handed(e, f) /\ TopStays(e, f)
<1> DEFINE others == IF g \in Exclusive THEN (Exclusive \cap e.open) \ {g} ELSE {}
           c == CloseGroups(e, others)
           f == [c EXCEPT !.open = @ \cup {g}]
<1>1. Sound(c) /\ Handed(e, c) /\ TopStays(e, c) /\ c.open = e.open \ others
      /\ c.filed = e.filed
  BY CloseGroupsSound
<1>2. GroupOpenCmd(e, g) = f
  BY DEF GroupOpenCmd
<1> HIDE DEF c
<1>3. f \in EngineType /\ f.stack = c.stack /\ f.hunt = c.hunt /\ f.open = c.open \cup {g}
      /\ f.filed = c.filed
  BY <1>1 DEF Sound, EngineType
<1>4. Within(f) /\ Once(f) /\ Gate(f, {})
  BY <1>1, <1>3 DEF Sound, Within, Once, Gate, GroupOpen
<1>5. Alone(f)
  <2>1. CASE g \in Exclusive
    BY <1>1, <1>3, <2>1 DEF Alone, Crowded
  <2>2. CASE g \notin Exclusive
    BY <1>1, <1>3, <2>2 DEF Sound, Alone, Crowded
  <2> QED BY <2>1, <2>2
<1>6. Handed(e, f) /\ TopStays(e, f)
  BY <1>1, <1>3 DEF Handed, TopStays
<1> QED BY <1>2, <1>3, <1>4, <1>5, <1>6 DEF Sound

(* group_close and rule_close shut the gate of one owner and send its       *)
(* runtimes away; `task stop` sends all.                                    *)
LEMMA ClosesSound ==
    ASSUME NEW e, Sound(e), NEW owners,
           NEW d \in EngineType, d.stack = e.stack, d.hunt = e.hunt, d.open \subseteq e.open,
           d.filed = e.filed, e.open \ d.open \subseteq owners
    PROVE  Sound(Remove(d, owners)) /\ Handed(e, Remove(d, owners)) /\ TopStays(e, Remove(d, owners))
<1>1. Within(d) /\ Once(d) /\ Alone(d)
  BY DEF Sound, Within, Once, Alone, Crowded
<1>2. Gate(d, owners)
  BY DEF Sound, Gate, GroupOpen, Group
<1>3. Handed(d, Remove(d, owners)) /\ TopStays(d, Remove(d, owners))
  BY RemoveHands
<1>4. Handed(e, Remove(d, owners)) /\ TopStays(e, Remove(d, owners))
  BY <1>3 DEF Handed, TopStays
<1> QED BY <1>1, <1>2, <1>4, RemoveSound

LEMMA PushSound ==
    ASSUME NEW e, Sound(e), NEW id \in Tasks \cup Rules, NEW n \in 0..MaxSteps,
           NEW recurring \in BOOLEAN, NEW by \in {"start", "wait", "rule"},
           by = "start" => GroupOpen(e, id), by # "rule" => ~OnStack(e, id)
    PROVE  LET f == Push(e, Runtime(e, id, n, recurring, by))
           IN  Sound(f) /\ Handed(e, f) /\ TopStays(e, f)
<1> DEFINE rt == Runtime(e, id, n, recurring, by)
           f == Push(e, rt)
           L == Len(e.stack)
<1>1. rt \in TaskRuntime /\ rt.def_id = id /\ rt.by = by /\ rt.step_idx = 0 /\ rt.steps = n
      /\ rt.hunt_before = e.hunt
  BY TaskAssumption DEF Runtime, TaskRuntime, Sound, EngineType
<1>2. e \in EngineType /\ e.stack \in Seq(TaskRuntime) /\ L \in Nat
  BY DEF Sound, EngineType
<1> HIDE DEF rt
<1>3. f.stack = Append(e.stack, rt) /\ f \in EngineType /\ f.open = e.open /\ f.filed = e.filed
  <2>1. Append(e.stack, rt) \in Seq(TaskRuntime)
    BY <1>1, <1>2
  <2>2. f = [e EXCEPT !.stack = Append(@, rt)]
    BY DEF Push
  <2> HIDE DEF f
  <2> QED BY <1>2, <2>1, <2>2 DEF EngineType
<1>4. /\ Len(f.stack) = L + 1 /\ f.stack[L + 1] = rt
      /\ \A i \in 1..L : f.stack[i] = e.stack[i]
  BY <1>2, <1>3
<1> HIDE DEF f, L
<1>5. \A i \in 1..Len(f.stack) : i \in 1..L \/ i = L + 1
  BY <1>2, <1>4
<1>6. Within(f)
  <2>1. 0 <= n
    OBVIOUS
  <2>2. \A i \in 1..L : e.stack[i].step_idx <= e.stack[i].steps
    BY DEF Sound, Within, L
  <2> QED BY <1>1, <1>4, <1>5, <2>1, <2>2 DEF Within
<1>7. Gate(f, {})
  BY <1>1, <1>3, <1>4, <1>5 DEF Sound, Gate, GroupOpen, L
<1>8. Once(f)
  <2> SUFFICES ASSUME NEW i \in 1..Len(f.stack), NEW j \in 1..Len(f.stack), i < j,
                      f.stack[i].def_id = f.stack[j].def_id
               PROVE  f.stack[j].by = "rule"
    BY DEF Once
  <2>1. CASE j \in 1..L
    <3>1. i \in 1..L
      BY <1>2, <2>1
    <3> QED BY <1>4, <2>1, <3>1 DEF Sound, Once, L
  <2>2. CASE j = L + 1
    <3>1. i \in 1..L
      BY <1>2, <2>2
    <3>2. OnStack(e, id)
      BY <1>1, <1>4, <2>2, <3>1 DEF OnStack, L
    <3> QED BY <1>1, <1>4, <2>2, <3>2
  <2> QED BY <1>5, <2>1, <2>2
<1>9. Sound(f)
  BY <1>3, <1>6, <1>7, <1>8 DEF Sound, Alone
<1>10. TopStays(e, f)
  BY <1>2, <1>4 DEF TopStays, L
<1>11. Handed(e, f)
  <2>1. f.stack # <<>>
    BY <1>2, <1>4
  <2>2. CASE e.stack = <<>>
    <3>1. L = 0
      BY <2>2, EmptySeq DEF L
    <3> QED BY <1>1, <1>4, <2>1, <2>2, <3>1 DEF Handed
  <2>3. CASE e.stack # <<>>
    <3>1. 1 \in 1..L
      BY <1>2, <2>3, FirstRuntime DEF L
    <3> QED BY <1>4, <2>1, <2>3, <3>1 DEF Handed
  <2> QED BY <2>2, <2>3
<1> QED BY <1>9, <1>10, <1>11 DEF f, rt

LEMMA SameStackSound ==
    ASSUME NEW e, Sound(e), NEW d \in EngineType, d.stack = e.stack,
           d.open = e.open, d.filed = e.filed
    PROVE  Sound(d) /\ Handed(e, d) /\ TopStays(e, d)
<1>1. Sound(d)
  BY DEF Sound, Within, Gate, GroupOpen, Alone, Once
<1>2. Handed(e, d) /\ TopStays(e, d)
  BY DEF Handed, TopStays
<1> QED BY <1>1, <1>2

LEMMA ReloadSound ==
    ASSUME NEW e, Sound(e), NEW cfg \in Configs
    PROVE  LET f == Reload(e, cfg)
           IN  Sound(f) /\ Handed(e, f) /\ TopStays(e, f)
<1> DEFINE f == Reload(e, cfg)
           L == Len(e.stack)
           Mark(rt) == IF rt.by = "start" THEN [rt EXCEPT !.by = "kept"] ELSE rt
           marked == [i \in 1..L |-> Mark(e.stack[i])]
<1>1. e \in EngineType /\ e.stack \in Seq(TaskRuntime) /\ L \in Nat /\ DOMAIN e.stack = 1..L
  BY LenProperties DEF Sound, EngineType
<1>2. \A i \in 1..L : e.stack[i] \in TaskRuntime
  BY <1>1, ElementOfSeq
<1>3. \A rt \in TaskRuntime :
        /\ Mark(rt) \in TaskRuntime /\ Mark(rt).by # "start"
        /\ Mark(rt).def_id = rt.def_id /\ Mark(rt).step_idx = rt.step_idx
        /\ Mark(rt).steps = rt.steps /\ Mark(rt).hunt_before = rt.hunt_before
        /\ rt.by = "rule" => Mark(rt).by = "rule"
  BY DEF TaskRuntime
<1>4. f = [e EXCEPT !.open = cfg.open, !.on = cfg.on, !.filed = TRUE, !.stack = marked]
  BY <1>1 DEF Reload
<1> HIDE DEF f, Mark, L
<1>5. marked \in Seq(TaskRuntime) /\ Len(marked) = L
  <2>1. marked \in [1..L -> TaskRuntime]
    BY <1>2, <1>3
  <2> HIDE DEF marked
  <2> QED BY <1>1, <2>1
<1>6. \A i \in 1..L : marked[i] = Mark(e.stack[i])
  OBVIOUS
<1> HIDE DEF marked
<1>7. f \in EngineType /\ f.stack = marked /\ f.open = cfg.open /\ f.filed = TRUE
  BY <1>1, <1>4, <1>5 DEF EngineType, Configs
<1>8. Within(f) /\ Gate(f, {}) /\ Once(f)
  <2>1. Within(f)
    BY <1>2, <1>3, <1>5, <1>6, <1>7 DEF Within, Sound, L
  <2>2. Gate(f, {})
    BY <1>2, <1>3, <1>5, <1>6, <1>7 DEF Gate
  <2>3. Once(f)
    BY <1>2, <1>3, <1>5, <1>6, <1>7 DEF Once, Sound, L
  <2> QED BY <2>1, <2>2, <2>3
<1>9. Alone(f)
  BY <1>7 DEF Alone
<1>10. e.stack = <<>> <=> f.stack = <<>>
  BY <1>1, <1>5, <1>7, EmptySeq DEF L
<1>11. Handed(e, f)
  <2>1. e.stack # <<>> => f.stack[1].hunt_before = e.stack[1].hunt_before
    BY <1>1, <1>2, <1>3, <1>6, <1>7, FirstRuntime DEF L
  <2> QED BY <1>10, <2>1 DEF Handed
<1>12. TopStays(e, f)
  BY <1>2, <1>3, <1>5, <1>6, <1>7 DEF TopStays, L
<1> QED BY <1>7, <1>8, <1>9, <1>11, <1>12 DEF Sound, f

(* Nothing in Result goes on a task: a command starts, removes or leaves. *)
LEMMA ResultSound ==
    ASSUME NEW e, Sound(e), NEW c \in Command
    PROVE  LET f == Result(e, c)
           IN  Sound(f) /\ Handed(e, f) /\ TopStays(e, f)
<1> DEFINE f == Result(e, c)
           Goal(g) == Sound(g) /\ Handed(e, g) /\ TopStays(e, g)
<1>1. e \in EngineType
  BY DEF Sound
<1>2. Goal(e)
  BY <1>1, SameStackSound
<1>3. CASE Fails(e, c)
  BY <1>2, <1>3 DEF Result
<1>4. CASE ~Fails(e, c) /\ c.op = "start"
  <2>1. c.arg \in Tasks /\ f = StartTask(e, c.arg)
    BY <1>4 DEF Command, Result
  <2>2. CASE OnStack(e, c.arg) \/ ~GroupOpen(e, c.arg)
    BY <1>2, <2>1, <2>2 DEF StartTask
  <2>3. CASE ~(OnStack(e, c.arg) \/ ~GroupOpen(e, c.arg))
    <3>1. f = Push(e, Runtime(e, c.arg, MaxSteps, c.arg \in Recurring, "start"))
      BY <2>1, <2>3 DEF StartTask
    <3>2. MaxSteps \in 0..MaxSteps /\ c.arg \in Tasks \cup Rules /\ (c.arg \in Recurring) \in BOOLEAN
      BY <2>1, TaskAssumption
    <3> QED BY <2>3, <3>1, <3>2, PushSound
  <2> QED BY <2>2, <2>3
<1>5. CASE ~Fails(e, c) /\ c.op = "task stop"
  <2>1. f = Remove(e, Groups \cup {NoGroup})
    BY <1>5 DEF Result, StopTask
  <2> QED BY <1>1, <2>1, ClosesSound
<1>6. CASE ~Fails(e, c) /\ c.op = "group open"
  <2>1. c.arg \in Groups /\ f = GroupOpenCmd(e, c.arg)
    BY <1>6 DEF Command, Result
  <2> QED BY <2>1, GroupOpenCmdSound
<1>7. CASE ~Fails(e, c) /\ c.op = "group close"
  <2> DEFINE d == [e EXCEPT !.open = @ \ {c.arg}]
  <2>1. f = Remove(d, {c.arg})
    BY <1>7 DEF Result, GroupClose
  <2>2. d \in EngineType /\ d.stack = e.stack /\ d.hunt = e.hunt /\ d.open \subseteq e.open /\ d.filed = e.filed
        /\ e.open \ d.open \subseteq {c.arg}
    BY <1>1 DEF EngineType
  <2> HIDE DEF d
  <2> QED BY <2>1, <2>2, ClosesSound
<1>8. CASE ~Fails(e, c) /\ c.op = "rule open"
  <2>1. f = [e EXCEPT !.on = @ \cup {c.arg}] /\ c.arg \in TopLevelRules
    BY <1>8 DEF Result, Fails
  <2>2. f \in EngineType /\ f.stack = e.stack /\ f.open = e.open /\ f.filed = e.filed
    BY <1>1, <2>1 DEF EngineType
  <2> QED BY <2>2, SameStackSound
<1>9. CASE ~Fails(e, c) /\ c.op = "rule close"
  <2> DEFINE d == [e EXCEPT !.on = @ \ {c.arg}]
  <2>1. f = Remove(d, {NoGroup})
    BY <1>9 DEF Result, RuleClose
  <2>2. d \in EngineType /\ d.stack = e.stack /\ d.hunt = e.hunt /\ d.open \subseteq e.open /\ d.filed = e.filed
        /\ e.open \ d.open \subseteq {NoGroup}
    BY <1>1 DEF EngineType
  <2> HIDE DEF d
  <2> QED BY <2>1, <2>2, ClosesSound
<1>10. CASE ~Fails(e, c) /\ c.op = "reload"
  <2>1. c.arg \in Configs /\ f = Reload(e, c.arg)
    BY <1>10 DEF Command, Result
  <2> QED BY <2>1, ReloadSound
<1>11. CASE ~Fails(e, c) /\ c.op \in {"hunt on", "hunt off", "channel", "town", "other"}
  <2>1. f \in EngineType /\ f.stack = e.stack /\ f.open = e.open /\ f.filed = e.filed
    BY <1>1, <1>11 DEF Result, EngineType
  <2> QED BY <2>1, SameStackSound
<1>12. c.op \in {"start", "group open", "group close", "rule open", "rule close", "reload", "hunt on",
                 "hunt off", "task stop", "town", "channel", "other", "error", "quit"}
  BY DEF Command
<1>13. c.op \in {"error", "quit"} => Fails(e, c)
  BY DEF Fails
<1> QED BY <1>3, <1>4, <1>5, <1>6, <1>7, <1>8, <1>9, <1>10, <1>11, <1>12, <1>13

LEMMA AdvanceSound ==
    ASSUME NEW e, Sound(e), NEW n \in Nat, NEW id,
           n \in 1..Len(e.stack) => e.stack[n].step_idx < e.stack[n].steps
    PROVE  LET f == Advance(e, n, id)
           IN  /\ Sound(f)
               /\ \A d : Handed(d, e) => Handed(d, f)
<1> DEFINE L == Len(e.stack)
           t == [e.stack[n] EXCEPT !.step_idx = @ + 1]
           moved == [e.stack EXCEPT ![n] = t]
           f == [e EXCEPT !.stack = moved]
<1>1. e \in EngineType /\ e.stack \in Seq(TaskRuntime) /\ L \in Nat
  BY DEF Sound, EngineType
<1>2. CASE ~(n \in 1..L /\ e.stack[n].def_id = id)
  BY <1>2 DEF Advance
<1>3. CASE n \in 1..L /\ e.stack[n].def_id = id
  <2>1. Advance(e, n, id) = f
    BY <1>1, <1>3 DEF Advance, EngineType
  <2>2. /\ t \in TaskRuntime /\ t.step_idx = e.stack[n].step_idx + 1 /\ t.steps = e.stack[n].steps
        /\ t.def_id = e.stack[n].def_id /\ t.by = e.stack[n].by /\ t.hunt_before = e.stack[n].hunt_before
        /\ t.step_idx <= t.steps
    <3>1. e.stack[n] \in TaskRuntime /\ e.stack[n].step_idx < e.stack[n].steps
      BY <1>1, <1>3, ElementOfSeq
    <3> QED BY <3>1, TaskAssumption DEF TaskRuntime
  <2> HIDE DEF t
  <2>3. /\ moved \in Seq(TaskRuntime) /\ Len(moved) = L
        /\ \A i \in 1..L : moved[i] = IF i = n THEN t ELSE e.stack[i]
    BY <1>1, <1>3, <2>2, ExceptSeq
  <2> HIDE DEF moved
  <2>4. f \in EngineType /\ f.stack = moved /\ f.open = e.open /\ f.filed = e.filed /\ f.hunt = e.hunt
    BY <1>1, <2>3 DEF EngineType
  <2> HIDE DEF f, L
  <2>5. Within(f) /\ Gate(f, {}) /\ Once(f) /\ Alone(f)
    <3>1. Within(f)
      BY <1>3, <2>2, <2>3, <2>4 DEF Within, Sound, L
    <3>2. Gate(f, {})
      BY <1>3, <2>2, <2>3, <2>4 DEF Gate, GroupOpen, Group, Sound, L
    <3>3. Once(f)
      BY <1>3, <2>2, <2>3, <2>4 DEF Once, Sound, L
    <3>4. Alone(f)
      BY <2>4 DEF Alone, Sound
    <3> QED BY <3>1, <3>2, <3>3, <3>4
  <2>6. \A d : Handed(d, e) => Handed(d, f)
    <3>1. e.stack # <<>> /\ f.stack # <<>> /\ 1 \in 1..L
      BY <1>1, <1>3, <2>3, <2>4, EmptySeq DEF L
    <3>2. f.stack[1].hunt_before = e.stack[1].hunt_before /\ f.stack[1].def_id = e.stack[1].def_id
      BY <2>2, <2>3, <2>4, <3>1
    <3> QED BY <3>1, <3>2 DEF Handed
  <2> QED BY <2>1, <2>4, <2>5, <2>6 DEF Sound
<1> QED BY <1>2, <1>3

LEMMA PopSound ==
    ASSUME NEW e, Sound(e)
    PROVE  Sound(PopTop(e)) /\ Handed(e, PopTop(e))
<1> DEFINE L == Len(e.stack)
           s == SubSeq(e.stack, 1, L - 1)
           f == PopTop(e)
<1>1. e \in EngineType /\ e.stack \in Seq(TaskRuntime) /\ L \in Nat
  BY DEF Sound, EngineType
<1>2. CASE e.stack = <<>>
  BY <1>1, <1>2, SameStackSound DEF PopTop
<1>3. CASE e.stack # <<>>
  <2>1. L \in Nat \ {0} /\ 1 \in 1..L /\ Top(e) = e.stack[L] /\ Top(e) \in TaskRuntime
    BY <1>1, <1>3, FirstRuntime DEF Top
  <2>2. s \in Seq(TaskRuntime) /\ Len(s) = L - 1 /\ \A i \in 1..L - 1 : s[i] = e.stack[i]
    <3>1. \A i \in 1..L - 1 : e.stack[i] \in TaskRuntime
      BY <1>1, <2>1, ElementOfSeq
    <3>2. L - 1 \in Int /\ 1 \in Int
      BY <2>1
    <3>3. /\ s \in Seq(TaskRuntime) /\ Len(s) = IF 1 <= L - 1 THEN L - 1 - 1 + 1 ELSE 0
          /\ \A i \in 1..L - 1 - 1 + 1 : s[i] = e.stack[1 + i - 1]
      BY <3>1, <3>2, SubSeqProperties
    <3> HIDE DEF s
    <3> QED BY <2>1, <3>3
  <2>3. f = [e EXCEPT !.stack = s, !.hunt = IF L = 1 THEN Top(e).hunt_before ELSE @]
    BY <1>3 DEF PopTop
  <2> HIDE DEF f, s, L
  <2>4. /\ f \in EngineType /\ f.stack = s /\ f.open = e.open /\ f.filed = e.filed
        /\ L = 1 => f.hunt = e.stack[1].hunt_before
    BY <1>1, <2>1, <2>2, <2>3 DEF EngineType, TaskRuntime
  <2>5. Within(f) /\ Gate(f, {}) /\ Once(f) /\ Alone(f)
    <3>1. \A i \in 1..Len(f.stack) : i \in 1..L /\ f.stack[i] = e.stack[i]
      BY <2>1, <2>2, <2>4
    <3>2. Within(f)
      BY <3>1 DEF Within, Sound, L
    <3>3. Gate(f, {})
      BY <2>4, <3>1 DEF Gate, GroupOpen, Sound, L
    <3>4. Once(f)
      BY <3>1 DEF Once, Sound, L
    <3>5. Alone(f)
      BY <2>4 DEF Alone, Sound
    <3> QED BY <3>2, <3>3, <3>4, <3>5
  <2>6. Handed(e, f)
    <3>1. f.stack = <<>> => L = 1
      BY <2>1, <2>2, <2>4, EmptySeq
    <3>2. f.stack # <<>> => f.stack[1] = e.stack[1]
      BY <2>1, <2>2, <2>4, FirstRuntime
    <3> QED BY <1>3, <2>4, <3>1, <3>2 DEF Handed
  <2> QED BY <2>4, <2>5, <2>6 DEF Sound, f
<1> QED BY <1>2, <1>3

LEMMA RestartSound ==
    ASSUME NEW e, Sound(e), e.stack # <<>>
    PROVE  LET f == [e EXCEPT !.stack[Len(e.stack)].step_idx = 0]
           IN  Sound(f) /\ Handed(e, f)
<1> DEFINE L == Len(e.stack)
           t == [e.stack[L] EXCEPT !.step_idx = 0]
           moved == [e.stack EXCEPT ![L] = t]
           f == [e EXCEPT !.stack = moved]
<1>1. e \in EngineType /\ e.stack \in Seq(TaskRuntime) /\ L \in Nat \ {0} /\ L \in 1..L /\ 1 \in 1..L
  BY FirstRuntime DEF Sound, EngineType
<1>2. f = [e EXCEPT !.stack[Len(e.stack)].step_idx = 0]
  BY <1>1 DEF EngineType
<1>3. /\ t \in TaskRuntime /\ t.step_idx <= t.steps
      /\ t.def_id = e.stack[L].def_id /\ t.by = e.stack[L].by /\ t.hunt_before = e.stack[L].hunt_before
  <2>1. e.stack[L] \in TaskRuntime
    BY <1>1, ElementOfSeq
  <2> QED BY <2>1, TaskAssumption DEF TaskRuntime
<1> HIDE DEF t
<1>4. /\ moved \in Seq(TaskRuntime) /\ Len(moved) = L
      /\ \A i \in 1..L : moved[i] = IF i = L THEN t ELSE e.stack[i]
  BY <1>1, <1>3, ExceptSeq
<1> HIDE DEF moved
<1>5. f \in EngineType /\ f.stack = moved /\ f.open = e.open /\ f.filed = e.filed
  BY <1>1, <1>4 DEF EngineType
<1> HIDE DEF f, L
<1>6. Within(f) /\ Gate(f, {}) /\ Once(f) /\ Alone(f)
  <2>1. Within(f)
    BY <1>1, <1>3, <1>4, <1>5 DEF Within, Sound, L
  <2>2. Gate(f, {})
    BY <1>1, <1>3, <1>4, <1>5 DEF Gate, GroupOpen, Group, Sound, L
  <2>3. Once(f)
    BY <1>1, <1>3, <1>4, <1>5 DEF Once, Sound, L
  <2>4. Alone(f)
    BY <1>5 DEF Alone, Sound
  <2> QED BY <2>1, <2>2, <2>3, <2>4
<1>7. Handed(e, f)
  <2>1. f.stack # <<>>
    BY <1>1, <1>4, <1>5, EmptySeq
  <2>2. f.stack[1].hunt_before = e.stack[1].hunt_before
    BY <1>1, <1>3, <1>4, <1>5
  <2> QED BY <2>1, <2>2 DEF Handed
<1> QED BY <1>2, <1>5, <1>6, <1>7 DEF Sound

-----------------------------------------------------------------------------
(* The inductive invariant: the engine is sound, and hunt was what the      *)
(* bottom runtime remembers, unless an earlier bottom left before it.       *)
BottomKnown == eng.stack # <<>> /\ ~seen.orphaned => eng.stack[1].hunt_before = seen.before
TaskInv ==
    /\ Sound(eng) /\ BottomKnown
    /\ firing \subseteq Rules /\ tick \in {"no", "rules", "hunt", "quit"} /\ seen \in Seen

(* What HuntHandedBack asks of a step.                                      *)
Handover ==
    eng.stack # <<>> /\ eng'.stack = <<>> /\ ~seen'.touched /\ ~seen.orphaned
        => eng'.hunt = seen.before

LEMMA BecomesKeeps ==
    ASSUME TaskInv, NEW e, NEW sets \in BOOLEAN, Becomes(e, sets), Sound(e),
           Handed(eng, e) \/ (sets /\ e.stack = <<>>)
    PROVE  Sound(eng)' /\ BottomKnown' /\ (seen \in Seen)' /\ Handover
<1>1. /\ eng'.stack = e.stack /\ eng'.hunt = e.hunt /\ eng'.open = e.open
      /\ eng'.filed = (e.filed /\ Crowded(e.open)) /\ eng' \in EngineType
  <2>1. eng' = [e EXCEPT !.filed = @ /\ Crowded(e.open)] /\ e \in EngineType
    BY DEF Becomes, Sound
  <2>2. (e.filed /\ Crowded(e.open)) \in BOOLEAN
    BY <2>1, Zenon DEF EngineType, Crowded
  <2> QED BY <2>1, <2>2 DEF EngineType
<1>2. /\ seen'.before = IF eng.stack = <<>> THEN eng.hunt ELSE seen.before
      /\ seen'.touched = (eng.stack # <<>> /\ (seen.touched \/ sets))
      /\ seen'.orphaned = (eng.stack # <<>> /\
            (seen.orphaned \/ (e.stack # <<>> /\ e.stack[1].def_id # eng.stack[1].def_id)))
  BY DEF Becomes
<1>3. (seen \in Seen)'
  BY DEF Becomes, TaskInv, Seen, Sound, EngineType
<1>4. Sound(eng)'
  BY <1>1 DEF Sound, EngineType, Within, Gate, GroupOpen, Alone, Once, Crowded
<1>5. BottomKnown'
  <2>1. CASE e.stack = <<>>
    BY <1>1, <2>1 DEF BottomKnown
  <2>2. CASE e.stack # <<>> /\ eng.stack = <<>>
    BY <1>1, <1>2, <2>2 DEF BottomKnown, Handed
  <2>3. CASE e.stack # <<>> /\ eng.stack # <<>>
    BY <1>1, <1>2, <2>3 DEF BottomKnown, Handed, TaskInv
  <2> QED BY <2>1, <2>2, <2>3
<1>6. Handover
  BY <1>1, <1>2 DEF Handover, Handed, TaskInv, BottomKnown
<1> QED BY <1>3, <1>4, <1>5, <1>6

LEMMA InitInv == Init => TaskInv
<1> SUFFICES ASSUME Init PROVE TaskInv
  OBVIOUS
<1>1. PICK h \in BOOLEAN, f \in Configs :
        eng = [stack |-> <<>>, hunt |-> h, open |-> f.open, on |-> f.on, inGame |-> FALSE,
               filed |-> Crowded(f.open)]
  BY DEF Init
<1>2. <<>> \in Seq(TaskRuntime) /\ Len(<<>>) = 0
  BY EmptySeq
<1>3. eng \in EngineType /\ eng.stack = <<>> /\ eng.open = f.open /\ eng.filed = Crowded(f.open)
  BY <1>1, <1>2 DEF EngineType, Configs, Crowded
<1>4. Within(eng) /\ Gate(eng, {}) /\ Once(eng)
  BY <1>2, <1>3 DEF Within, Gate, Once
<1>5. Alone(eng)
  BY <1>3 DEF Alone
<1> QED BY <1>3, <1>4, <1>5 DEF Init, TaskInv, Sound, BottomKnown, Seen

LEMMA Step == TaskInv /\ [Next]_vars => TaskInv' /\ (Handover \/ UNCHANGED vars)
<1> SUFFICES ASSUME TaskInv, [Next]_vars PROVE TaskInv' /\ (Handover \/ UNCHANGED vars)
  OBVIOUS
<1> DEFINE Typed == (firing \subseteq Rules)' /\ (tick \in {"no", "rules", "hunt", "quit"})'
<1>a. Sound(eng) /\ eng \in EngineType /\ eng.stack \in Seq(TaskRuntime)
  BY DEF TaskInv, Sound, EngineType
<1>b. ASSUME UNCHANGED <<eng, seen>>, Typed
      PROVE  TaskInv' /\ Handover
  <2>1. Sound(eng)' /\ BottomKnown' /\ (seen \in Seen)'
    BY <1>b DEF TaskInv, Sound, EngineType, Within, Gate, GroupOpen, Alone, Once, BottomKnown
  <2>2. Handover
    BY <1>b DEF Handover
  <2> QED BY <1>b, <2>1, <2>2 DEF TaskInv
<1>c. ASSUME NEW e, NEW sets \in BOOLEAN, Becomes(e, sets), Sound(e),
             Handed(eng, e) \/ (sets /\ e.stack = <<>>), Typed
      PROVE  TaskInv' /\ Handover
  BY <1>c, BecomesKeeps DEF TaskInv
<1>d. Handed(eng, eng)
  BY <1>a, SameStackSound
<1>e. \A c \in Command : SetsHunt(c) \in BOOLEAN
  BY DEF SetsHunt
<1>1. ASSUME NEW c \in Command, UserCommand(c) PROVE TaskInv' /\ Handover
  <2>1. Sound(Result(eng, c)) /\ Handed(eng, Result(eng, c))
    BY <1>a, ResultSound
  <2> QED BY <1>1, <1>c, <1>e, <2>1 DEF UserCommand, TaskInv
<1>2. ASSUME NEW c \in Command, NEW r \in Rules, RuleRuns(r, c) PROVE TaskInv' /\ Handover
  <2>1. Sound(Result(eng, c)) /\ Handed(eng, Result(eng, c))
    BY <1>a, ResultSound
  <2> QED BY <1>2, <1>c, <1>e, <2>1 DEF RuleRuns, TaskInv
<1>3. CASE Arrive
  <2> DEFINE e == [eng EXCEPT !.inGame = TRUE]
  <2>1. e \in EngineType /\ e.stack = eng.stack /\ e.open = eng.open /\ e.filed = eng.filed
    BY <1>a DEF EngineType
  <2>2. Sound(e) /\ Handed(eng, e)
    BY <1>a, <2>1, SameStackSound
  <2>3. Becomes(e, FALSE) /\ Typed
    BY <1>3 DEF Arrive, TaskInv
  <2> HIDE DEF e
  <2> QED BY <1>c, <2>2, <2>3
<1>4. CASE Drop
  <2> DEFINE e == [eng EXCEPT !.stack = <<>>, !.inGame = FALSE]
  <2>1. e \in EngineType /\ e.stack = <<>> /\ e.open = eng.open /\ e.filed = eng.filed
    BY <1>a, EmptySeq DEF EngineType
  <2>2. Len(e.stack) = 0
    BY <2>1, EmptySeq
  <2>3. Sound(e)
    BY <1>a, <2>1, <2>2 DEF Sound, Within, Gate, Alone, Once
  <2>4. Becomes(e, TRUE) /\ Typed
    BY <1>4 DEF Drop, TaskInv
  <2> HIDE DEF e
  <2> QED BY <1>c, <2>1, <2>3, <2>4
<1>5. CASE BeginTick
  BY <1>5, <1>b DEF BeginTick, TaskInv, Effective
<1>6. ASSUME NEW r \in Rules, RuleEnds(r) \/ RuleQuits(r) PROVE TaskInv' /\ Handover
  BY <1>6, <1>b DEF RuleEnds, RuleQuits, TaskInv
<1>7. ASSUME NEW r \in Rules, RuleWaits(r) PROVE TaskInv' /\ Handover
  <2>0. Typed
    BY <1>7 DEF RuleWaits, TaskInv
  <2>1. CASE OnStack(eng, r)
    BY <1>7, <1>b, <2>0, <2>1 DEF RuleWaits
  <2>2. CASE ~OnStack(eng, r)
    <3>1. PICK n \in 1..MaxSteps : Becomes(Push(eng, Runtime(eng, r, n, FALSE, "wait")), FALSE)
      BY <1>7, <2>2 DEF RuleWaits
    <3>2. n \in 0..MaxSteps
      BY TaskAssumption
    <3>3. LET f == Push(eng, Runtime(eng, r, n, FALSE, "wait")) IN Sound(f) /\ Handed(eng, f)
      BY <1>a, <2>2, <3>2, PushSound
    <3> QED BY <1>c, <2>0, <3>1, <3>3
  <2> QED BY <2>1, <2>2
<1>8. ASSUME NEW r \in Rules, NEW t \in Tasks, RuleStarts(r, t) PROVE TaskInv' /\ Handover
  <2>1. PICK n \in 0..MaxSteps : Becomes(Push(eng, Runtime(eng, t, n, FALSE, "rule")), FALSE)
    BY <1>8 DEF RuleStarts
  <2>2. LET f == Push(eng, Runtime(eng, t, n, FALSE, "rule")) IN Sound(f) /\ Handed(eng, f)
    BY <1>a, PushSound
  <2>3. Typed
    BY <1>8 DEF RuleStarts, TaskInv
  <2> QED BY <1>c, <2>1, <2>2, <2>3
<1>f. ASSUME Pops PROVE TaskInv' /\ Handover
  <2>1. Becomes(PopTop(eng), FALSE) /\ Typed
    BY <1>f DEF Pops, Released, TickTasks, TaskInv
  <2> QED BY <1>a, <1>c, <2>1, PopSound
<1>9. CASE Idle
  <2>1. Becomes(eng, FALSE) /\ Typed
    BY <1>9 DEF Idle, Released, TickTasks, TaskInv
  <2> QED BY <1>a, <1>c, <1>d, <2>1
<1>10. CASE HuntUntil
  <2>1. PICK on \in BOOLEAN : Becomes([eng EXCEPT !.hunt = @ /\ on], FALSE)
    BY <1>10 DEF HuntUntil
  <2> DEFINE e == [eng EXCEPT !.hunt = @ /\ on]
  <2>2. e \in EngineType /\ e.stack = eng.stack /\ e.open = eng.open /\ e.filed = eng.filed
    BY <1>a DEF EngineType
  <2>3. Sound(e) /\ Handed(eng, e)
    BY <1>a, <2>2, SameStackSound
  <2>4. Typed
    BY <1>10 DEF HuntUntil, TaskInv
  <2> HIDE DEF e
  <2> QED BY <1>c, <2>1, <2>3, <2>4 DEF e
<1>11. CASE TaskEnds
  <2>1. eng.stack # <<>>
    BY <1>11 DEF TaskEnds, Driven
  <2>2. CASE ~Top(eng).recurring
    BY <1>11, <1>f, <2>2 DEF TaskEnds
  <2>3. CASE Top(eng).recurring
    <3> DEFINE e == [eng EXCEPT !.stack[Len(eng.stack)].step_idx = 0]
    <3>1. Becomes(e, FALSE) /\ Typed
      BY <1>11, <2>3 DEF TaskEnds, TickTasks, TaskInv
    <3>2. Sound(e) /\ Handed(eng, e)
      BY <1>a, <2>1, RestartSound
    <3> HIDE DEF e
    <3> QED BY <1>c, <3>1, <3>2
  <2> QED BY <2>2, <2>3
<1>12. CASE StepHolds
  <2>1. Becomes(eng, FALSE) /\ Typed
    BY <1>12 DEF StepHolds, TickTasks, TaskInv
  <2> QED BY <1>a, <1>c, <1>d, <2>1
<1>g. ASSUME InStep
      PROVE  /\ Len(eng.stack) \in 1..Len(eng.stack)
             /\ eng.stack[Len(eng.stack)].step_idx < eng.stack[Len(eng.stack)].steps
  <2>1. eng.stack # <<>> /\ ~Finished(eng.stack[Len(eng.stack)])
    BY <1>g DEF InStep, Driven, Top
  <2>2. Len(eng.stack) \in 1..Len(eng.stack) /\ eng.stack[Len(eng.stack)] \in TaskRuntime
    BY <1>a, <2>1, FirstRuntime
  <2> QED BY <2>1, <2>2, TaskAssumption DEF Finished, TaskRuntime
<1>13. CASE StepPasses
  <2> DEFINE e == Advance(eng, Len(eng.stack), Top(eng).def_id)
  <2>1. Becomes(e, FALSE) /\ Typed /\ InStep
    BY <1>13 DEF StepPasses, TickTasks, TaskInv
  <2>2. Len(eng.stack) \in Nat
    BY <1>a
  <2>3. Sound(e) /\ Handed(eng, e)
    BY <1>a, <1>d, <1>g, <2>1, <2>2, AdvanceSound
  <2> HIDE DEF e
  <2> QED BY <1>c, <2>1, <2>3
<1>14. ASSUME NEW c \in Command, StepRuns(c) PROVE TaskInv' /\ Handover
  <2> DEFINE e == Result(eng, c)
             n == Len(eng.stack)
             f == Advance(e, n, Top(eng).def_id)
  <2>1. Sound(e) /\ Handed(eng, e) /\ TopStays(eng, e)
    BY <1>a, ResultSound
  <2>2. InStep
    BY <1>14 DEF StepRuns
  <2>3. n \in Nat /\ (n \in 1..Len(e.stack) => e.stack[n].step_idx < e.stack[n].steps)
    BY <1>a, <1>g, <2>1, <2>2 DEF TopStays
  <2>4. Sound(f) /\ Handed(eng, f)
    <3> HIDE DEF e, n
    <3> QED BY <2>1, <2>3, AdvanceSound
  <2>5. CASE Fails(eng, c)
    BY <1>14, <1>f, <2>5 DEF StepRuns
  <2>6. CASE ~Fails(eng, c)
    <3>1. (Becomes(e, SetsHunt(c)) \/ Becomes(f, SetsHunt(c))) /\ Typed
      BY <1>14, <2>6 DEF StepRuns, TickTasks, TaskInv
    <3> HIDE DEF e, f
    <3> QED BY <1>c, <1>e, <2>1, <2>4, <3>1
  <2> QED BY <2>5, <2>6
<1>15. CASE UNCHANGED vars
  BY <1>15, <1>b DEF vars, TaskInv
<1> HIDE DEF Typed
<1> QED BY <1>1, <1>2, <1>3, <1>4, <1>5, <1>6, <1>7, <1>8, <1>9, <1>10, <1>11, <1>12, <1>13, <1>14, <1>15
        DEF Next

(* The stack, the switches and the cursors of its tasks keep their types: a *)
(* command, a rule or a group never leaves a task past its end.             *)
THEOREM TaskTypes == Spec => []TypeOK
<1>1. TaskInv => TypeOK
  BY DEF TaskInv, TypeOK, Sound, EngineType, Within
<1>2. Spec => []TaskInv
  BY InitInv, Step, PTL DEF Spec
<1> QED BY <1>1, <1>2, PTL

(* A started task's group is open, two exclusive groups are open together   *)
(* only where a file switched both on and neither was closed since, and     *)
(* nothing is queued twice, whatever commands, rules, groups and reloads do *)
(* to the stack.                                                            *)
THEOREM TaskOrder == Spec => []StackInOrder
<1>1. TaskInv => StackInOrder
  BY DEF TaskInv, Sound, Gate, Alone, Once, StackInOrder, StartedInOpenGroup, OneExclusive, QueuedOnce
<1>2. Spec => []TaskInv
  BY InitInv, Step, PTL DEF Spec
<1> QED BY <1>1, <1>2, PTL

(* However the last task leaves, hunt is what it was before the first came. *)
THEOREM TaskHunt == Spec => HuntHandedBack
<1>1. TaskInv /\ [Next]_vars =>
        [eng.stack # <<>> /\ eng'.stack = <<>> /\ ~seen'.touched /\ ~seen.orphaned
           => eng'.hunt = seen.before]_vars
  BY Step DEF Handover
<1>2. Spec => []TaskInv
  BY InitInv, Step, PTL DEF Spec
<1> QED BY <1>1, <1>2, PTL DEF Spec, HuntHandedBack
=============================================================================
