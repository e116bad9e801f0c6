--------------------------- MODULE TaskQueueProofs --------------------------
(***************************************************************************)
(* The list of taskQueue.c for every number of chunks, every bound and     *)
(* every sequence of calls: it agrees with its counters and implements the *)
(* two-class FIFO until it is damaged.  Nothing is proved of the list      *)
(* after that.                                                             *)
(*                                                                         *)
(* The induction theorems of the library take a predicate as a parameter;  *)
(* here induction is over sets of numbers (SetInduction), which the        *)
(* provers can instantiate.                                                *)
(***************************************************************************)
EXTENDS TaskQueueRefinement, FiniteSetTheorems, SequenceTheorems, NaturalsInduction,
        WellFoundedInduction, TLAPS

-----------------------------------------------------------------------------
(* Numbers, and the chain of nodes from head.                              *)

(* A non-empty set of numbers has a least member,                          *)
LEMMA LeastNat ==
    ASSUME NEW S \in SUBSET Nat, S # {}
    PROVE  \E n \in S : \A m \in S : n <= m
<1>1. PICK n \in S : \A m \in S : <<m, n>> \notin OpToRel(<, Nat)
      BY NatLessThanWellFounded, WFMin
<1>2. \A m \in S : ~(m < n)
      BY <1>1 DEF OpToRel
<1> QED  BY <1>2

(* so a set that has 0 and every successor has all numbers;                *)
LEMMA SetInduction ==
    ASSUME NEW S, 0 \in S, \A n \in Nat : n \in S => n + 1 \in S
    PROVE  \A n \in Nat : n \in S
<1> SUFFICES ASSUME Nat \ S # {} PROVE FALSE
    OBVIOUS
<1>1. PICK n \in Nat \ S : \A m \in Nat \ S : n <= m
      BY LeastNat
<1>2. n # 0 /\ n - 1 \in Nat
      BY <1>1
<1>3. n - 1 \in S
      BY <1>1, <1>2
<1>4. (n - 1) + 1 = n
      BY <1>1
<1> QED  BY <1>1, <1>2, <1>3, <1>4

(* and one that is bounded has a greatest member.                          *)
LEMMA GreatestNat ==
    ASSUME NEW S \in SUBSET Nat, S # {}, NEW b \in Nat, \A n \in S : n <= b
    PROVE  \E n \in S : \A m \in S : n >= m
<1> DEFINE T == {b - n : n \in S}
<1>0. \A n \in S : b - n \in Nat
      OBVIOUS
<1>1. T \in SUBSET Nat /\ T # {}
      BY <1>0
<1>2. PICK t \in T : \A u \in T : t <= u
      BY <1>1, LeastNat
<1>3. PICK n \in S : t = b - n
      BY <1>2
<1>4. \A m \in S : b - n <= b - m
      BY <1>2, <1>3
<1> QED  BY <1>4

(* The recursive definition of the chain has a solution: there is one up   *)
(* to every position, any two agree where both are defined, and together   *)
(* they are one.                                                           *)
LEMMA ChainExists ==
    \E f : f = [k \in Nat |-> IF k = 0 THEN head
                              ELSE IF f[k - 1] \in Addr THEN heap[f[k - 1]].next ELSE Null]
<1> DEFINE h == head
           Step(x) == IF x \in Addr THEN heap[x].next ELSE Null
           V == {h, Null} \cup {heap[a].next : a \in Addr}
           Part(g, n) == g \in [0..n -> V] /\ g[0] = h /\ \A k \in 1..n : g[k] = Step(g[k - 1])
<1>1. \A n \in Nat : \E g : Part(g, n)
  <2> DEFINE S == {n \in Nat : \E g : Part(g, n)}
  <2>1. 0 \in S
    <3>1. Part([k \in 0..0 |-> h], 0)
          OBVIOUS
    <3> QED  BY <3>1
  <2>2. ASSUME NEW n \in Nat, n \in S
        PROVE  n + 1 \in S
    <3>1. PICK g : Part(g, n)
          BY <2>2
    <3> DEFINE e == [k \in 0..(n + 1) |-> IF k = n + 1 THEN Step(g[n]) ELSE g[k]]
    <3>2. Step(g[n]) \in V
          OBVIOUS
    <3>3. Part(e, n + 1)
          BY <3>1, <3>2
    <3> HIDE DEF e, Part
    <3>4. \E x : Part(x, n + 1)
          BY <3>3
    <3> QED  BY <3>4
  <2> HIDE DEF S
  <2>3. \A n \in Nat : n \in S
        BY <2>1, <2>2, SetInduction
  <2> QED  BY <2>3 DEF S
<1>2. ASSUME NEW n \in Nat, NEW m \in Nat, n <= m, NEW g, NEW e, Part(g, n), Part(e, m)
      PROVE  \A k \in 0..n : g[k] = e[k]
  <2> DEFINE S == {k \in Nat : k <= n => g[k] = e[k]}
  <2>1. 0 \in S
        BY <1>2
  <2>2. ASSUME NEW k \in Nat, k \in S
        PROVE  k + 1 \in S
    <3> SUFFICES ASSUME k + 1 <= n PROVE g[k + 1] = e[k + 1]
        OBVIOUS
    <3>1. g[k] = e[k] /\ (k + 1) - 1 = k /\ k + 1 \in 1..n /\ k + 1 \in 1..m
          BY <1>2, <2>2
    <3>2. g[k + 1] = Step(g[k]) /\ e[k + 1] = Step(e[k])
          BY <1>2, <3>1
    <3> QED  BY <3>1, <3>2
  <2> HIDE DEF S
  <2>3. \A k \in Nat : k \in S
        BY <2>1, <2>2, SetInduction
  <2> QED  BY <2>3 DEF S
<1> DEFINE G(n) == CHOOSE g : Part(g, n)
           F == [n \in Nat |-> G(n)[n]]
<1>3. \A n \in Nat : Part(G(n), n)
      BY <1>1
<1> HIDE DEF G
<1>4. ASSUME NEW k \in Nat
      PROVE  F[k] = IF k = 0 THEN h ELSE Step(F[k - 1])
  <2>1. CASE k = 0
        BY <1>3, <2>1
  <2>2. CASE k # 0
    <3>1. k - 1 \in Nat /\ k \in 1..k /\ k - 1 \in 0..(k - 1)
          BY <2>2
    <3>2. G(k)[k] = Step(G(k)[k - 1])
          BY <1>3, <3>1
    <3>3. G(k - 1)[k - 1] = G(k)[k - 1]
      <4> HIDE DEF Part
      <4>1. Part(G(k - 1), k - 1) /\ Part(G(k), k) /\ k - 1 <= k
            BY <1>3, <3>1
      <4>2. \A i \in 0..(k - 1) : G(k - 1)[i] = G(k)[i]
            BY <1>2, <3>1, <4>1
      <4> QED  BY <3>1, <4>2
    <3> QED  BY <2>2, <3>1, <3>2, <3>3
  <2> QED  BY <2>1, <2>2
<1>5. F = [k \in Nat |-> IF k = 0 THEN h ELSE Step(F[k - 1])]
      BY <1>4
<1> QED  BY <1>5, Zenon

(* Each node of the chain is what the one before it designates.            *)
LEMMA NodeAtStep ==
    /\ NodeAt[0] = head
    /\ \A k \in Nat : NodeAt[k + 1] = IF NodeAt[k] \in Addr THEN heap[NodeAt[k]].next ELSE Null
<1> DEFINE D(f) == [k \in Nat |-> IF k = 0 THEN head
                                  ELSE IF f[k - 1] \in Addr THEN heap[f[k - 1]].next ELSE Null]
<1>1. \E f : f = D(f)
      BY ChainExists
<1>2. NodeAt = D(NodeAt)
      BY <1>1, Zenon DEF NodeAt
<1>3. \A k \in Nat : NodeAt[k] = D(NodeAt)[k]
      BY <1>2, Zenon
<1>4. ASSUME NEW k \in Nat
      PROVE  NodeAt[k + 1] = IF NodeAt[k] \in Addr THEN heap[NodeAt[k]].next ELSE Null
  <2>1. k + 1 \in Nat /\ k + 1 # 0 /\ (k + 1) - 1 = k
        OBVIOUS
  <2>2. NodeAt[k + 1] = D(NodeAt)[k + 1]
        BY <1>3, <2>1
  <2> QED  BY <2>1, <2>2
<1> QED  BY <1>3, <1>4

(* Nothing follows the end of the chain.                                   *)
LEMMA ChainStaysAtEnd ==
    ASSUME NEW m \in Nat, NodeAt[m] \notin Addr
    PROVE  \A k \in Nat : k > m => NodeAt[k] = Null
<1> DEFINE S == {n \in Nat : NodeAt[m + n + 1] = Null}
<1>1. 0 \in S
  <2>1. NodeAt[m + 1] = Null
        BY NodeAtStep
  <2> QED  BY <2>1
<1>2. ASSUME NEW n \in Nat, n \in S
      PROVE  n + 1 \in S
  <2>1. m + n + 1 \in Nat /\ (m + n + 1) + 1 = m + (n + 1) + 1
        OBVIOUS
  <2>2. NodeAt[(m + n + 1) + 1] = Null
        BY <1>2, <2>1, NodeAtStep, QueueAssumption
  <2> QED  BY <2>1, <2>2
<1> HIDE DEF S
<1>3. \A n \in Nat : n \in S
      BY <1>1, <1>2, SetInduction
<1>4. ASSUME NEW k \in Nat, k > m
      PROVE  NodeAt[k] = Null
  <2>1. k - m - 1 \in Nat /\ m + (k - m - 1) + 1 = k
        BY <1>4
  <2> QED  BY <1>3, <2>1 DEF S
<1> QED  BY <1>4

(* There are finitely many chunks. *)
LEMMA ChunksAreCounted == Cardinality(Addr) \in Nat /\ (Addr # {} => Cardinality(Addr) > 0)
BY QueueAssumption, FS_CardinalityType, FS_EmptySet

(* Places in the chain are numbers below the number of chunks. *)
LEMMA PositionsAreNumbers ==
    /\ Positions \in SUBSET Nat
    /\ \A k \in Positions : k <= Cardinality(Addr)
BY ChunksAreCounted DEF Positions

-----------------------------------------------------------------------------
(* Types, and what dequeue's search returns.                               *)

QueueTypes ==
    /\ head \in Addr \cup {Null} /\ tail \in Addr \cup {Null, Temp}
    /\ queue_size \in 0..MaxSize /\ short_command_size \in Int
    /\ heap \in [Addr -> Node]
    /\ live \in SUBSET Addr
    /\ intact \in BOOLEAN

Wanted(short) == IF short THEN "short" ELSE "long"

(* MinOf and MaxOf find what LeastNat and GreatestNat promise: *)
LEMMA MinOfIsLeast ==
    ASSUME NEW S \in SUBSET Nat, S # {}
    PROVE  MinOf(S) \in S /\ \A k \in S : MinOf(S) <= k
<1>1. \E k \in S : \A j \in S : k <= j
      BY LeastNat
<1> QED  BY <1>1 DEF MinOf

(* the greatest place of a bounded set. *)
LEMMA MaxOfIsGreatest ==
    ASSUME NEW S \in SUBSET Nat, S # {}, NEW b \in Nat, \A k \in S : k <= b
    PROVE  MaxOf(S) \in S /\ \A k \in S : MaxOf(S) >= k
<1>1. \E k \in S : \A j \in S : k >= j
      BY GreatestNat
<1> QED  BY <1>1 DEF MaxOf

(* The search of dequeue: the first node of the wanted class, or the first *)
(* of all, and the node before it.                                         *)
LEMMA SearchFinds ==
    ASSUME QueueTypes, NEW short \in BOOLEAN, ~NothingToDequeue(short)
    PROVE  LET p == TakenPosition(short)  cur == Taken(short)
           IN  /\ p \in Positions /\ cur = NodeAt[p] /\ cur \in Addr
               /\ Prev(short) \in Addr \cup {Temp}
               /\ Matches(short) = {} => ~short /\ p = 0 /\ cur = head
               /\ Matches(short) # {} =>
                      /\ heap[cur].cmd = Wanted(short)
                      /\ \A k \in Positions : k < p => heap[NodeAt[k]].cmd # Wanted(short)
                      /\ p = 0 => Prev(short) = Temp /\ cur = head
                      /\ p # 0 => /\ Prev(short) = NodeAt[p - 1] /\ Prev(short) \in Addr
                                  /\ heap[Prev(short)].next = cur
<1> DEFINE p == TakenPosition(short)  cur == Taken(short)
<1>1. head \in Addr /\ NodeAt[0] = head
      BY NodeAtStep DEF NothingToDequeue, QueueTypes
<1>2. 0 \in Positions
      BY <1>1, ChunksAreCounted DEF Positions
<1>3. MaxOf(Positions) \in Positions
      BY <1>2, PositionsAreNumbers, ChunksAreCounted, MaxOfIsGreatest
<1>4. \A k \in Positions : k \in Nat /\ NodeAt[k] \in Addr
      BY PositionsAreNumbers DEF Positions
<1>5. CASE Matches(short) = {}
  <2>1. ~short /\ p = 0 /\ cur = head /\ Prev(short) = NodeAt[MaxOf(Positions)]
        BY <1>1, <1>5 DEF NothingToDequeue, TakenPosition, Taken, Prev
  <2> QED  BY <1>1, <1>2, <1>3, <1>4, <1>5, <2>1
<1>6. CASE Matches(short) # {}
  <2>1. Matches(short) \in SUBSET Nat /\ Matches(short) \subseteq Positions
        BY <1>4 DEF Matches
  <2>2. p = MinOf(Matches(short)) /\ p \in Matches(short) /\ \A k \in Matches(short) : p <= k
        BY <1>6, <2>1, MinOfIsLeast DEF TakenPosition
  <2>3. p \in Positions /\ p \in Nat /\ cur = NodeAt[p] /\ cur \in Addr
        BY <1>4, <2>1, <2>2 DEF Taken
  <2>4. heap[cur].cmd = Wanted(short)
        BY <2>2, <2>3 DEF Matches, Wanted
  <2>5. ASSUME NEW k \in Positions, k < p
        PROVE  heap[NodeAt[k]].cmd # Wanted(short)
    <3>1. k \notin Matches(short)
      <4>1. k \in Nat /\ ~(p <= k)
            BY <1>4, <2>3, <2>5
      <4> QED  BY <2>2, <4>1
    <3> QED  BY <3>1 DEF Matches, Wanted
  <2>6. CASE p = 0
        BY <1>1, <1>6, <2>3, <2>4, <2>5, <2>6 DEF Prev
  <2>7. CASE p # 0
    <3>1. p - 1 \in Nat /\ (p - 1) + 1 = p
          BY <2>3, <2>7
    <3>2. NodeAt[p - 1] \in Addr /\ heap[NodeAt[p - 1]].next = cur
          BY <2>3, <3>1, NodeAtStep, QueueAssumption
    <3>3. Prev(short) = NodeAt[p - 1]
          BY <1>6, <2>7 DEF Prev
    <3> QED  BY <1>6, <2>3, <2>4, <2>5, <2>7, <3>2, <3>3
  <2> QED  BY <2>6, <2>7
<1> QED  BY <1>5, <1>6

-----------------------------------------------------------------------------
(* The undamaged list.                                                     *)

(* The allocated nodes in list order are s.                                *)
IsList(s) ==
    /\ queue_size > 0
    /\ s \in [1..queue_size -> Addr]
    /\ \A i, j \in 1..queue_size : s[i] = s[j] => i = j
    /\ live = {s[i] : i \in 1..queue_size}
    /\ head = s[1] /\ tail = s[queue_size]
    /\ \A i \in 1..queue_size :
          heap[s[i]].next = IF i = queue_size THEN Null ELSE s[i + 1]

ShortNodes == {a \in live : heap[a].cmd = "short"}

ListInv ==
    intact =>
        /\ queue_size = 0 => live = {}
        /\ queue_size > 0 => \E s : IsList(s)
        /\ short_command_size = Cardinality(ShortNodes)
        /\ \A a \in live : heap[a].netfd \in Fd

(* As many different things as there are numbers up to n are n things.     *)
LEMMA NumberedSet ==
    ASSUME NEW n \in Nat, NEW s, \A i, j \in 1..n : s[i] = s[j] => i = j,
           NEW T, T = {s[i] : i \in 1..n}
    PROVE  IsFiniteSet(T) /\ Cardinality(T) = n
<1> DEFINE f == [i \in 1..n |-> s[i]]
<1>1. IsFiniteSet(1..n) /\ Cardinality(1..n) = n
  <2>1. IsFiniteSet(1..n) /\ Cardinality(1..n) = IF 1 > n THEN 0 ELSE n - 1 + 1
        BY FS_Interval
  <2> QED  BY <2>1
<1>2. f \in [1..n -> T]
      OBVIOUS
<1>3. f \in Surjection(1..n, T) /\ f \in Injection(1..n, T)
      BY <1>2 DEF Surjection, Injection, IsInjective
<1>4. IsFiniteSet(T) /\ Cardinality(T) <= Cardinality(1..n)
      BY <1>1, <1>3, FS_Surjection
<1>5. Cardinality(1..n) <= Cardinality(T)
      BY <1>3, <1>4, FS_Injection
<1>6. Cardinality(T) \in Nat
      BY <1>4, FS_CardinalityType
<1> QED  BY <1>1, <1>4, <1>5, <1>6

(* The chain from head goes along the list.                                *)
LEMMA ChainIsList ==
    ASSUME QueueTypes, NEW s, IsList(s)
    PROVE  /\ \A k \in 0..(queue_size - 1) : NodeAt[k] = s[k + 1]
           /\ Positions = 0..(queue_size - 1)
           /\ Cardinality(live) = queue_size
           /\ Cardinality(Positions) = queue_size
<1> DEFINE n == queue_size
<1>1. n \in Nat /\ n >= 1
      BY QueueAssumption DEF QueueTypes, IsList
<1>2. \A k \in 0..(n - 1) : NodeAt[k] = s[k + 1]
  <2> DEFINE S == {k \in Nat : k < n => NodeAt[k] = s[k + 1]}
  <2>1. 0 \in S
        BY NodeAtStep DEF IsList
  <2>2. ASSUME NEW k \in Nat, k \in S
        PROVE  k + 1 \in S
    <3> SUFFICES ASSUME k + 1 < n PROVE NodeAt[k + 1] = s[(k + 1) + 1]
        OBVIOUS
    <3>1. k + 1 \in 1..n /\ k + 1 # n /\ NodeAt[k] = s[k + 1]
          BY <1>1, <2>2
    <3>2. s[k + 1] \in Addr /\ heap[s[k + 1]].next = s[(k + 1) + 1]
          BY <3>1 DEF IsList
    <3> QED  BY <3>1, <3>2, NodeAtStep
  <2> HIDE DEF S
  <2>3. \A k \in Nat : k \in S
        BY <2>1, <2>2, SetInduction
  <2> QED  BY <1>1, <2>3 DEF S
<1>3. NodeAt[n] = Null
  <2>1. NodeAt[n - 1] = s[n] /\ n \in 1..n /\ n - 1 \in Nat /\ (n - 1) + 1 = n
        BY <1>1, <1>2
  <2>2. s[n] \in Addr /\ heap[s[n]].next = Null
        BY <2>1 DEF IsList
  <2>3. NodeAt[(n - 1) + 1] = Null
        BY <2>1, <2>2, NodeAtStep
  <2> QED  BY <2>1, <2>3
<1>4. \A k \in Nat : k >= n => NodeAt[k] = Null
  <2>1. NodeAt[n] \notin Addr
        BY <1>3, QueueAssumption
  <2> QED  BY <1>1, <1>3, <2>1, ChainStaysAtEnd
<1>5. Cardinality(live) = n /\ n <= Cardinality(Addr)
  <2>1. live = {s[i] : i \in 1..n} /\ \A i, j \in 1..n : s[i] = s[j] => i = j
        BY DEF IsList
  <2>2. Cardinality(live) = n
        BY <1>1, <2>1, NumberedSet
  <2>3. Cardinality(live) <= Cardinality(Addr)
        BY QueueAssumption, FS_Subset DEF QueueTypes
  <2> QED  BY <2>2, <2>3
<1>6. Positions = 0..(n - 1)
  <2>1. ASSUME NEW k \in 0..(n - 1)
        PROVE  k \in Positions
    <3>1. NodeAt[k] = s[k + 1] /\ k + 1 \in 1..n
          BY <1>1, <1>2
    <3>2. NodeAt[k] \in Addr
          BY <3>1 DEF IsList
    <3> QED  BY <1>1, <1>5, <3>2, ChunksAreCounted DEF Positions
  <2>2. ASSUME NEW k \in Positions
        PROVE  k \in 0..(n - 1)
    <3>1. k \in Nat /\ NodeAt[k] \in Addr
          BY PositionsAreNumbers DEF Positions
    <3> QED  BY <1>1, <1>4, <3>1, QueueAssumption
  <2> QED  BY <2>1, <2>2
<1>7. Cardinality(Positions) = n
  <2>1. Cardinality(0..(n - 1)) = IF 0 > n - 1 THEN 0 ELSE (n - 1) - 0 + 1
        BY <1>1, FS_Interval
  <2> QED  BY <1>1, <1>6, <2>1
<1> QED  BY <1>2, <1>5, <1>6, <1>7

(* What dequeue finds in an undamaged list, by its place p + 1.            *)
LEMMA SearchInList ==
    ASSUME QueueTypes, NEW s, IsList(s), NEW short \in BOOLEAN, ~NothingToDequeue(short)
    PROVE  LET p == TakenPosition(short)
           IN  /\ p \in 0..(queue_size - 1) /\ Taken(short) = s[p + 1]
               /\ Taken(short) \in live
               /\ Matches(short) = {} => ~short /\ p = 0 /\ Prev(short) = s[queue_size]
               /\ Matches(short) = {} <=>
                      \A i \in 1..queue_size : heap[s[i]].cmd # Wanted(short)
               /\ Matches(short) # {} =>
                      /\ heap[s[p + 1]].cmd = Wanted(short)
                      /\ \A i \in 1..p : heap[s[i]].cmd # Wanted(short)
                      /\ p # 0 => Prev(short) = s[p]
<1> DEFINE p == TakenPosition(short)  n == queue_size
<1>1. n \in Nat /\ n >= 1
      BY QueueAssumption DEF QueueTypes, IsList
<1>2. Positions = 0..(n - 1) /\ \A k \in 0..(n - 1) : NodeAt[k] = s[k + 1]
      BY ChainIsList
<1>3. /\ p \in 0..(n - 1) /\ Taken(short) = s[p + 1]
  <2>1. p \in Positions /\ Taken(short) = NodeAt[p]
        BY SearchFinds
  <2> QED  BY <1>2, <2>1
<1>4. Taken(short) \in live
      BY <1>1, <1>3 DEF IsList
<1>5. Matches(short) = {} <=> \A i \in 1..n : heap[s[i]].cmd # Wanted(short)
  <2>1. \A i \in 1..n : i - 1 \in Positions /\ NodeAt[i - 1] = s[i]
        BY <1>1, <1>2
  <2>2. \A k \in Positions : k + 1 \in 1..n /\ NodeAt[k] = s[k + 1]
        BY <1>1, <1>2
  <2> QED  BY <2>1, <2>2 DEF Matches, Wanted
<1>6. ASSUME Matches(short) = {}
      PROVE  ~short /\ p = 0 /\ Prev(short) = s[n]
  <2>1. ~short /\ p = 0
        BY <1>6, SearchFinds
  <2>2. MaxOf(Positions) \in 0..(n - 1) /\ \A k \in 0..(n - 1) : MaxOf(Positions) >= k
    <3>1. 0 \in Positions
          BY <1>1, <1>2
    <3> QED  BY <1>2, <3>1, PositionsAreNumbers, ChunksAreCounted, MaxOfIsGreatest
  <2>3. MaxOf(Positions) = n - 1
        BY <1>1, <2>2
  <2>4. Prev(short) = NodeAt[n - 1]
        BY <1>6, <2>3 DEF Prev
  <2> QED  BY <1>1, <1>2, <2>1, <2>4
<1>7. ASSUME Matches(short) # {}
      PROVE  /\ heap[s[p + 1]].cmd = Wanted(short)
             /\ \A i \in 1..p : heap[s[i]].cmd # Wanted(short)
             /\ p # 0 => Prev(short) = s[p]
  <2>1. /\ heap[Taken(short)].cmd = Wanted(short)
        /\ \A k \in Positions : k < p => heap[NodeAt[k]].cmd # Wanted(short)
        /\ p # 0 => Prev(short) = NodeAt[p - 1]
        BY <1>7, SearchFinds
  <2>2. \A i \in 1..p : i - 1 \in Positions /\ i - 1 < p /\ NodeAt[i - 1] = s[i]
        BY <1>1, <1>2, <1>3
  <2>3. p # 0 => p \in 1..p
        BY <1>3
  <2> QED  BY <1>3, <2>1, <2>2, <2>3
<1> QED  BY <1>3, <1>4, <1>5, <1>6, <1>7

-----------------------------------------------------------------------------
(* enqueue and dequeue on types.                                           *)

(* A chunk that is not followed holds no task. *)
LEMMA NoNodesAreNodes == NoNode \in Node /\ NoNodes \in [Addr -> Node]
BY DEF NoNode, NoNodes, Node, Cmd

(* enqueue writes tasks and chunks into the fields it sets, *)
LEMMA EnqueueKeepsTypes ==
    ASSUME QueueTypes, NEW fd \in Fd, NEW cmd \in Cmd, Enqueue(fd, cmd)
    PROVE  QueueTypes'
<1>1. CASE UNCHANGED queueVars
      BY <1>1 DEF queueVars, QueueTypes, Node
<1>2. CASE queue_size # MaxSize
  <2>1. queue_size' \in 0..MaxSize /\ short_command_size' \in Int
        BY <1>2, QueueAssumption DEF Enqueue, QueueTypes
  <2>2. intact' \in BOOLEAN
        BY <1>2 DEF Enqueue, StillIntact, QueueTypes
  <2>3. CASE Appends(fd, cmd)
    <3>1. PICK new \in Addr \ live :
             /\ live' = live \cup {new}
             /\ heap' = LET stored == [heap EXCEPT ![new] =
                                    [netfd |-> fd, cmd |-> cmd, next |-> Null]]
                        IN  IF queue_size # 0 THEN [stored EXCEPT ![tail].next = new] ELSE stored
             /\ head' = IF queue_size = 0 THEN new ELSE head
             /\ tail' = new
          BY <2>3 DEF Appends
    <3> DEFINE stored == [heap EXCEPT ![new] = [netfd |-> fd, cmd |-> cmd, next |-> Null]]
    <3>2. stored \in [Addr -> Node]
          BY DEF QueueTypes, Node
    <3>3. heap' \in [Addr -> Node]
      <4>1. CASE queue_size # 0 /\ tail \in Addr
        <5>1. stored[tail] \in Node
              BY <3>2, <4>1
        <5>2. [stored[tail] EXCEPT !.next = new] \in Node
              BY <5>1 DEF Node
        <5> QED  BY <3>1, <3>2, <4>1, <5>2
      <4>2. CASE ~(queue_size # 0 /\ tail \in Addr)
            BY <3>1, <3>2, <4>2
      <4> QED  BY <4>1, <4>2
    <3>4. head' \in Addr \cup {Null} /\ tail' \in Addr \cup {Null, Temp} /\ live' \in SUBSET Addr
          BY <3>1 DEF QueueTypes
    <3> QED  BY <2>1, <2>2, <3>3, <3>4 DEF QueueTypes, Node
  <2>4. CASE ForgetsNodes
    <3>1. heap' \in [Addr -> Node] /\ head' = Null /\ tail' = Null /\ live' = {}
          BY <2>4, NoNodesAreNodes DEF ForgetsNodes
    <3> QED  BY <2>1, <2>2, <3>1 DEF QueueTypes, Node
  <2> QED  BY <1>2, <2>3, <2>4 DEF Enqueue
<1> QED  BY <1>1, <1>2 DEF Enqueue

(* and dequeue copies fields that hold chunks or no pointer. *)
LEMMA DequeueKeepsTypes ==
    ASSUME QueueTypes, NEW short \in BOOLEAN, queue_size > 0,
           ~NothingToDequeue(short), Dequeue(short)
    PROVE  QueueTypes'
<1> DEFINE cur == Taken(short)  prev == Prev(short)
<1>1. cur \in Addr /\ prev \in Addr \cup {Temp}
      BY SearchFinds
<1>2. heap[cur] \in Node
      BY <1>1 DEF QueueTypes
<1>3. head' \in Addr \cup {Null} /\ tail' \in Addr \cup {Null, Temp}
      BY <1>1, <1>2 DEF Dequeue, QueueTypes, Node
<1>4. queue_size' \in 0..MaxSize /\ short_command_size' \in Int
      BY QueueAssumption DEF Dequeue, QueueTypes
<1>5. heap' \in [Addr -> Node]
  <2>1. ASSUME NEW a \in Addr
        PROVE  /\ heap[a] \in Node /\ NoNode \in Node
               /\ [heap[a] EXCEPT !.next = heap[cur].next] \in Node
    <3>1. heap[a] \in Node
          BY DEF QueueTypes
    <3> QED  BY <1>2, <3>1, NoNodesAreNodes DEF Node
  <2> QED  BY <2>1 DEF Dequeue
<1>6. live' \in SUBSET Addr /\ intact' \in BOOLEAN
      BY DEF Dequeue, QueueTypes, StillIntact
<1> QED  BY <1>3, <1>4, <1>5, <1>6 DEF QueueTypes, Node

(* A dequeue on a damaged list changes the counters and nothing else that  *)
(* is followed.                                                            *)
LEMMA DamagedKeepsTypes ==
    ASSUME QueueTypes, NEW c \in Cmd, queue_size > 0, DequeueDamaged(c)
    PROVE  QueueTypes' /\ ~intact /\ ~intact'
<1>1. heap' \in [Addr -> Node] /\ head' = Null /\ tail' = Null /\ live' = {}
      BY NoNodesAreNodes DEF DequeueDamaged, ForgetsNodes
<1>2. queue_size' \in 0..MaxSize /\ short_command_size' \in Int
      BY QueueAssumption DEF DequeueDamaged, QueueTypes
<1> QED  BY <1>1, <1>2 DEF DequeueDamaged, QueueTypes, Node

-----------------------------------------------------------------------------
(* enqueue and dequeue on an undamaged list.                               *)

Task(a) == [netfd |-> heap[a].netfd, cmd |-> heap[a].cmd]

(* enqueue puts the task at the end.                                       *)
LEMMA EnqueueAppends ==
    ASSUME QueueTypes, intact, NEW s, IsList(s) \/ (queue_size = 0 /\ live = {}),
           NEW fd \in Fd, NEW cmd \in Cmd, Enqueue(fd, cmd), queue_size # MaxSize
    PROVE  /\ intact' /\ queue_size' = queue_size + 1
           /\ \E new \in Addr \ live : \E t :
                 /\ IsList(t)' /\ live' = live \cup {new}
                 /\ \A i \in 1..queue_size : t[i] = s[i]
                 /\ t[queue_size + 1] = new
                 /\ Task(new)' = [netfd |-> fd, cmd |-> cmd]
                 /\ \A a \in live : Task(a)' = Task(a)
<1> DEFINE n == queue_size
<1>1. n \in Nat /\ n' = n + 1 /\ (n # 0 => IsList(s)) /\ (n = 0 => live = {})
      BY QueueAssumption DEF Enqueue, QueueTypes, IsList
<1>2. PICK new \in Addr \ live :
         /\ live' = live \cup {new}
         /\ heap' = LET stored == [heap EXCEPT ![new] =
                                [netfd |-> fd, cmd |-> cmd, next |-> Null]]
                    IN  IF queue_size # 0 THEN [stored EXCEPT ![tail].next = new] ELSE stored
         /\ head' = IF queue_size = 0 THEN new ELSE head
         /\ tail' = new
      BY DEF Enqueue, Appends
<1>3. n # 0 => /\ tail = s[n] /\ head = s[1] /\ n \in 1..n /\ 1 \in 1..n
               /\ \A i \in 1..n : s[i] \in Addr /\ s[i] \in live
               /\ \A i, j \in 1..n : s[i] = s[j] => i = j
               /\ live = {s[i] : i \in 1..n}
      BY <1>1 DEF IsList
<1>4. /\ \A a \in Addr : a # new /\ a # tail => heap'[a] = heap[a]
      /\ \A a \in Addr : a # new => /\ heap'[a].netfd = heap[a].netfd /\ heap'[a].cmd = heap[a].cmd
                                    /\ n # 0 /\ a = tail => heap'[a].next = new
      /\ heap'[new].netfd = fd /\ heap'[new].cmd = cmd /\ heap'[new].next = Null
      /\ n = 0 \/ tail # new
  <2> DEFINE stored == [heap EXCEPT ![new] = [netfd |-> fd, cmd |-> cmd, next |-> Null]]
  <2>1. n = 0 \/ tail # new
        BY <1>2, <1>3
  <2>2. stored \in [Addr -> Node]
        BY DEF QueueTypes, Node
  <2>3. stored[new] = [netfd |-> fd, cmd |-> cmd, next |-> Null]
        /\ \A a \in Addr : a # new => stored[a] = heap[a]
        BY DEF QueueTypes
  <2>4. \A a \in Addr : stored[a] \in Node
        BY <2>2
  <2> HIDE DEF stored
  <2>5. CASE n # 0
    <3>1. heap' = [stored EXCEPT ![tail].next = new] /\ tail \in Addr
          BY <1>2, <1>3, <2>5 DEF stored
    <3>2. /\ heap'[tail] = [stored[tail] EXCEPT !.next = new]
          /\ \A a \in Addr : a # tail => heap'[a] = stored[a]
          BY <2>2, <3>1
    <3>3. /\ heap'[tail].next = new /\ heap'[tail].netfd = stored[tail].netfd
          /\ heap'[tail].cmd = stored[tail].cmd
          BY <2>4, <3>1, <3>2 DEF Node
    <3>4. ASSUME NEW a \in Addr, a # new
          PROVE  /\ heap'[a].netfd = heap[a].netfd /\ heap'[a].cmd = heap[a].cmd
                 /\ a = tail => heap'[a].next = new
                 /\ a # tail => heap'[a] = heap[a]
      <4>1. CASE a = tail
            BY <2>3, <3>3, <3>4, <4>1
      <4>2. CASE a # tail
            BY <2>3, <3>2, <3>4, <4>2
      <4> QED  BY <4>1, <4>2
    <3>5. heap'[new] = stored[new]
          BY <2>1, <2>5, <3>2
    <3> QED  BY <2>1, <2>3, <2>5, <3>4, <3>5
  <2>6. CASE n = 0
    <3>1. heap' = stored
          BY <1>2, <2>6 DEF stored
    <3> QED  BY <2>3, <2>6, <3>1
  <2> QED  BY <2>5, <2>6
<1>5. intact'
  <2>1. head' \in live'
        BY <1>2, <1>3
  <2> QED  BY <2>1 DEF Enqueue, StillIntact
<1>6. PICK t : t = [i \in 1..(n + 1) |-> IF i = n + 1 THEN new ELSE s[i]]
      OBVIOUS
<1>7. /\ \A i \in 1..n : i \in 1..(n + 1) /\ i # n + 1 /\ n # 0 /\ t[i] = s[i] /\ s[i] # new
      /\ t[n + 1] = new /\ n + 1 \in 1..(n + 1)
      /\ \A i \in 1..(n + 1) : i = n + 1 \/ i \in 1..n
      BY <1>1, <1>2, <1>3, <1>6
<1>8. IsList(t)'
  <2>1. t \in [1..(n + 1) -> Addr]
        BY <1>3, <1>6, <1>7
  <2>2. \A i, j \in 1..(n + 1) : t[i] = t[j] => i = j
        BY <1>3, <1>7
  <2>3. live' = {t[i] : i \in 1..(n + 1)}
    <3>1. \A a \in live' : \E i \in 1..(n + 1) : a = t[i]
          BY <1>1, <1>2, <1>3, <1>7
    <3>2. \A i \in 1..(n + 1) : t[i] \in live'
          BY <1>2, <1>3, <1>7
    <3> QED  BY <3>1, <3>2
  <2>4. head' = t[1] /\ tail' = t[n + 1]
        BY <1>1, <1>2, <1>3, <1>7
  <2>5. ASSUME NEW i \in 1..(n + 1)
        PROVE  heap'[t[i]].next = IF i = n + 1 THEN Null ELSE t[i + 1]
    <3>1. CASE i = n + 1
          BY <1>4, <1>7, <3>1
    <3>2. CASE i \in 1..n /\ i # n
      <4>1. /\ t[i] = s[i] /\ i + 1 \in 1..n /\ t[i + 1] = s[i + 1]
            /\ s[i] \in Addr /\ s[i] # tail /\ s[i] # new
            BY <1>1, <1>3, <1>7, <3>2
      <4>2. heap[s[i]].next = s[i + 1]
            BY <1>1, <1>7, <3>2 DEF IsList
      <4> QED  BY <1>1, <1>4, <3>2, <4>1, <4>2
    <3>3. CASE i = n /\ i \in 1..n
      <4>1. t[i] = tail /\ t[i + 1] = new /\ tail \in Addr /\ tail # new /\ i # n + 1 /\ n # 0
            BY <1>1, <1>3, <1>7, <3>3
      <4> QED  BY <1>4, <4>1
    <3> QED  BY <1>7, <3>1, <3>2, <3>3
  <2> QED  BY <1>1, <2>1, <2>2, <2>3, <2>4, <2>5 DEF IsList
<1>9. Task(new)' = [netfd |-> fd, cmd |-> cmd] /\ \A a \in live : Task(a)' = Task(a)
  <2>1. \A a \in live : a \in Addr /\ a # new
        BY <1>2 DEF QueueTypes
  <2> QED  BY <1>4, <2>1 DEF Task
<1> QED  BY <1>1, <1>2, <1>5, <1>7, <1>8, <1>9

(* dequeue takes one node out of the list, or damages it: the first of     *)
(* several nodes, found by search, stays queue->head (taskQueue.c:80).     *)
LEMMA DequeueUnlinks ==
    ASSUME QueueTypes, intact, NEW s, IsList(s),
           NEW short \in BOOLEAN, ~NothingToDequeue(short), Dequeue(short)
    PROVE  LET p == TakenPosition(short)
           IN  /\ queue_size' = queue_size - 1
               /\ live' = live \ {Taken(short)}
               /\ \A a \in Addr : a # Taken(short) => Task(a)' = Task(a)
               /\ intact' <=> queue_size = 1 \/ p # 0 \/ Matches(short) = {}
               /\ queue_size = 1 => live' = {}
               /\ queue_size > 1 /\ intact' =>
                      \E t : /\ IsList(t)'
                             /\ \A i \in 1..(queue_size - 1) :
                                    t[i] = s[IF i <= p THEN i ELSE i + 1]
<1> DEFINE n == queue_size  p == TakenPosition(short)
           cur == Taken(short)  prev == Prev(short)
<1>1. n \in Nat /\ n >= 1 /\ n' = n - 1 /\ p \in 0..(n - 1) /\ cur = s[p + 1] /\ p + 1 \in 1..n
  <2>1. n \in Nat /\ n >= 1
        BY QueueAssumption DEF QueueTypes, IsList
  <2>2. p \in 0..(n - 1) /\ cur = s[p + 1]
        BY SearchInList
  <2>3. n' = n - 1
        BY DEF Dequeue
  <2> QED  BY <2>1, <2>2, <2>3
<1>2. live' = live \ {cur}
      BY DEF Dequeue
<1>3. /\ \A i \in 1..n : s[i] \in Addr
      /\ \A i, j \in 1..n : s[i] = s[j] => i = j
      /\ live = {s[i] : i \in 1..n} /\ head = s[1] /\ tail = s[n]
      /\ \A i \in 1..n : heap[s[i]].next = IF i = n THEN Null ELSE s[i + 1]
      BY DEF IsList
<1>4. /\ Matches(short) = {} => p = 0 /\ prev = s[n]
      /\ Matches(short) # {} /\ p = 0 => prev = Temp
      /\ Matches(short) # {} /\ p # 0 => prev = s[p]
      BY SearchInList, SearchFinds
<1>5. heap' = [a \in Addr |->
                 IF a = cur THEN NoNode
                 ELSE IF a = prev /\ Matches(short) # {}
                      THEN [heap[a] EXCEPT !.next = heap[cur].next]
                 ELSE heap[a]]
      BY DEF Dequeue
<1>6. /\ \A a \in Addr : a # cur => heap'[a].netfd = heap[a].netfd /\ heap'[a].cmd = heap[a].cmd
      /\ \A a \in Addr : a # cur /\ (a # prev \/ Matches(short) = {}) => heap'[a].next = heap[a].next
      /\ prev \in Addr /\ prev # cur /\ Matches(short) # {} => heap'[prev].next = heap[cur].next
  <2>1. \A a \in Addr : heap[a] \in Node
        BY DEF QueueTypes
  <2> HIDE DEF cur, prev
  <2> QED  BY <1>5, <2>1 DEF Node
<1>7. \A a \in Addr : a # cur => Task(a)' = Task(a)
      BY <1>6 DEF Task
<1>8. n = 1 => live' = {}
      BY <1>1, <1>2, <1>3
<1>9. ASSUME n > 1, p # 0 \/ Matches(short) = {}
      PROVE  /\ head' \in live'
             /\ \E t : /\ IsList(t)'
                       /\ \A i \in 1..(n - 1) : t[i] = s[IF i <= p THEN i ELSE i + 1]
  <2>1. PICK t : t = [i \in 1..(n - 1) |-> s[IF i <= p THEN i ELSE i + 1]]
        OBVIOUS
  <2>2. /\ \A i \in 1..(n - 1) : i <= p => t[i] = s[i] /\ i \in 1..n
        /\ \A i \in 1..(n - 1) : i > p => t[i] = s[i + 1] /\ i + 1 \in 1..n
        BY <1>1, <2>1
  <2>3. t \in [1..(n - 1) -> Addr]
    <3>1. \A i \in 1..(n - 1) : s[IF i <= p THEN i ELSE i + 1] \in Addr
          BY <1>1, <1>3
    <3> QED  BY <2>1, <3>1
  <2>4. ASSUME NEW i \in 1..(n - 1), NEW j \in 1..(n - 1), t[i] = t[j]
        PROVE  i = j
    <3>1. PICK k \in 1..n : k = (IF i <= p THEN i ELSE i + 1) /\ t[i] = s[k]
          BY <1>1, <2>2
    <3>2. PICK l \in 1..n : l = (IF j <= p THEN j ELSE j + 1) /\ t[j] = s[l]
          BY <1>1, <2>2
    <3>3. k = l
          BY <1>3, <2>4, <3>1, <3>2
    <3> QED  BY <1>1, <3>1, <3>2, <3>3
  <2>5. live' = {t[i] : i \in 1..(n - 1)}
    <3>1. ASSUME NEW a \in live'
          PROVE  \E i \in 1..(n - 1) : a = t[i]
      <4>1. PICK k \in 1..n : a = s[k] /\ k # p + 1
            BY <1>1, <1>2, <1>3, <3>1
      <4>2. CASE k <= p
            BY <1>1, <2>2, <4>1, <4>2
      <4>3. CASE k > p
        <5>1. k - 1 \in 1..(n - 1) /\ k - 1 > p /\ (k - 1) + 1 = k
              BY <1>1, <4>1, <4>3
        <5> QED  BY <2>2, <4>1, <5>1
      <4> QED  BY <1>1, <4>2, <4>3
    <3>2. ASSUME NEW i \in 1..(n - 1)
          PROVE  t[i] \in live'
      <4>1. PICK k \in 1..n : k # p + 1 /\ t[i] = s[k]
            BY <1>1, <2>2
      <4> QED  BY <1>1, <1>2, <1>3, <4>1
    <3> QED  BY <3>1, <3>2
  <2>6. head' = t[1]
    <3>1. CASE Matches(short) = {}
      <4>1. p = 0 /\ head' = heap[s[1]].next /\ 1 \in 1..n /\ 1 # n /\ 1 \in 1..(n - 1)
            BY <1>1, <1>4, <1>9, <3>1 DEF Dequeue
      <4> QED  BY <1>3, <2>2, <4>1
    <3>2. CASE Matches(short) # {}
      <4>1. p >= 1 /\ 1 \in 1..(n - 1) /\ head' = head
            BY <1>1, <1>9, <3>2 DEF Dequeue
      <4> QED  BY <1>3, <2>2, <4>1
    <3> QED  BY <3>1, <3>2
  <2>7. tail' = t[n - 1]
    <3>1. n - 1 \in 1..(n - 1) /\ n \in 1..n
          BY <1>1, <1>9
    <3>2. CASE p + 1 = n
      <4>1. Matches(short) # {} /\ prev = s[p] /\ p = n - 1
            BY <1>1, <1>4, <1>9, <3>2
      <4>2. tail' = prev
            BY <1>1, <1>3, <3>2 DEF Dequeue
      <4> QED  BY <1>1, <2>2, <3>1, <4>1, <4>2
    <3>3. CASE p + 1 # n
      <4>1. heap[cur].next = s[p + 2] /\ p + 2 \in 1..n /\ (p + 1) + 1 = p + 2
            BY <1>1, <1>3, <3>3
      <4>2. heap[cur].next # Null
            BY <1>3, <4>1, QueueAssumption
      <4>3. tail' = tail /\ n - 1 > p /\ (n - 1) + 1 = n
            BY <1>1, <3>3, <4>2 DEF Dequeue
      <4> QED  BY <1>3, <2>2, <3>1, <4>3
    <3> QED  BY <3>2, <3>3
  <2>8. ASSUME NEW i \in 1..(n - 1)
        PROVE  heap'[t[i]].next = IF i = n - 1 THEN Null ELSE t[i + 1]
    <3>1. CASE i < p
      <4>1. /\ t[i] = s[i] /\ i \in 1..n /\ i # p + 1 /\ i # p /\ p \in 1..n /\ p # 0
            /\ i # n /\ i # n - 1 /\ i + 1 \in 1..(n - 1) /\ i + 1 <= p
            BY <1>1, <2>2, <3>1
      <4>2. s[i] # cur /\ s[i] # prev /\ s[i] \in Addr
            BY <1>1, <1>3, <1>4, <4>1
      <4> QED  BY <1>3, <1>6, <2>2, <4>1, <4>2
    <3>2. CASE i = p
      <4>1. t[i] = s[p] /\ p \in 1..n /\ p # p + 1 /\ p # 0 /\ Matches(short) # {}
            BY <1>1, <1>9, <1>4, <2>2, <3>2
      <4>2. prev = s[p] /\ prev \in Addr /\ prev # cur
            BY <1>1, <1>3, <1>4, <4>1
      <4>3. heap'[t[i]].next = IF p + 1 = n THEN Null ELSE s[(p + 1) + 1]
            BY <1>1, <1>3, <1>6, <4>1, <4>2
      <4>4. p + 1 # n => i + 1 \in 1..(n - 1) /\ i + 1 > p /\ t[i + 1] = s[(i + 1) + 1]
            BY <1>1, <2>2, <3>2
      <4> QED  BY <1>1, <3>2, <4>3, <4>4
    <3>3. CASE i > p
      <4>1. /\ t[i] = s[i + 1] /\ i + 1 \in 1..n /\ i + 1 # p + 1 /\ (p # 0 => p \in 1..n /\ i + 1 # p)
            /\ (i + 1 = n <=> i = n - 1)
            BY <1>1, <2>2, <3>3
      <4>2. s[i + 1] # cur /\ s[i + 1] \in Addr /\ (s[i + 1] # prev \/ Matches(short) = {})
            BY <1>1, <1>3, <1>4, <4>1, QueueAssumption
      <4>3. heap'[t[i]].next = IF i + 1 = n THEN Null ELSE s[(i + 1) + 1]
            BY <1>3, <1>6, <4>1, <4>2
      <4>4. i # n - 1 => i + 1 \in 1..(n - 1) /\ i + 1 > p /\ t[i + 1] = s[(i + 1) + 1]
            BY <1>1, <2>2, <3>3
      <4> QED  BY <4>1, <4>3, <4>4
    <3> QED  BY <1>1, <3>1, <3>2, <3>3
  <2>9. IsList(t)'
        BY <1>1, <1>9, <2>3, <2>4, <2>5, <2>6, <2>7, <2>8 DEF IsList
  <2>10. head' \in live'
    <3>1. 1 \in 1..(n - 1)
          BY <1>1, <1>9
    <3> QED  BY <2>5, <2>6, <3>1
  <2>11. \A i \in 1..(n - 1) : t[i] = s[IF i <= p THEN i ELSE i + 1]
         BY <2>1
  <2> HIDE DEF n, p
  <2>12. \E u : IsList(u)' /\ \A i \in 1..(n - 1) : u[i] = s[IF i <= p THEN i ELSE i + 1]
         BY <2>9, <2>11
  <2> QED  BY <2>10, <2>12
<1>10. ASSUME n > 1, p = 0, Matches(short) # {}
       PROVE  ~intact'
  <2>1. head' = head /\ head = cur /\ n' > 0
        BY <1>1, <1>3, <1>10 DEF Dequeue
  <2> QED  BY <1>2, <2>1 DEF Dequeue, StillIntact
<1>11. intact' <=> (n - 1 > 0 => head' \in live')
       BY <1>1 DEF Dequeue, StillIntact
<1>12. n = 1 \/ n > 1
       BY <1>1
<1>13. intact' <=> n = 1 \/ p # 0 \/ Matches(short) = {}
       BY <1>1, <1>9, <1>10, <1>11, <1>12
<1> QED  BY <1>1, <1>2, <1>7, <1>8, <1>9, <1>13

-----------------------------------------------------------------------------
(* The list agrees with its counters until it is damaged.                  *)

(* The empty list of init_queue has a good shape. *)
LEMMA InitListInv == QueueInit => QueueTypes /\ ListInv
<1> SUFFICES ASSUME QueueInit PROVE QueueTypes /\ ListInv
    OBVIOUS
<1>1. QueueTypes
      BY QueueAssumption, NoNodesAreNodes DEF QueueInit, QueueTypes, Node
<1>2. ShortNodes = {} /\ short_command_size = 0
      BY DEF QueueInit, ShortNodes
<1> QED  BY <1>1, <1>2, FS_EmptySet DEF QueueInit, ListInv

(* enqueue adds the new node to the counts,                                *)
LEMMA EnqueueKeepsList ==
    ASSUME QueueTypes, ListInv, NEW fd \in Fd, NEW cmd \in Cmd, Enqueue(fd, cmd)
    PROVE  ListInv'
<1>1. CASE UNCHANGED queueVars
      BY <1>1 DEF queueVars, ListInv, IsList, ShortNodes
<1>2. CASE queue_size # MaxSize
  <2> SUFFICES ASSUME intact' PROVE ListInv'
      BY DEF ListInv
  <2>1. intact
        BY <1>2 DEF Enqueue, StillIntact, queueVars
  <2>2. queue_size \in Nat
        BY QueueAssumption DEF QueueTypes
  <2>3. PICK s : IsList(s) \/ (queue_size = 0 /\ live = {})
        BY <2>1, <2>2 DEF ListInv
  <2>4. PICK new \in Addr \ live : \E t :
           /\ IsList(t)' /\ live' = live \cup {new}
           /\ Task(new)' = [netfd |-> fd, cmd |-> cmd]
           /\ \A a \in live : Task(a)' = Task(a)
        BY <1>2, <2>1, <2>3, EnqueueAppends
  <2>5. queue_size' = queue_size + 1
        /\ short_command_size' = short_command_size + (IF cmd = "long" THEN 0 ELSE 1)
        BY <1>2, <2>2 DEF Enqueue, queueVars
  <2>6. /\ heap'[new].netfd = fd /\ heap'[new].cmd = cmd
        /\ \A a \in live : heap'[a].netfd = heap[a].netfd /\ heap'[a].cmd = heap[a].cmd
        BY <2>4 DEF Task
  <2>7. /\ short_command_size = Cardinality(ShortNodes)
        /\ \A a \in live : heap[a].netfd \in Fd
        BY <2>1 DEF ListInv
  <2>8. IsFiniteSet(ShortNodes) /\ new \notin ShortNodes
    <3>1. ShortNodes \subseteq Addr
          BY DEF ShortNodes, QueueTypes
    <3> QED  BY <3>1, QueueAssumption, FS_Subset DEF ShortNodes
  <2>9. ShortNodes' = IF cmd = "long" THEN ShortNodes ELSE ShortNodes \cup {new}
        BY <2>4, <2>6 DEF ShortNodes, Cmd
  <2>10. short_command_size' = Cardinality(ShortNodes')
        BY <2>5, <2>7, <2>8, <2>9, FS_AddElement, FS_CardinalityType
  <2>11. \A a \in live' : heap'[a].netfd \in Fd
        BY <2>4, <2>6, <2>7
  <2> QED  BY <2>2, <2>4, <2>5, <2>10, <2>11 DEF ListInv
<1> QED  BY <1>1, <1>2 DEF Enqueue

(* and dequeue takes the node it frees from them.                          *)
LEMMA DequeueKeepsList ==
    ASSUME QueueTypes, ListInv, NEW short \in BOOLEAN, queue_size > 0,
           ~NothingToDequeue(short), Dequeue(short)
    PROVE  ListInv'
<1> SUFFICES ASSUME intact' PROVE ListInv'
    BY DEF ListInv
<1> DEFINE cur == Taken(short)
<1>1. intact
      BY DEF Dequeue, StillIntact
<1>2. queue_size \in Nat
      BY QueueAssumption DEF QueueTypes
<1>3. PICK s : IsList(s)
      BY <1>1 DEF ListInv
<1>4. /\ queue_size' = queue_size - 1 /\ live' = live \ {cur}
      /\ \A a \in Addr : a # cur => Task(a)' = Task(a)
      /\ queue_size = 1 => live' = {}
      /\ queue_size > 1 => \E t : IsList(t)'
      BY <1>1, <1>3, DequeueUnlinks
<1>5. cur \in live
      BY <1>3, SearchInList
<1>6. /\ short_command_size = Cardinality(ShortNodes)
      /\ \A a \in live : heap[a].netfd \in Fd
      BY <1>1 DEF ListInv
<1>7. \A a \in Addr : a # cur => heap'[a].netfd = heap[a].netfd /\ heap'[a].cmd = heap[a].cmd
      BY <1>4 DEF Task
<1>8. live \subseteq Addr /\ ShortNodes \subseteq Addr
      BY DEF ShortNodes, QueueTypes
<1>9. IsFiniteSet(ShortNodes) /\ Cardinality(ShortNodes) \in Nat
      BY <1>8, QueueAssumption, FS_Subset, FS_CardinalityType
<1>10. heap[cur].cmd \in Cmd
      BY <1>5, <1>8 DEF QueueTypes, Node
<1>11. ShortNodes' = ShortNodes \ {cur}
      BY <1>4, <1>7, <1>8 DEF ShortNodes
<1>12. short_command_size' = Cardinality(ShortNodes')
  <2>1. CASE heap[cur].cmd = "long"
    <3>1. ShortNodes' = ShortNodes
          BY <1>11, <2>1 DEF ShortNodes
    <3>2. short_command_size' = short_command_size - 0
          BY <2>1 DEF Dequeue
    <3> QED  BY <1>6, <1>9, <3>1, <3>2
  <2>2. CASE heap[cur].cmd = "short"
    <3>1. cur \in ShortNodes
          BY <1>5, <2>2 DEF ShortNodes
    <3>2. short_command_size' = short_command_size - 1
          BY <2>2 DEF Dequeue
    <3>3. Cardinality(ShortNodes \ {cur}) = Cardinality(ShortNodes) - 1
          BY <1>9, <3>1, FS_RemoveElement
    <3> QED  BY <1>6, <1>11, <3>2, <3>3
  <2> QED  BY <1>10, <2>1, <2>2 DEF Cmd
<1>13. \A a \in live' : heap'[a].netfd \in Fd
      BY <1>4, <1>6, <1>7, <1>8
<1>14. (queue_size' = 0 => live' = {}) /\ (queue_size' > 0 => \E t : IsList(t)')
      BY <1>2, <1>4
<1> QED  BY <1>12, <1>13, <1>14 DEF ListInv

(* A list with a good shape agrees with its counters.                      *)
LEMMA ListInvImplies == QueueTypes /\ ListInv => ListAgreesWithCounters
<1> SUFFICES ASSUME QueueTypes, ListInv, intact PROVE ListAgreesWithCounters
    BY DEF ListAgreesWithCounters
<1>1. queue_size \in Nat
      BY QueueAssumption DEF QueueTypes
<1>2. short_command_size = Cardinality({a \in live : heap[a].cmd = "short"})
      BY DEF ListInv, ShortNodes
<1>3. CASE queue_size = 0
  <2>1. live = {} /\ Cardinality(live) = 0
        BY <1>3, FS_EmptySet DEF ListInv
  <2> QED  BY <1>1, <1>2, <1>3, <2>1 DEF ListAgreesWithCounters
<1>4. CASE queue_size > 0
  <2>1. PICK s : IsList(s)
        BY <1>4 DEF ListInv
  <2>2. /\ \A k \in 0..(queue_size - 1) : NodeAt[k] = s[k + 1]
        /\ Positions = 0..(queue_size - 1) /\ Cardinality(live) = queue_size
        BY <2>1, ChainIsList
  <2>3. live = {s[i] : i \in 1..queue_size} /\ tail = s[queue_size]
        BY <2>1 DEF IsList
  <2>4. ChainNodes = live
    <3>1. \A i \in 1..queue_size : i - 1 \in Positions /\ NodeAt[i - 1] = s[i]
          BY <1>1, <2>2
    <3>2. \A k \in Positions : k + 1 \in 1..queue_size /\ NodeAt[k] = s[k + 1]
          BY <1>1, <2>2
    <3> QED  BY <2>3, <3>1, <3>2 DEF ChainNodes
  <2>5. MaxOf(Positions) = queue_size - 1
    <3>1. 0 \in Positions
          BY <1>1, <1>4, <2>2
    <3>2. MaxOf(Positions) \in Positions /\ \A k \in Positions : MaxOf(Positions) >= k
          BY <3>1, PositionsAreNumbers, ChunksAreCounted, MaxOfIsGreatest
    <3> QED  BY <1>1, <1>4, <2>2, <3>2
  <2>6. tail = NodeAt[MaxOf(Positions)]
        BY <1>1, <1>4, <2>2, <2>3, <2>5
  <2> QED  BY <1>2, <2>2, <2>4, <2>6 DEF ListAgreesWithCounters
<1> QED  BY <1>1, <1>3, <1>4

(* In such a list the counters do not promise what the search cannot find. *)
LEMMA ListHasWhatIsCounted ==
    ASSUME QueueTypes, ListInv, intact, NEW short \in BOOLEAN,
           queue_size > 0, short => short_command_size # 0
    PROVE  ~NothingToDequeue(short)
<1>1. PICK s : IsList(s)
      BY DEF ListInv
<1>2. queue_size \in Nat /\ 1 \in 1..queue_size
      BY QueueAssumption DEF QueueTypes
<1>3. head # Null
      BY <1>1, <1>2, QueueAssumption DEF IsList
<1>4. ASSUME short
      PROVE  Matches(short) # {}
  <2>1. ShortNodes # {}
        BY <1>4, FS_EmptySet DEF ListInv
  <2>2. PICK i \in 1..queue_size : heap[s[i]].cmd = "short"
        BY <1>1, <2>1 DEF ShortNodes, IsList
  <2>3. \A k \in 0..(queue_size - 1) : NodeAt[k] = s[k + 1] /\ k \in Positions
        BY <1>1, ChainIsList
  <2>4. i - 1 \in 0..(queue_size - 1) /\ (i - 1) + 1 = i
        BY <1>2
  <2>5. i - 1 \in Positions /\ heap[NodeAt[i - 1]].cmd = "short"
        BY <2>2, <2>3, <2>4
  <2> QED  BY <1>4, <2>5 DEF Matches
<1> QED  BY <1>3, <1>4 DEF NothingToDequeue

-----------------------------------------------------------------------------
(* The list as a queue.                                                    *)

Entries == [netfd : Fd, cmd : Cmd]

Pending == IF intact /\ queue_size > 0 THEN Listed ELSE <<>>

(* RemoveAt takes one place out of a sequence. *)
LEMMA RemoveAtIs ==
    ASSUME NEW S, NEW s \in Seq(S), NEW i \in 1..Len(s)
    PROVE  Fifo!RemoveAt(s, i) =
               [k \in 1..(Len(s) - 1) |-> IF k < i THEN s[k] ELSE s[k + 1]]
<1> DEFINE a == SubSeq(s, 1, i - 1)  b == SubSeq(s, i + 1, Len(s))
<1>1. Len(s) \in Nat /\ i \in Int /\ i - 1 \in Int /\ i + 1 \in Int
      BY LenProperties
<1>2. /\ a \in Seq(S) /\ Len(a) = i - 1
      /\ \A k \in 1..(i - 1) : a[k] = s[k]
  <2>1. \A k \in 1..(i - 1) : s[k] \in S
        BY <1>1, ElementOfSeq
  <2>2. /\ SubSeq(s, 1, i - 1) \in Seq(S)
        /\ Len(SubSeq(s, 1, i - 1)) = IF 1 <= i - 1 THEN (i - 1) - 1 + 1 ELSE 0
        /\ \A k \in 1..((i - 1) - 1 + 1) : SubSeq(s, 1, i - 1)[k] = s[1 + k - 1]
        BY <1>1, <2>1, SubSeqProperties
  <2> QED  BY <1>1, <2>2
<1>3. /\ b \in Seq(S) /\ Len(b) = Len(s) - i
      /\ \A k \in 1..(Len(s) - i) : b[k] = s[i + k]
  <2>1. \A k \in (i + 1)..Len(s) : s[k] \in S
        BY <1>1, ElementOfSeq
  <2>2. /\ SubSeq(s, i + 1, Len(s)) \in Seq(S)
        /\ Len(SubSeq(s, i + 1, Len(s))) = IF i + 1 <= Len(s) THEN Len(s) - (i + 1) + 1 ELSE 0
        /\ \A k \in 1..(Len(s) - (i + 1) + 1) : SubSeq(s, i + 1, Len(s))[k] = s[(i + 1) + k - 1]
        BY <1>1, <2>1, SubSeqProperties
  <2> QED  BY <1>1, <2>2
<1> HIDE DEF a, b
<1>4. /\ a \o b \in Seq(S) /\ Len(a \o b) = Len(s) - 1
      /\ \A k \in 1..(Len(s) - 1) : (a \o b)[k] = IF k < i THEN s[k] ELSE s[k + 1]
  <2>1. a \o b \in Seq(S) /\ Len(a \o b) = Len(s) - 1
        BY <1>1, <1>2, <1>3, ConcatProperties
  <2>2. ASSUME NEW k \in 1..(Len(s) - 1)
        PROVE  (a \o b)[k] = IF k < i THEN s[k] ELSE s[k + 1]
    <3>1. (a \o b)[k] = IF k <= Len(a) THEN a[k] ELSE b[k - Len(a)]
          BY <1>1, <1>2, <1>3, ConcatProperties
    <3> QED  BY <1>1, <1>2, <1>3, <3>1
  <2> QED  BY <2>1, <2>2
<1>5. a \o b = [k \in 1..(Len(s) - 1) |-> (a \o b)[k]]
      BY <1>4, LenProperties
<1>6. Fifo!RemoveAt(s, i) = a \o b
      BY DEF Fifo!RemoveAt, a, b
<1> QED  BY <1>4, <1>5, <1>6

(* The list as a sequence of tasks. *)
LEMMA PendingIs ==
    \A s : QueueTypes /\ ListInv /\ intact /\ IsList(s) =>
        /\ Pending \in Seq(Entries) /\ Len(Pending) = queue_size
        /\ \A i \in 1..queue_size : Pending[i] = Task(s[i])
        /\ Pending = [i \in 1..queue_size |-> Pending[i]]
<1> SUFFICES ASSUME NEW s, QueueTypes, ListInv, intact, IsList(s)
             PROVE  /\ Pending \in Seq(Entries) /\ Len(Pending) = queue_size
                    /\ \A i \in 1..queue_size : Pending[i] = Task(s[i])
                    /\ Pending = [i \in 1..queue_size |-> Pending[i]]
    OBVIOUS
<1>1. queue_size \in Nat /\ queue_size > 0
      BY QueueAssumption DEF QueueTypes, IsList
<1>2. \A i \in 1..queue_size : NodeAt[i - 1] = s[i]
  <2>1. \A k \in 0..(queue_size - 1) : NodeAt[k] = s[k + 1]
        BY ChainIsList
  <2>2. \A i \in 1..queue_size : i - 1 \in 0..(queue_size - 1) /\ (i - 1) + 1 = i
        BY <1>1
  <2> QED  BY <2>1, <2>2
<1>3. Pending = [i \in 1..queue_size |-> Task(s[i])]
  <2>1. Pending = [i \in 1..queue_size |->
                      [netfd |-> heap[NodeAt[i - 1]].netfd, cmd |-> heap[NodeAt[i - 1]].cmd]]
        BY <1>1, ChainIsList DEF Pending, Listed
  <2> QED  BY <1>2, <2>1 DEF Task
<1>4. \A i \in 1..queue_size : Task(s[i]) \in Entries
  <2>1. \A i \in 1..queue_size : s[i] \in live /\ s[i] \in Addr
        BY DEF IsList
  <2>2. \A i \in 1..queue_size : heap[s[i]].netfd \in Fd /\ heap[s[i]].cmd \in Cmd
        BY <2>1 DEF ListInv, QueueTypes, Node
  <2> QED  BY <2>2 DEF Task, Entries
<1> QED  BY <1>1, <1>3, <1>4

(* and an empty list is the empty sequence.                                *)
LEMMA PendingIsEmpty == ~intact \/ ~(queue_size > 0) => Pending = <<>>
BY DEF Pending

(* What dequeue's search finds is what the abstract queue promises.        *)
LEMMA TargetIs ==
    ASSUME QueueTypes, ListInv, intact, NEW s, IsList(s),
           NEW short \in BOOLEAN, ~NothingToDequeue(short)
    PROVE  Fifo!Target(short) = IF Matches(short) = {} THEN 0 ELSE TakenPosition(short) + 1
<1> DEFINE I == {i \in 1..Len(Pending) : (Pending[i].cmd = "long") # short}
           p == TakenPosition(short)
<1>1. Fifo!Target(short) = IF I # {} THEN CHOOSE x \in I : \A y \in I : x =< y ELSE 0
      BY DEF Fifo!Target, Fifo!SelectInSeq, Fifo!Min, TaskIsLong, Pending
<1>2. Len(Pending) = queue_size /\ queue_size \in Nat
      /\ \A i \in 1..queue_size : Pending[i].cmd = heap[s[i]].cmd /\ heap[s[i]].cmd \in Cmd
  <2>1. \A i \in 1..queue_size : Task(s[i]).cmd = heap[s[i]].cmd
        BY DEF Task
  <2>2. \A i \in 1..queue_size : heap[s[i]].cmd \in Cmd
        BY DEF IsList, QueueTypes, Node
  <2>3. queue_size \in Nat
        BY QueueAssumption DEF QueueTypes
  <2> QED  BY <2>1, <2>2, <2>3, PendingIs
<1>3. I = {i \in 1..queue_size : heap[s[i]].cmd = Wanted(short)}
  <2>1. \A i \in 1..queue_size : (Pending[i].cmd = "long") # short <=> heap[s[i]].cmd = Wanted(short)
    <3>1. CASE short = TRUE
          BY <1>2, <3>1 DEF Cmd, Wanted
    <3>2. CASE short = FALSE
          BY <1>2, <3>2 DEF Cmd, Wanted
    <3> QED  BY <3>1, <3>2
  <2> QED  BY <1>2, <2>1
<1> HIDE DEF I
<1>4. CASE Matches(short) = {}
  <2>1. I = {}
        BY <1>3, <1>4, SearchInList
  <2> QED  BY <1>1, <1>4, <2>1
<1>5. CASE Matches(short) # {}
  <2>1. /\ p \in 0..(queue_size - 1) /\ heap[s[p + 1]].cmd = Wanted(short)
        /\ \A i \in 1..p : heap[s[i]].cmd # Wanted(short)
        BY <1>5, SearchInList
  <2>2. p + 1 \in I /\ \A i \in I : p + 1 <= i /\ i \in Nat
        BY <1>2, <1>3, <2>1
  <2>3. (CHOOSE x \in I : \A y \in I : x =< y) = p + 1
        BY <2>1, <2>2
  <2> QED  BY <1>1, <1>5, <2>2, <2>3
<1> QED  BY <1>4, <1>5

(* enqueue is Put, or a stutter when the queue is full or damaged.         *)
LEMMA EnqueueImplements ==
    ASSUME QueueTypes, ListInv, QueueTypes', ListInv',
           NEW fd \in Fd, NEW cmd \in Cmd, Enqueue(fd, cmd)
    PROVE  [Fifo!Next]_(Fifo!vars)
<1>0. (\A s : QueueTypes /\ ListInv /\ intact /\ IsList(s) =>
          /\ Pending \in Seq(Entries) /\ Len(Pending) = queue_size
          /\ \A i \in 1..queue_size : Pending[i] = Task(s[i])
          /\ Pending = [i \in 1..queue_size |-> Pending[i]])'
      BY PendingIs, PTL
<1>1. CASE UNCHANGED queueVars
  <2>1. UNCHANGED Pending /\ UNCHANGED intact
    <3>1. UNCHANGED NodeAt
          BY <1>1 DEF queueVars, NodeAt
    <3> QED  BY <1>1, <3>1 DEF queueVars, Pending, Listed, Positions
  <2> QED  BY <2>1 DEF Fifo!vars, Pending
<1>2. CASE ~intact /\ queue_size # MaxSize
  <2>1. ~intact'
        BY <1>2 DEF Enqueue, StillIntact, queueVars
  <2> QED  BY <1>2, <2>1 DEF Fifo!vars
<1>3. CASE intact /\ queue_size # MaxSize
  <2> DEFINE n == queue_size  t == [netfd |-> fd, cmd |-> cmd]
  <2>1. n \in Nat /\ n < MaxSize
        BY <1>3, QueueAssumption DEF QueueTypes
  <2>2. PICK s : IsList(s) \/ (n = 0 /\ live = {})
        BY <1>3, <2>1 DEF ListInv
  <2>3. intact' /\ n' = n + 1
        BY <1>3, <2>2, EnqueueAppends
  <2>4. PICK new \in Addr \ live : \E u :
           /\ IsList(u)' /\ \A i \in 1..n : u[i] = s[i]
           /\ u[n + 1] = new /\ Task(new)' = t
           /\ \A a \in live : Task(a)' = Task(a)
        BY <1>3, <2>2, EnqueueAppends
  <2>5. PICK u :
           /\ IsList(u)' /\ \A i \in 1..n : u[i] = s[i]
           /\ u[n + 1] = new /\ Task(new)' = t
           /\ \A a \in live : Task(a)' = Task(a)
        BY <2>4
  <2>6. /\ Pending' = [i \in 1..(n + 1) |-> Pending'[i]]
        /\ \A i \in 1..(n + 1) : Pending'[i] = Task(u[i])'
        BY <1>0, <2>3, <2>5
  <2>7. Pending \in Seq(Entries) /\ Len(Pending) = n /\ \A i \in 1..n : Pending[i] = Task(s[i]) /\ s[i] \in live
    <3>1. CASE n = 0
          BY <3>1, PendingIsEmpty
    <3>2. CASE n # 0
          BY <1>3, <2>2, <3>2, PendingIs DEF IsList
    <3> QED  BY <3>1, <3>2
  <2>8. \A i \in 1..n : Task(u[i])' = Task(s[i])
        BY <2>5, <2>7
  <2>9. t \in Entries
        BY DEF Entries
  <2>10. Pending' = Append(Pending, t)
    <3>1. /\ Append(Pending, t) = [i \in 1..(n + 1) |-> Append(Pending, t)[i]]
          /\ \A i \in 1..n : Append(Pending, t)[i] = Pending[i]
          /\ Append(Pending, t)[n + 1] = t
      <4>1. /\ Append(Pending, t) \in Seq(Entries) /\ Len(Append(Pending, t)) = n + 1
            /\ \A i \in 1..n : Append(Pending, t)[i] = Pending[i]
            /\ Append(Pending, t)[n + 1] = t
            BY <2>7, <2>9, AppendProperties
      <4>2. Append(Pending, t) = [i \in 1..Len(Append(Pending, t)) |-> Append(Pending, t)[i]]
            BY <4>1, LenProperties
      <4> QED  BY <4>1, <4>2
    <3>2. ASSUME NEW i \in 1..(n + 1)
          PROVE  Pending'[i] = Append(Pending, t)[i]
      <4>1. CASE i = n + 1
            BY <2>5, <2>6, <3>1, <4>1
      <4>2. CASE i \in 1..n
            BY <2>6, <2>7, <2>8, <3>1, <4>2
      <4>3. i = n + 1 \/ i \in 1..n
            BY <2>1
      <4> QED  BY <4>1, <4>2, <4>3, Zenon
    <3> HIDE DEF t
    <3> QED  BY <2>6, <3>1, <3>2
  <2>11. Fifo!Put(t)
         BY <1>3, <2>1, <2>3, <2>7, <2>10 DEF Fifo!Put, Pending
  <2> QED  BY <2>9, <2>11 DEF Fifo!Next, Entries
<1> QED  BY <1>1, <1>2, <1>3 DEF Enqueue

(* dequeue is the abstract queue's Take or, where the list is damaged,     *)
(* Break.                                                                  *)
LEMMA DequeueImplements ==
    ASSUME QueueTypes, ListInv, QueueTypes', ListInv', NEW short \in BOOLEAN, queue_size > 0,
           ~NothingToDequeue(short), Dequeue(short)
    PROVE  [Fifo!Next]_(Fifo!vars)
<1>0. (\A s : QueueTypes /\ ListInv /\ intact /\ IsList(s) =>
          /\ Pending \in Seq(Entries) /\ Len(Pending) = queue_size
          /\ \A i \in 1..queue_size : Pending[i] = Task(s[i])
          /\ Pending = [i \in 1..queue_size |-> Pending[i]])'
      BY PendingIs, PTL
<1>1. intact
      BY DEF Dequeue
<1>2. CASE intact
  <2> DEFINE n == queue_size  p == TakenPosition(short)  cur == Taken(short)
  <2>1. n \in Nat /\ n >= 1 /\ n' = n - 1
        BY QueueAssumption DEF QueueTypes, Dequeue
  <2>2. PICK s : IsList(s)
        BY <1>2 DEF ListInv
  <2>3. /\ p \in 0..(n - 1) /\ cur = s[p + 1] /\ p + 1 \in 1..n
        /\ \A i \in 1..n : s[i] \in Addr
        /\ \A i, j \in 1..n : s[i] = s[j] => i = j
    <3>1. p \in 0..(n - 1) /\ cur = s[p + 1]
          BY <1>2, <2>2, SearchInList
    <3> QED  BY <2>1, <2>2, <3>1 DEF IsList
  <2>4. /\ \A a \in Addr : a # cur => Task(a)' = Task(a)
        /\ intact' <=> n = 1 \/ p # 0 \/ Matches(short) = {}
        /\ n > 1 /\ intact' =>
               \E t : /\ IsList(t)'
                      /\ \A i \in 1..(n - 1) : t[i] = s[IF i <= p THEN i ELSE i + 1]
        BY <1>2, <2>2, DequeueUnlinks
  <2>5. /\ Pending \in Seq(Entries) /\ Len(Pending) = n
        /\ \A i \in 1..n : Pending[i] = Task(s[i])
        BY <1>2, <2>2, PendingIs
  <2>6. Fifo!Target(short) = IF Matches(short) = {} THEN 0 ELSE p + 1
        BY <1>2, <2>2, TargetIs
  <2>7. Matches(short) = {} => ~short /\ p = 0
        BY <1>2, <2>2, SearchInList
  <2>8. Fifo!RemoveAt(Pending, p + 1) =
            [k \in 1..(n - 1) |-> IF k < p + 1 THEN Pending[k] ELSE Pending[k + 1]]
    <3>1. p + 1 \in 1..Len(Pending)
          BY <2>1, <2>3, <2>5
    <3> HIDE DEF p, n
    <3>2. \A i \in 1..Len(Pending) : Fifo!RemoveAt(Pending, i) =
             [k \in 1..(Len(Pending) - 1) |-> IF k < i THEN Pending[k] ELSE Pending[k + 1]]
          BY <2>5, RemoveAtIs
    <3> QED  BY <2>5, <3>1, <3>2
  <2>9. ASSUME intact'
        PROVE  Fifo!Take(p + 1)
    <3>1. Pending' = Fifo!RemoveAt(Pending, p + 1)
      <4>1. CASE n > 1
        <5>1. PICK t : /\ IsList(t)'
                       /\ \A i \in 1..(n - 1) : t[i] = s[IF i <= p THEN i ELSE i + 1]
              BY <2>4, <2>9, <4>1
        <5>2. /\ Pending' = [i \in 1..(n - 1) |-> Pending'[i]]
              /\ \A i \in 1..(n - 1) : Pending'[i] = Task(t[i])'
              BY <1>0, <2>1, <2>9, <5>1
        <5>3. ASSUME NEW i \in 1..(n - 1)
              PROVE  Pending'[i] = IF i < p + 1 THEN Pending[i] ELSE Pending[i + 1]
          <6>1. PICK j \in 1..n : j = (IF i <= p THEN i ELSE i + 1) /\ t[i] = s[j]
                BY <2>1, <2>3, <5>1
          <6>2. s[j] \in Addr /\ s[j] # cur
                BY <2>1, <2>3, <6>1
          <6>4. Pending'[i] = Task(s[j])' /\ Task(s[j])' = Task(s[j]) /\ Task(s[j]) = Pending[j]
                BY <2>4, <2>5, <5>2, <6>1, <6>2
          <6>3. i < p + 1 <=> i <= p
                BY <2>3
          <6> QED  BY <6>1, <6>3, <6>4
        <5> QED  BY <2>8, <5>2, <5>3
      <4>2. CASE n = 1
        <5>1. Pending' = <<>>
              BY <2>1, <4>2 DEF Pending
        <5>2. Fifo!RemoveAt(Pending, 1) = [k \in 1..0 |-> Pending[k + 1]]
          <6>1. p + 1 = 1 /\ n - 1 = 0 /\ \A k \in 1..0 : FALSE
                BY <2>3, <4>2
          <6> QED  BY <2>8, <6>1
        <5>3. Fifo!RemoveAt(Pending, p + 1) = <<>>
          <6>1. [k \in 1..0 |-> Pending[k + 1]] \in Seq(Entries)
                /\ Len([k \in 1..0 |-> Pending[k + 1]]) = 0
                OBVIOUS
          <6>2. [k \in 1..0 |-> Pending[k + 1]] = <<>>
                BY <6>1, EmptySeq
          <6> QED  BY <2>3, <4>2, <5>2, <6>2
        <5> QED  BY <5>1, <5>3
      <4> QED  BY <2>1, <4>1, <4>2
    <3>2. p + 1 \in 1..Len(Pending)
          BY <2>1, <2>3, <2>5
    <3> QED  BY <1>2, <2>9, <3>1, <3>2 DEF Fifo!Take, Pending
  <2>10. CASE ~intact'
    <3>1. n > 1 /\ p = 0 /\ Fifo!Target(short) = 1
          BY <2>1, <2>4, <2>6, <2>10
    <3>2. Pending' = <<>>
          BY <2>10 DEF Pending
    <3>3. Fifo!Break
          BY <1>2, <2>5, <2>10, <3>1, <3>2 DEF Fifo!Break, Pending
    <3> QED  BY <3>3 DEF Fifo!Next
  <2>11. CASE intact' /\ Matches(short) = {}
    <3>1. short = FALSE /\ p = 0
          BY <2>7, <2>11
    <3>2. Fifo!Target(FALSE) = 0
          BY <2>6, <2>11, <3>1
    <3>3. p + 1 = 1
          BY <3>1
    <3>4. Fifo!Take(1)
          BY <2>9, <2>11, <3>3
    <3> QED  BY <3>2, <3>4 DEF Fifo!TakeForLong, Fifo!Next
  <2>12. CASE intact' /\ Matches(short) # {} /\ p # 0
    <3>1. Fifo!Target(short) = p + 1 /\ p + 1 # 1 /\ p + 1 # 0 /\ Fifo!Take(p + 1)
          BY <2>3, <2>6, <2>9, <2>12
    <3>2. CASE short = TRUE
          BY <3>1, <3>2 DEF Fifo!TakeForShort, Fifo!Next
    <3>3. CASE short = FALSE
          BY <3>1, <3>3 DEF Fifo!TakeForLong, Fifo!Next
    <3> QED  BY <3>2, <3>3
  <2>13. CASE intact' /\ Matches(short) # {} /\ p = 0
    <3>1. n = 1 /\ Fifo!Take(1)
          BY <2>4, <2>9, <2>13
    <3>2. Fifo!TakeLast
          BY <1>2, <2>5, <3>1 DEF Fifo!TakeLast, Pending
    <3> QED  BY <3>2 DEF Fifo!Next
  <2> QED  BY <2>10, <2>11, <2>12, <2>13
<1> QED  BY <1>1, <1>2

-----------------------------------------------------------------------------
(* The specification.                                                      *)

(* Every call of enqueue and dequeue keeps the types and the shape, and is *)
(* a step of the FIFO.                                                     *)
LEMMA QueueInductive ==
    ASSUME QueueTypes, ListInv, [QueueNext]_queueVars
    PROVE  QueueTypes' /\ ListInv' /\ [Fifo!Next]_(Fifo!vars)
<1>1. ASSUME NEW fd \in Fd, NEW cmd \in Cmd, Enqueue(fd, cmd)
      PROVE  QueueTypes' /\ ListInv' /\ [Fifo!Next]_(Fifo!vars)
  <2>1. QueueTypes' /\ ListInv'
        BY <1>1, EnqueueKeepsTypes, EnqueueKeepsList
  <2> QED  BY <1>1, <2>1, EnqueueImplements
<1>2. ASSUME NEW short \in BOOLEAN, ~NothingForMe(short), ~NothingToDequeue(short), Dequeue(short)
      PROVE  QueueTypes' /\ ListInv' /\ [Fifo!Next]_(Fifo!vars)
  <2>1. queue_size > 0
        BY <1>2, QueueAssumption DEF NothingForMe, QueueTypes
  <2>2. QueueTypes' /\ ListInv'
        BY <1>2, <2>1, DequeueKeepsTypes, DequeueKeepsList
  <2> QED  BY <1>2, <2>1, <2>2, DequeueImplements
<1>3. ASSUME NEW short \in BOOLEAN, ~NothingForMe(short), NEW c \in Cmd, DequeueDamaged(c)
      PROVE  QueueTypes' /\ ListInv' /\ [Fifo!Next]_(Fifo!vars)
  <2>1. queue_size > 0
        BY <1>3, QueueAssumption DEF NothingForMe, QueueTypes
  <2>2. QueueTypes' /\ ~intact /\ ~intact'
        BY <1>3, <2>1, DamagedKeepsTypes
  <2> QED  BY <2>2 DEF ListInv, Fifo!vars
<1>4. CASE UNCHANGED queueVars
  <2>1. QueueTypes'
        BY <1>4 DEF queueVars, QueueTypes
  <2>2. ListInv'
        BY <1>4 DEF queueVars, ListInv, IsList, ShortNodes
  <2>3. UNCHANGED Pending /\ UNCHANGED intact
    <3>1. UNCHANGED NodeAt
          BY <1>4 DEF queueVars, NodeAt
    <3> QED  BY <1>4, <3>1 DEF queueVars, Pending, Listed, Positions
  <2> QED  BY <2>1, <2>2, <2>3 DEF Fifo!vars, Pending
<1> QED  BY <1>1, <1>2, <1>3, <1>4 DEF QueueNext

(* Types hold after every sequence of enqueue and dequeue, and the shape   *)
(* of the list until one of them damages it.                               *)
THEOREM QueueInvariant == QueueSpec => [](QueueTypes /\ ListInv)
<1>1. QueueInit => QueueTypes /\ ListInv
      BY InitListInv
<1>2. QueueTypes /\ ListInv /\ [QueueNext]_queueVars => (QueueTypes /\ ListInv)'
      BY QueueInductive
<1> QED  BY <1>1, <1>2, PTL DEF QueueSpec

(* Until the step that damages it, the list of taskQueue.c agrees with     *)
(* queue_size, short_command_size and tail.                                *)
THEOREM ListAgrees == QueueSpec => []ListAgreesWithCounters
BY QueueInvariant, ListInvImplies, PTL

(* Until the list is damaged, a thread whose while condition has let it    *)
(* pass finds a task to take.                                              *)
THEOREM DequeueFinds == QueueSpec => []FindsWhatIsCounted
<1>1. QueueTypes /\ ListInv => FindsWhatIsCounted
  <2> SUFFICES ASSUME QueueTypes, ListInv, intact, NEW short \in BOOLEAN, ~NothingForMe(short)
               PROVE  ~NothingToDequeue(short)
      BY DEF FindsWhatIsCounted
  <2>1. queue_size > 0 /\ (short => short_command_size # 0)
        BY QueueAssumption DEF NothingForMe, QueueTypes
  <2> QED  BY <2>1, ListHasWhatIsCounted
<1> QED  BY <1>1, QueueInvariant, PTL

(* enqueue and dequeue implement the bounded two-class FIFO of TaskFifo.   *)
THEOREM QueueIsFifo == QueueSpec => ImplementsFifo
<1>1. QueueInit => Fifo!Init
      BY DEF QueueInit, Fifo!Init
<1>2. QueueTypes /\ ListInv /\ [QueueNext]_queueVars => [Fifo!Next]_(Fifo!vars)
      BY QueueInductive
<1> QED  BY <1>1, <1>2, QueueInvariant, PTL DEF QueueSpec, ImplementsFifo, Fifo!Spec
=============================================================================
