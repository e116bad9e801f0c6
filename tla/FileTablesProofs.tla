-------------------------- MODULE FileTablesProofs --------------------------
(***************************************************************************)
(* The virtual file system for every number of workers, users, names and   *)
(* rows.  The parts:                                                       *)
(*                                                                         *)
(*   query_cd    what its single pass over the entries returns; the        *)
(*               recursive function of the model is unfolded by counting   *)
(*               up over the positions of the result set                   *)
(*   TreeInv     the rows, the forest of directories and what a worker     *)
(*               keeps between two statements: TypeOK and what query_cd    *)
(*               rests on                                                  *)
(*   NamesInv    one request at a time: the name that was free still is    *)
(*   ParentsInv  one request at a time: a directory with entries stays     *)
(*                                                                         *)
(* The induction theorems of the library take a predicate as a parameter;  *)
(* CountingUp is about a set of numbers, which the provers can             *)
(* instantiate.                                                            *)
(***************************************************************************)
EXTENDS FileTables, FiniteSetTheorems, NaturalsInduction, WellFoundedInduction, TLAPS

-----------------------------------------------------------------------------
(* Numbers.                                                                *)

(* A non-empty set of numbers has a least member,                          *)
LEMMA LeastNat ==
    ASSUME NEW S \in SUBSET Nat, S # {}
    PROVE  \E n \in S : \A m \in S : n <= m
<1>1. PICK n \in S : \A m \in S : <<m, n>> \notin OpToRel(<, Nat)
      BY NatLessThanWellFounded, WFMin
<1>2. \A m \in S : ~(m < n)
      BY <1>1 DEF OpToRel
<1> QED  BY <1>2

(* so a set that has 0 and every successor up to a bound has all numbers   *)
(* up to the bound.                                                        *)
LEMMA CountingUp ==
    ASSUME NEW b \in Nat, NEW S, 0 \in S, \A n \in Nat : n < b /\ n \in S => n + 1 \in S
    PROVE  \A n \in 0..b : n \in S
<1> SUFFICES ASSUME (0..b) \ S # {} PROVE FALSE
    OBVIOUS
<1>0. (0..b) \ S \in SUBSET Nat
      OBVIOUS
<1>1. PICK n \in (0..b) \ S : \A m \in (0..b) \ S : n <= m
      BY <1>0, LeastNat
<1>2. n # 0 /\ n - 1 \in Nat /\ n - 1 < b /\ n - 1 \in 0..b
      BY <1>1
<1>3. n - 1 \in S
      BY <1>1, <1>2
<1>4. (n - 1) + 1 = n
      BY <1>1
<1> QED  BY <1>1, <1>2, <1>3, <1>4

-----------------------------------------------------------------------------
(* The result set of query_cd.                                             *)

(* The rows of a user: finitely many, told apart by their ids.             *)
Keyed(u) ==
    /\ IsFiniteSet(RowOf(u))
    /\ \A r \in RowOf(u) : r.id \in Nat /\ r.file_id \in Nat /\ r.parent_id \in Nat
    /\ \A q, r \in RowOf(u) : q.id = r.id => q = r

Earlier(u, r) == {q \in RowOf(u) : Before(q, r)}
Count(u) == Cardinality(RowOf(u))

(* Each row has a position of its own among the rows of the user.          *)
LEMMA PlaceInOrder ==
    ASSUME NEW u, Keyed(u)
    PROVE  /\ Count(u) \in Nat
           /\ \A r \in RowOf(u) : Cardinality(Earlier(u, r)) \in 0..(Count(u) - 1)
           /\ \A q, r \in RowOf(u) : Before(q, r) =>
                 Cardinality(Earlier(u, q)) < Cardinality(Earlier(u, r))
           /\ \A q, r \in RowOf(u) : q = r \/ Before(q, r) \/ Before(r, q)
<1>1. Count(u) \in Nat
      BY FS_CardinalityType DEF Keyed, Count
<1>2. ASSUME NEW r \in RowOf(u)
      PROVE  /\ IsFiniteSet(Earlier(u, r)) /\ Cardinality(Earlier(u, r)) \in Nat
             /\ Cardinality(Earlier(u, r)) \in 0..(Count(u) - 1)
  <2>1. Earlier(u, r) \in SUBSET RowOf(u) /\ r \notin Earlier(u, r)
        BY DEF Earlier, Before, Keyed
  <2>2. Cardinality(Earlier(u, r)) <= Count(u) /\ Cardinality(Earlier(u, r)) # Count(u)
        BY <2>1, FS_Subset DEF Count, Keyed
  <2>3. IsFiniteSet(Earlier(u, r)) /\ Cardinality(Earlier(u, r)) \in Nat
        BY <2>1, FS_Subset, FS_CardinalityType DEF Keyed
  <2> QED  BY <1>1, <2>2, <2>3
<1>3. ASSUME NEW q \in RowOf(u), NEW r \in RowOf(u), Before(q, r)
      PROVE  Cardinality(Earlier(u, q)) < Cardinality(Earlier(u, r))
  <2>1. Earlier(u, q) \in SUBSET Earlier(u, r) /\ q \in Earlier(u, r) /\ q \notin Earlier(u, q)
        BY <1>3 DEF Earlier, Before, Keyed
  <2>2. /\ Cardinality(Earlier(u, q)) <= Cardinality(Earlier(u, r))
        /\ Cardinality(Earlier(u, q)) # Cardinality(Earlier(u, r))
        BY <1>2, <2>1, FS_Subset
  <2> QED  BY <1>2, <2>2
<1>4. \A q, r \in RowOf(u) : q = r \/ Before(q, r) \/ Before(r, q)
      BY DEF Before, Keyed
<1> QED  BY <1>1, <1>2, <1>3, <1>4

(* "order by file_id" lists every row of the user once, in order.          *)
LEMMA OrderedLists ==
    ASSUME NEW u, Keyed(u)
    PROVE  /\ Count(u) \in Nat
           /\ Ordered(u) \in [1..Count(u) -> RowOf(u)] /\ Len(Ordered(u)) = Count(u)
           /\ \A r \in RowOf(u) : \E i \in 1..Count(u) : Ordered(u)[i] = r
           /\ \A i, j \in 1..Count(u) : i < j => Before(Ordered(u)[i], Ordered(u)[j])
<1> DEFINE R == RowOf(u)
           N == Count(u)
           rank == [r \in R |-> Cardinality(Earlier(u, r))]
<1>1. /\ N \in Nat
      /\ \A r \in R : rank[r] \in 0..(N - 1)
      /\ \A q, r \in R : Before(q, r) => rank[q] < rank[r]
      /\ \A q, r \in R : q = r \/ Before(q, r) \/ Before(r, q)
      BY PlaceInOrder
<1>2. \A q, r \in R : rank[q] = rank[r] => q = r
      BY <1>1
<1>3. rank \in Injection(R, 0..(N - 1))
      BY <1>1, <1>2 DEF Injection, IsInjective
<1>4. IsFiniteSet(0..(N - 1)) /\ Cardinality(0..(N - 1)) = N
      BY <1>1, FS_Interval
<1>5. rank \in Surjection(R, 0..(N - 1))
      BY <1>3, <1>4, FS_Injection DEF Count
<1>6. \A k \in 0..(N - 1) : \E r \in R : rank[r] = k
      BY <1>5 DEF Surjection
<1>7. ASSUME NEW i \in 1..N
      PROVE  Ordered(u)[i] \in R /\ rank[Ordered(u)[i]] = i - 1
  <2>1. i - 1 \in 0..(N - 1)
        BY <1>1
  <2>2. \E r \in R : Cardinality(Earlier(u, r)) = i - 1
        BY <1>6, <2>1
  <2>3. Ordered(u)[i] = CHOOSE r \in R : Cardinality(Earlier(u, r)) = i - 1
        BY DEF Ordered, Count, Earlier
  <2>4. Ordered(u)[i] \in R /\ Cardinality(Earlier(u, Ordered(u)[i])) = i - 1
        BY <2>2, <2>3
  <2> QED  BY <2>4
<1>8. Ordered(u) \in [1..N -> R]
  <2>1. Ordered(u) = [i \in 1..N |-> Ordered(u)[i]]
        BY DEF Ordered, Count
  <2> QED  BY <1>7, <2>1
<1>9. Len(Ordered(u)) = N
      BY <1>1, <1>8
<1>10. ASSUME NEW r \in R
       PROVE  \E i \in 1..N : Ordered(u)[i] = r
  <2>1. rank[r] + 1 \in 1..N /\ (rank[r] + 1) - 1 = rank[r]
        BY <1>1
  <2>2. rank[Ordered(u)[rank[r] + 1]] = rank[r] /\ Ordered(u)[rank[r] + 1] \in R
        BY <1>7, <2>1
  <2> QED  BY <1>2, <2>1, <2>2
<1>11. ASSUME NEW i \in 1..N, NEW j \in 1..N, i < j
       PROVE  Before(Ordered(u)[i], Ordered(u)[j])
  <2>1. /\ Ordered(u)[i] \in R /\ Ordered(u)[j] \in R
        /\ rank[Ordered(u)[i]] = i - 1 /\ rank[Ordered(u)[j]] = j - 1
        BY <1>7
  <2>2. ~(rank[Ordered(u)[j]] < rank[Ordered(u)[i]]) /\ rank[Ordered(u)[j]] # rank[Ordered(u)[i]]
        BY <1>1, <1>11, <2>1
  <2> HIDE DEF rank
  <2> QED  BY <1>1, <2>1, <2>2
<1> QED  BY <1>1, <1>8, <1>9, <1>10, <1>11

(* The pass over them.                                                     *)

(* What the entry at position i makes of the state w of the walk.          *)
After(u, path, w, i) ==
    IF Continues(Ordered(u)[i], path, w.at, w.n)
    THEN [at |-> Ordered(u)[i].file_id, n |-> w.n + 1]
    ELSE w

Reached(path) == [at : Nat, n : 0..Len(path)]

(* The states of the walk over the first k entries.                        *)
IsWalk(f, u, path, k) ==
    /\ f \in [0..k -> Reached(path)]
    /\ f[0] = [at |-> Ordered(u)[1].parent_id, n |-> 0]
    /\ \A i \in 1..k : f[i] = After(u, path, f[i - 1], i)

(* An entry confirms at most one more name of the path.                    *)
LEMMA AfterReaches ==
    ASSUME NEW u, Keyed(u), NEW path \in Seq(Names), NEW w \in Reached(path),
           NEW i \in 1..Count(u)
    PROVE  After(u, path, w, i) \in Reached(path)
<1>1. Ordered(u)[i].file_id \in Nat /\ Len(path) \in Nat
      BY OrderedLists DEF Keyed
<1> QED  BY <1>1 DEF After, Reached, Continues

(* There is such a walk over any number of entries,                        *)
LEMMA WalkExists ==
    ASSUME NEW u, Keyed(u), RowOf(u) # {}, NEW path \in Seq(Names)
    PROVE  \E f : IsWalk(f, u, path, Count(u))
<1> DEFINE N == Count(u)
           S == {k \in Nat : \E f : IsWalk(f, u, path, k)}
<1>1. N \in Nat /\ N > 0 /\ Ordered(u)[1].parent_id \in Nat /\ Len(path) \in Nat
      BY OrderedLists, FS_EmptySet DEF Keyed, Count
<1>2. 0 \in S
  <2>1. IsWalk([k \in 0..0 |-> [at |-> Ordered(u)[1].parent_id, n |-> 0]], u, path, 0)
        BY <1>1 DEF IsWalk, Reached
  <2> QED  BY <2>1
<1>3. ASSUME NEW k \in Nat, k < N, k \in S
      PROVE  k + 1 \in S
  <2>1. PICK f : IsWalk(f, u, path, k)
        BY <1>3
  <2> DEFINE g == [i \in 0..(k + 1) |-> IF i = k + 1 THEN After(u, path, f[k], k + 1) ELSE f[i]]
  <2>2. After(u, path, f[k], k + 1) \in Reached(path)
    <3>1. f[k] \in Reached(path) /\ k + 1 \in 1..Count(u)
          BY <1>1, <1>3, <2>1 DEF IsWalk
    <3> QED  BY <3>1, AfterReaches
  <2>3. g \in [0..(k + 1) -> Reached(path)] /\ g[0] = f[0]
        BY <2>1, <2>2 DEF IsWalk
  <2>4. ASSUME NEW i \in 1..(k + 1)
        PROVE  g[i] = After(u, path, g[i - 1], i)
    <3>1. CASE i = k + 1
          BY <3>1
    <3>2. CASE i # k + 1
      <4>1. i \in 1..k /\ i - 1 # k + 1 /\ i - 1 \in 0..(k + 1) /\ i \in 0..(k + 1)
            BY <3>2
      <4>2. g[i] = f[i] /\ g[i - 1] = f[i - 1]
            BY <4>1
      <4> QED  BY <2>1, <4>1, <4>2 DEF IsWalk
    <3> QED  BY <3>1, <3>2
  <2>5. IsWalk(g, u, path, k + 1)
        BY <2>1, <2>3, <2>4 DEF IsWalk
  <2>6. \E h : IsWalk(h, u, path, k + 1)
        BY <2>5
  <2> QED  BY <2>6
<1> HIDE DEF S, N
<1>4. \A k \in 0..N : k \in S
      BY <1>1, <1>2, <1>3, CountingUp
<1>5. N \in S
      BY <1>1, <1>4
<1> QED  BY <1>5 DEF S, N

(* and query_cd returns where the walk over all entries ends.              *)
LEMMA CdWalks ==
    ASSUME NEW u, Keyed(u), NEW path \in Seq(Names)
    PROVE  IF RowOf(u) = {} THEN query_cd(path, u) = -1
           ELSE \E f : /\ IsWalk(f, u, path, Count(u))
                       /\ query_cd(path, u) = IF f[Count(u)].n = Len(path)
                                              THEN f[Count(u)].at ELSE 0
<1> DEFINE O == Ordered(u)
           N == Count(u)
           D(f) == [i \in 0..Len(O) |->
                       IF i = 0 THEN [at |-> O[1].parent_id, n |-> 0]
                       ELSE LET w == f[i - 1] IN
                            IF Continues(O[i], path, w.at, w.n)
                            THEN [at |-> O[i].file_id, n |-> w.n + 1]
                            ELSE w]
           W == CHOOSE f : f = D(f)
<1>1. N \in Nat /\ O \in [1..N -> RowOf(u)] /\ Len(O) = N /\ (N = 0 <=> RowOf(u) = {})
      BY OrderedLists, FS_EmptySet DEF Keyed, Count
<1>2. O = <<>> <=> RowOf(u) = {}
      BY <1>1
<1>3. query_cd(path, u) = IF O = <<>> THEN -1
                          ELSE IF W[Len(O)].n = Len(path) THEN W[Len(O)].at ELSE 0
      BY DEF query_cd
<1>4. ASSUME RowOf(u) # {}
      PROVE  IsWalk(W, u, path, N)
  <2>1. PICK f : IsWalk(f, u, path, N)
        BY <1>4, WalkExists
  <2>2. f = D(f)
    <3>1. f \in [0..N -> Reached(path)]
          BY <2>1 DEF IsWalk
    <3>2. ASSUME NEW i \in 0..N
          PROVE  f[i] = D(f)[i]
      <4>1. CASE i = 0
            BY <1>1, <2>1, <4>1 DEF IsWalk
      <4>2. CASE i # 0
        <5>1. i \in 1..N /\ i \in 0..Len(O)
              BY <1>1, <4>2
        <5>2. f[i] = After(u, path, f[i - 1], i)
              BY <2>1, <5>1 DEF IsWalk
        <5>3. D(f)[i] = After(u, path, f[i - 1], i)
              BY <4>2, <5>1 DEF After
        <5> HIDE DEF D
        <5> QED  BY <5>2, <5>3
      <4> QED  BY <4>1, <4>2
    <3>3. D(f) = [i \in 0..N |-> D(f)[i]]
          BY <1>1
    <3> HIDE DEF D
    <3> QED  BY <3>1, <3>2, <3>3
  <2>3. W = D(W)
    <3> HIDE DEF D
    <3> QED  BY <2>2, Zenon
  <2>4. DOMAIN W = 0..N /\ W = [i \in 0..N |-> W[i]]
    <3>1. D(W) = [i \in 0..N |-> D(W)[i]]
          BY <1>1
    <3> HIDE DEF D, W
    <3> QED  BY <2>3, <3>1
  <2>5. \A i \in 0..N : W[i] = D(W)[i]
    <3> HIDE DEF D, W
    <3> QED  BY <2>3
  <2>6. W[0] = [at |-> O[1].parent_id, n |-> 0]
    <3> HIDE DEF W
    <3>1. 0 \in 0..Len(O) /\ 0 \in 0..N
          BY <1>1
    <3>2. D(W)[0] = [at |-> O[1].parent_id, n |-> 0]
          BY <3>1
    <3> HIDE DEF D
    <3> QED  BY <2>5, <3>1, <3>2
  <2>7. \A i \in 1..N : W[i] = After(u, path, W[i - 1], i)
    <3> HIDE DEF W
    <3> QED  BY <1>1, <2>5 DEF After
  <2> HIDE DEF W, D
  <2>8. \A i \in 0..N : W[i] = f[i]
    <3> DEFINE S == {i \in Nat : W[i] = f[i]}
    <3>1. 0 \in S
          BY <2>1, <2>6 DEF IsWalk
    <3>2. ASSUME NEW i \in Nat, i < N, i \in S
          PROVE  i + 1 \in S
      <4>1. i + 1 \in 1..N /\ (i + 1) - 1 = i
            BY <1>1, <3>2
      <4>2. W[i + 1] = After(u, path, W[i], i + 1) /\ f[i + 1] = After(u, path, f[i], i + 1)
            BY <2>1, <2>7, <4>1 DEF IsWalk
      <4> QED  BY <3>2, <4>2
    <3> HIDE DEF S
    <3>3. \A i \in 0..N : i \in S
          BY <1>1, <3>1, <3>2, CountingUp
    <3> QED  BY <3>3 DEF S
  <2>9. W \in [0..N -> Reached(path)]
        BY <2>1, <2>4, <2>8 DEF IsWalk
  <2> QED  BY <2>6, <2>7, <2>9 DEF IsWalk
<1> HIDE DEF W, D
<1> QED  BY <1>1, <1>2, <1>3, <1>4

-----------------------------------------------------------------------------
(* What query_cd returns.                                                  *)

(* Entries of the user lead from the parent of the first row to where the  *)
(* walk is, under the names it has confirmed.                              *)
Confirmed(u, path, w) ==
    \E e \in [1..w.n -> RowOf(u)] :
        /\ w.at = IF w.n = 0 THEN Ordered(u)[1].parent_id ELSE e[w.n].file_id
        /\ w.n > 0 => e[1].parent_id = Ordered(u)[1].parent_id
        /\ \A i \in 1..w.n : e[i].name = path[i]
        /\ \A i \in 1..(w.n - 1) : e[i + 1].parent_id = e[i].file_id

(* They do at every position of the pass.                                  *)
LEMMA WalkConfirms ==
    ASSUME NEW u, Keyed(u), NEW path \in Seq(Names), NEW f, IsWalk(f, u, path, Count(u))
    PROVE  \A i \in 0..Count(u) : Confirmed(u, path, f[i])
<1> DEFINE N == Count(u)
           O == Ordered(u)
           S == {i \in Nat : Confirmed(u, path, f[i])}
<1>1. /\ N \in Nat /\ O \in [1..N -> RowOf(u)] /\ Len(path) \in Nat
      /\ f \in [0..N -> Reached(path)]
      BY OrderedLists DEF IsWalk
<1>2. 0 \in S
  <2>1. f[0] = [at |-> O[1].parent_id, n |-> 0]
        BY DEF IsWalk
  <2> DEFINE e == [j \in 1..0 |-> f]
             w == f[0]
  <2>2. w.n = 0 /\ w.at = O[1].parent_id
        BY <2>1
  <2>3. e \in [1..w.n -> RowOf(u)] /\ \A j \in 1..w.n : FALSE
        BY <2>2
  <2>4. 1..(w.n - 1) = {} /\ ~(w.n > 0)
        BY <2>2
  <2> HIDE DEF e, w
  <2>5. Confirmed(u, path, w)
        BY <2>2, <2>3, <2>4 DEF Confirmed
  <2>6. Confirmed(u, path, f[0])
        BY <2>5 DEF w
  <2> QED  BY <2>6
<1>3. ASSUME NEW i \in Nat, i < N, i \in S
      PROVE  i + 1 \in S
  <2>0. i + 1 \in 1..N /\ (i + 1) - 1 = i /\ i \in 0..N
        BY <1>1, <1>3
  <2>1. /\ i + 1 \in 1..N /\ f[i] \in Reached(path)
        /\ f[i + 1] = After(u, path, f[i], i + 1)
        BY <1>1, <2>0 DEF IsWalk
  <2> DEFINE w == f[i]
             r == O[i + 1]
  <2>2. w.n \in Nat /\ r \in RowOf(u)
        BY <1>1, <2>1 DEF Reached
  <2>3. CASE ~Continues(r, path, w.at, w.n)
        BY <1>3, <2>1, <2>3 DEF After
  <2>4. CASE Continues(r, path, w.at, w.n)
    <3>1. f[i + 1] = [at |-> r.file_id, n |-> w.n + 1]
          BY <2>1, <2>4 DEF After
    <3>2. PICK e \in [1..w.n -> RowOf(u)] :
             /\ w.at = IF w.n = 0 THEN O[1].parent_id ELSE e[w.n].file_id
             /\ w.n > 0 => e[1].parent_id = O[1].parent_id
             /\ \A j \in 1..w.n : e[j].name = path[j]
             /\ \A j \in 1..(w.n - 1) : e[j + 1].parent_id = e[j].file_id
          BY <1>3 DEF Confirmed
    <3> DEFINE g == [j \in 1..(w.n + 1) |-> IF j = w.n + 1 THEN r ELSE e[j]]
    <3>3. g \in [1..(w.n + 1) -> RowOf(u)]
          BY <2>2
    <3>4. g[w.n + 1] = r /\ \A j \in 1..w.n : g[j] = e[j]
          BY <2>2
    <3>5. r.name = path[w.n + 1] /\ r.parent_id = w.at
          BY <2>4 DEF Continues
    <3> HIDE DEF g, w, r
    <3>6. g[1].parent_id = O[1].parent_id
          BY <2>2, <3>2, <3>4, <3>5
    <3>7. \A j \in 1..(w.n + 1) : g[j].name = path[j]
      <4> SUFFICES ASSUME NEW j \in 1..(w.n + 1) PROVE g[j].name = path[j]
          OBVIOUS
      <4>1. j = w.n + 1 \/ j \in 1..w.n
            BY <2>2
      <4> QED  BY <3>2, <3>4, <3>5, <4>1
    <3>8. \A j \in 1..w.n : g[j + 1].parent_id = g[j].file_id
      <4> SUFFICES ASSUME NEW j \in 1..w.n PROVE g[j + 1].parent_id = g[j].file_id
          OBVIOUS
      <4>1. CASE j = w.n
            BY <2>2, <3>2, <3>4, <3>5, <4>1
      <4>2. CASE j # w.n
        <5>1. j \in 1..(w.n - 1) /\ j + 1 \in 1..w.n
              BY <2>2, <4>2
        <5> QED  BY <3>2, <3>4, <5>1
      <4> QED  BY <4>1, <4>2
    <3>9. Confirmed(u, path, [at |-> r.file_id, n |-> w.n + 1])
      <4>1. (w.n + 1) - 1 = w.n /\ w.n + 1 # 0
            BY <2>2
      <4> QED  BY <3>3, <3>4, <3>6, <3>7, <3>8, <4>1 DEF Confirmed
    <3> QED  BY <3>1, <3>9
  <2> QED  BY <2>3, <2>4
<1> HIDE DEF S, N
<1>4. \A i \in 0..N : i \in S
      BY <1>1, <1>2, <1>3, CountingUp
<1> QED  BY <1>4 DEF S, N

(* It returns an id above 0 only of an entry of the user, to which entries *)
(* of the user lead along the path.                                        *)
LEMMA CdReturns ==
    ASSUME NEW u, Keyed(u), NEW path \in Seq(Names), path # <<>>
    PROVE  /\ query_cd(path, u) \in Int
           /\ query_cd(path, u) > 0 => \E e \in Chains(u, path) :
                 /\ e[Len(path)].file_id = query_cd(path, u)
                 /\ e[1].parent_id = Ordered(u)[1].parent_id
                 /\ \A i \in 1..Len(path) : e[i].name = path[i]
                 /\ \A i \in 1..(Len(path) - 1) : e[i + 1].parent_id = e[i].file_id
<1>1. Len(path) \in Nat /\ Len(path) > 0 /\ Count(u) \in Nat
      BY OrderedLists
<1>2. CASE RowOf(u) = {}
      BY <1>2, CdWalks
<1>3. CASE RowOf(u) # {}
  <2>1. PICK f : /\ IsWalk(f, u, path, Count(u))
                 /\ query_cd(path, u) = IF f[Count(u)].n = Len(path) THEN f[Count(u)].at ELSE 0
        BY <1>3, CdWalks
  <2>2. f[Count(u)] \in Reached(path)
        BY <1>1, <2>1 DEF IsWalk
  <2>3. Confirmed(u, path, f[Count(u)])
        BY <1>1, <2>1, WalkConfirms
  <2>4. CASE f[Count(u)].n = Len(path)
        BY <1>1, <2>1, <2>2, <2>3, <2>4 DEF Confirmed, Chains, Reached
  <2> QED  BY <2>1, <2>4
<1> QED  BY <1>2, <1>3

(* Where the root directory has one entry, and that has the lowest file    *)
(* id, the pass begins with it,                                            *)
RootEntry(u) ==
    \A q, r \in RowOf(u) : r.parent_id = Null /\ q.file_id = r.file_id => q = r

(* since the row with the lowest file id is listed first,                  *)
LEMMA RootIsFirst ==
    ASSUME NEW u, Keyed(u), RootFirst(u), RootEntry(u)
    PROVE  Ordered(u)[1].parent_id = Null
<1>1. PICK root \in RowOf(u) :
         root.parent_id = Null /\ \A r \in RowOf(u) : root.file_id <= r.file_id
      BY DEF RootFirst
<1>2. PICK i \in 1..Count(u) : Ordered(u)[i] = root
      BY OrderedLists
<1>3. Count(u) \in Nat /\ 1 \in 1..Count(u) /\ Ordered(u)[1] \in RowOf(u)
      BY <1>2, OrderedLists
<1>4. i = 1 \/ Before(Ordered(u)[1], root)
      BY <1>2, <1>3, OrderedLists
<1>5. CASE Before(Ordered(u)[1], root)
  <2>1. Ordered(u)[1].file_id <= root.file_id /\ root.file_id <= Ordered(u)[1].file_id
        BY <1>1, <1>3, <1>5 DEF Before, Keyed
  <2>2. Ordered(u)[1].file_id = root.file_id
        BY <1>3, <2>1 DEF Keyed
  <2> QED  BY <1>1, <1>3, <2>2 DEF RootEntry
<1> QED  BY <1>1, <1>2, <1>4, <1>5

(* and what query_cd returns is where the path leads from the root.        *)
LEMMA CdFollows ==
    ASSUME NEW u, Keyed(u), RootFirst(u), RootEntry(u), NEW path \in Seq(Names), path # <<>>,
           query_cd(path, u) > 0
    PROVE  \E e \in Chains(u, path) : Leads(u, path, e, query_cd(path, u))
BY CdReturns, RootIsFirst DEF Leads

(* Entries that lead along the path, each after the one before it and each *)
(* the only one of its name in its directory, are followed to the end.     *)
LEMMA CdFinds ==
    ASSUME NEW u, Keyed(u), NEW path \in Seq(Names), path # <<>>,
           Ordered(u)[1].parent_id = Null, NEW e \in Chains(u, path),
           Leads(u, path, e, e[Len(path)].file_id),
           \A i \in 1..(Len(path) - 1) : e[i].file_id < e[i + 1].file_id,
           \A i \in 1..Len(path) : \A r \in RowOf(u) :
               r.name = e[i].name /\ r.parent_id = e[i].parent_id => r = e[i]
    PROVE  query_cd(path, u) = e[Len(path)].file_id
<1> DEFINE N == Count(u)
           O == Ordered(u)
           L == Len(path)
           at(k) == IF k = 0 THEN Null ELSE e[k].file_id
<1>1. /\ N \in Nat /\ L \in Nat /\ L > 0 /\ O \in [1..N -> RowOf(u)]
      /\ \A i \in 1..L : e[i] \in RowOf(u)
  <2>1. L \in Nat /\ L > 0
        OBVIOUS
  <2>2. N \in Nat /\ O \in [1..N -> RowOf(u)]
        BY OrderedLists
  <2>3. \A i \in 1..L : e[i] \in RowOf(u)
        BY DEF Chains
  <2> QED  BY <2>1, <2>2, <2>3
<1>2. PICK f : /\ IsWalk(f, u, path, N)
               /\ query_cd(path, u) = IF f[N].n = L THEN f[N].at ELSE 0
      BY <1>1, CdWalks
<1> DEFINE p == [i \in 1..L |-> CHOOSE j \in 1..N : O[j] = e[i]]
<1>3. \A i \in 1..L : p[i] \in 1..N /\ O[p[i]] = e[i]
      BY <1>1, OrderedLists
<1> HIDE DEF p
<1>4. \A i \in 1..(L - 1) : p[i] < p[i + 1]
  <2> SUFFICES ASSUME NEW i \in 1..(L - 1) PROVE p[i] < p[i + 1]
      OBVIOUS
  <2>1. i \in 1..L /\ i + 1 \in 1..L
        BY <1>1
  <2>2. e[i].file_id < e[i + 1].file_id /\ e[i].file_id \in Nat /\ e[i + 1].file_id \in Nat
        BY <1>1, <2>1 DEF Keyed
  <2>3. ~Before(e[i + 1], e[i]) /\ e[i] # e[i + 1]
        BY <2>2 DEF Before
  <2>4. p[i] \in 1..N /\ p[i + 1] \in 1..N /\ O[p[i]] = e[i] /\ O[p[i + 1]] = e[i + 1]
        BY <1>3, <2>1
  <2>5. ~(p[i + 1] < p[i])
        BY <2>3, <2>4, OrderedLists
  <2>6. p[i] # p[i + 1]
        BY <2>3, <2>4
  <2> QED  BY <1>1, <2>4, <2>5, <2>6
<1> DEFINE Follows(j) == \E k \in 0..L : /\ f[j] = [at |-> at(k), n |-> k]
                                         /\ k < L => p[k + 1] > j
           S == {j \in Nat : Follows(j)}
<1>5. 0 \in S
  <2>1. f[0] = [at |-> at(0), n |-> 0]
        BY <1>2 DEF IsWalk
  <2>2. p[1] > 0
        BY <1>1, <1>3
  <2> QED  BY <1>1, <2>1, <2>2
<1>6. ASSUME NEW j \in Nat, j < N, j \in S
      PROVE  j + 1 \in S
  <2>1. PICK k \in 0..L : f[j] = [at |-> at(k), n |-> k] /\ (k < L => p[k + 1] > j)
        BY <1>6
  <2>2. j + 1 \in 1..N /\ (j + 1) - 1 = j
        BY <1>1, <1>6
  <2>3. f[j + 1] = After(u, path, f[j], j + 1)
        BY <1>2, <2>2 DEF IsWalk
  <2>4. k \in Nat /\ f[j].n = k /\ f[j].at = at(k)
        BY <2>1
  <2>5. k < L => e[k + 1].parent_id = at(k) /\ e[k + 1].name = path[k + 1] /\ k + 1 \in 1..L
    <3> SUFFICES ASSUME k < L
                 PROVE  e[k + 1].parent_id = at(k) /\ e[k + 1].name = path[k + 1] /\ k + 1 \in 1..L
        OBVIOUS
    <3>1. k + 1 \in 1..L
          BY <1>1, <2>4
    <3>2. CASE k = 0
          BY <3>1, <3>2 DEF Leads
    <3>3. CASE k # 0
      <4>1. k \in 1..(L - 1)
            BY <1>1, <2>4, <3>3
      <4> QED  BY <3>1, <3>3, <4>1 DEF Leads
    <3> QED  BY <3>2, <3>3
  <2>6. CASE k < L /\ p[k + 1] = j + 1
    <3>1. O[j + 1] = e[k + 1] /\ k + 1 \in 1..L
          BY <1>3, <2>5, <2>6
    <3>2. Continues(O[j + 1], path, f[j].at, f[j].n)
          BY <2>4, <2>5, <2>6, <3>1 DEF Continues
    <3>3. f[j + 1] = [at |-> e[k + 1].file_id, n |-> k + 1]
          BY <2>3, <2>4, <3>1, <3>2 DEF After
    <3>4. at(k + 1) = e[k + 1].file_id /\ k + 1 \in 0..L
          BY <1>1, <2>4, <3>1
    <3>5. k + 1 < L => p[(k + 1) + 1] > j + 1
      <4> SUFFICES ASSUME k + 1 < L PROVE p[(k + 1) + 1] > j + 1
          OBVIOUS
      <4>1. k + 1 \in 1..(L - 1) /\ (k + 1) + 1 \in 1..L
            BY <1>1, <2>4
      <4>2. p[k + 1] < p[(k + 1) + 1] /\ p[(k + 1) + 1] \in 1..N
            BY <1>3, <1>4, <4>1
      <4> QED  BY <2>6, <4>2
    <3> HIDE DEF at
    <3>6. Follows(j + 1)
          BY <3>3, <3>4, <3>5
    <3> QED  BY <3>6
  <2>7. CASE ~(k < L /\ p[k + 1] = j + 1)
    <3>1. ~Continues(O[j + 1], path, f[j].at, f[j].n)
      <4> SUFFICES ASSUME Continues(O[j + 1], path, f[j].at, f[j].n) PROVE FALSE
          OBVIOUS
      <4>1. k < L /\ O[j + 1].name = path[k + 1] /\ O[j + 1].parent_id = at(k)
            BY <2>4 DEF Continues
      <4>2. O[j + 1] = e[k + 1]
            BY <1>1, <2>2, <2>5, <4>1
      <4>3. p[k + 1] \in 1..N /\ O[p[k + 1]] = e[k + 1]
            BY <1>3, <2>5, <4>1
      <4>4. p[k + 1] = j + 1
        <5>0. e[k + 1] \in RowOf(u)
              BY <1>1, <2>5, <4>1
        <5>1. ~Before(e[k + 1], e[k + 1])
              BY <5>0 DEF Before, Keyed
        <5>2. \A i, m \in 1..N : i < m => Before(O[i], O[m])
              BY OrderedLists
        <5>3. ~(p[k + 1] < j + 1) /\ ~(j + 1 < p[k + 1])
              BY <2>2, <4>2, <4>3, <5>1, <5>2
        <5> QED  BY <1>1, <2>2, <4>3, <5>3
      <4> QED  BY <2>7, <4>1, <4>4
    <3>2. f[j + 1] = f[j]
          BY <2>3, <3>1 DEF After
    <3>3. k < L => p[k + 1] > j + 1
      <4> SUFFICES ASSUME k < L PROVE p[k + 1] > j + 1
          OBVIOUS
      <4>1. p[k + 1] \in 1..N
            BY <1>3, <2>5
      <4> QED  BY <1>1, <2>1, <2>7, <4>1
    <3> HIDE DEF at
    <3>4. Follows(j + 1)
          BY <2>1, <3>2, <3>3
    <3> QED  BY <3>4
  <2> QED  BY <2>6, <2>7
<1> HIDE DEF S, N, L
<1>7. \A j \in 0..N : j \in S
      BY <1>1, <1>5, <1>6, CountingUp
<1>8. Follows(N)
      BY <1>1, <1>7 DEF S
<1>9. PICK k \in 0..L : f[N] = [at |-> at(k), n |-> k] /\ (k < L => p[k + 1] > N)
      BY <1>8
<1>10. k = L
  <2> SUFFICES ASSUME k < L PROVE FALSE
      BY <1>1, <1>9
  <2>1. k + 1 \in 1..L
        BY <1>1
  <2>2. p[k + 1] \in 1..N
        BY <1>3, <2>1
  <2> QED  BY <1>1, <1>9, <2>2
<1> QED  BY <1>1, <1>2, <1>9, <1>10 DEF L

-----------------------------------------------------------------------------
(* The tables, and the places of the workers.                              *)

(* Rows are keyed, the directories form a forest, a user has one root, and *)
(* no digest leads to a directory.                                         *)
Tree ==
    /\ user \in Seq(Accounts) /\ file \in Seq(FileRow) /\ last_row \in Nat
    /\ user_file \subseteq EntryRow /\ IsFiniteSet(user_file)
    /\ \A q, r \in user_file : q.id = r.id => q = r
    /\ \A f \in FileIds : file[f].type = "dir" => file[f].hash = NoHash
    /\ DirectoriesFormATree
    /\ \A r \in user_file : r.parent_id = Null => IsDir(r.file_id)
    /\ \A q, r \in user_file :
          q.parent_id = Null /\ r.parent_id = Null /\ q.user_id = r.user_id => q = r

Request == [op : Ops \cup {"none"}, user : Nat, path : Seq(Names), name : Names \cup {""},
            hash : Hashes \cup {NoHash}, dir : Nat, file : Nat]
Typed == pc \in [Workers -> Labels] /\ task \in [Workers -> Request]

PutsLabels == {"puts", "puts_name", "puts_same", "puts_hash", "puts_insert", "puts_link",
               "puts_link_complete"}
NamingLabels == PutsLabels \cup {"mkdir", "mkdir_check", "mkdir_insert"}

(* A directory among the entries is the user's own.                        *)
OwnDir(d, u) == \A r \in user_file : r.file_id = d /\ IsDir(d) => r.user_id = u

(* What a worker's variables are fit for at its next statement.            *)
Place(w) ==
    /\ pc[w] \in {"register", "register_insert"} => task[w].name \in Accounts
    /\ pc[w] \notin {"idle", "register", "register_insert"} =>
          task[w].user \in 1..Len(user) /\ task[w].path # <<>>
    /\ pc[w] \in NamingLabels => task[w].name \in Names
    /\ pc[w] \in PutsLabels => task[w].hash \in Hashes
    /\ pc[w] \in DirLabels \cup FileLabels =>
          task[w].dir \in FileIds /\ OwnDir(task[w].dir, task[w].user)
    /\ pc[w] \in FileLabels => task[w].file \in FileIds
    /\ pc[w] \in {"puts_link", "puts_link_complete"} => ~IsDir(task[w].file)

TreeInv ==
    /\ Tree
    /\ Typed
    /\ crashed \in BOOLEAN
    /\ \A w \in Workers : Place(w)

(* The rows of a user as query_cd needs them.                              *)
LEMMA RowsAreKeyed ==
    ASSUME Tree, NEW u
    PROVE  /\ Keyed(u) /\ RootEntry(u)
           /\ \A r \in RowOf(u) : r.file_id \in FileIds /\ r \in user_file /\ r.user_id = u
<1>1. RowOf(u) \in SUBSET user_file /\ \A r \in RowOf(u) : r \in EntryRow /\ r.user_id = u
      BY DEF RowOf, Tree
<1>2. IsFiniteSet(RowOf(u))
      BY <1>1, FS_Subset DEF Tree
<1>3. Len(user) \in Nat /\ Len(file) \in Nat /\ last_row \in Nat
      BY DEF Tree
<1>4. \A r \in RowOf(u) : /\ r.id \in Nat /\ r.file_id \in FileIds /\ r.file_id \in Nat
                          /\ r.parent_id \in Nat
      BY <1>1, <1>3 DEF EntryRow, FileIds, Null
<1>5. Keyed(u)
      BY <1>1, <1>2, <1>4 DEF Keyed, Tree
<1>6. RootEntry(u)
      BY <1>1 DEF RootEntry, Tree, DirectoriesFormATree
<1> QED  BY <1>1, <1>4, <1>5, <1>6

(* The directory query_cd returns leads a row of the user.                 *)
LEMMA CdIsOwn ==
    ASSUME Tree, NEW u, NEW path \in Seq(Names), path # <<>>, query_cd(path, u) > 0
    PROVE  /\ query_cd(path, u) \in FileIds /\ OwnDir(query_cd(path, u), u)
           /\ \E q \in user_file : q.file_id = query_cd(path, u) /\ q.user_id = u
<1>1. PICK e \in Chains(u, path) : e[Len(path)].file_id = query_cd(path, u)
      BY RowsAreKeyed, CdReturns
<1>2. e[Len(path)] \in RowOf(u)
  <2>1. Len(path) \in Nat /\ Len(path) > 0
        OBVIOUS
  <2> QED  BY <2>1 DEF Chains
<1> DEFINE d == query_cd(path, u)
           q == e[Len(path)]
<1>3. q \in user_file /\ q.file_id = d /\ q.user_id = u /\ d \in FileIds
      BY <1>1, <1>2, RowsAreKeyed
<1> HIDE DEF d, q
<1>4. OwnDir(d, u)
      BY <1>3 DEF OwnDir, Tree, DirectoriesFormATree
<1>5. \E r \in user_file : r.file_id = d /\ r.user_id = u
      BY <1>3
<1> QED  BY <1>3, <1>4, <1>5 DEF d

-----------------------------------------------------------------------------
(* What a step does to the places.                                         *)

(* The tables grow, or lose entries, and no old directory gets an entry.   *)
Grown ==
    /\ Len(user) <= Len(user)' /\ Len(file) <= Len(file)'
    /\ \A f \in FileIds : file'[f].type = file[f].type
    /\ \A r \in user_file' : r \in user_file \/ ~ IsDir(r.file_id)

(* What a worker keeps stays fit while another one inserts or removes.     *)
LEMMA PlaceStays ==
    ASSUME Tree, Tree', Grown, NEW v \in Workers, Place(v), pc'[v] = pc[v], task'[v] = task[v]
    PROVE  Place(v)'
<1>1. Len(user) \in Nat /\ Len(file) \in Nat /\ Len(user)' \in Nat /\ Len(file)' \in Nat
      BY DEF Tree
<1>2. 1..Len(user) \subseteq 1..Len(user)' /\ FileIds \subseteq FileIds'
      BY <1>1 DEF Grown, FileIds
<1>3. \A d \in FileIds : IsDir(d)' <=> IsDir(d)
      BY <1>2 DEF Grown, IsDir
<1>4. \A d \in FileIds : OwnDir(d, task[v].user) => OwnDir(d, task[v].user)'
  <2> SUFFICES ASSUME NEW d \in FileIds, OwnDir(d, task[v].user),
                      NEW r \in user_file', r.file_id = d, IsDir(d)'
               PROVE  r.user_id = task'[v].user
      BY DEF OwnDir
  <2> QED  BY <1>3 DEF OwnDir, Grown
<1>5. pc[v] \in DirLabels \cup FileLabels =>
         task'[v].dir \in FileIds' /\ OwnDir(task[v].dir, task[v].user)'
      BY <1>2, <1>4 DEF Place, OwnDir
<1>6. pc[v] \in FileLabels => task'[v].file \in FileIds'
      BY <1>2 DEF Place
<1>7. pc[v] \in {"puts_link", "puts_link_complete"} => ~IsDir(task[v].file)'
      BY <1>3 DEF Place, FileLabels, IsDir
<1>8. pc[v] \notin {"idle", "register", "register_insert"} =>
          task'[v].user \in 1..Len(user)' /\ task'[v].path # <<>>
      BY <1>2 DEF Place
<1> QED  BY <1>5, <1>6, <1>7, <1>8 DEF Place

(* A step of worker w leaves the others alone.                             *)
Others(w) == \A v \in Workers : v # w => pc'[v] = pc[v] /\ task'[v] = task[v]

(* One worker steps: its own place and the tables decide.                  *)
LEMMA StepKeepsTree ==
    ASSUME TreeInv, NEW w \in Workers, Tree', Grown, Typed', crashed' \in BOOLEAN, Others(w),
           Place(w)'
    PROVE  TreeInv'
<1>1. ASSUME NEW v \in Workers
      PROVE  Place(v)'
      BY <1>1, PlaceStays DEF TreeInv, Others
<1> QED  BY <1>1 DEF TreeInv

(* Statements that only read.                                              *)
LEMMA ReadsKeepTables ==
    ASSUME Tree, UNCHANGED tables
    PROVE  Tree' /\ Grown
<1>1. UNCHANGED <<user, file, user_file, last_row>>
      BY DEF tables
<1>2. Tree'
      BY <1>1 DEF Tree, FileIds, FileRow, EntryRow, DirectoriesFormATree, IsDir
<1>3. Grown
      BY <1>1 DEF Tree, Grown, FileIds
<1> QED  BY <1>2, <1>3

(* A worker without a request has the variables it starts with.            *)
LEMMA NothingAsked == NoTask \in Request
BY DEF NoTask, Request

(* An answer leaves nothing behind.                                        *)
LEMMA ReturnsIdle ==
    ASSUME Typed, NEW w \in Workers, NEW code, Return(w, code)
    PROVE  Typed' /\ Others(w) /\ Place(w)' /\ pc'[w] = "idle"
<1>1. pc' = [pc EXCEPT ![w] = "idle"] /\ task' = [task EXCEPT ![w] = NoTask]
      BY DEF Return, Goto
<1>2. NoTask \in Request
      BY NothingAsked
<1>3. pc' \in [Workers -> Labels] /\ task' \in [Workers -> Request]
      BY <1>1, <1>2 DEF Typed, Labels
<1>4. pc'[w] = "idle" /\ Others(w)
      BY <1>1 DEF Typed, Others
<1>5. Place(w)'
      BY <1>4 DEF Place, PutsLabels, NamingLabels, DirLabels, FileLabels
<1> QED  BY <1>3, <1>4, <1>5 DEF Typed

(* Going on changes one variable of one worker at most.                    *)
LEMMA GoesOn ==
    ASSUME Typed, NEW w \in Workers, NEW l \in Labels, Goto(w, l),
           \/ UNCHANGED task
           \/ \E n \in Nat : task' = [task EXCEPT ![w].file = n]
           \/ \E n \in Nat : task' = [task EXCEPT ![w].dir = n]
    PROVE  /\ Typed' /\ Others(w) /\ pc'[w] = l
           /\ task'[w].user = task[w].user /\ task'[w].path = task[w].path
           /\ task'[w].name = task[w].name /\ task'[w].hash = task[w].hash
<1>1. pc' \in [Workers -> Labels] /\ pc'[w] = l /\ \A v \in Workers : v # w => pc'[v] = pc[v]
      BY DEF Goto, Typed
<1>2. task[w] \in Request
      BY DEF Typed
<1> DEFINE Kept == /\ task' \in [Workers -> Request]
                   /\ \A v \in Workers : v # w => task'[v] = task[v]
                   /\ task'[w].user = task[w].user /\ task'[w].path = task[w].path
                   /\ task'[w].name = task[w].name /\ task'[w].hash = task[w].hash
<1>3. Kept
  <2>1. CASE UNCHANGED task
        BY <2>1 DEF Typed
  <2>2. ASSUME NEW n \in Nat, task' = [task EXCEPT ![w].file = n]
        PROVE  Kept
        BY <1>2, <2>2 DEF Typed, Request
  <2>3. ASSUME NEW n \in Nat, task' = [task EXCEPT ![w].dir = n]
        PROVE  Kept
        BY <1>2, <2>3 DEF Typed, Request
  <2> QED  BY <2>1, <2>2, <2>3
<1> QED  BY <1>1, <1>3 DEF Typed, Others

-----------------------------------------------------------------------------
(* The statements.                                                         *)

(* A statement that inserts an entry: of a new directory, below one of the *)
(* user's own or as the root of a new user, or of a file.                  *)
LEMMA EntryKeepsTree ==
    ASSUME Tree, NEW n \in Names, NEW u \in 1..Len(user)', NEW f \in FileIds',
           NEW p \in FileIds \cup {Null},
           user' \in Seq(Accounts), file' \in Seq(FileRow),
           Len(user) <= Len(user)', Len(file) <= Len(file)',
           \A g \in FileIds : file'[g].type = file[g].type,
           \A g \in FileIds' : file'[g].type = "dir" => file'[g].hash = NoHash,
           IsDir(f)' => f \notin FileIds,
           p = Null => u = Len(user) + 1 /\ IsDir(f)',
           p \in FileIds => OwnDir(p, u),
           user_file' = user_file \cup {Row(n, u, f, p)}, last_row' = last_row + 1
    PROVE  Tree' /\ Grown
<1> DEFINE new == Row(n, u, f, p)
<1>1. /\ Len(user) \in Nat /\ Len(file) \in Nat /\ Len(user)' \in Nat /\ Len(file)' \in Nat
      /\ last_row \in Nat
      BY DEF Tree
<1>2. /\ new.id = last_row + 1 /\ new.name = n /\ new.user_id = u
      /\ new.file_id = f /\ new.parent_id = p
      BY DEF Row
<1>3. 1..Len(user) \subseteq 1..Len(user)' /\ FileIds \subseteq FileIds' /\ FileIds \subseteq Nat
      BY <1>1 DEF FileIds
<1>4. \A d \in FileIds : IsDir(d)' <=> IsDir(d)
      BY <1>3 DEF IsDir
<1>5. \A r \in user_file : /\ r.id \in 1..last_row /\ r.user_id \in 1..Len(user)
                           /\ r.file_id \in FileIds /\ r.parent_id \in FileIds \cup {Null}
      BY DEF Tree, EntryRow
<1>6. Null \notin FileIds' /\ \A d \in FileIds' : d \notin FileIds => \A g \in FileIds : g < d
      BY <1>1 DEF Null, FileIds
<1>7. user_file' \subseteq EntryRow'
  <2>0. last_row + 1 \in 1..last_row' /\ 1..last_row \subseteq 1..last_row'
        BY <1>1
  <2>1. new \in EntryRow'
    <3>1. p \in FileIds' \cup {Null}
          BY <1>3
    <3> QED  BY <2>0, <3>1 DEF EntryRow, Row, Null
  <2>2. ASSUME NEW r \in user_file
        PROVE  r \in EntryRow'
    <3>1. r \in [id : 1..last_row, name : Names, user_id : 1..Len(user),
                  file_id : FileIds, parent_id : FileIds \cup {Null}]
          BY DEF Tree, EntryRow
    <3> QED  BY <1>3, <2>0, <3>1 DEF EntryRow, Null
  <2> QED  BY <2>1, <2>2
<1>8. IsFiniteSet(user_file')
      BY FS_AddElement DEF Tree
<1>9. \A q, r \in user_file' : q.id = r.id => q = r
  <2>1. \A r \in user_file : r.id # new.id
        BY <1>1, <1>2, <1>5
  <2> QED  BY <2>1 DEF Tree
<1> HIDE DEF new
<1>10. \A r \in user_file' : r \in user_file \/ r = new
      BY DEF new
<1>11. DirectoriesFormATree'
  <2>1. ASSUME NEW q \in user_file', NEW r \in user_file', q.file_id = r.file_id, IsDir(r.file_id)'
        PROVE  q = r
        BY <1>2, <1>4, <1>5, <1>10, <2>1 DEF Tree, DirectoriesFormATree
  <2>2. ASSUME NEW r \in user_file', IsDir(r.file_id)'
        PROVE  r.parent_id < r.file_id
    <3>1. CASE r \in user_file
          BY <1>4, <1>5, <2>2, <3>1 DEF Tree, DirectoriesFormATree
    <3>2. CASE r = new
      <4>1. f \notin FileIds /\ f \in FileIds' /\ r.file_id = f /\ r.parent_id = p
            BY <1>2, <2>2, <3>2
      <4>2. p = Null \/ p < f
            BY <1>6, <4>1
      <4> QED  BY <1>1, <4>1, <4>2 DEF FileIds, Null
    <3> QED  BY <1>10, <3>1, <3>2
  <2>3. ASSUME NEW q \in user_file', NEW r \in user_file', IsDir(r.file_id)',
               q.parent_id = r.file_id
        PROVE  q.user_id = r.user_id
    <3>1. CASE q \in user_file /\ r \in user_file
          BY <1>4, <1>5, <2>3, <3>1 DEF Tree, DirectoriesFormATree
    <3>2. CASE q = new /\ r \in user_file
      <4>1. r.file_id \in FileIds /\ r.file_id = p /\ IsDir(p)
            BY <1>2, <1>4, <1>5, <2>3, <3>2
      <4> QED  BY <1>2, <3>2, <4>1 DEF OwnDir
    <3>3. CASE r = new
      <4>1. r.file_id = f /\ f \notin FileIds /\ f # Null
            BY <1>2, <1>6, <2>3, <3>3
      <4>2. q.parent_id \in FileIds \cup {Null}
            BY <1>2, <1>5, <1>10
      <4> QED  BY <2>3, <4>1, <4>2
    <3> QED  BY <1>10, <3>1, <3>2, <3>3
  <2> QED  BY <2>1, <2>2, <2>3 DEF DirectoriesFormATree
<1>12. \A r \in user_file' : r.parent_id = Null => IsDir(r.file_id)'
      BY <1>2, <1>4, <1>5, <1>10 DEF Tree
<1>13. ASSUME NEW q \in user_file', NEW r \in user_file',
              q.parent_id = Null, r.parent_id = Null, q.user_id = r.user_id
       PROVE  q = r
  <2>1. \A s \in user_file : s.user_id # Len(user) + 1
        BY <1>1, <1>5
  <2> QED  BY <1>2, <1>10, <1>13, <2>1 DEF Tree
<1>14. Tree'
      BY <1>1, <1>7, <1>8, <1>9, <1>11, <1>12, <1>13 DEF Tree
<1>15. Grown
  <2>1. ASSUME NEW r \in user_file', r \notin user_file
        PROVE  ~IsDir(r.file_id)
        BY <1>2, <1>4, <1>10, <2>1 DEF IsDir
  <2> QED  BY <2>1 DEF Grown
<1> QED  BY <1>14, <1>15

(* A handler's first statement.                                            *)
LEMMA LooksUpKeepsTree ==
    ASSUME TreeInv, NEW w \in Workers, NEW op \in {"mkdir", "puts", "gets", "rm", "ll"},
           NEW next \in DirLabels \cup {"ll_names"},
           NEW failed, NEW illegal, LooksUpDirectory(w, op, next, failed, illegal),
           next \in NamingLabels => op \in NamingLabels,
           next \in PutsLabels => op \in PutsLabels
    PROVE  TreeInv'
<1>1. /\ pc[w] = op /\ UNCHANGED <<tables, crashed>>
      /\ Tree /\ Typed /\ crashed \in BOOLEAN /\ Place(w)
      BY DEF LooksUpDirectory, At, TreeInv
<1>2. Tree' /\ Grown
      BY <1>1, ReadsKeepTables
<1>3. CASE Return(w, failed) \/ Return(w, illegal)
      BY <1>1, <1>2, <1>3, ReturnsIdle, StepKeepsTree
<1>4. CASE /\ Goto(w, next) /\ Cd(w) > 0
           /\ task' = [task EXCEPT ![w].dir = Cd(w)]
  <2>1. /\ task[w].user \in 1..Len(user) /\ task[w].path # <<>>
        /\ task[w].path \in Seq(Names) /\ task[w] \in Request
        BY <1>1 DEF Place, Typed, Request
  <2>2. Cd(w) \in FileIds /\ OwnDir(Cd(w), task[w].user)
        BY <1>1, <1>4, <2>1, CdIsOwn DEF Cd
  <2>3. Cd(w) \in Nat /\ next \in Labels
        BY <1>1, <2>2 DEF FileIds, Tree, Labels
  <2>4. /\ Typed' /\ Others(w) /\ pc'[w] = next
        /\ task'[w].user = task[w].user /\ task'[w].path = task[w].path
        /\ task'[w].name = task[w].name /\ task'[w].hash = task[w].hash
        BY <1>1, <1>4, <2>3, GoesOn
  <2>5. task'[w].dir = Cd(w)
        BY <1>1, <1>4, <2>1 DEF Typed, Request
  <2>6. Place(w)'
    <3>1. UNCHANGED <<user, file, user_file>>
          BY <1>1 DEF tables
    <3>2. FileIds' = FileIds /\ OwnDir(task[w].dir, task[w].user)'
          BY <2>2, <2>4, <2>5, <3>1 DEF FileIds, OwnDir, IsDir
    <3>3. pc'[w] \notin FileLabels /\ pc'[w] \notin {"puts_link", "puts_link_complete",
                                                     "register", "register_insert"}
          BY <2>4 DEF FileLabels, DirLabels
    <3> QED  BY <1>1, <2>1, <2>2, <2>4, <2>5, <3>1, <3>2, <3>3 DEF Place
  <2> QED  BY <1>1, <1>2, <2>4, <2>6, StepKeepsTree
<1> QED  BY <1>3, <1>4 DEF LooksUpDirectory

(* A statement that reads and then ends the request,                       *)
LEMMA ReadEndsRequest ==
    ASSUME TreeInv, NEW w \in Workers, NEW code, Return(w, code), UNCHANGED tables,
           crashed' \in BOOLEAN
    PROVE  TreeInv'
BY ReadsKeepTables, ReturnsIdle, StepKeepsTree DEF TreeInv

(* or goes on, with the same directory,                                    *)
LEMMA ReadGoesOn ==
    ASSUME TreeInv, NEW w \in Workers, NEW l \in Labels, Goto(w, l), UNCHANGED <<tables, crashed>>,
           \/ UNCHANGED task
           \/ \E f \in FileIds : task' = [task EXCEPT ![w].file = f],
           pc[w] # "idle", l \notin {"idle", "register"},
           l = "register_insert" <=> pc[w] \in {"register", "register_insert"},
           l \in NamingLabels => pc[w] \in NamingLabels,
           l \in PutsLabels => pc[w] \in PutsLabels,
           l \in DirLabels \cup FileLabels => pc[w] \in DirLabels \cup FileLabels,
           l \in FileLabels => task'[w].file \in FileIds,
           l \in {"puts_link", "puts_link_complete"} => ~IsDir(task'[w].file)
    PROVE  TreeInv'
<1>1. Tree /\ Typed /\ crashed' \in BOOLEAN /\ Place(w) /\ Tree' /\ Grown
      BY ReadsKeepTables DEF TreeInv
<1>2. FileIds \subseteq Nat
      BY <1>1 DEF Tree, FileIds
<1>3. /\ Typed' /\ Others(w) /\ pc'[w] = l
      /\ task'[w].user = task[w].user /\ task'[w].path = task[w].path
      /\ task'[w].name = task[w].name /\ task'[w].hash = task[w].hash
      BY <1>1, <1>2, GoesOn
<1>4. task'[w].dir = task[w].dir
      BY <1>1 DEF Typed, Request
<1>5. UNCHANGED <<user, file, user_file>>
      BY DEF tables
<1>6. /\ FileIds' = FileIds
      /\ OwnDir(task[w].dir, task[w].user) => OwnDir(task[w].dir, task[w].user)'
      BY <1>3, <1>4, <1>5 DEF FileIds, OwnDir, IsDir
<1>7. IsDir(task[w].file)' <=> IsDir(task'[w].file)
      BY <1>5 DEF IsDir, FileIds
<1>8. Place(w)'
      BY <1>1, <1>3, <1>4, <1>5, <1>6, <1>7 DEF Place
<1> QED  BY <1>1, <1>3, <1>8, StepKeepsTree

(* A worker that takes a request.                                          *)
LEMMA PathsAreNames ==
    ASSUME Tree, NEW u \in 1..Len(user), NEW p \in Paths(u)
    PROVE  p \in Seq(Names) /\ p # <<>>
<1>1. user[u] \in Names /\ Accounts \subseteq Names
      BY TablesAssumption DEF Tree
<1>2. ASSUME NEW a \in Accounts, p = <<a>>
      PROVE  p \in Seq(Names) /\ p # <<>>
      BY <1>1, <1>2
<1>3. ASSUME NEW n \in 1..MaxDepth, NEW s \in [1..n -> Names \ Accounts], p = <<user[u]>> \o s
      PROVE  p \in Seq(Names) /\ p # <<>>
  <2>1. n \in Nat
        BY TablesAssumption
  <2>2. s \in Seq(Names) /\ <<user[u]>> \in Seq(Names)
        BY <1>1, <2>1
  <2>3. p \in Seq(Names) /\ Len(p) = 1 + Len(s)
        BY <1>3, <2>2
  <2> QED  BY <2>2, <2>3
<1> QED  BY <1>2, <1>3 DEF Paths

(* A request that is well formed,                                          *)
LEMMA AcceptsKeepsTree ==
    ASSUME TreeInv, NEW w \in Workers, NEW t \in Request, t.op \in Ops, Accepts(w, t),
           IF t.op = "register" THEN t.name \in Accounts
           ELSE t.user \in 1..Len(user) /\ t.path # <<>>,
           t.op \in NamingLabels => t.name \in Names,
           t.op \in PutsLabels => t.hash \in Hashes
    PROVE  TreeInv'
<1>1. Tree /\ Typed /\ UNCHANGED <<tables, crashed>> /\ Tree' /\ Grown
      BY ReadsKeepTables DEF TreeInv, Accepts
<1>2. /\ pc' \in [Workers -> Labels] /\ pc'[w] = t.op
      /\ task' \in [Workers -> Request] /\ task'[w] = t /\ Others(w)
      BY <1>1 DEF Accepts, Goto, Typed, Labels, Others
<1>3. t.op \notin DirLabels \cup FileLabels /\ t.op \notin {"register_insert", "idle"}
      BY TablesAssumption DEF DirLabels, FileLabels
<1>4. Place(w)'
  <2>1. user' = user
        BY <1>1 DEF tables
  <2> QED  BY <1>2, <1>3, <2>1 DEF Place, FileLabels
<1> QED  BY <1>1, <1>2, <1>4, StepKeepsTree DEF TreeInv, Typed

(* as every request of a client that is logged in is.                      *)
LEMMA ReceivesKeepsTree ==
    ASSUME TreeInv, NEW w \in Workers, Receives(w)
    PROVE  TreeInv'
<1>0. 1..Len(user) \subseteq Nat /\ Accounts \subseteq Names
      BY TablesAssumption DEF TreeInv, Tree
<1>1. ASSUME NEW a \in Accounts, ReceiveRegister(w, a)
      PROVE  TreeInv'
  <2> DEFINE t == [NoTask EXCEPT !.op = "register", !.name = a]
  <2>1. /\ t.op = "register" /\ t.name = a /\ t.op \in Ops /\ Accepts(w, t)
        BY <1>1 DEF ReceiveRegister, NoTask
  <2>2. a \in Names /\ "register" \in Ops
        BY <1>0, <1>1 DEF ReceiveRegister
  <2>3. t \in Request
        BY <2>2, NothingAsked DEF Request
  <2> HIDE DEF t
  <2> QED  BY <2>1, <2>3, AcceptsKeepsTree DEF NamingLabels, PutsLabels
<1>2. ASSUME NEW u \in 1..Len(user), NEW p \in Paths(u),
             NEW op \in {"ls", "ll", "mkdir", "gets", "rm", "puts"},
             NEW n \in Names \cup {""}, NEW h \in Hashes \cup {NoHash},
             Receive(w, op, u, p, n, h),
             op \in NamingLabels => n \in Names, op \in PutsLabels => h \in Hashes
      PROVE  TreeInv'
  <2> DEFINE t == [NoTask EXCEPT !.op = op, !.user = u, !.path = p, !.name = n, !.hash = h]
  <2>1. p \in Seq(Names) /\ p # <<>>
        BY PathsAreNames DEF TreeInv
  <2>2. op \in Ops
        BY <1>2 DEF Receive
  <2>3. u \in Nat
        BY <1>0
  <2>4. t \in Request
        BY <2>1, <2>2, <2>3, NothingAsked DEF Request
  <2>5. /\ t.op = op /\ t.user = u /\ t.path = p /\ t.name = n /\ t.hash = h
        /\ t.op # "register"
        BY DEF NoTask
  <2>6. Accepts(w, t)
        BY <1>2 DEF Receive
  <2> HIDE DEF t
  <2> QED  BY <1>2, <2>1, <2>2, <2>4, <2>5, <2>6, AcceptsKeepsTree
<1>3. ASSUME NEW u \in 1..Len(user), NEW p \in Paths(u), NEW op \in {"ls", "ll"},
             Receive(w, op, u, p, "", NoHash)
      PROVE  TreeInv'
      BY <1>2, <1>3 DEF NamingLabels, PutsLabels
<1>4. ASSUME NEW u \in 1..Len(user), NEW p \in Paths(u), NEW op \in {"mkdir", "gets", "rm"},
             NEW n \in Names \ Accounts, Receive(w, op, u, p, n, NoHash)
      PROVE  TreeInv'
      BY <1>2, <1>4 DEF PutsLabels
<1>5. ASSUME NEW u \in 1..Len(user), NEW p \in Paths(u), NEW n \in Names \ Accounts,
             NEW h \in Hashes, Receive(w, "puts", u, p, n, h)
      PROVE  TreeInv'
      BY <1>2, <1>5
<1> QED  BY <1>1, <1>3, <1>4, <1>5 DEF Receives

(* user_register: the account and the entry of its root.                   *)
LEMMA RegisterKeepsTree ==
    ASSUME TreeInv, NEW w \in Workers, RegisterLooks(w) \/ RegisterInserts(w)
    PROVE  TreeInv'
<1>1. CASE RegisterLooks(w)
  <2>1. /\ pc[w] = "register" /\ UNCHANGED <<tables, crashed>> /\ crashed \in BOOLEAN
        /\ Return(w, 0) \/ (Goto(w, "register_insert") /\ UNCHANGED task)
        BY <1>1 DEF RegisterLooks, At, TreeInv
  <2>2. "register_insert" \in Labels
        BY DEF Labels
  <2> QED  BY <2>1, <2>2, ReadEndsRequest, ReadGoesOn
              DEF NamingLabels, PutsLabels, DirLabels, FileLabels
<1>2. CASE RegisterInserts(w)
  <2> DEFINE row == [type |-> "dir", hash |-> NoHash, complete |-> TRUE]
  <2>0. PICK n, u, f : n = task[w].name /\ u = Len(user) + 1 /\ f = Len(file) + 1
        OBVIOUS
  <2>1. /\ Tree /\ Typed /\ crashed' \in BOOLEAN /\ n \in Accounts /\ Accounts \subseteq Names
        /\ user' = Append(user, n) /\ file' = Append(file, row)
        /\ user_file' = user_file \cup {Row(n, u, f, Null)} /\ last_row' = last_row + 1
        /\ Return(w, u)
        BY <1>2, <2>0, TablesAssumption DEF RegisterInserts, At, TreeInv, Place
  <2>2. user \in Seq(Accounts) /\ file \in Seq(FileRow) /\ row \in FileRow
        BY <2>1 DEF Tree, FileRow
  <2>3. /\ user' \in Seq(Accounts) /\ Len(user)' = u /\ Len(user) \in Nat
        /\ file' \in Seq(FileRow) /\ Len(file)' = f /\ Len(file) \in Nat
        /\ file'[f] = row /\ \A g \in 1..Len(file) : file'[g] = file[g]
        BY <2>0, <2>1, <2>2
  <2>4. /\ u \in 1..Len(user)' /\ f \in FileIds' /\ IsDir(f)' /\ f \notin FileIds
        /\ Len(user) <= Len(user)' /\ Len(file) <= Len(file)'
        /\ \A g \in FileIds : file'[g].type = file[g].type
        /\ Null \notin FileIds
    <3>1. u \in 1..Len(user)' /\ f \in FileIds' /\ f \notin FileIds /\ Null \notin FileIds
          BY <2>0, <2>3 DEF FileIds, Null
    <3>2. Len(user) <= Len(user)' /\ Len(file) <= Len(file)'
          BY <2>0, <2>3
    <3>3. file'[f].type = "dir"
          BY <2>3
    <3>4. \A g \in FileIds : file'[g].type = file[g].type
          BY <2>3 DEF FileIds
    <3>5. IsDir(f)'
          BY <3>1, <3>3 DEF IsDir
    <3> QED  BY <3>1, <3>2, <3>4, <3>5
  <2>5. \A g \in FileIds' : file'[g].type = "dir" => file'[g].hash = NoHash
    <3>1. \A g \in FileIds' : g = f \/ g \in FileIds
          BY <2>0, <2>3 DEF FileIds
    <3> QED  BY <2>1, <2>3, <3>1 DEF Tree, FileIds
  <2> HIDE DEF row
  <2>6. n \in Names
        BY <2>1
  <2>7. Tree' /\ Grown
        BY <2>0, <2>1, <2>3, <2>4, <2>5, <2>6, EntryKeepsTree
  <2> QED  BY <2>1, <2>7, ReturnsIdle, StepKeepsTree
<1> QED  BY <1>1, <1>2

(* query_mkdir.                                                            *)
LEMMA MkdirKeepsTree ==
    ASSUME TreeInv, NEW w \in Workers, MkdirCd(w) \/ MkdirChecks(w) \/ MkdirInserts(w)
    PROVE  TreeInv'
<1>1. CASE MkdirCd(w)
  <2>1. "mkdir_check" \in DirLabels /\ "mkdir" \in NamingLabels /\ "mkdir_check" \notin PutsLabels
        BY DEF DirLabels, NamingLabels, PutsLabels
  <2> QED  BY <1>1, <2>1, LooksUpKeepsTree DEF MkdirCd
<1>2. CASE MkdirChecks(w)
  <2>1. /\ pc[w] = "mkdir_check" /\ UNCHANGED <<tables, crashed>> /\ crashed \in BOOLEAN
        /\ Return(w, 1) \/ (Goto(w, "mkdir_insert") /\ UNCHANGED task)
        BY <1>2 DEF MkdirChecks, At, TreeInv
  <2>2. "mkdir_insert" \in Labels
        BY DEF Labels, DirLabels
  <2> QED  BY <2>1, <2>2, ReadEndsRequest, ReadGoesOn
              DEF NamingLabels, PutsLabels, DirLabels, FileLabels
<1>3. CASE MkdirInserts(w)
  <2> DEFINE row == [type |-> "dir", hash |-> NoHash, complete |-> TRUE]
  <2>0. PICK n, u, f, p : /\ n = task[w].name /\ u = task[w].user /\ f = Len(file) + 1
                          /\ p = task[w].dir
        OBVIOUS
  <2>1. /\ Tree /\ Typed /\ crashed' \in BOOLEAN /\ pc[w] = "mkdir_insert"
        /\ user' = user /\ file' = Append(file, row)
        /\ user_file' = user_file \cup {Row(n, u, f, p)} /\ last_row' = last_row + 1
        /\ Return(w, 2)
        BY <1>3, <2>0 DEF MkdirInserts, At, TreeInv
  <2>2. n \in Names /\ u \in 1..Len(user) /\ p \in FileIds /\ OwnDir(p, u)
        BY <2>0, <2>1 DEF TreeInv, Place, NamingLabels, DirLabels
  <2>3. user \in Seq(Accounts) /\ file \in Seq(FileRow) /\ row \in FileRow
        BY <2>1 DEF Tree, FileRow
  <2>4. /\ user' \in Seq(Accounts) /\ Len(user)' = Len(user) /\ Len(user) \in Nat
        /\ file' \in Seq(FileRow) /\ Len(file)' = f /\ Len(file) \in Nat
        /\ file'[f] = row /\ \A g \in 1..Len(file) : file'[g] = file[g]
        BY <2>0, <2>1, <2>3
  <2>5. /\ f \in FileIds' /\ f \notin FileIds /\ Null \notin FileIds
        /\ Len(user) <= Len(user)' /\ Len(file) <= Len(file)'
        /\ \A g \in FileIds : file'[g].type = file[g].type
        BY <2>0, <2>4 DEF FileIds, Null
  <2>6. \A g \in FileIds' : file'[g].type = "dir" => file'[g].hash = NoHash
    <3>1. \A g \in FileIds' : g = f \/ g \in FileIds
          BY <2>0, <2>4 DEF FileIds
    <3> QED  BY <2>1, <2>4, <3>1 DEF Tree, FileIds
  <2> HIDE DEF row
  <2>7. p # Null /\ p \in FileIds \cup {Null} /\ u \in 1..Len(user)'
        BY <2>2, <2>4, <2>5
  <2>8. Tree' /\ Grown
        BY <2>1, <2>2, <2>4, <2>5, <2>6, <2>7, EntryKeepsTree
  <2> QED  BY <2>1, <2>8, ReturnsIdle, StepKeepsTree
<1> QED  BY <1>1, <1>2, <1>3

(* The SELECTs of query_puts.                                              *)
LEMMA PutsReadsKeepTree ==
    ASSUME TreeInv, NEW w \in Workers,
           PutsCd(w) \/ PutsLooksForName(w) \/ PutsLooksAtSameName(w) \/ PutsLooksForHash(w)
    PROVE  TreeInv'
<1>0. /\ {"puts_name", "puts_same", "puts_hash", "puts_insert", "puts_link", "puts_link_complete",
          "upload"} \subseteq Labels
      /\ {"puts_name", "puts_hash", "puts_insert"} \subseteq DirLabels
      /\ {"puts_same", "puts_link", "puts_link_complete"} \subseteq FileLabels
      /\ {"puts", "puts_name", "puts_same", "puts_hash", "puts_insert", "puts_link",
          "puts_link_complete"} \subseteq PutsLabels
      /\ PutsLabels \subseteq NamingLabels /\ "upload" \notin NamingLabels
      /\ "upload" \notin DirLabels \cup FileLabels
      /\ "puts_hash" \notin FileLabels /\ "puts_insert" \notin FileLabels
      BY DEF Labels, DirLabels, FileLabels, PutsLabels, NamingLabels
<1>1. CASE PutsCd(w)
      BY <1>0, <1>1, LooksUpKeepsTree DEF PutsCd
<1>2. CASE PutsLooksForName(w)
  <2>1. pc[w] = "puts_name" /\ UNCHANGED <<tables, crashed>> /\ task[w] \in Request
        BY <1>2 DEF PutsLooksForName, At, TreeInv, Typed
  <2>2. CASE Goto(w, "puts_hash") /\ UNCHANGED task
        BY <1>0, <2>1, <2>2, ReadGoesOn
  <2>3. ASSUME NEW r \in Named(task[w].dir, task[w].name), Goto(w, "puts_same"),
               task' = [task EXCEPT ![w].file = r.file_id]
        PROVE  TreeInv'
    <3>1. r.file_id \in FileIds
          BY DEF Named, InDir, TreeInv, Tree, EntryRow
    <3>2. task'[w].file = r.file_id
          BY <2>3 DEF TreeInv, Typed, Request
    <3> QED  BY <1>0, <2>1, <2>3, <3>1, <3>2, ReadGoesOn
  <2> QED  BY <1>2, <2>2, <2>3 DEF PutsLooksForName
<1>3. CASE PutsLooksAtSameName(w)
  <2>1. /\ pc[w] = "puts_same" /\ UNCHANGED <<tables, crashed>> /\ crashed \in BOOLEAN
        /\ Return(w, 0) \/ Return(w, 2) \/ ReturnUpload(w)
        BY <1>3 DEF PutsLooksAtSameName, At, TreeInv
  <2>2. CASE ReturnUpload(w)
        BY <1>0, <2>1, <2>2, ReadGoesOn DEF ReturnUpload
  <2> QED  BY <2>1, <2>2, ReadEndsRequest
<1>4. CASE PutsLooksForHash(w)
  <2>1. pc[w] = "puts_hash" /\ UNCHANGED <<tables, crashed>> /\ task[w].hash \in Hashes
        BY <1>0, <1>4 DEF PutsLooksForHash, At, TreeInv, Place
  <2>2. CASE Goto(w, "puts_insert") /\ UNCHANGED task
        BY <1>0, <2>1, <2>2, ReadGoesOn
  <2>3. ASSUME NEW f \in WithHash(task[w].hash), NEW l \in {"puts_link_complete", "puts_link"},
               Goto(w, l), task' = [task EXCEPT ![w].file = f]
        PROVE  TreeInv'
    <3>1. f \in FileIds /\ ~IsDir(f)
          BY <2>1, NoHashAssumption DEF WithHash, FileIds, IsDir, TreeInv, Tree
    <3>2. task'[w].file = f
          BY <2>3 DEF TreeInv, Typed, Request
    <3>3. l \in Labels /\ l \in PutsLabels /\ l \in FileLabels /\ l \in NamingLabels
          BY <1>0
    <3>4. pc[w] \in NamingLabels /\ pc[w] \in PutsLabels /\ pc[w] \in DirLabels /\ pc[w] # "idle"
          BY <1>0, <2>1
    <3>5. /\ l \notin {"idle", "register"} /\ l # "register_insert"
          /\ pc[w] \notin {"register", "register_insert"}
          BY <2>1
    <3> QED  BY <2>1, <2>3, <3>1, <3>2, <3>3, <3>4, <3>5, ReadGoesOn
  <2> QED  BY <1>4, <2>2, <2>3 DEF PutsLooksForHash
<1> QED  BY <1>1, <1>2, <1>3, <1>4

(* Its inserts.                                                            *)
LEMMA PutsEntersKeepTree ==
    ASSUME TreeInv, NEW w \in Workers, PutsInserts(w) \/ PutsLinks(w)
    PROVE  TreeInv'
<1>0. PICK n, u, p : n = task[w].name /\ u = task[w].user /\ p = task[w].dir
      OBVIOUS
<1>1. /\ pc[w] \in {"puts_insert", "puts_link", "puts_link_complete"}
      /\ Tree /\ Typed /\ crashed' \in BOOLEAN /\ user' = user /\ last_row' = last_row + 1
      /\ Return(w, 2) \/ ReturnUpload(w)
      BY DEF PutsInserts, PutsLinks, At, TreeInv
<1>2. /\ n \in Names /\ u \in 1..Len(user) /\ p \in FileIds /\ OwnDir(p, u)
      /\ task[w].hash \in Hashes /\ task[w].path # <<>>
      BY <1>0, <1>1 DEF TreeInv, Place, NamingLabels, PutsLabels, DirLabels, FileLabels
<1>3. user \in Seq(Accounts) /\ file \in Seq(FileRow) /\ Len(file) \in Nat /\ Len(user) \in Nat
      BY <1>1 DEF Tree
<1>4. p # Null /\ p \in FileIds \cup {Null} /\ u \in 1..Len(user)'
      BY <1>1, <1>2, <1>3 DEF FileIds, Null
<1>5. Tree' /\ Grown
  <2>1. CASE PutsInserts(w)
    <3> DEFINE row == [type |-> "file", hash |-> task[w].hash, complete |-> FALSE]
    <3>1. PICK f : f = Len(file) + 1
          OBVIOUS
    <3>2. file' = Append(file, row) /\ user_file' = user_file \cup {Row(n, u, f, p)}
          BY <1>0, <2>1, <3>1 DEF PutsInserts
    <3>3. row \in FileRow
          BY <1>2 DEF FileRow
    <3>4. /\ file' \in Seq(FileRow) /\ Len(file)' = f
          /\ file'[f].type = "file" /\ \A g \in 1..Len(file) : file'[g] = file[g]
          BY <1>3, <3>1, <3>2, <3>3
    <3>5. /\ f \in FileIds' /\ f \notin FileIds
          /\ Len(user) <= Len(user)' /\ Len(file) <= Len(file)'
          /\ \A g \in FileIds : file'[g].type = file[g].type
          BY <1>1, <1>3, <3>1, <3>4 DEF FileIds
    <3>6. \A g \in FileIds' : file'[g].type = "dir" => file'[g].hash = NoHash
      <4>1. \A g \in FileIds' : g = f \/ g \in FileIds
            BY <1>3, <3>1, <3>4 DEF FileIds
      <4> QED  BY <1>1, <3>4, <4>1 DEF Tree, FileIds
    <3> HIDE DEF row
    <3>7. user' \in Seq(Accounts)
          BY <1>1, <1>3
    <3> QED  BY <1>1, <1>2, <1>4, <3>2, <3>4, <3>5, <3>6, <3>7, EntryKeepsTree
  <2>2. CASE PutsLinks(w)
    <3>1. PICK f : f = task[w].file
          OBVIOUS
    <3>2. /\ file' = file /\ user_file' = user_file \cup {Row(n, u, f, p)}
          /\ pc[w] \in {"puts_link", "puts_link_complete"}
          BY <1>0, <2>2, <3>1 DEF PutsLinks
    <3>3. f \in FileIds /\ ~IsDir(f)
          BY <3>1, <3>2 DEF TreeInv, Place, FileLabels
    <3>4. f \in FileIds' /\ ~IsDir(f)' /\ FileIds' = FileIds
          BY <3>2, <3>3 DEF FileIds, IsDir
    <3>5. \A g \in FileIds' : file'[g].type = "dir" => file'[g].hash = NoHash
          BY <1>1, <3>2, <3>4 DEF Tree
    <3>6. /\ user' \in Seq(Accounts) /\ file' \in Seq(FileRow)
          /\ Len(user) <= Len(user)' /\ Len(file) <= Len(file)'
          BY <1>1, <1>3, <3>2
    <3> QED  BY <1>1, <1>2, <1>4, <3>2, <3>4, <3>5, <3>6, EntryKeepsTree
  <2> QED  BY <2>1, <2>2
<1>6. CASE Return(w, 2)
      BY <1>1, <1>5, <1>6, ReturnsIdle, StepKeepsTree
<1>7. CASE ReturnUpload(w)
  <2>1. "upload" \in Labels
        BY DEF Labels
  <2>2. /\ Typed' /\ Others(w) /\ pc'[w] = "upload"
        /\ task'[w].user = task[w].user /\ task'[w].path = task[w].path
        BY <1>1, <1>7, <2>1, GoesOn DEF ReturnUpload
  <2>3. task'[w].user \in 1..Len(user)' /\ task'[w].path # <<>>
        BY <1>0, <1>2, <1>4, <2>2
  <2>4. Place(w)'
        BY <2>2, <2>3 DEF Place, NamingLabels, PutsLabels, DirLabels, FileLabels
  <2> QED  BY <1>1, <1>5, <2>2, <2>4, StepKeepsTree
<1> QED  BY <1>1, <1>6, <1>7

(* query_remove.                                                           *)
LEMMA RemoveKeepsTree ==
    ASSUME TreeInv, NEW w \in Workers,
           RemoveCd(w) \/ RemoveFinds(w) \/ RemoveChecks(w) \/ RemoveDeletes(w)
    PROVE  TreeInv'
<1>0. /\ {"rm_find", "rm_children", "rm_delete"} \subseteq Labels
      /\ "rm_find" \in DirLabels /\ {"rm_children", "rm_delete"} \subseteq FileLabels
      /\ {"rm_find", "rm_children", "rm_delete"} \cap (NamingLabels \cup PutsLabels) = {}
      BY DEF Labels, DirLabels, FileLabels, PutsLabels, NamingLabels
<1>1. CASE RemoveCd(w)
      BY <1>0, <1>1, LooksUpKeepsTree DEF RemoveCd
<1>2. CASE RemoveFinds(w)
  <2>1. pc[w] = "rm_find" /\ UNCHANGED <<tables, crashed>> /\ crashed \in BOOLEAN
        BY <1>2 DEF RemoveFinds, At, TreeInv
  <2>2. CASE Return(w, 1)
        BY <2>1, <2>2, ReadEndsRequest
  <2>3. ASSUME NEW r \in user_file, NEW l \in {"rm_delete", "rm_children"},
               Goto(w, l), task' = [task EXCEPT ![w].file = r.file_id]
        PROVE  TreeInv'
    <3>1. r.file_id \in FileIds
          BY DEF TreeInv, Tree, EntryRow
    <3>2. task'[w].file = r.file_id
          BY <2>3 DEF TreeInv, Typed, Request
    <3>3. /\ l \in Labels /\ l \in FileLabels /\ l \notin NamingLabels /\ l \notin PutsLabels
          /\ pc[w] \in DirLabels
          BY <1>0, <2>1
    <3> QED  BY <2>1, <2>3, <3>1, <3>2, <3>3, ReadGoesOn
  <2> QED  BY <1>2, <2>2, <2>3 DEF RemoveFinds
<1>3. CASE RemoveChecks(w)
  <2>1. /\ pc[w] = "rm_children" /\ UNCHANGED <<tables, crashed>> /\ crashed \in BOOLEAN
        /\ Return(w, 2) \/ (Goto(w, "rm_delete") /\ UNCHANGED task)
        BY <1>3 DEF RemoveChecks, At, TreeInv
  <2>2. task[w].file \in FileIds
        BY <1>0, <2>1 DEF TreeInv, Place
  <2> QED  BY <1>0, <2>1, <2>2, ReadEndsRequest, ReadGoesOn
<1>4. CASE RemoveDeletes(w)
  <2>1. /\ user_file' \subseteq user_file /\ UNCHANGED <<user, file, last_row, crashed>>
        /\ Return(w, 0) /\ Tree /\ Typed /\ crashed \in BOOLEAN
        BY <1>4 DEF RemoveDeletes, TreeInv
  <2>2. IsFiniteSet(user_file')
        BY <2>1, FS_Subset DEF Tree
  <2>3. DirectoriesFormATree'
        BY <2>1 DEF Tree, DirectoriesFormATree, IsDir, FileIds
  <2>4. Tree'
        BY <2>1, <2>2, <2>3 DEF Tree, FileIds, FileRow, EntryRow, IsDir
  <2>5. Grown
        BY <2>1 DEF Tree, Grown, FileIds
  <2> QED  BY <2>1, <2>4, <2>5, ReturnsIdle, StepKeepsTree
<1> QED  BY <1>1, <1>2, <1>3, <1>4

(* The end of a transfer: query_update.                                    *)
LEMMA UploadKeepsTree ==
    ASSUME TreeInv, NEW w \in Workers, UploadCompletes(w) \/ UploadBreaksOff(w)
    PROVE  TreeInv'
<1>1. CASE UploadBreaksOff(w)
      BY <1>1, ReadEndsRequest DEF UploadBreaksOff, TreeInv
<1>2. CASE UploadCompletes(w)
  <2>1. /\ UNCHANGED <<user, user_file, last_row, crashed>> /\ Return(w, 1)
        /\ Tree /\ Typed /\ crashed \in BOOLEAN /\ file \in Seq(FileRow) /\ Len(file) \in Nat
        /\ file' = [f \in 1..Len(file) |-> IF f \in WithHash(task[w].hash)
                                           THEN [file[f] EXCEPT !.complete = TRUE] ELSE file[f]]
        BY <1>2 DEF UploadCompletes, TreeInv, Tree
  <2>2. ASSUME NEW f \in 1..Len(file)
        PROVE  file[f] \in FileRow /\ [file[f] EXCEPT !.complete = TRUE] \in FileRow
    <3>1. file[f] \in FileRow
          BY <2>1
    <3> QED  BY <3>1 DEF FileRow
  <2>3. /\ \A f \in 1..Len(file) : file'[f] \in FileRow
        /\ \A f \in 1..Len(file) : file'[f].type = file[f].type /\ file'[f].hash = file[f].hash
        BY <2>1, <2>2 DEF FileRow
  <2>4. file' \in [1..Len(file) -> FileRow]
        BY <2>1, <2>3
  <2>5. file' \in Seq(FileRow) /\ Len(file)' = Len(file)
        BY <2>1, <2>4
  <2>6. FileIds' = FileIds /\ EntryRow' = EntryRow /\ \A d : IsDir(d)' <=> IsDir(d)
        BY <2>1, <2>3, <2>5 DEF FileIds, EntryRow, IsDir
  <2>7. DirectoriesFormATree'
        BY <2>1, <2>6 DEF Tree, DirectoriesFormATree
  <2>8. \A f \in FileIds' : file'[f].type = "dir" => file'[f].hash = NoHash
        BY <2>1, <2>3, <2>6 DEF Tree, FileIds
  <2>9. Tree'
        BY <2>1, <2>5, <2>6, <2>7, <2>8 DEF Tree
  <2>10. Grown
        BY <2>1, <2>3, <2>5 DEF Tree, Grown, FileIds
  <2> QED  BY <2>1, <2>9, <2>10, ReturnsIdle, StepKeepsTree
<1> QED  BY <1>1, <1>2

(* Requests that only read.                                                *)
LEMMA ShowsKeepTree ==
    ASSUME TreeInv, NEW w \in Workers,
           GetsCd(w) \/ GetsLooks(w) \/ ShowDir(w) \/ ShowDetail(w) \/ ShowDetailNames(w)
    PROVE  TreeInv'
<1>0. "gets_file" \in DirLabels /\ {"gets_file", "ll_names"} \cap (NamingLabels \cup PutsLabels) = {}
      BY DEF DirLabels, PutsLabels, NamingLabels
<1>1. CASE GetsCd(w)
      BY <1>0, <1>1, LooksUpKeepsTree DEF GetsCd
<1>2. CASE ShowDetail(w)
      BY <1>0, <1>2, LooksUpKeepsTree DEF ShowDetail
<1>3. CASE GetsLooks(w)
  <2>1. UNCHANGED <<tables, crashed>> /\ crashed \in BOOLEAN /\ \E code : Return(w, code)
        BY <1>3 DEF GetsLooks, TreeInv
  <2> QED  BY <2>1, ReadEndsRequest
<1>4. CASE ShowDir(w) \/ ShowDetailNames(w)
  <2>1. UNCHANGED tables /\ Return(w, 0) /\ crashed' = (Cd(w) <= 0)
        BY <1>4 DEF ShowDir, ShowDetailNames
  <2>2. (Cd(w) <= 0) \in BOOLEAN
        OBVIOUS
  <2>3. crashed' \in BOOLEAN
        BY <2>1, <2>2, Zenon
  <2> QED  BY <2>1, <2>3, ReadEndsRequest
<1> QED  BY <1>1, <1>2, <1>3, <1>4

-----------------------------------------------------------------------------
(* The tables start empty,                                                 *)
LEMMA TreeInvStarts == Init => TreeInv
<1> SUFFICES ASSUME Init PROVE TreeInv
    OBVIOUS
<1>1. user = <<>> /\ file = <<>> /\ user_file = {} /\ last_row = 0 /\ FileIds = {}
      BY DEF Init, FileIds
<1>2. DirectoriesFormATree /\ IsFiniteSet(user_file)
      BY <1>1, FS_EmptySet DEF DirectoriesFormATree
<1>3. Tree
      BY <1>1, <1>2 DEF Tree
<1>4. Typed /\ crashed \in BOOLEAN
      BY NothingAsked DEF Init, Typed, Labels
<1>5. \A w \in Workers : pc[w] = "idle"
      BY DEF Init
<1>6. \A w \in Workers : Place(w)
      BY <1>5 DEF Place, NamingLabels, PutsLabels, DirLabels, FileLabels
<1> QED  BY <1>3, <1>4, <1>6 DEF TreeInv

(* and every step of the server keeps them in order.                       *)
LEMMA TreeInvKept == TreeInv /\ [Next]_vars => TreeInv'
<1> SUFFICES ASSUME TreeInv, [Next]_vars PROVE TreeInv'
    OBVIOUS
<1>1. CASE UNCHANGED vars
  <2>1. UNCHANGED <<tables, pc, task, crashed>> /\ UNCHANGED <<user, file, user_file>>
        BY <1>1 DEF vars, tables
  <2>2. Tree' /\ Grown
        BY <2>1, ReadsKeepTables DEF TreeInv
  <2>3. Typed' /\ crashed' \in BOOLEAN
        BY <2>1 DEF TreeInv, Typed
  <2>4. \A v \in Workers : Place(v)'
        BY <2>1, <2>2, PlaceStays DEF TreeInv
  <2> QED  BY <2>2, <2>3, <2>4 DEF TreeInv
<1>2. CASE Terminated
      BY <1>1, <1>2 DEF Terminated
<1>3. ASSUME NEW w \in Workers,
             \/ Receives(w) \/ RegisterLooks(w) \/ RegisterInserts(w)
             \/ MkdirCd(w) \/ MkdirChecks(w) \/ MkdirInserts(w)
             \/ PutsInserts(w) \/ PutsLinks(w)
             \/ PutsCd(w) \/ PutsLooksForName(w) \/ PutsLooksAtSameName(w) \/ PutsLooksForHash(w)
             \/ RemoveCd(w) \/ RemoveFinds(w) \/ RemoveChecks(w) \/ RemoveDeletes(w)
             \/ UploadCompletes(w) \/ UploadBreaksOff(w) \/ GetsCd(w) \/ GetsLooks(w)
             \/ ShowDir(w) \/ ShowDetail(w) \/ ShowDetailNames(w)
      PROVE  TreeInv'
      BY <1>3, ReceivesKeepsTree, RegisterKeepsTree, MkdirKeepsTree, PutsReadsKeepTree,
         PutsEntersKeepTree, RemoveKeepsTree, UploadKeepsTree, ShowsKeepTree
<1> QED  BY <1>1, <1>2, <1>3 DEF Next

-----------------------------------------------------------------------------
(* Names, one request at a time.                                           *)

Busy(w) == pc[w] # "idle"

(* Statements between the test of a name and the insert that enters it.    *)
NameIsFree == {"mkdir_insert", "puts_hash", "puts_insert", "puts_link", "puts_link_complete"}
HasDir == {"mkdir_check", "puts_name", "puts_same"} \cup NameIsFree

(* One request at a time: the free name that was seen is still free.       *)
AloneInv ==
    ~overlapped =>
        /\ \A v, w \in Workers : Busy(v) /\ Busy(w) => v = w
        /\ NamesDiffer
        /\ \A w \in Workers : pc[w] \in HasDir => task[w].dir # Null
        /\ \A w \in Workers : pc[w] \in NameIsFree => Named(task[w].dir, task[w].name) = {}

Fields == DOMAIN NoTask
NamesInv ==
    /\ DOMAIN pc = Workers
    /\ DOMAIN task = Workers /\ \A w \in Workers : DOMAIN task[w] = Fields
    /\ overlapped \in BOOLEAN
    /\ AloneInv

-----------------------------------------------------------------------------
(* What a step of worker w leaves of the other workers, and of the shape   *)
(* of the records.                                                         *)
Frame(w) ==
    /\ DOMAIN pc' = Workers
    /\ DOMAIN task' = Workers /\ \A v \in Workers : DOMAIN task'[v] = Fields
    /\ \A v \in Workers : v # w => pc'[v] = pc[v] /\ task'[v] = task[v]

(* Going on to the next statement moves one worker only.                   *)
LEMMA GotoMoves ==
    ASSUME DOMAIN pc = Workers, NEW w \in Workers, NEW l, Goto(w, l)
    PROVE  /\ DOMAIN pc' = Workers /\ pc'[w] = l
           /\ \A v \in Workers : v # w => pc'[v] = pc[v]
BY DEF Goto

(* It keeps the directory and the name of the request,                     *)
LEMMA GotoKeeps ==
    ASSUME NamesInv, NEW w \in Workers, NEW l, Goto(w, l),
           UNCHANGED task \/ \E f : task' = [task EXCEPT ![w].file = f]
    PROVE  /\ Frame(w) /\ pc'[w] = l
           /\ task'[w].dir = task[w].dir /\ task'[w].name = task[w].name
<1>1. CASE UNCHANGED task
      BY <1>1 DEF NamesInv, Goto, Frame
<1>2. ASSUME NEW f, task' = [task EXCEPT ![w].file = f]
      PROVE  /\ Frame(w) /\ pc'[w] = l
             /\ task'[w].dir = task[w].dir /\ task'[w].name = task[w].name
      BY <1>2 DEF NamesInv, Goto, Frame, Fields, NoTask
<1> QED  BY <1>1, <1>2

(* or sets the directory that was looked up.                               *)
LEMMA GotoSetsDir ==
    ASSUME NamesInv, NEW w \in Workers, NEW l, Goto(w, l),
           NEW d, task' = [task EXCEPT ![w].dir = d]
    PROVE  /\ Frame(w) /\ pc'[w] = l /\ task'[w].dir = d
BY DEF NamesInv, Goto, Frame, Fields, NoTask

(* An answer makes the worker idle and touches no other.                   *)
LEMMA ReturnFrame ==
    ASSUME NamesInv, NEW w \in Workers, NEW code, Return(w, code)
    PROVE  Frame(w) /\ pc'[w] = "idle"
<1>1. /\ DOMAIN task' = Workers /\ task'[w] = NoTask
      /\ \A v \in Workers : v # w => task'[v] = task[v]
      BY DEF NamesInv, Return
<1>2. DOMAIN NoTask = Fields
      BY DEF Fields
<1>3. \A v \in Workers : DOMAIN task'[v] = Fields
      BY <1>1, <1>2 DEF NamesInv
<1>4. Goto(w, "idle") /\ DOMAIN pc = Workers
      BY DEF NamesInv, Return
<1>5. DOMAIN pc' = Workers /\ pc'[w] = "idle" /\ \A v \in Workers : v # w => pc'[v] = pc[v]
      BY <1>4, GotoMoves
<1> QED  BY <1>1, <1>3, <1>5 DEF Frame

(* Before a second request begins, the worker that steps is the only one   *)
(* at work, so its own place decides.                                      *)
LEMMA StepKeeps ==
    ASSUME NamesInv, NEW w \in Workers, Busy(w), Frame(w), UNCHANGED overlapped,
           ~overlapped =>
               /\ NamesDiffer'
               /\ pc'[w] \in HasDir => task'[w].dir # Null
               /\ pc'[w] \in NameIsFree => Named(task[w].dir, task[w].name)' = {}
    PROVE  NamesInv'
<1>1. ASSUME ~overlapped
      PROVE  AloneInv'
  <2>1. \A v \in Workers : v # w => pc[v] = "idle" /\ pc'[v] = "idle"
        BY <1>1 DEF NamesInv, AloneInv, Frame, Busy
  <2> QED  BY <1>1, <2>1 DEF AloneInv, Busy, HasDir, NameIsFree
<1> QED  BY <1>1 DEF NamesInv, AloneInv, Frame

(* A step that enters nothing.                                             *)
LEMMA ReadKeeps ==
    ASSUME NamesInv, NEW w \in Workers, Busy(w), Frame(w), UNCHANGED <<user_file, overlapped>>,
           pc'[w] \in HasDir => task'[w].dir # Null \/ overlapped,
           pc'[w] \in NameIsFree => Named(task'[w].dir, task'[w].name) = {} \/ overlapped
    PROVE  NamesInv'
<1>1. ~overlapped => NamesDiffer'
      BY DEF NamesInv, AloneInv, NamesDiffer
<1> QED  BY <1>1, StepKeeps DEF Named, InDir

(* One that enters a free name in a directory.                             *)
LEMMA EnterKeeps ==
    ASSUME NamesInv, NEW w \in Workers, pc[w] \in NameIsFree, Frame(w), UNCHANGED overlapped,
           NEW u, NEW f, user_file' = user_file \cup {Row(task[w].name, u, f, task[w].dir)},
           pc'[w] \notin HasDir
    PROVE  NamesInv'
<1>1. ASSUME ~overlapped
      PROVE  NamesDiffer'
  <2>1. NamesDiffer /\ Named(task[w].dir, task[w].name) = {}
        BY <1>1 DEF NamesInv, AloneInv
  <2> QED  BY <2>1 DEF NamesDiffer, Named, InDir, Row
<1> QED  BY <1>1, StepKeeps DEF Busy, NameIsFree, HasDir
-----------------------------------------------------------------------------
(* The statements.                                                         *)

(* The handlers' test, dir > 0, excludes the value for an illegal path.    *)
LEMMA AboveZero ==
    ASSUME NEW d, d > 0
    PROVE  d # 0
<1>1. ASSUME d = 0
      PROVE  FALSE
  <2>1. 0 > 0
        BY <1>1
  <2> QED  BY <2>1
<1> QED  BY <1>1

(* A handler that looks up its directory enters nothing.                   *)
LEMMA LooksUpKeeps ==
    ASSUME NamesInv, NEW w \in Workers, NEW op, NEW next,
           NEW failed, NEW illegal, LooksUpDirectory(w, op, next, failed, illegal),
           op # "idle", next \notin NameIsFree
    PROVE  NamesInv'
<1>1. Busy(w) /\ UNCHANGED <<user_file, overlapped>>
      BY DEF LooksUpDirectory, At, Busy, tables
<1>2. CASE Return(w, failed) \/ Return(w, illegal)
      BY <1>1, <1>2, ReturnFrame, ReadKeeps DEF HasDir, NameIsFree
<1>3. CASE /\ Goto(w, next)
           /\ Cd(w) > 0 /\ task' = [task EXCEPT ![w].dir = Cd(w)]
  <2>1. Cd(w) # Null
        BY <1>3, AboveZero DEF Null
  <2>2. Frame(w) /\ pc'[w] = next /\ task'[w].dir = Cd(w)
        BY <1>3, GotoSetsDir
  <2> QED  BY <1>1, <2>1, <2>2, ReadKeeps
<1> QED  BY <1>2, <1>3 DEF LooksUpDirectory

(* A request that ends, entering and removing nothing.                     *)
LEMMA ReturnKeeps ==
    ASSUME NamesInv, NEW w \in Workers, NEW code, Return(w, code), Busy(w),
           UNCHANGED <<user_file, overlapped>>
    PROVE  NamesInv'
<1>1. Frame(w) /\ pc'[w] = "idle"
      BY ReturnFrame
<1> QED  BY <1>1, ReadKeeps DEF HasDir, NameIsFree

(* One that goes on, entering and removing nothing.                        *)
LEMMA GoKeeps ==
    ASSUME NamesInv, NEW w \in Workers, NEW l, Goto(w, l), Busy(w),
           UNCHANGED task \/ \E f : task' = [task EXCEPT ![w].file = f],
           UNCHANGED <<user_file, overlapped>>,
           l \in HasDir => pc[w] \in HasDir,
           l \in NameIsFree => pc[w] \in NameIsFree \/ Named(task[w].dir, task[w].name) = {}
    PROVE  NamesInv'
<1>1. /\ Frame(w) /\ pc'[w] = l
      /\ task'[w].dir = task[w].dir /\ task'[w].name = task[w].name
      BY GotoKeeps
<1>2. ~overlapped /\ l \in HasDir => task'[w].dir # Null
      BY <1>1 DEF NamesInv, AloneInv
<1>3. ~overlapped /\ l \in NameIsFree => Named(task'[w].dir, task'[w].name) = {}
      BY <1>1 DEF NamesInv, AloneInv
<1>4. overlapped \in BOOLEAN
      BY DEF NamesInv
<1> QED  BY <1>1, <1>2, <1>3, <1>4, ReadKeeps

(* A worker that takes a request enters nothing.                           *)
LEMMA AcceptsKeeps ==
    ASSUME NamesInv, NEW w \in Workers, NEW t, DOMAIN t = Fields, t.op \notin HasDir,
           t.op # "idle", Accepts(w, t)
    PROVE  NamesInv'
<1>1. /\ DOMAIN pc' = Workers /\ pc'[w] = t.op
      /\ \A v \in Workers : v # w => pc'[v] = pc[v]
      BY DEF NamesInv, Accepts, Goto
<1>2. DOMAIN task' = Workers /\ \A v \in Workers : DOMAIN task'[v] = Fields
      BY DEF NamesInv, Accepts
<1>3. overlapped' \in BOOLEAN
      BY DEF NamesInv, Accepts
<1>4. ASSUME ~overlapped'
      PROVE  AloneInv'
  <2>1. /\ ~overlapped /\ user_file' = user_file
        /\ \A v \in Workers : pc[v] = "idle"
        BY <1>4 DEF Accepts, tables
  <2>2. NamesDiffer'
        BY <2>1 DEF NamesInv, AloneInv, NamesDiffer
  <2>3. \A v \in Workers : pc'[v] \notin HasDir /\ (Busy(v)' => v = w)
        BY <1>1, <2>1 DEF Busy, HasDir, NameIsFree
  <2>4. NameIsFree \subseteq HasDir
        BY DEF HasDir
  <2> QED  BY <2>2, <2>3, <2>4 DEF AloneInv
<1> QED  BY <1>1, <1>2, <1>3, <1>4 DEF NamesInv, AloneInv

(* Whatever the request is.                                                *)
LEMMA ReceivesKeeps ==
    ASSUME NamesInv, NEW w \in Workers, Receives(w)
    PROVE  NamesInv'
<1>1. ASSUME NEW a \in Accounts, ReceiveRegister(w, a)
      PROVE  NamesInv'
  <2> DEFINE t == [NoTask EXCEPT !.op = "register", !.name = a]
  <2>1. DOMAIN t = Fields /\ t.op = "register" /\ Accepts(w, t)
        BY <1>1 DEF ReceiveRegister, Fields, NoTask
  <2> QED  BY <2>1, AcceptsKeeps DEF HasDir, NameIsFree
<1>2. ASSUME NEW op \in {"ls", "ll", "mkdir", "gets", "rm", "puts"}, NEW u, NEW p, NEW n, NEW h,
             Receive(w, op, u, p, n, h)
      PROVE  NamesInv'
  <2> DEFINE t == [NoTask EXCEPT !.op = op, !.user = u, !.path = p, !.name = n, !.hash = h]
  <2>1. DOMAIN t = Fields /\ t.op = op /\ Accepts(w, t)
        BY <1>2 DEF Receive, Fields, NoTask
  <2> QED  BY <2>1, AcceptsKeeps DEF HasDir, NameIsFree
<1> QED  BY <1>1, <1>2 DEF Receives

(* user_register enters the root of a new user, where there is no name     *)
(* yet.                                                                    *)
LEMMA RegisterKeeps ==
    ASSUME NamesInv, NEW w \in Workers, RegisterLooks(w) \/ RegisterInserts(w)
    PROVE  NamesInv'
<1>1. CASE RegisterLooks(w)
  <2>1. Busy(w) /\ UNCHANGED <<user_file, overlapped>>
        BY <1>1 DEF RegisterLooks, At, Busy, tables
  <2>2. Return(w, 0) \/ (Goto(w, "register_insert") /\ UNCHANGED task)
        BY <1>1 DEF RegisterLooks
  <2> QED  BY <2>1, <2>2, ReturnKeeps, GoKeeps DEF HasDir, NameIsFree
<1>2. CASE RegisterInserts(w)
  <2>1. /\ Busy(w) /\ UNCHANGED overlapped /\ Return(w, Len(user) + 1)
        /\ user_file' = user_file \cup {Row(task[w].name, Len(user) + 1, Len(file) + 1, Null)}
        BY <1>2 DEF RegisterInserts, At, Busy
  <2>2. Frame(w) /\ pc'[w] = "idle"
        BY <2>1, ReturnFrame
  <2>3. ASSUME NamesDiffer  PROVE NamesDiffer'
        BY <2>1, <2>3 DEF NamesDiffer, Row
  <2>4. ~overlapped => NamesDiffer'
        BY <2>3 DEF NamesInv, AloneInv
  <2> QED  BY <2>1, <2>2, <2>4, StepKeeps DEF HasDir, NameIsFree
<1> QED  BY <1>1, <1>2

(* query_mkdir tests the name, and enters it if it is free.                *)
LEMMA MkdirKeeps ==
    ASSUME NamesInv, NEW w \in Workers, MkdirCd(w) \/ MkdirChecks(w) \/ MkdirInserts(w)
    PROVE  NamesInv'
<1>1. CASE MkdirCd(w)
      BY <1>1, LooksUpKeeps DEF MkdirCd, NameIsFree
<1>2. CASE MkdirChecks(w)
  <2>1. Busy(w) /\ pc[w] \in HasDir /\ UNCHANGED <<user_file, overlapped>>
        BY <1>2 DEF MkdirChecks, At, Busy, HasDir, tables
  <2>2. \/ Return(w, 1)
        \/ /\ Goto(w, "mkdir_insert") /\ UNCHANGED task
           /\ Named(task[w].dir, task[w].name) = {}
        BY <1>2 DEF MkdirChecks
  <2> QED  BY <2>1, <2>2, ReturnKeeps, GoKeeps
<1>3. CASE MkdirInserts(w)
  <2>1. /\ pc[w] \in NameIsFree /\ UNCHANGED overlapped /\ Return(w, 2)
        /\ user_file' = user_file \cup {Row(task[w].name, task[w].user, Len(file) + 1, task[w].dir)}
        BY <1>3 DEF MkdirInserts, At, NameIsFree
  <2>2. Frame(w) /\ pc'[w] \notin HasDir
        BY <2>1, ReturnFrame DEF HasDir, NameIsFree
  <2> QED  BY <2>1, <2>2, EnterKeeps
<1> QED  BY <1>1, <1>2, <1>3

(* The SELECTs of an upload enter nothing.                                 *)
LEMMA PutsReads ==
    ASSUME NamesInv, NEW w \in Workers,
           PutsCd(w) \/ PutsLooksForName(w) \/ PutsLooksAtSameName(w) \/ PutsLooksForHash(w)
    PROVE  NamesInv'
<1>1. CASE PutsCd(w)
      BY <1>1, LooksUpKeeps DEF PutsCd, NameIsFree
<1>2. CASE PutsLooksForName(w)
  <2>1. Busy(w) /\ pc[w] \in HasDir /\ UNCHANGED <<user_file, overlapped>>
        BY <1>2 DEF PutsLooksForName, At, Busy, HasDir, tables
  <2>2. CASE /\ Goto(w, "puts_hash") /\ UNCHANGED task
             /\ Named(task[w].dir, task[w].name) = {}
        BY <2>1, <2>2, GoKeeps
  <2>3. CASE Goto(w, "puts_same") /\ \E f : task' = [task EXCEPT ![w].file = f]
        BY <2>1, <2>3, GoKeeps DEF NameIsFree
  <2> QED  BY <1>2, <2>2, <2>3 DEF PutsLooksForName
<1>3. CASE PutsLooksAtSameName(w)
  <2>1. Busy(w) /\ UNCHANGED <<user_file, overlapped>>
        BY <1>3 DEF PutsLooksAtSameName, At, Busy, tables
  <2>2. Return(w, 0) \/ Return(w, 2) \/ ReturnUpload(w)
        BY <1>3 DEF PutsLooksAtSameName
  <2>3. CASE ReturnUpload(w)
        BY <2>1, <2>3, GoKeeps DEF ReturnUpload, HasDir, NameIsFree
  <2> QED  BY <2>1, <2>2, <2>3, ReturnKeeps
<1>4. CASE PutsLooksForHash(w)
  <2>1. /\ Busy(w) /\ pc[w] \in HasDir /\ pc[w] \in NameIsFree
        /\ UNCHANGED <<user_file, overlapped>>
        BY <1>4 DEF PutsLooksForHash, At, Busy, HasDir, NameIsFree, tables
  <2>2. CASE Goto(w, "puts_insert") /\ UNCHANGED task
        BY <2>1, <2>2, GoKeeps
  <2>3. ASSUME NEW l, Goto(w, l), \E f : task' = [task EXCEPT ![w].file = f]
        PROVE  NamesInv'
        BY <2>1, <2>3, GoKeeps
  <2> QED  BY <1>4, <2>2, <2>3 DEF PutsLooksForHash
<1> QED  BY <1>1, <1>2, <1>3, <1>4

(* An upload enters its name after the test.                               *)
LEMMA PutsEnters ==
    ASSUME NamesInv, NEW w \in Workers, PutsInserts(w) \/ PutsLinks(w)
    PROVE  NamesInv'
<1>1. /\ pc[w] \in NameIsFree /\ UNCHANGED overlapped
      /\ ReturnUpload(w) \/ Return(w, 2)
      /\ \E f : user_file' = user_file \cup {Row(task[w].name, task[w].user, f, task[w].dir)}
      BY DEF PutsInserts, PutsLinks, At, NameIsFree
<1>2. ASSUME ReturnUpload(w)  PROVE Frame(w) /\ pc'[w] = "upload"
      BY <1>2, GotoKeeps DEF ReturnUpload
<1>3. Frame(w) /\ pc'[w] \notin HasDir
      BY <1>1, <1>2, ReturnFrame DEF HasDir, NameIsFree
<1> QED  BY <1>1, <1>3, EnterKeeps

(* query_remove only takes entries away.                                   *)
LEMMA RemoveKeeps ==
    ASSUME NamesInv, NEW w \in Workers,
           RemoveCd(w) \/ RemoveFinds(w) \/ RemoveChecks(w) \/ RemoveDeletes(w)
    PROVE  NamesInv'
<1>1. CASE RemoveCd(w)
      BY <1>1, LooksUpKeeps DEF RemoveCd, NameIsFree
<1>2. CASE RemoveFinds(w)
  <2>1. Busy(w) /\ UNCHANGED <<user_file, overlapped>>
        BY <1>2 DEF RemoveFinds, At, Busy, tables
  <2>2. \/ Return(w, 1)
        \/ \E l \in {"rm_delete", "rm_children"} :
              Goto(w, l) /\ \E f : task' = [task EXCEPT ![w].file = f]
        BY <1>2 DEF RemoveFinds
  <2> QED  BY <2>1, <2>2, ReturnKeeps, GoKeeps DEF HasDir, NameIsFree
<1>3. CASE RemoveChecks(w)
  <2>1. Busy(w) /\ UNCHANGED <<user_file, overlapped>>
        BY <1>3 DEF RemoveChecks, At, Busy, tables
  <2>2. Return(w, 2) \/ (Goto(w, "rm_delete") /\ UNCHANGED task)
        BY <1>3 DEF RemoveChecks
  <2> QED  BY <2>1, <2>2, ReturnKeeps, GoKeeps DEF HasDir, NameIsFree
<1>4. CASE RemoveDeletes(w)
  <2>1. /\ Busy(w) /\ UNCHANGED overlapped /\ Return(w, 0)
        /\ user_file' \subseteq user_file
        BY <1>4 DEF RemoveDeletes, At, Busy
  <2>2. Frame(w) /\ pc'[w] \notin HasDir /\ pc'[w] \notin NameIsFree
        BY <2>1, ReturnFrame DEF HasDir, NameIsFree
  <2>3. ~overlapped => NamesDiffer'
        BY <2>1 DEF NamesInv, AloneInv, NamesDiffer
  <2> QED  BY <2>1, <2>2, <2>3, StepKeeps
<1> QED  BY <1>1, <1>2, <1>3, <1>4

(* Requests and answers that touch no entry.                               *)
LEMMA OthersKeep ==
    ASSUME NamesInv, NEW w \in Workers,
           \/ UploadCompletes(w) \/ UploadBreaksOff(w) \/ GetsCd(w) \/ GetsLooks(w)
           \/ ShowDir(w) \/ ShowDetail(w) \/ ShowDetailNames(w)
    PROVE  NamesInv'
<1>1. CASE GetsCd(w)
      BY <1>1, LooksUpKeeps DEF GetsCd, NameIsFree
<1>2. CASE ShowDetail(w)
      BY <1>2, LooksUpKeeps DEF ShowDetail, NameIsFree
<1>3. CASE UploadCompletes(w) \/ UploadBreaksOff(w) \/ GetsLooks(w) \/ ShowDir(w) \/ ShowDetailNames(w)
  <2>1. /\ Busy(w) /\ UNCHANGED <<user_file, overlapped>>
        /\ \E code : Return(w, code)
        BY <1>3 DEF UploadCompletes, UploadBreaksOff, GetsLooks, ShowDir, ShowDetailNames,
                    At, Busy, tables
  <2> QED  BY <2>1, ReturnKeeps
<1> QED  BY <1>1, <1>2, <1>3

-----------------------------------------------------------------------------
(* The tables start empty.                                                 *)
LEMMA NamesInvStarts == Init => NamesInv
<1> SUFFICES ASSUME Init PROVE NamesInv
    OBVIOUS
<1>1. DOMAIN task = Workers /\ \A w \in Workers : DOMAIN task[w] = Fields
      BY DEF Init, Fields
<1>2. AloneInv
      BY DEF Init, AloneInv, NamesDiffer, Busy, HasDir, NameIsFree
<1> QED  BY <1>1, <1>2 DEF Init, NamesInv

(* Every step keeps what is known of names and places.                     *)
LEMMA NamesInvKept == NamesInv /\ [Next]_vars => NamesInv'
<1> SUFFICES ASSUME NamesInv, [Next]_vars PROVE NamesInv'
    OBVIOUS
<1>1. CASE UNCHANGED vars
      BY <1>1 DEF vars, NamesInv, AloneInv, NamesDiffer, Busy, Named, InDir
<1>2. CASE Terminated
      BY <1>1, <1>2 DEF Terminated
<1>3. ASSUME NEW w \in Workers,
             \/ Receives(w) \/ RegisterLooks(w) \/ RegisterInserts(w)
             \/ MkdirCd(w) \/ MkdirChecks(w) \/ MkdirInserts(w)
             \/ PutsInserts(w) \/ PutsLinks(w)
             \/ PutsCd(w) \/ PutsLooksForName(w) \/ PutsLooksAtSameName(w) \/ PutsLooksForHash(w)
             \/ RemoveCd(w) \/ RemoveFinds(w) \/ RemoveChecks(w) \/ RemoveDeletes(w)
             \/ UploadCompletes(w) \/ UploadBreaksOff(w) \/ GetsCd(w) \/ GetsLooks(w)
             \/ ShowDir(w) \/ ShowDetail(w) \/ ShowDetailNames(w)
      PROVE  NamesInv'
      BY <1>3, ReceivesKeeps, RegisterKeeps, MkdirKeeps, PutsReads, PutsEnters, RemoveKeeps, OthersKeep
<1> QED  BY <1>1, <1>2, <1>3 DEF Next

-----------------------------------------------------------------------------
(* Directories with entries, one request at a time.                        *)

HasEntry(d, u) == \E q \in user_file : q.file_id = d /\ q.user_id = u

(* The directory a worker goes on with has its entry, and a directory that *)
(* a worker is about to remove is empty.                                   *)
Home(w) ==
    /\ pc[w] \in DirLabels \cup FileLabels /\ IsDir(task[w].dir) =>
          HasEntry(task[w].dir, task[w].user)
    /\ pc[w] = "rm_delete" /\ IsDir(task[w].file) => InDir(task[w].file) = {}

Parents == \A r \in user_file : IsDir(r.parent_id) => HasEntry(r.parent_id, r.user_id)

ParentsInv == ~overlapped => Parents /\ \A w \in Workers : Home(w)

OrphanInv == TreeInv /\ NamesInv /\ ParentsInv

(* The worker that steps is the only one at work, so its own place         *)
(* decides.                                                                *)
LEMMA StepKeepsParents ==
    ASSUME OrphanInv, NEW w \in Workers, pc[w] # "idle", Others(w), UNCHANGED overlapped,
           ~overlapped => Parents' /\ Home(w)'
    PROVE  ParentsInv'
<1>1. ASSUME ~overlapped, NEW v \in Workers, v # w
      PROVE  Home(v)'
  <2>1. pc[v] = "idle"
        BY <1>1 DEF OrphanInv, NamesInv, AloneInv, Busy
  <2>2. pc'[v] = "idle"
        BY <1>1, <2>1 DEF Others
  <2> QED  BY <2>2 DEF Home, DirLabels, FileLabels
<1> QED  BY <1>1 DEF ParentsInv

(* A worker that is done with its entries.                                 *)
LEMMA HomeWhenDone ==
    ASSUME NEW w, pc'[w] \notin DirLabels \cup FileLabels
    PROVE  Home(w)'
BY DEF Home, FileLabels

(* A statement that reads.                                                 *)
LEMMA ReadsKeepParents ==
    ASSUME OrphanInv, NEW w \in Workers, pc[w] # "idle", Others(w),
           UNCHANGED <<tables, overlapped>>,
           ~overlapped => Home(w)'
    PROVE  ParentsInv'
<1>1. UNCHANGED <<file, user_file>>
      BY DEF tables
<1>2. ~overlapped => Parents'
      BY <1>1 DEF OrphanInv, ParentsInv, Parents, HasEntry, IsDir, FileIds
<1> QED  BY <1>2, StepKeepsParents

(* A request that ends,                                                    *)
LEMMA EndsKeepsParents ==
    ASSUME OrphanInv, NEW w \in Workers, pc[w] # "idle", NEW code, Return(w, code),
           UNCHANGED <<tables, overlapped>>
    PROVE  ParentsInv'
<1>1. Others(w) /\ pc'[w] = "idle"
      BY ReturnsIdle DEF OrphanInv, TreeInv
<1>2. Home(w)'
      BY <1>1, HomeWhenDone DEF DirLabels, FileLabels
<1> QED  BY <1>1, <1>2, ReadsKeepParents

(* and one that goes on with the same directory.                           *)
LEMMA GoesOnKeepsParents ==
    ASSUME OrphanInv, NEW w \in Workers, NEW l \in Labels, Goto(w, l), pc[w] # "idle",
           UNCHANGED <<tables, overlapped>>,
           \/ UNCHANGED task
           \/ \E f \in FileIds : task' = [task EXCEPT ![w].file = f],
           l \in DirLabels \cup FileLabels => pc[w] \in DirLabels \cup FileLabels,
           l = "rm_delete" /\ IsDir(task'[w].file) => InDir(task'[w].file) = {}
    PROVE  ParentsInv'
<1>1. Typed /\ FileIds \subseteq Nat
      BY DEF OrphanInv, TreeInv, Tree, FileIds
<1>2. Others(w) /\ pc'[w] = l /\ task'[w].user = task[w].user
      BY <1>1, GoesOn
<1>3. task'[w].dir = task[w].dir
      BY <1>1 DEF Typed, Request
<1>4. UNCHANGED <<file, user_file>>
      BY DEF tables
<1>5. ASSUME ~overlapped
      PROVE  Home(w)'
  <2>1. Home(w)
        BY <1>5 DEF OrphanInv, ParentsInv
  <2>2. IsDir(task[w].dir)' <=> IsDir(task[w].dir)
        BY <1>3, <1>4 DEF IsDir, FileIds
  <2>3. HasEntry(task[w].dir, task[w].user)' <=> HasEntry(task[w].dir, task[w].user)
        BY <1>2, <1>3, <1>4 DEF HasEntry
  <2>4. /\ IsDir(task[w].file)' <=> IsDir(task'[w].file)
        /\ InDir(task[w].file)' = InDir(task'[w].file)
        BY <1>4 DEF IsDir, FileIds, InDir
  <2> QED  BY <1>2, <2>1, <2>2, <2>3, <2>4 DEF Home
<1> QED  BY <1>2, <1>5, ReadsKeepParents

(* The directory query_cd returned is one of the user's entries.           *)
LEMMA LooksUpKeepsParents ==
    ASSUME OrphanInv, NEW w \in Workers, NEW op \in {"mkdir", "puts", "gets", "rm", "ll"},
           NEW next \in DirLabels \cup {"ll_names"},
           NEW failed, NEW illegal, LooksUpDirectory(w, op, next, failed, illegal)
    PROVE  ParentsInv'
<1>1. pc[w] = op /\ UNCHANGED <<tables, overlapped>> /\ Tree /\ Typed /\ Place(w)
      BY DEF LooksUpDirectory, At, OrphanInv, TreeInv
<1>2. CASE Return(w, failed) \/ Return(w, illegal)
      BY <1>1, <1>2, EndsKeepsParents
<1>3. CASE /\ Goto(w, next) /\ Cd(w) > 0
           /\ task' = [task EXCEPT ![w].dir = Cd(w)]
  <2>1. /\ task[w].path # <<>> /\ task[w].path \in Seq(Names) /\ task[w] \in Request
        BY <1>1 DEF Place, Typed, Request
  <2>2. Cd(w) \in FileIds /\ HasEntry(Cd(w), task[w].user)
        BY <1>1, <1>3, <2>1, CdIsOwn DEF Cd, HasEntry
  <2>3. Cd(w) \in Nat /\ next \in Labels
        BY <1>1, <2>2 DEF FileIds, Tree, Labels
  <2>4. Others(w) /\ pc'[w] = next /\ task'[w].user = task[w].user
        BY <1>1, <1>3, <2>3, GoesOn
  <2>5. task'[w].dir = Cd(w)
        BY <1>1, <1>3, <2>1 DEF Typed, Request
  <2>6. Home(w)'
    <3>1. UNCHANGED user_file
          BY <1>1 DEF tables
    <3>2. HasEntry(task[w].dir, task[w].user)'
          BY <2>2, <2>4, <2>5, <3>1 DEF HasEntry
    <3>3. pc'[w] # "rm_delete"
          BY <2>4 DEF DirLabels
    <3> QED  BY <3>2, <3>3 DEF Home
  <2> QED  BY <1>1, <2>4, <2>6, ReadsKeepParents
<1> QED  BY <1>2, <1>3 DEF LooksUpDirectory

(* An entry is made in a directory that has one itself, or of a root.      *)
LEMMA EntryKeepsParents ==
    ASSUME OrphanInv, NEW w \in Workers, pc[w] # "idle", Others(w), UNCHANGED overlapped,
           \A d \in FileIds : IsDir(d)' => IsDir(d),
           pc'[w] \notin DirLabels \cup FileLabels,
           NEW n, NEW u, NEW f, NEW p, user_file' = user_file \cup {Row(n, u, f, p)},
           p # Null => p = task[w].dir /\ u = task[w].user /\ pc[w] \in DirLabels \cup FileLabels
    PROVE  ParentsInv'
<1>1. \A r \in user_file : r.parent_id \in FileIds \cup {Null}
      BY DEF OrphanInv, TreeInv, Tree, EntryRow
<1>2. Null \notin FileIds'
      BY DEF FileIds, Null
<1>3. ASSUME ~overlapped
      PROVE  Parents'
  <2> SUFFICES ASSUME NEW r \in user_file', IsDir(r.parent_id)'
               PROVE  HasEntry(r.parent_id, r.user_id)'
      BY DEF Parents
  <2>1. \A d, v : HasEntry(d, v) => HasEntry(d, v)'
        BY DEF HasEntry
  <2>2. r.parent_id # Null
        BY <1>2 DEF IsDir
  <2>3. CASE r \in user_file
        BY <1>1, <1>3, <2>1, <2>2, <2>3 DEF OrphanInv, ParentsInv, Parents
  <2>4. CASE r = Row(n, u, f, p)
    <3>1. /\ r.parent_id = task[w].dir /\ r.user_id = task[w].user
          /\ pc[w] \in DirLabels \cup FileLabels
          BY <2>2, <2>4 DEF Row
    <3>2. task[w].dir \in FileIds
          BY <3>1 DEF OrphanInv, TreeInv, Place
    <3>3. HasEntry(task[w].dir, task[w].user)
      <4>1. IsDir(task[w].dir)
            BY <3>1, <3>2
      <4> QED  BY <4>1, <1>3, <2>4, <3>1, <3>2 DEF OrphanInv, ParentsInv, Home
    <3>4. HasEntry(r.parent_id, r.user_id)
          BY <3>1, <3>3
    <3> QED  BY <3>4 DEF HasEntry
  <2> QED  BY <2>3, <2>4
<1> QED  BY <1>3, HomeWhenDone, StepKeepsParents

(* The statements that make one.                                           *)
LEMMA InsertsKeepParents ==
    ASSUME OrphanInv, TreeInv', NEW w \in Workers,
           RegisterInserts(w) \/ MkdirInserts(w) \/ PutsInserts(w) \/ PutsLinks(w)
    PROVE  ParentsInv'
<1>0. Typed /\ Tree' /\ Tree
      BY DEF OrphanInv, TreeInv
<1>1. /\ pc[w] # "idle" /\ UNCHANGED overlapped
      /\ \E n, u, f, p : /\ user_file' = user_file \cup {Row(n, u, f, p)}
                         /\ p # Null => /\ p = task[w].dir /\ u = task[w].user
                                        /\ pc[w] \in DirLabels \cup FileLabels
      BY DEF RegisterInserts, MkdirInserts, PutsInserts, PutsLinks, At, DirLabels, FileLabels
<1>2. Others(w) /\ pc'[w] \in {"idle", "upload"}
  <2>1. CASE \E code : Return(w, code)
        BY <1>0, <2>1, ReturnsIdle
  <2>2. CASE ReturnUpload(w)
    <3>1. "upload" \in Labels
          BY DEF Labels
    <3> QED  BY <1>0, <2>2, <3>1, GoesOn DEF ReturnUpload
  <2> QED  BY <2>1, <2>2 DEF RegisterInserts, MkdirInserts, PutsInserts, PutsLinks
<1>3. pc'[w] \notin DirLabels \cup FileLabels
      BY <1>2 DEF DirLabels, FileLabels
<1>4. \A d \in FileIds : file'[d] = file[d]
  <2>1. file \in Seq(FileRow) /\ (file' = file \/ \E row : file' = Append(file, row))
        BY <1>0 DEF RegisterInserts, MkdirInserts, PutsInserts, PutsLinks, Tree
  <2> QED  BY <2>1 DEF FileIds
<1>5. \A d \in FileIds : IsDir(d)' => IsDir(d)
      BY <1>4 DEF IsDir
<1> QED  BY <1>1, <1>2, <1>3, <1>5, EntryKeepsParents

(* query_remove takes away what is empty.                                  *)
LEMMA RemoveKeepsParents ==
    ASSUME OrphanInv, NEW w \in Workers,
           RemoveCd(w) \/ RemoveFinds(w) \/ RemoveChecks(w) \/ RemoveDeletes(w)
    PROVE  ParentsInv'
<1>0. /\ {"rm_children", "rm_delete"} \subseteq Labels /\ "rm_find" \in DirLabels
      /\ "rm_children" \in FileLabels
      BY DEF Labels, DirLabels, FileLabels
<1>1. CASE RemoveCd(w)
      BY <1>0, <1>1, LooksUpKeepsParents DEF RemoveCd
<1>2. CASE RemoveFinds(w)
  <2>1. pc[w] = "rm_find" /\ UNCHANGED <<tables, overlapped>>
        BY <1>2 DEF RemoveFinds, At
  <2>2. CASE Return(w, 1)
        BY <2>1, <2>2, EndsKeepsParents
  <2>3. ASSUME NEW r \in user_file, NEW l \in {"rm_delete", "rm_children"},
               Goto(w, l), task' = [task EXCEPT ![w].file = r.file_id],
               l = "rm_delete" => file[r.file_id].type = "file"
        PROVE  ParentsInv'
    <3>1. r.file_id \in FileIds
          BY DEF OrphanInv, TreeInv, Tree, EntryRow
    <3>2. task'[w].file = r.file_id
          BY <2>3 DEF OrphanInv, TreeInv, Typed, Request
    <3>3. ~(l = "rm_delete" /\ IsDir(task'[w].file))
          BY <2>3, <3>2 DEF IsDir
    <3> QED  BY <1>0, <2>1, <2>3, <3>1, <3>3, GoesOnKeepsParents
  <2> QED  BY <1>2, <2>2, <2>3 DEF RemoveFinds
<1>3. CASE RemoveChecks(w)
  <2>1. /\ pc[w] = "rm_children" /\ UNCHANGED <<tables, overlapped>>
        /\ \/ Return(w, 2)
           \/ Goto(w, "rm_delete") /\ UNCHANGED task /\ InDir(task[w].file) = {}
        BY <1>3 DEF RemoveChecks, At
  <2>2. CASE Goto(w, "rm_delete") /\ UNCHANGED task /\ InDir(task[w].file) = {}
    <3>1. task'[w] = task[w]
          BY <2>2
    <3> QED  BY <1>0, <2>1, <2>2, <3>1, GoesOnKeepsParents
  <2> QED  BY <2>1, <2>2, EndsKeepsParents
<1>4. CASE RemoveDeletes(w)
  <2>1. /\ pc[w] = "rm_delete" /\ UNCHANGED <<file, overlapped>> /\ Return(w, 0)
        /\ user_file' = {r \in user_file : ~ (/\ r.file_id = task[w].file
                                              /\ r.user_id = task[w].user)}
        BY <1>4 DEF RemoveDeletes, At
  <2>2. Others(w) /\ pc'[w] = "idle"
        BY <2>1, ReturnsIdle DEF OrphanInv, TreeInv
  <2>3. ASSUME ~overlapped
        PROVE  Parents'
    <3> SUFFICES ASSUME NEW r \in user_file', IsDir(r.parent_id)'
                 PROVE  HasEntry(r.parent_id, r.user_id)'
        BY DEF Parents
    <3>1. r \in user_file /\ IsDir(r.parent_id)
          BY <2>1 DEF IsDir, FileIds
    <3>2. PICK q \in user_file : q.file_id = r.parent_id /\ q.user_id = r.user_id
          BY <2>3, <3>1 DEF OrphanInv, ParentsInv, Parents, HasEntry
    <3>3. q.file_id # task[w].file
      <4> SUFFICES ASSUME q.file_id = task[w].file PROVE FALSE
          OBVIOUS
      <4>1. InDir(task[w].file) = {}
            BY <2>1, <2>3, <3>1, <3>2 DEF OrphanInv, ParentsInv, Home
      <4> QED  BY <3>1, <3>2, <4>1 DEF InDir
    <3>4. q \in user_file'
          BY <2>1, <3>3
    <3> QED  BY <3>2, <3>4 DEF HasEntry
  <2>4. Home(w)'
        BY <2>2, HomeWhenDone DEF DirLabels, FileLabels
  <2> QED  BY <2>1, <2>2, <2>3, <2>4, StepKeepsParents
<1> QED  BY <1>1, <1>2, <1>3, <1>4

(* The SELECTs of an upload.                                               *)
LEMMA PutsReadsKeepParents ==
    ASSUME OrphanInv, NEW w \in Workers,
           PutsCd(w) \/ PutsLooksForName(w) \/ PutsLooksAtSameName(w) \/ PutsLooksForHash(w)
    PROVE  ParentsInv'
<1>0. /\ {"puts_name", "puts_same", "puts_hash", "puts_insert", "puts_link", "puts_link_complete",
          "upload"} \subseteq Labels
      /\ {"puts_name", "puts_hash", "puts_insert"} \subseteq DirLabels
      /\ "upload" \notin DirLabels \cup FileLabels
      BY DEF Labels, DirLabels, FileLabels
<1>1. CASE PutsCd(w)
      BY <1>0, <1>1, LooksUpKeepsParents DEF PutsCd
<1>2. CASE PutsLooksForName(w)
  <2>1. pc[w] = "puts_name" /\ UNCHANGED <<tables, overlapped>>
        BY <1>2 DEF PutsLooksForName, At
  <2>2. CASE Goto(w, "puts_hash") /\ UNCHANGED task
        BY <1>0, <2>1, <2>2, GoesOnKeepsParents
  <2>3. ASSUME NEW r \in Named(task[w].dir, task[w].name), Goto(w, "puts_same"),
               task' = [task EXCEPT ![w].file = r.file_id]
        PROVE  ParentsInv'
    <3>1. r.file_id \in FileIds
          BY DEF Named, InDir, OrphanInv, TreeInv, Tree, EntryRow
    <3> QED  BY <1>0, <2>1, <2>3, <3>1, GoesOnKeepsParents
  <2> QED  BY <1>2, <2>2, <2>3 DEF PutsLooksForName
<1>3. CASE PutsLooksAtSameName(w)
  <2>1. /\ pc[w] = "puts_same" /\ UNCHANGED <<tables, overlapped>>
        /\ Return(w, 0) \/ Return(w, 2) \/ ReturnUpload(w)
        BY <1>3 DEF PutsLooksAtSameName, At
  <2>2. CASE ReturnUpload(w)
        BY <1>0, <2>1, <2>2, GoesOnKeepsParents DEF ReturnUpload
  <2> QED  BY <2>1, <2>2, EndsKeepsParents
<1>4. CASE PutsLooksForHash(w)
  <2>1. pc[w] = "puts_hash" /\ UNCHANGED <<tables, overlapped>>
        BY <1>4 DEF PutsLooksForHash, At
  <2>2. CASE Goto(w, "puts_insert") /\ UNCHANGED task
        BY <1>0, <2>1, <2>2, GoesOnKeepsParents
  <2>3. ASSUME NEW f \in WithHash(task[w].hash), NEW l \in {"puts_link_complete", "puts_link"},
               Goto(w, l), task' = [task EXCEPT ![w].file = f]
        PROVE  ParentsInv'
    <3>1. f \in FileIds /\ l # "rm_delete" /\ l \in Labels
          BY <1>0 DEF WithHash, FileIds
    <3> QED  BY <1>0, <2>1, <2>3, <3>1, GoesOnKeepsParents
  <2> QED  BY <1>4, <2>2, <2>3 DEF PutsLooksForHash
<1> QED  BY <1>1, <1>2, <1>3, <1>4

(* Everything else makes and takes away no entry.                          *)
LEMMA OthersKeepParents ==
    ASSUME OrphanInv, NEW w \in Workers,
           \/ RegisterLooks(w) \/ MkdirCd(w) \/ MkdirChecks(w) \/ UploadCompletes(w)
           \/ UploadBreaksOff(w) \/ GetsCd(w) \/ GetsLooks(w)
           \/ ShowDir(w) \/ ShowDetail(w) \/ ShowDetailNames(w)
    PROVE  ParentsInv'
<1>0. /\ {"register_insert", "mkdir_insert"} \subseteq Labels
      /\ {"mkdir_check", "gets_file"} \subseteq DirLabels
      /\ "register_insert" \notin DirLabels \cup FileLabels
      BY DEF Labels, DirLabels, FileLabels
<1>1. CASE MkdirCd(w) \/ GetsCd(w) \/ ShowDetail(w)
      BY <1>0, <1>1, LooksUpKeepsParents DEF MkdirCd, GetsCd, ShowDetail
<1>2. CASE RegisterLooks(w)
  <2>1. /\ pc[w] = "register" /\ UNCHANGED <<tables, overlapped>>
        /\ Return(w, 0) \/ (Goto(w, "register_insert") /\ UNCHANGED task)
        BY <1>2 DEF RegisterLooks, At
  <2> QED  BY <1>0, <2>1, EndsKeepsParents, GoesOnKeepsParents
<1>3. CASE MkdirChecks(w)
  <2>1. /\ pc[w] = "mkdir_check" /\ UNCHANGED <<tables, overlapped>>
        /\ Return(w, 1) \/ (Goto(w, "mkdir_insert") /\ UNCHANGED task)
        BY <1>3 DEF MkdirChecks, At
  <2> QED  BY <1>0, <2>1, EndsKeepsParents, GoesOnKeepsParents
<1>4. CASE UploadBreaksOff(w) \/ GetsLooks(w) \/ ShowDir(w) \/ ShowDetailNames(w)
  <2>1. /\ pc[w] # "idle" /\ UNCHANGED <<tables, overlapped>> /\ \E code : Return(w, code)
        BY <1>4 DEF UploadBreaksOff, GetsLooks, ShowDir, ShowDetailNames, At
  <2> QED  BY <2>1, EndsKeepsParents
<1>5. CASE UploadCompletes(w)
  <2>1. /\ pc[w] # "idle" /\ UNCHANGED <<user_file, overlapped>> /\ Return(w, 1)
        /\ file' = [f \in 1..Len(file) |-> IF f \in WithHash(task[w].hash)
                                           THEN [file[f] EXCEPT !.complete = TRUE] ELSE file[f]]
        BY <1>5 DEF UploadCompletes, At
  <2>2. file \in Seq(FileRow) /\ Len(file) \in Nat
        BY DEF OrphanInv, TreeInv, Tree
  <2>3. Len(file)' = Len(file) /\ \A f \in 1..Len(file) : file'[f].type = file[f].type
        BY <2>1, <2>2 DEF FileRow
  <2>4. \A d : IsDir(d)' => IsDir(d)
        BY <2>3 DEF IsDir, FileIds
  <2>5. ~overlapped => Parents'
        BY <2>1, <2>4 DEF OrphanInv, ParentsInv, Parents, HasEntry
  <2>6. Others(w) /\ pc'[w] = "idle"
        BY <2>1, ReturnsIdle DEF OrphanInv, TreeInv
  <2>7. Home(w)'
        BY <2>6, HomeWhenDone DEF DirLabels, FileLabels
  <2> QED  BY <2>1, <2>5, <2>6, <2>7, StepKeepsParents
<1> QED  BY <1>1, <1>2, <1>3, <1>4, <1>5

(* A worker that takes a request: only when no other is at work does it    *)
(* matter.                                                                 *)
LEMMA ReceivesKeepsParents ==
    ASSUME OrphanInv, NEW w \in Workers, Receives(w)
    PROVE  ParentsInv'
<1>1. PICK t : Accepts(w, t) /\ t.op \in Ops
  <2>1. ASSUME NEW a \in Accounts, ReceiveRegister(w, a)
        PROVE  \E t : Accepts(w, t) /\ t.op \in Ops
    <3> DEFINE t == [NoTask EXCEPT !.op = "register", !.name = a]
    <3>1. t.op = "register"
          BY DEF NoTask
    <3> QED  BY <2>1, <3>1 DEF ReceiveRegister
  <2>2. ASSUME NEW op, NEW u, NEW p, NEW n, NEW h, Receive(w, op, u, p, n, h)
        PROVE  \E t : Accepts(w, t) /\ t.op \in Ops
    <3> DEFINE t == [NoTask EXCEPT !.op = op, !.user = u, !.path = p, !.name = n, !.hash = h]
    <3>1. t.op = op
          BY DEF NoTask
    <3> QED  BY <2>2, <3>1 DEF Receive
  <2> QED  BY <2>1, <2>2 DEF Receives
<1>2. UNCHANGED <<file, user_file>>
      BY <1>1 DEF Accepts, tables
<1>3. ASSUME ~overlapped'
      PROVE  Parents' /\ \A v \in Workers : Home(v)'
  <2>1. ~overlapped /\ \A v \in Workers : pc[v] = "idle"
        BY <1>1, <1>3 DEF Accepts
  <2>2. Parents'
        BY <1>2, <2>1 DEF OrphanInv, ParentsInv, Parents, HasEntry, IsDir, FileIds
  <2>3. \A v \in Workers : pc'[v] \in Ops \cup {"idle"}
        BY <1>1, <2>1 DEF Accepts, Goto, OrphanInv, TreeInv, Typed
  <2>4. (Ops \cup {"idle"}) \cap (DirLabels \cup FileLabels) = {}
        BY TablesAssumption DEF DirLabels, FileLabels
  <2>5. \A v \in Workers : Home(v)'
        BY <2>3, <2>4, HomeWhenDone
  <2> QED  BY <2>2, <2>5
<1> QED  BY <1>3 DEF ParentsInv

-----------------------------------------------------------------------------
(* Nothing is in a directory at first.                                     *)
LEMMA OrphanInvStarts == Init => OrphanInv
<1> SUFFICES ASSUME Init PROVE OrphanInv
    OBVIOUS
<1>1. ParentsInv
      BY DEF Init, ParentsInv, Parents, Home, DirLabels, FileLabels
<1> QED  BY <1>1, TreeInvStarts, NamesInvStarts DEF OrphanInv

(* Every step keeps the three invariants together.                         *)
LEMMA OrphanInvKept == OrphanInv /\ [Next]_vars => OrphanInv'
<1> SUFFICES ASSUME OrphanInv, [Next]_vars PROVE OrphanInv'
    OBVIOUS
<1>0. TreeInv' /\ NamesInv'
      BY TreeInvKept, NamesInvKept DEF OrphanInv
<1>1. CASE UNCHANGED vars
  <2>1. ParentsInv'
        BY <1>1 DEF vars, OrphanInv, ParentsInv, Parents, Home, HasEntry, IsDir, FileIds, InDir
  <2> QED  BY <1>0, <2>1 DEF OrphanInv
<1>2. CASE Terminated
      BY <1>1, <1>2 DEF Terminated
<1>3. ASSUME NEW w \in Workers,
             \/ Receives(w)
             \/ RegisterInserts(w) \/ MkdirInserts(w) \/ PutsInserts(w) \/ PutsLinks(w)
             \/ PutsCd(w) \/ PutsLooksForName(w) \/ PutsLooksAtSameName(w) \/ PutsLooksForHash(w)
             \/ RemoveCd(w) \/ RemoveFinds(w) \/ RemoveChecks(w) \/ RemoveDeletes(w)
             \/ RegisterLooks(w) \/ MkdirCd(w) \/ MkdirChecks(w)
             \/ UploadCompletes(w) \/ UploadBreaksOff(w) \/ GetsCd(w) \/ GetsLooks(w)
             \/ ShowDir(w) \/ ShowDetail(w) \/ ShowDetailNames(w)
      PROVE  OrphanInv'
  <2>1. ParentsInv'
        BY <1>0, <1>3, ReceivesKeepsParents, InsertsKeepParents, PutsReadsKeepParents,
           RemoveKeepsParents, OthersKeepParents
  <2> QED  BY <1>0, <2>1 DEF OrphanInv
<1> QED  BY <1>1, <1>2, <1>3 DEF Next

-----------------------------------------------------------------------------
(* What is proved.                                                         *)

(* However requests overlap, rows refer to rows, keys are unique, and a    *)
(* statement that uses a directory or file id has one of an existing row,  *)
(* never the 0 or -1 of a query_cd that failed (deal_sql.c:176-180).       *)
THEOREM TypeCorrect == Spec => []TypeOK
<1>1. TreeInv => TypeOK
  <2> SUFFICES ASSUME TreeInv PROVE TypeOK
      OBVIOUS
  <2>1. \A f \in FileIds : file[f] \in FileRow
        BY DEF TreeInv, Tree, FileIds
  <2> QED  BY <2>1 DEF TreeInv, Tree, Typed, Place, TypeOK
<1> QED  BY <1>1, TreeInvStarts, TreeInvKept, PTL DEF Spec

(* However requests overlap, the directories are a forest in which every   *)
(* user has trees of their own: a directory has one entry, below an older  *)
(* directory, and what is in it is of its user (the inserts of             *)
(* query_mkdir, query_puts and user_register).                             *)
THEOREM ForestOfEachUser == Spec => []DirectoriesFormATree
<1>1. TreeInv => DirectoriesFormATree
      BY DEF TreeInv, Tree
<1> QED  BY <1>1, TreeInvStarts, TreeInvKept, PTL DEF Spec

(* For every path and every set of entries: what query_cd accepts leads,   *)
(* name by name, from the user's root to what it returns                   *)
(* (deal_sql.c:87-103).                                                    *)
THEOREM CdIsSound == Spec => []CdFollowsEntries
<1>1. TreeInv => CdFollowsEntries
  <2> SUFFICES ASSUME TreeInv, NEW u \in 1..Len(user), NEW path \in Paths(u),
                      query_cd(path, u) > 0, RootFirst(u)
               PROVE  \E e \in Chains(u, path) : Leads(u, path, e, query_cd(path, u))
      BY DEF CdFollowsEntries
  <2>1. path \in Seq(Names) /\ path # <<>>
        BY PathsAreNames DEF TreeInv
  <2>2. Keyed(u) /\ RootEntry(u)
        BY RowsAreKeyed DEF TreeInv
  <2> QED  BY <2>1, <2>2, CdFollows
<1> QED  BY <1>1, TreeInvStarts, TreeInvKept, PTL DEF Spec

(* For every path and every set of entries in which names differ: one pass *)
(* in the order of the file ids is enough, because a directory is always   *)
(* younger than the one it is in (deal_sql.c:87-113).                      *)
THEOREM CdIsComplete == Spec => []CdFindsDirectories
<1>1. TreeInv => CdFindsDirectories
  <2> SUFFICES ASSUME TreeInv, NamesDiffer, NEW u \in 1..Len(user), RootFirst(u),
                      NEW path \in Paths(u), NEW e \in Chains(u, path),
                      Leads(u, path, e, e[Len(path)].file_id),
                      \A i \in 1..Len(path) : IsDir(e[i].file_id)
               PROVE  query_cd(path, u) = e[Len(path)].file_id
      BY DEF CdFindsDirectories
  <2>1. path \in Seq(Names) /\ path # <<>>
        BY PathsAreNames DEF TreeInv
  <2>2. Keyed(u) /\ RootEntry(u) /\ \A r \in RowOf(u) : r \in user_file /\ r.user_id = u
        BY RowsAreKeyed DEF TreeInv
  <2>3. Ordered(u)[1].parent_id = Null
        BY <2>2, RootIsFirst
  <2>4. Len(path) \in Nat /\ \A i \in 1..Len(path) : e[i] \in RowOf(u)
        BY <2>1 DEF Chains
  <2>5. ASSUME NEW i \in 1..(Len(path) - 1)
        PROVE  e[i].file_id < e[i + 1].file_id
    <3>1. i \in 1..Len(path) /\ i + 1 \in 1..Len(path)
          BY <2>4
    <3>2. e[i + 1].parent_id = e[i].file_id
          BY DEF Leads
    <3>3. e[i + 1] \in user_file /\ IsDir(e[i + 1].file_id)
          BY <2>2, <2>4, <3>1
    <3> QED  BY <3>2, <3>3 DEF TreeInv, Tree, DirectoriesFormATree
  <2>6. ASSUME NEW i \in 1..Len(path), NEW r \in RowOf(u),
               r.name = e[i].name, r.parent_id = e[i].parent_id
        PROVE  r = e[i]
    <3>1. /\ r \in user_file /\ e[i] \in user_file
          /\ r.user_id = u /\ e[i].user_id = u
          BY <2>2, <2>4
    <3> QED  BY <2>6, <3>1 DEF NamesDiffer, TreeInv, Tree
  <2> QED  BY <2>1, <2>2, <2>3, <2>5, <2>6, CdFinds
<1> QED  BY <1>1, TreeInvStarts, TreeInvKept, PTL DEF Spec

(* Whatever directories, names and contents requests work on: as long as   *)
(* no request begins while another is handled, no two entries of one       *)
(* directory get the same name (the test and the insert of query_mkdir and *)
(* query_puts, deal_sql.c:182-204).                                        *)
THEOREM NamesAreUnique == Spec => []UniqueNames
<1>1. NamesInv => UniqueNames
      BY DEF NamesInv, AloneInv, UniqueNames
<1> QED  BY <1>1, NamesInvStarts, NamesInvKept, PTL DEF Spec

(* However requests overlap: an entry is only ever taken away by the       *)
(* request of a worker that handles it for the user of the entry           *)
(* (query_remove, deal_sql.c:404).                                         *)
THEOREM OthersKeepTheirEntries == Spec => RemovalsStayWithinUser
<1> DEFINE Taken == \A r \in user_file : r \notin user_file' =>
                        \E w \in Workers : pc[w] # pc'[w] /\ task[w].user = r.user_id
<1>1. NamesInv /\ [Next]_vars => [Taken]_vars
  <2> SUFFICES ASSUME NamesInv, Next PROVE Taken
      OBVIOUS
  <2>1. ASSUME NEW w \in Workers, RemoveDeletes(w)
        PROVE  Taken
    <3>1. pc[w] # pc'[w]
          BY <2>1, ReturnFrame DEF RemoveDeletes, At
    <3> QED  BY <2>1, <3>1 DEF RemoveDeletes
  <2>2. ASSUME user_file \subseteq user_file'
        PROVE  Taken
        BY <2>2
  <2>3. ASSUME NEW w \in Workers, Receives(w)
        PROVE  user_file' = user_file
        BY <2>3 DEF Receives, ReceiveRegister, Receive, Accepts, tables
  <2>4. ASSUME NEW w \in Workers,
               \/ RegisterLooks(w) \/ RegisterInserts(w) \/ MkdirChecks(w) \/ MkdirInserts(w)
               \/ PutsLooksForName(w) \/ PutsLooksAtSameName(w) \/ PutsLooksForHash(w)
               \/ PutsInserts(w) \/ PutsLinks(w) \/ UploadCompletes(w) \/ UploadBreaksOff(w)
               \/ GetsLooks(w) \/ RemoveFinds(w) \/ RemoveChecks(w)
               \/ ShowDir(w) \/ ShowDetailNames(w)
        PROVE  user_file \subseteq user_file'
        BY <2>4 DEF RegisterLooks, RegisterInserts, MkdirChecks, MkdirInserts, PutsLooksForName,
                    PutsLooksAtSameName, PutsLooksForHash, PutsInserts, PutsLinks, UploadCompletes,
                    UploadBreaksOff, GetsLooks, RemoveFinds, RemoveChecks, ShowDir,
                    ShowDetailNames, tables
  <2>5. ASSUME NEW w \in Workers,
               MkdirCd(w) \/ PutsCd(w) \/ GetsCd(w) \/ RemoveCd(w) \/ ShowDetail(w)
        PROVE  user_file' = user_file
        BY <2>5 DEF MkdirCd, PutsCd, GetsCd, RemoveCd, ShowDetail, LooksUpDirectory, tables
  <2>6. Terminated => user_file' = user_file
        BY DEF Terminated, vars
  <2> QED  BY <2>1, <2>2, <2>3, <2>4, <2>5, <2>6 DEF Next
<1> QED  BY <1>1, NamesInvStarts, NamesInvKept, PTL DEF Spec, RemovalsStayWithinUser

(* As long as no request begins while another is handled, a directory with *)
(* entries keeps its own (the test of query_remove, deal_sql.c:389-403).   *)
THEOREM DirectoriesStay == Spec => []NoOrphans
<1>1. OrphanInv => NoOrphans
      BY DEF OrphanInv, ParentsInv, Parents, HasEntry, NoOrphans
<1> QED  BY <1>1, OrphanInvStarts, OrphanInvKept, PTL DEF Spec
=============================================================================
