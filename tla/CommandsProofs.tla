--------------------------- MODULE CommandsProofs ---------------------------
(***************************************************************************)
(* What the server makes of a typed line, for every name, directory, set   *)
(* of characters and length of line.                                       *)
(*                                                                         *)
(* The loops over characters are folds of the community modules, whose     *)
(* recursive function is defined on sets of indices.  A theorem about them *)
(* needs that such a function exists and that it goes through the indices  *)
(* in order; both are shown once, for any step function (FoldOverSets,     *)
(* FoldIsRun, FoldOfSeq), from the least-number principle, since an        *)
(* induction rule that takes an operator cannot be instantiated here.      *)
(*                                                                         *)
(* Then each helper is given rules: Split and Resolve step by step, the    *)
(* form of remove_space's result (Clean), the first word and the rest, the *)
(* last name of a path.  SimplifyResolves is the main one: simplifyPath,   *)
(* which copies characters and cuts them off again at lengths it has       *)
(* stored, computes what a stack of names computes.  The invariant IInv of *)
(* the specification says where the user is and what is under way; the     *)
(* four properties follow from it and these rules.                         *)
(***************************************************************************)
EXTENDS Commands, FiniteSetTheorems, SequenceTheorems, NaturalsInduction,
        WellFoundedInduction, TLAPS

-----------------------------------------------------------------------------
(* Induction over numbers and over sequences.                              *)

(* A non-empty set of numbers has a least member,                          *)
LEMMA LeastNat ==
    ASSUME NEW S \in SUBSET Nat, S # {}
    PROVE  \E n \in S : \A m \in S : n <= m
<1>1. PICK n \in S : \A m \in S : <<m, n>> \notin OpToRel(<, Nat)
      BY NatLessThanWellFounded, WFMin
<1>2. \A m \in S : ~(m < n)
      BY <1>1 DEF OpToRel
<1> QED  BY <1>2

(* so a set that has 0 and every successor up to a bound has all numbers   *)
(* up to the bound.                                                        *)
LEMMA CountingUp ==
    ASSUME NEW b \in Nat, NEW S, 0 \in S, \A n \in Nat : n < b /\ n \in S => n + 1 \in S
    PROVE  \A n \in 0..b : n \in S
<1> SUFFICES ASSUME (0..b) \ S # {} PROVE FALSE
    OBVIOUS
<1>0. (0..b) \ S \in SUBSET Nat
      OBVIOUS
<1>1. PICK n \in (0..b) \ S : \A m \in (0..b) \ S : n <= m
      BY <1>0, LeastNat
<1>2. n # 0 /\ n - 1 \in Nat /\ n - 1 < b /\ n - 1 \in 0..b
      BY <1>1
<1>3. n - 1 \in S
      BY <1>1, <1>2
<1>4. (n - 1) + 1 = n
      BY <1>1
<1> QED  BY <1>1, <1>2, <1>3, <1>4

(* A set of sequences that has the empty one and every longer one is Seq.  *)
LEMMA SeqInduction ==
    ASSUME NEW S, NEW P, <<>> \in P,
           \A s \in Seq(S), e \in S : s \in P => Append(s, e) \in P
    PROVE  \A s \in Seq(S) : s \in P
<1> SUFFICES ASSUME NEW s \in Seq(S) PROVE s \in P
    OBVIOUS
<1>0. Len(s) \in Nat /\ \A i \in 1..Len(s) : s[i] \in S
      BY LenProperties, ElementOfSeq
<1> DEFINE Good == {n \in 0..Len(s) : SubSeq(s, 1, n) \in P}
<1>1. 0 \in Good
  <2>0. SubSeq(s, 1, 0) \in Seq(S) /\ Len(SubSeq(s, 1, 0)) = 0
        BY <1>0
  <2>1. SubSeq(s, 1, 0) = <<>>
        BY <2>0
  <2>2. SubSeq(s, 1, 0) \in P
        BY <2>1, Zenon
  <2> QED  BY <1>0, <2>2
<1>2. ASSUME NEW n \in Nat, n < Len(s), n \in Good
      PROVE  n + 1 \in Good
  <2>1. /\ SubSeq(s, 1, n) \in Seq(S) /\ SubSeq(s, 1, n + 1) \in Seq(S)
        /\ Len(SubSeq(s, 1, n)) = n /\ Len(SubSeq(s, 1, n + 1)) = n + 1
        /\ \A i \in 1..n : SubSeq(s, 1, n)[i] = s[i]
        /\ \A i \in 1..n + 1 : SubSeq(s, 1, n + 1)[i] = s[i]
        BY <1>0, <1>2
  <2>2. s[n + 1] \in S
        BY <1>0, <1>2
  <2>3. SubSeq(s, 1, n + 1) = Append(SubSeq(s, 1, n), s[n + 1])
    <3>1. SubSeq(s, 1, n + 1) = SubSeq(s, 1, n + 1 - 1) \o <<s[n + 1]>>
          BY <1>0, <1>2, SubSeqRecursiveSecond
    <3>2. Append(SubSeq(s, 1, n), s[n + 1]) = SubSeq(s, 1, n) \o <<s[n + 1]>>
          BY <2>1, <2>2, AppendIsConcat
    <3> QED  BY <3>1, <3>2
  <2>4. SubSeq(s, 1, n + 1) \in P
        BY <1>2, <2>1, <2>2, <2>3
  <2> QED  BY <1>0, <1>2, <2>4
<1>3. \A n \in 0..Len(s) : n \in Good
      BY <1>0, <1>1, <1>2, CountingUp
<1>4. SubSeq(s, 1, Len(s)) \in P
      BY <1>0, <1>3
<1> QED  BY <1>4, SubSeqFull

-----------------------------------------------------------------------------
(* Folds.                                                                  *)

(* The bodies of loops over S whose states are in A.                       *)
Bodies(A, S) == [S -> [A -> A]]

(* The states of a loop over 1..N; step[n] is its body for n.              *)
IsRun(A, N, step, base, r) ==
    /\ r \in [0..N -> A] /\ r[0] = base
    /\ \A n \in 1..N : r[n] = step[n][r[n - 1]]

(* Every loop runs.                                                        *)
LEMMA LoopRuns ==
    ASSUME NEW A, NEW N \in Nat, NEW step \in Bodies(A, 1..N), NEW base \in A
    PROVE  \E r : IsRun(A, N, step, base, r)
<1> USE DEF Bodies
<1> DEFINE Run(m) == {r \in [0..m -> A] :
                        r[0] = base /\ \A n \in 1..m : r[n] = step[n][r[n - 1]]}
           Good == {m \in 0..N : Run(m) # {}}
<1>1. 0 \in Good
  <2> DEFINE q == [n \in 0..0 |-> base]
  <2>1. q \in Run(0)
        OBVIOUS
  <2> QED  BY <2>1
<1>2. ASSUME NEW m \in Nat, m < N, m \in Good
      PROVE  m + 1 \in Good
  <2>1. PICK r \in [0..m -> A] :
              r[0] = base /\ \A n \in 1..m : r[n] = step[n][r[n - 1]]
        BY <1>2
  <2> DEFINE next == step[m + 1][r[m]]
             q    == [n \in 0..m + 1 |-> IF n = m + 1 THEN next ELSE r[n]]
  <2>2. r[m] \in A /\ m + 1 \in 1..N
        BY <2>1, <1>2
  <2>3. next \in A
        BY <2>2
  <2>4. q \in [0..m + 1 -> A]
        BY <2>1, <2>3, <1>2
  <2>5. q[0] = base
        BY <2>1, <1>2
  <2>6. ASSUME NEW n \in 1..m + 1 PROVE q[n] = step[n][q[n - 1]]
    <3>1. CASE n = m + 1
      <4>1. q[n] = next /\ q[n - 1] = r[m]
            BY <3>1, <1>2
      <4> QED  BY <3>1, <4>1
    <3>2. CASE n # m + 1
      <4>1. q[n] = r[n] /\ q[n - 1] = r[n - 1] /\ n \in 1..m
            BY <3>2, <1>2
      <4> QED  BY <4>1, <2>1
    <3> QED  BY <3>1, <3>2
  <2> HIDE DEF q
  <2>7. q \in Run(m + 1)
        BY <2>4, <2>5, <2>6
  <2> QED  BY <2>7, <1>2
<1> HIDE DEF Run
<1>3. N \in Good
  <2>1. \A n \in 0..N : n \in Good
        BY <1>1, <1>2, CountingUp
  <2> QED  BY <2>1
<1> QED  BY <1>3 DEF Run, IsRun

(* So a function on sequences can be defined from the back: its value for  *)
(* a longer sequence from its value for the sequence.                      *)
FromBack(A, C, step, base, F) ==
    /\ F \in [Seq(C) -> A] /\ F[<<>>] = base
    /\ \A s \in Seq(C), c \in C : F[Append(s, c)] = step[c][F[s]]

LEMMA FoldExists ==
    ASSUME NEW A, NEW C, NEW step \in Bodies(A, C), NEW base \in A
    PROVE  \E F : FromBack(A, C, step, base, F)
<1> USE DEF Bodies
<1> DEFINE Run(s, r) == /\ r \in [0..Len(s) -> A] /\ r[0] = base
                        /\ \A n \in 1..Len(s) : r[n] = step[s[n]][r[n - 1]]
           Val(s) == CHOOSE r : Run(s, r)
           F == [s \in Seq(C) |-> Val(s)[Len(s)]]
<1>1. ASSUME NEW s \in Seq(C) PROVE Run(s, Val(s))
  <2> DEFINE st == [n \in 1..Len(s) |-> step[s[n]]]
  <2>0. Len(s) \in Nat /\ \A i \in 1..Len(s) : s[i] \in C
        BY LenProperties, ElementOfSeq
  <2>1. st \in [1..Len(s) -> [A -> A]]
        BY <2>0
  <2>2. \A n \in 1..Len(s) : st[n] = step[s[n]]
        OBVIOUS
  <2> HIDE DEF st
  <2>3. PICK r : IsRun(A, Len(s), st, base, r)
    <3>1. st \in Bodies(A, 1..Len(s))
          BY <2>1
    <3> HIDE DEF Bodies
    <3> QED  BY <2>0, <3>1, LoopRuns
  <2>4. Run(s, r)
        BY <2>2, <2>3 DEF IsRun
  <2> QED  BY <2>4
<1>2. ASSUME NEW s \in Seq(C), NEW c \in C
      PROVE  F[Append(s, c)] = step[c][F[s]]
  <2> DEFINE t == Append(s, c)  q == Val(t)  r == Val(s)
  <2>1. t \in Seq(C) /\ Len(t) = Len(s) + 1 /\ Len(s) \in Nat /\ t[Len(s) + 1] = c
        /\ \A i \in 1..Len(s) : t[i] = s[i]
        BY AppendProperties, LenProperties
  <2>2. Run(s, r) /\ Run(t, q)
        BY <1>1, <2>1
  <2> DEFINE Same == {n \in 0..Len(s) : q[n] = r[n]}
  <2> HIDE DEF t, q, r
  <2>3. 0 \in Same
        BY <2>1, <2>2
  <2>4. ASSUME NEW n \in Nat, n < Len(s), n \in Same PROVE n + 1 \in Same
    <3>1. n + 1 \in 1..Len(s) /\ n + 1 \in 1..Len(t) /\ (n + 1) - 1 = n
          BY <2>1, <2>4
    <3>2. r[n + 1] = step[s[n + 1]][r[n]] /\ q[n + 1] = step[t[n + 1]][q[n]]
          BY <3>1, <2>2
    <3>3. q[n] = r[n] /\ s[n + 1] = t[n + 1] /\ n + 1 \in 0..Len(s)
          BY <3>1, <2>1, <2>4
    <3>4. q[n + 1] = r[n + 1]
          BY <3>2, <3>3
    <3> QED  BY <3>3, <3>4
  <2>5. \A n \in 0..Len(s) : n \in Same
        BY <2>1, <2>3, <2>4, CountingUp
  <2>6. q[Len(s)] = r[Len(s)]
        BY <2>1, <2>5
  <2>7. q[Len(t)] = step[c][q[Len(s)]]
    <3>1. Len(t) \in 1..Len(t) /\ Len(t) - 1 = Len(s) /\ t[Len(t)] = c
          BY <2>1
    <3> QED  BY <3>1, <2>2
  <2>8. F[t] = q[Len(t)] /\ F[s] = r[Len(s)]
        BY <2>1 DEF q, r
  <2> QED  BY <2>6, <2>7, <2>8 DEF t
<1>3. F \in [Seq(C) -> A]
  <2>1. ASSUME NEW s \in Seq(C) PROVE Val(s)[Len(s)] \in A
    <3>1. Run(s, Val(s))
          BY <1>1
    <3>2. Len(s) \in 0..Len(s)
          BY LenProperties
    <3> HIDE DEF Val
    <3> QED  BY <3>1, <3>2
  <2> HIDE DEF Val
  <2> QED  BY <2>1
<1>4. F[<<>>] = base
  <2>1. <<>> \in Seq(C) /\ Len(<<>>) = 0
        BY EmptySeq
  <2>2. Run(<<>>, Val(<<>>))
        BY <1>1, <2>1
  <2> HIDE DEF Val
  <2> QED  BY <2>1, <2>2
<1> HIDE DEF F
<1> QED  BY <1>2, <1>3, <1>4 DEF FromBack

(* The folds of the community modules go over the sets of indices, taking  *)
(* the greatest index last.                                                *)
LEMMA MaxIsGreatest ==
    ASSUME NEW N \in Nat, NEW t \in SUBSET (1..N), t # {}
    PROVE  Max(t) \in t /\ \A n \in t : n <= Max(t)
<1> DEFINE S == {N - n : n \in t}
<1>0. \A n \in t : n \in 1..N /\ N - n \in Nat
      OBVIOUS
<1>1. S \in SUBSET Nat /\ S # {}
      BY <1>0
<1>2. PICK d \in S : \A e \in S : d <= e
      BY <1>1, LeastNat
<1>3. PICK m \in t : d = N - m
      BY <1>2
<1>4. \A n \in t : n <= m
  <2> SUFFICES ASSUME NEW n \in t PROVE n <= m
      OBVIOUS
  <2>1. N - n \in S
        OBVIOUS
  <2>2. N - m <= N - n
        BY <1>2, <1>3, <2>1
  <2>3. n \in Int /\ m \in Int
        BY <1>0
  <2> QED  BY <2>2, <2>3
<1>5. \E x \in t : \A y \in t : x >= y
      BY <1>4
<1> QED  BY <1>5 DEF Max

(* What such a fold computes on sets of indices, where it stays in A.      *)
IsFold(A, N, step, base, f) ==
    /\ f[{}] = base
    /\ \A t \in SUBSET (1..N) : t # {} =>
          LET rest == t \ {Max(t)} IN f[rest] \in A => f[t] = step[Max(t)][f[rest]]

(* It is the run of the loop,                                              *)
LEMMA FoldIsRun ==
    ASSUME NEW A, NEW N \in Nat, NEW step \in Bodies(A, 1..N), NEW base \in A,
           NEW f, IsFold(A, N, step, base, f), NEW r, IsRun(A, N, step, base, r)
    PROVE  f[1..N] = r[N]
<1> DEFINE Same == {n \in 0..N : f[1..n] = r[n]}
<1>1. 0 \in Same
  <2>1. 1..0 = {}
        OBVIOUS
  <2>2. f[1..0] = r[0]
        BY <2>1 DEF IsFold, IsRun
  <2> QED  BY <2>2
<1>2. ASSUME NEW n \in Nat, n < N, n \in Same PROVE n + 1 \in Same
  <2> DEFINE t == 1..n + 1
  <2>0. n + 1 \in 1..N /\ (n + 1) - 1 = n /\ n + 1 \in t
        BY <1>2
  <2>a. \A k \in t : k \in 1..N
        BY <1>2
  <2>1. t \in SUBSET (1..N) /\ t # {} /\ n + 1 \in t /\ n + 1 \in 1..N /\ (n + 1) - 1 = n
    <3> HIDE DEF t
    <3> QED  BY <2>0, <2>a
  <2>2. Max(t) = n + 1
    <3>1. Max(t) \in t /\ n + 1 <= Max(t)
          BY <2>1, MaxIsGreatest
    <3> QED  BY <3>1
  <2>3. t \ {n + 1} = 1..n
        BY <1>2
  <2>4. f[1..n] = r[n] /\ r[n] \in A
        BY <1>2 DEF IsRun
  <2> HIDE DEF t
  <2>5. f[t] = step[n + 1][f[1..n]]
        BY <2>1, <2>2, <2>3, <2>4 DEF IsFold
  <2>6. r[n + 1] = step[n + 1][r[n]]
        BY <2>1 DEF IsRun
  <2> QED  BY <1>2, <2>4, <2>5, <2>6 DEF t
<1>3. \A n \in 0..N : n \in Same
      BY <1>1, <1>2, CountingUp
<1>4. N \in Same
      BY <1>3
<1> QED  BY <1>4 DEF IsRun

(* and it exists.                                                          *)
FoldInside(A, N, step, base, f) ==
    /\ f \in [SUBSET (1..N) -> A] /\ f[{}] = base
    /\ \A t \in SUBSET (1..N) : t # {} =>
          Max(t) \in t /\ f[t] = step[Max(t)][f[t \ {Max(t)}]]

LEMMA FoldOverSets ==
    ASSUME NEW A, NEW N \in Nat, NEW step \in Bodies(A, 1..N), NEW base \in A
    PROVE  \E f : FoldInside(A, N, step, base, f)
<1> USE DEF Bodies
<1> DEFINE B    == [SUBSET (1..N) -> A]
           body(n, g) == [t \in SUBSET (1..N) |-> IF n \in t THEN step[n][g[t]] ELSE g[t]]
           many == [n \in 1..N |-> [g \in B |-> body(n, g)]]
           all  == [t \in SUBSET (1..N) |-> base]
<1>1. all \in B
      OBVIOUS
<1>2. \A n \in 1..N, g \in B : body(n, g) \in B
      OBVIOUS
<1>3. many \in Bodies(B, 1..N)
  <2> HIDE DEF body, B
  <2> QED  BY <1>2 DEF Bodies
<1>4. \A n \in 1..N, g \in B, t \in SUBSET (1..N) :
         many[n][g][t] = IF n \in t THEN step[n][g[t]] ELSE g[t]
      OBVIOUS
<1> HIDE DEF body, many
<1>5. PICK r : IsRun(B, N, many, all, r)
  <2> HIDE DEF Bodies, B, all
  <2> QED  BY <1>1, <1>3, LoopRuns
<1>6. \A n \in 0..N : r[n] \in B
      BY <1>5 DEF IsRun
<1>7. \A n \in Nat, t \in SUBSET (1..N) :
         n < N => r[n + 1][t] = IF n + 1 \in t THEN step[n + 1][r[n][t]] ELSE r[n][t]
  <2> SUFFICES ASSUME NEW n \in Nat, NEW t \in SUBSET (1..N), n < N
               PROVE  r[n + 1][t] = IF n + 1 \in t THEN step[n + 1][r[n][t]] ELSE r[n][t]
      OBVIOUS
  <2>1. n + 1 \in 1..N /\ (n + 1) - 1 = n /\ n \in 0..N
        OBVIOUS
  <2>2. r[n + 1] = many[n + 1][r[n]]
        BY <2>1, <1>5 DEF IsRun
  <2>3. r[n] \in B
        BY <2>1, <1>6
  <2> HIDE DEF B
  <2> QED  BY <1>4, <2>1, <2>2, <2>3
<1> DEFINE f == r[N]
<1>8. f \in B /\ f[{}] = base
  <2> DEFINE Same == {n \in 0..N : r[n][{}] = base}
  <2>1. 0 \in Same
        BY <1>5 DEF IsRun
  <2>2. ASSUME NEW n \in Nat, n < N, n \in Same PROVE n + 1 \in Same
        BY <2>2, <1>7
  <2>3. \A n \in 0..N : n \in Same
        BY <2>1, <2>2, CountingUp
  <2>4. N \in Same /\ N \in 0..N
        BY <2>3
  <2> QED  BY <2>4, <1>6
<1>9. ASSUME NEW t \in SUBSET (1..N), t # {}
      PROVE  Max(t) \in t /\ f[t] = step[Max(t)][f[t \ {Max(t)}]]
  <2> DEFINE m == Max(t)  u == t \ {m}
  <2>1. m \in t /\ m \in 1..N /\ \A n \in t : n <= m
        BY <1>9, MaxIsGreatest
  <2> HIDE DEF m
  <2>2. u \in SUBSET (1..N)
        OBVIOUS
  <2> DEFINE Same == {n \in 0..N : r[n][t] = IF n < m THEN r[n][u] ELSE step[m][r[n][u]]}
  <2>3. 0 \in Same
    <3>1. r[0] = all /\ 0 < m
          BY <1>5, <2>1 DEF IsRun
    <3>2. all[t] = base /\ all[u] = base
          BY <2>2
    <3> HIDE DEF all, u
    <3> QED  BY <3>1, <3>2
  <2>4. ASSUME NEW n \in Nat, n < N, n \in Same PROVE n + 1 \in Same
    <3>1. /\ r[n + 1][t] = IF n + 1 \in t THEN step[n + 1][r[n][t]] ELSE r[n][t]
          /\ r[n + 1][u] = IF n + 1 \in u THEN step[n + 1][r[n][u]] ELSE r[n][u]
          BY <2>4, <2>2, <1>7
    <3>2. n + 1 \in u <=> n + 1 \in t /\ n + 1 # m
          OBVIOUS
    <3>3. r[n][t] = IF n < m THEN r[n][u] ELSE step[m][r[n][u]]
          BY <2>4
    <3>a. m \in Int /\ n + 1 \in 0..N
          BY <2>1, <2>4
    <3> HIDE DEF u
    <3>4. CASE n + 1 < m
          BY <3>1, <3>2, <3>3, <3>4, <3>a
    <3>5. CASE n + 1 = m
      <4>1. n < m /\ ~(n + 1 < m)
            BY <3>5, <3>a
      <4>2. n + 1 \in t /\ n + 1 \notin u
            BY <3>5, <3>2, <2>1
      <4> QED  BY <4>1, <4>2, <3>1, <3>3, <3>5, <3>a
    <3>6. CASE n + 1 > m
      <4>1. ~(n < m) /\ ~(n + 1 < m)
            BY <3>6, <3>a
      <4>2. n + 1 \notin t
            BY <3>6, <3>a, <2>1
      <4> QED  BY <4>1, <4>2, <3>1, <3>2, <3>3, <3>a
    <3> QED  BY <3>4, <3>5, <3>6, <3>a
  <2>5. N \in Same
    <3> HIDE DEF Same
    <3>1. \A n \in 0..N : n \in Same
          BY <2>3, <2>4, CountingUp
    <3> QED  BY <3>1
  <2>6. f[t] = step[m][f[u]]
        BY <2>5, <2>1
  <2> QED  BY <2>1, <2>6 DEF m
<1> HIDE DEF f
<1> QED  BY <1>8, <1>9 DEF FoldInside

(* A fold from the left over a sequence is the function defined from the   *)
(* back.                                                                   *)
LEMMA FoldOfSeq ==
    ASSUME NEW A, NEW C, NEW step \in Bodies(A, C), NEW base \in A,
           NEW F, FromBack(A, C, step, base, F),
           NEW s \in Seq(C), NEW f,
           IsFold(A, Len(s), [n \in 1..Len(s) |-> step[s[n]]], base, f)
    PROVE  f[1..Len(s)] = F[s]
<1> USE DEF FromBack
<1> DEFINE N == Len(s)
           st == [n \in 1..N |-> step[s[n]]]
           r  == [n \in 0..N |-> F[SubSeq(s, 1, n)]]
<1>1. N \in Nat /\ \A n \in 1..N : s[n] \in C
      BY LenProperties, ElementOfSeq
<1> HIDE DEF N
<1>2. st \in Bodies(A, 1..N)
      BY <1>1 DEF Bodies
<1>3. \A n \in 0..N : SubSeq(s, 1, n) \in Seq(C)
      BY <1>1, SubSeqProperties
<1>4. \A n \in 1..N : SubSeq(s, 1, n) = Append(SubSeq(s, 1, n - 1), s[n])
  <2> SUFFICES ASSUME NEW n \in 1..N PROVE SubSeq(s, 1, n) = Append(SubSeq(s, 1, n - 1), s[n])
      OBVIOUS
  <2>1. SubSeq(s, 1, n) = SubSeq(s, 1, n - 1) \o <<s[n]>>
        BY <1>1, SubSeqRecursiveSecond DEF N
  <2>2. SubSeq(s, 1, n - 1) \in Seq(C) /\ s[n] \in C
        BY <1>1, <1>3
  <2>3. Append(SubSeq(s, 1, n - 1), s[n]) = SubSeq(s, 1, n - 1) \o <<s[n]>>
        BY <2>2, AppendIsConcat
  <2> QED  BY <2>1, <2>3
<1>5. r[0] = base
  <2>1. SubSeq(s, 1, 0) \in Seq(C) /\ Len(SubSeq(s, 1, 0)) = 0
        BY <1>1, <1>3
  <2>2. SubSeq(s, 1, 0) = <<>>
        BY <2>1
  <2>3. F[SubSeq(s, 1, 0)] = base
        BY <2>2, Zenon
  <2> QED  BY <2>3, <1>1
<1>6. ASSUME NEW n \in 1..N PROVE r[n] = st[n][r[n - 1]]
  <2>1. r[n] = F[SubSeq(s, 1, n)] /\ r[n - 1] = F[SubSeq(s, 1, n - 1)] /\ n - 1 \in 0..N
        BY <1>1
  <2>2. F[Append(SubSeq(s, 1, n - 1), s[n])] = step[s[n]][F[SubSeq(s, 1, n - 1)]]
        BY <1>1, <1>3, <2>1
  <2>3. st[n] = step[s[n]]
        OBVIOUS
  <2> HIDE DEF r, st
  <2>4. SubSeq(s, 1, n) = Append(SubSeq(s, 1, n - 1), s[n])
        BY <1>4
  <2> QED  BY <2>1, <2>2, <2>3, <2>4, Zenon
<1>7. r \in [0..N -> A]
      BY <1>3
<1> HIDE DEF r
<1>8. IsRun(A, N, st, base, r)
      BY <1>5, <1>6, <1>7 DEF IsRun
<1>9. IsFold(A, N, st, base, f)
      BY DEF N
<1> HIDE DEF st
<1>10. f[1..N] = r[N]
  <2>1. N \in Nat
        BY <1>1
  <2> QED  BY <2>1, <1>2, <1>8, <1>9, FoldIsRun
<1>11. r[N] = F[s]
  <2>1. SubSeq(s, 1, N) = s
        BY SubSeqFull DEF N
  <2>2. r[N] = F[SubSeq(s, 1, N)]
        BY <1>1 DEF r
  <2> QED  BY <2>1, <2>2, Zenon
<1> QED  BY <1>10, <1>11 DEF N

-----------------------------------------------------------------------------
(* The folds of the model.                                                 *)

Newline == "\n"
Blank   == " "

Letters == {"c", "d", "e", "g", "i", "k", "l", "m", "p", "r", "s", "t", "u", "w"}
Char  == {"/", Blank, ".", Newline} \cup Letters \cup Chars \cup Range(Account) \cup Range(LocalDir)
Str   == Seq(Char)
Names == Seq(Str)

LEMMA CharsAre == {"/", Blank, ".", Newline} \subseteq Char
BY DEF Char

LEMMA OneItem ==
    ASSUME NEW S, NEW e \in S
    PROVE  <<e>> \in Seq(S) /\ Len(<<e>>) = 1 /\ <<e>>[1] = e /\ <<e>> = Append(<<>>, e)
OBVIOUS

LEMMA OneChar ==
    ASSUME NEW c \in Char
    PROVE  <<c>> \in Str /\ Len(<<c>>) = 1 /\ <<c>>[1] = c
BY OneItem DEF Str

(* Split *)
Longer(parts, c) == [parts EXCEPT ![Len(parts)] = Append(@, c)]

LEMMA LongerParts ==
    ASSUME NEW parts \in Names, parts # <<>>, NEW c \in Char
    PROVE  Longer(parts, c) \in Names \ {<<>>}
<1>1. Len(parts) \in 1..Len(parts) /\ Append(parts[Len(parts)], c) \in Str
      BY EmptySeq, ElementOfSeq, AppendProperties DEF Names, Str
<1>2. Longer(parts, c) = [parts EXCEPT ![Len(parts)] = Append(parts[Len(parts)], c)]
      BY DEF Longer
<1>3. Longer(parts, c) \in Names /\ Len(Longer(parts, c)) = Len(parts)
      BY <1>1, <1>2, ExceptSeq DEF Names
<1> QED  BY <1>1, <1>3, EmptySeq DEF Names

LEMMA SplitIsFold ==
    ASSUME NEW sep
    PROVE  \E F \in [Str -> Names \ {<<>>}] :
              /\ F[<<>>] = << <<>> >>
              /\ \A s \in Str, c \in Char :
                    F[Append(s, c)] = IF c = sep THEN Append(F[s], <<>>) ELSE Longer(F[s], c)
              /\ \A s \in Str : Split(s, sep) = F[s]
<1> DEFINE A    == Names \ {<<>>}
           base == << <<>> >>
           step == [c \in Char |-> [parts \in A |->
                      IF c = sep THEN Append(parts, <<>>) ELSE Longer(parts, c)]]
<1>1. base \in A
      BY EmptySeq DEF Names, Str
<1>2. step \in Bodies(A, Char)
  <2>1. \A parts \in A : Append(parts, <<>>) \in A
        BY EmptySeq, AppendProperties DEF Names, Str
  <2> QED  BY <2>1, LongerParts DEF Bodies
<1>3. \A c \in Char, parts \in A :
         step[c][parts] = IF c = sep THEN Append(parts, <<>>) ELSE Longer(parts, c)
      OBVIOUS
<1> HIDE DEF step, base
<1>4. PICK F : FromBack(A, Char, step, base, F)
      BY <1>1, <1>2, FoldExists
<1>5. ASSUME NEW s \in Str PROVE Split(s, sep) = F[s]
  <2> DEFINE N     == Len(s)
             st    == [n \in 1..N |-> step[s[n]]]
             Eq(f) == f = [t \in SUBSET (DOMAIN s) |->
                              IF t = {} THEN base
                              ELSE IF s[Max(t)] = sep THEN Append(f[t \ {Max(t)}], <<>>)
                                   ELSE [f[t \ {Max(t)}] EXCEPT
                                            ![Len(f[t \ {Max(t)}])] = Append(@, s[Max(t)])]]
             it    == CHOOSE f : Eq(f)
  <2>1. N \in Nat /\ DOMAIN s = 1..N /\ \A n \in 1..N : s[n] \in Char
        BY LenProperties, ElementOfSeq DEF Str
  <2>2. Split(s, sep) = it[DOMAIN s]
        BY DEF Split, FoldLeft, MapThenFoldSet, base
  <2> HIDE DEF N
  <2>3. st \in Bodies(A, 1..N)
        BY <2>1, <1>2 DEF Bodies
  <2>4. PICK f : FoldInside(A, N, st, base, f)
    <3> HIDE DEF st, A
    <3> QED  BY <2>1, <2>3, <1>1, FoldOverSets
  <2>5. Eq(f)
    <3>1. ASSUME NEW t \in SUBSET (1..N), t # {}
          PROVE  f[t] = IF s[Max(t)] = sep THEN Append(f[t \ {Max(t)}], <<>>)
                        ELSE Longer(f[t \ {Max(t)}], s[Max(t)])
      <4>1. Max(t) \in 1..N /\ f[t] = st[Max(t)][f[t \ {Max(t)}]]
            BY <2>4, <3>1 DEF FoldInside
      <4>2. f[t \ {Max(t)}] \in A
            BY <2>4 DEF FoldInside
      <4>3. st[Max(t)] = step[s[Max(t)]] /\ s[Max(t)] \in Char
            BY <4>1, <2>1
      <4> QED  BY <4>1, <4>2, <4>3, <1>3
    <3> QED  BY <2>1, <2>4, <3>1 DEF Longer, FoldInside
  <2>6. Eq(it)
        BY <2>5
  <2>7. IsFold(A, N, st, base, it)
    <3> HIDE DEF it
    <3>1. it[{}] = base
          BY <2>6
    <3>2. ASSUME NEW t \in SUBSET (1..N), t # {}, it[t \ {Max(t)}] \in A
          PROVE  it[t] = st[Max(t)][it[t \ {Max(t)}]]
      <4>1. Max(t) \in 1..N
            BY <2>1, <3>2, MaxIsGreatest
      <4>2. it[t] = IF s[Max(t)] = sep THEN Append(it[t \ {Max(t)}], <<>>)
                    ELSE Longer(it[t \ {Max(t)}], s[Max(t)])
            BY <2>1, <2>6, <3>2 DEF Longer
      <4>3. st[Max(t)] = step[s[Max(t)]] /\ s[Max(t)] \in Char
            BY <4>1, <2>1
      <4> QED  BY <4>2, <4>3, <3>2, <1>3
    <3> QED  BY <3>1, <3>2 DEF IsFold
  <2> HIDE DEF it
  <2>8. it[1..N] = F[s]
        BY <1>1, <1>2, <1>4, <2>7, FoldOfSeq DEF N, Str
  <2> QED  BY <2>1, <2>2, <2>8
<1> QED
  <2> USE DEF FromBack
  <2>1. F \in [Str -> A] /\ F[<<>>] = << <<>> >>
        BY <1>4 DEF Str, base
  <2>2. \A s \in Str, c \in Char :
           F[Append(s, c)] = IF c = sep THEN Append(F[s], <<>>) ELSE Longer(F[s], c)
        BY <1>3, <1>4 DEF Str
  <2> QED  BY <1>5, <2>1, <2>2

(* Resolve *)
Entered(stack, n) ==
    CASE n \in {<<>>, <<".">>} -> stack
      [] n = <<".", ".">> -> IF stack = <<>> THEN stack ELSE Front(stack)
      [] OTHER -> Append(stack, n)

LEMMA EnteredNames ==
    ASSUME NEW stack \in Names, NEW n \in Str
    PROVE  Entered(stack, n) \in Names
<1>1. Append(stack, n) \in Names
      BY AppendProperties DEF Names
<1>2. ASSUME stack # <<>> PROVE Front(stack) \in Names
  <2>1. Len(stack) \in Nat /\ \A i \in 1..Len(stack) - 1 : stack[i] \in Str
        BY LenProperties, ElementOfSeq DEF Names
  <2> QED  BY <2>1, SubSeqProperties DEF Front, Names
<1> QED  BY <1>1, <1>2 DEF Entered

LEMMA ResolveIsFold ==
    \E F \in [Names -> Names] :
        /\ F[<<>>] = <<>>
        /\ \A s \in Names, n \in Str : F[Append(s, n)] = Entered(F[s], n)
        /\ \A s \in Names : Resolve(s) = F[s]
<1> DEFINE A    == Names
           base == <<>>
           step == [n \in Str |-> [stack \in A |-> Entered(stack, n)]]
<1>1. base \in A
      BY EmptySeq DEF Names
<1>2. step \in Bodies(A, Str)
      BY EnteredNames DEF Bodies
<1>3. \A n \in Str, stack \in A : step[n][stack] = Entered(stack, n)
      OBVIOUS
<1> HIDE DEF step
<1>4. PICK F : FromBack(A, Str, step, base, F)
  <2> HIDE DEF A, base
  <2> QED  BY <1>1, <1>2, FoldExists
<1>5. ASSUME NEW s \in Names PROVE Resolve(s) = F[s]
  <2> DEFINE N     == Len(s)
             st    == [n \in 1..N |-> step[s[n]]]
             Eq(f) == f = [t \in SUBSET (DOMAIN s) |->
                              IF t = {} THEN base ELSE Entered(f[t \ {Max(t)}], s[Max(t)])]
             it    == CHOOSE f : Eq(f)
  <2>1. N \in Nat /\ DOMAIN s = 1..N /\ \A n \in 1..N : s[n] \in Str
        BY LenProperties, ElementOfSeq DEF Names
  <2>2. Resolve(s) = it[DOMAIN s]
        BY DEF Resolve, FoldLeft, MapThenFoldSet, Entered
  <2> HIDE DEF N, A, base
  <2>3. st \in Bodies(A, 1..N)
        BY <2>1, <1>2 DEF Bodies
  <2>4. PICK f : FoldInside(A, N, st, base, f)
    <3> HIDE DEF st
    <3> QED  BY <2>1, <2>3, <1>1, FoldOverSets
  <2>5. Eq(f)
    <3>1. ASSUME NEW t \in SUBSET (1..N), t # {}
          PROVE  f[t] = Entered(f[t \ {Max(t)}], s[Max(t)])
      <4>1. Max(t) \in 1..N /\ f[t] = st[Max(t)][f[t \ {Max(t)}]]
            BY <2>4, <3>1 DEF FoldInside
      <4>2. f[t \ {Max(t)}] \in A
            BY <2>4 DEF FoldInside
      <4>3. st[Max(t)] = step[s[Max(t)]] /\ s[Max(t)] \in Str
            BY <4>1, <2>1
      <4> QED  BY <4>1, <4>2, <4>3, <1>3
    <3> QED  BY <2>1, <2>4, <3>1 DEF FoldInside
  <2>6. Eq(it)
        BY <2>5
  <2>7. IsFold(A, N, st, base, it)
    <3> HIDE DEF it
    <3>1. it[{}] = base
          BY <2>6
    <3>2. ASSUME NEW t \in SUBSET (1..N), t # {}, it[t \ {Max(t)}] \in A
          PROVE  it[t] = st[Max(t)][it[t \ {Max(t)}]]
      <4>1. Max(t) \in 1..N
            BY <2>1, <3>2, MaxIsGreatest
      <4>2. it[t] = Entered(it[t \ {Max(t)}], s[Max(t)])
            BY <2>1, <2>6, <3>2
      <4>3. st[Max(t)] = step[s[Max(t)]] /\ s[Max(t)] \in Str
            BY <4>1, <2>1
      <4> QED  BY <4>2, <4>3, <3>2, <1>3
    <3> QED  BY <3>1, <3>2 DEF IsFold
  <2> HIDE DEF it
  <2>8. it[1..N] = F[s]
        BY <1>1, <1>2, <1>4, <2>7, FoldOfSeq DEF N, Names
  <2> QED  BY <2>1, <2>2, <2>8
<1> QED
  <2> USE DEF FromBack
  <2>1. F \in [Names -> Names] /\ F[<<>>] = <<>>
        BY <1>4 DEF Names
  <2>2. \A s \in Names, n \in Str : F[Append(s, n)] = Entered(F[s], n)
        BY <1>3, <1>4 DEF Names
  <2> QED  BY <1>5, <2>1, <2>2

(* Written *)
Join(names) == FoldLeft(LAMBDA p, n : p \o <<"/">> \o n, <<>>, names)
Under(p, n) == p \o <<"/">> \o n

LEMMA UnderStr ==
    ASSUME NEW p \in Str, NEW n \in Str
    PROVE  Under(p, n) \in Str
<1>1. <<"/">> \in Str
      BY OneChar, CharsAre
<1> QED  BY <1>1, ConcatProperties DEF Under, Str

LEMMA JoinIsFold ==
    \E F \in [Names -> Str] :
        /\ F[<<>>] = <<>>
        /\ \A s \in Names, n \in Str : F[Append(s, n)] = Under(F[s], n)
        /\ \A s \in Names : Join(s) = F[s]
<1> DEFINE A    == Str
           base == <<>>
           step == [n \in Str |-> [p \in A |-> Under(p, n)]]
<1>1. base \in A
      BY EmptySeq DEF Str
<1>2. step \in Bodies(A, Str)
      BY UnderStr DEF Bodies
<1>3. \A n \in Str, p \in A : step[n][p] = Under(p, n)
      OBVIOUS
<1> HIDE DEF step
<1>4. PICK F : FromBack(A, Str, step, base, F)
  <2> HIDE DEF A, base
  <2> QED  BY <1>1, <1>2, FoldExists
<1>5. ASSUME NEW s \in Names PROVE Join(s) = F[s]
  <2> DEFINE N     == Len(s)
             st    == [n \in 1..N |-> step[s[n]]]
             Eq(f) == f = [t \in SUBSET (DOMAIN s) |->
                              IF t = {} THEN base ELSE Under(f[t \ {Max(t)}], s[Max(t)])]
             it    == CHOOSE f : Eq(f)
  <2>1. N \in Nat /\ DOMAIN s = 1..N /\ \A n \in 1..N : s[n] \in Str
        BY LenProperties, ElementOfSeq DEF Names
  <2>2. Join(s) = it[DOMAIN s]
        BY DEF Join, FoldLeft, MapThenFoldSet, Under
  <2> HIDE DEF N, A, base
  <2>3. st \in Bodies(A, 1..N)
        BY <2>1, <1>2 DEF Bodies
  <2>4. PICK f : FoldInside(A, N, st, base, f)
    <3> HIDE DEF st
    <3> QED  BY <2>1, <2>3, <1>1, FoldOverSets
  <2>5. Eq(f)
    <3>1. ASSUME NEW t \in SUBSET (1..N), t # {}
          PROVE  f[t] = Under(f[t \ {Max(t)}], s[Max(t)])
      <4>1. Max(t) \in 1..N /\ f[t] = st[Max(t)][f[t \ {Max(t)}]]
            BY <2>4, <3>1 DEF FoldInside
      <4>2. f[t \ {Max(t)}] \in A
            BY <2>4 DEF FoldInside
      <4>3. st[Max(t)] = step[s[Max(t)]] /\ s[Max(t)] \in Str
            BY <4>1, <2>1
      <4> QED  BY <4>1, <4>2, <4>3, <1>3
    <3> QED  BY <2>1, <2>4, <3>1 DEF FoldInside
  <2>6. Eq(it)
        BY <2>5
  <2>7. IsFold(A, N, st, base, it)
    <3> HIDE DEF it
    <3>1. it[{}] = base
          BY <2>6
    <3>2. ASSUME NEW t \in SUBSET (1..N), t # {}, it[t \ {Max(t)}] \in A
          PROVE  it[t] = st[Max(t)][it[t \ {Max(t)}]]
      <4>1. Max(t) \in 1..N
            BY <2>1, <3>2, MaxIsGreatest
      <4>2. it[t] = Under(it[t \ {Max(t)}], s[Max(t)])
            BY <2>1, <2>6, <3>2
      <4>3. st[Max(t)] = step[s[Max(t)]] /\ s[Max(t)] \in Str
            BY <4>1, <2>1
      <4> QED  BY <4>2, <4>3, <3>2, <1>3
    <3> QED  BY <3>1, <3>2 DEF IsFold
  <2> HIDE DEF it
  <2>8. it[1..N] = F[s]
        BY <1>1, <1>2, <1>4, <2>7, FoldOfSeq DEF N, Names
  <2> QED  BY <2>1, <2>2, <2>8
<1> QED
  <2> USE DEF FromBack
  <2>1. F \in [Names -> Str] /\ F[<<>>] = <<>>
        BY <1>4 DEF Names, Str
  <2>2. \A s \in Names, n \in Str : F[Append(s, n)] = Under(F[s], n)
        BY <1>3, <1>4 DEF Names
  <2> QED  BY <1>5, <2>1, <2>2

-----------------------------------------------------------------------------
(* Sequences.                                                              *)

LEMMA ConcatAppend ==
    ASSUME NEW S, NEW s \in Seq(S), NEW t \in Seq(S), NEW e \in S
    PROVE  s \o Append(t, e) = Append(s \o t, e)
<1>1. <<e>> \in Seq(S) /\ s \o t \in Seq(S)
      BY OneItem, ConcatProperties
<1>2. Append(t, e) = t \o <<e>> /\ Append(s \o t, e) = (s \o t) \o <<e>>
      BY <1>1, AppendIsConcat
<1>3. (s \o t) \o <<e>> = s \o (t \o <<e>>)
      BY <1>1, ConcatAssociative
<1> QED  BY <1>2, <1>3

(* The same for strings and for lists of names.                            *)
LEMMA StrRules ==
    ASSUME NEW s \in Str, NEW t \in Str, NEW c \in Char
    PROVE  /\ s \o t \in Str /\ Len(s) \in Nat /\ Len(s \o t) = Len(s) + Len(t)
           /\ Append(s, c) \in Str /\ Append(s, c) = s \o <<c>> /\ <<c>> \in Str /\ <<>> \in Str
           /\ s \o Append(t, c) = Append(s \o t, c)
           /\ s \o <<>> = s /\ <<>> \o s = s
BY OneChar, ConcatAppend, ConcatProperties, AppendProperties, AppendIsConcat, LenProperties,
   EmptySeq, ConcatEmptySeq DEF Str

LEMMA NamesRules ==
    ASSUME NEW s \in Names, NEW t \in Names, NEW n \in Str
    PROVE  /\ s \o t \in Names /\ Len(s) \in Nat /\ Len(s \o t) = Len(s) + Len(t)
           /\ Append(s, n) \in Names /\ Append(s, n) = s \o <<n>> /\ <<n>> \in Names
           /\ <<>> \in Names
           /\ s \o Append(t, n) = Append(s \o t, n)
           /\ s \o <<>> = s /\ <<>> \o s = s
BY OneItem, ConcatAppend, ConcatProperties, AppendProperties, AppendIsConcat, LenProperties,
   EmptySeq, ConcatEmptySeq DEF Names

-----------------------------------------------------------------------------
(* Split.                                                                  *)

LEMMA SplitRules ==
    ASSUME NEW sep
    PROVE  /\ Split(<<>>, sep) = << <<>> >>
           /\ \A s \in Str, c \in Char :
                 Split(Append(s, c), sep) = IF c = sep THEN Append(Split(s, sep), <<>>)
                                            ELSE Longer(Split(s, sep), c)
           /\ \A s \in Str : Split(s, sep) \in Names /\ Split(s, sep) # <<>>
<1>1. PICK F \in [Str -> Names \ {<<>>}] :
              /\ F[<<>>] = << <<>> >>
              /\ \A s \in Str, c \in Char :
                    F[Append(s, c)] = IF c = sep THEN Append(F[s], <<>>) ELSE Longer(F[s], c)
              /\ \A s \in Str : Split(s, sep) = F[s]
      BY SplitIsFold
<1>2. <<>> \in Str /\ \A s \in Str, c \in Char : Append(s, c) \in Str
      BY EmptySeq, AppendProperties DEF Str
<1> QED  BY <1>1, <1>2

LEMMA LongerConcat ==
    ASSUME NEW P \in Names, NEW Q \in Names, Q # <<>>, NEW c \in Char
    PROVE  Longer(P \o Q, c) = P \o Longer(Q, c)
<1> DEFINE l == Longer(P \o Q, c)  r == P \o Longer(Q, c)
<1>0. Len(P) \in Nat /\ Len(Q) \in Nat \ {0}
      BY EmptySeq, LenProperties DEF Names
<1>1. P \o Q \in Names /\ P \o Q # <<>> /\ Len(P \o Q) = Len(P) + Len(Q)
  <2>1. P \o Q \in Names /\ Len(P \o Q) = Len(P) + Len(Q)
        BY ConcatProperties DEF Names
  <2> QED  BY <2>1, <1>0
<1>2. l \in Names /\ Longer(Q, c) \in Names
      BY <1>1, LongerParts
<1>3. /\ Len(l) = Len(P) + Len(Q)
      /\ \A i \in 1..Len(P) + Len(Q) :
            l[i] = IF i = Len(P) + Len(Q) THEN Append((P \o Q)[i], c) ELSE (P \o Q)[i]
  <2>1. DOMAIN l = DOMAIN (P \o Q)
        BY DEF Longer
  <2>2. DOMAIN (P \o Q) = 1..Len(P) + Len(Q) /\ DOMAIN l = 1..Len(l) /\ Len(l) \in Nat
        BY <1>1, <1>2, LenProperties DEF Names
  <2>3. Len(l) = Len(P) + Len(Q)
        BY <2>1, <2>2, <1>0
  <2> QED  BY <1>1, <2>2, <2>3 DEF Longer
<1>4. /\ Len(Longer(Q, c)) = Len(Q)
      /\ \A i \in 1..Len(Q) : Longer(Q, c)[i] = IF i = Len(Q) THEN Append(Q[i], c) ELSE Q[i]
  <2>2. DOMAIN Q = 1..Len(Q) /\ DOMAIN Longer(Q, c) = 1..Len(Longer(Q, c)) /\ Len(Longer(Q, c)) \in Nat
        BY <1>2, LenProperties DEF Names
  <2>1. DOMAIN Longer(Q, c) = DOMAIN Q
        BY DEF Longer
  <2>3. Len(Longer(Q, c)) = Len(Q)
        BY <2>1, <2>2, <1>0
  <2> QED  BY <2>2, <2>3 DEF Longer
<1>5. /\ r \in Names /\ Len(r) = Len(P) + Len(Q)
      /\ \A i \in 1..Len(P) + Len(Q) : r[i] = IF i <= Len(P) THEN P[i] ELSE Longer(Q, c)[i - Len(P)]
  <2>1. Longer(Q, c) \in Seq(Str) /\ P \in Seq(Str)
        BY <1>2 DEF Names
  <2> HIDE DEF Longer
  <2>2. /\ P \o Longer(Q, c) \in Seq(Str)
        /\ Len(P \o Longer(Q, c)) = Len(P) + Len(Longer(Q, c))
        /\ \A i \in 1..Len(P) + Len(Longer(Q, c)) :
              (P \o Longer(Q, c))[i] = IF i <= Len(P) THEN P[i] ELSE Longer(Q, c)[i - Len(P)]
        BY <2>1, ConcatProperties
  <2> QED  BY <2>2, <1>4 DEF Names
<1>6. \A i \in 1..Len(P) + Len(Q) : (P \o Q)[i] = IF i <= Len(P) THEN P[i] ELSE Q[i - Len(P)]
      BY ConcatProperties DEF Names
<1> HIDE DEF l, r
<1>7. ASSUME NEW i \in 1..Len(P) + Len(Q) PROVE l[i] = r[i]
  <2>1. CASE i <= Len(P)
    <3>1. i # Len(P) + Len(Q)
          BY <2>1, <1>0
    <3> QED  BY <3>1, <2>1, <1>3, <1>5, <1>6
  <2>2. CASE ~(i <= Len(P))
    <3>1. i - Len(P) \in 1..Len(Q) /\ (i = Len(P) + Len(Q) <=> i - Len(P) = Len(Q))
          BY <2>2, <1>0
    <3>2. r[i] = Longer(Q, c)[i - Len(P)] /\ (P \o Q)[i] = Q[i - Len(P)]
          BY <2>2, <1>5, <1>6
    <3>3. l[i] = IF i = Len(P) + Len(Q) THEN Append((P \o Q)[i], c) ELSE (P \o Q)[i]
          BY <1>3
    <3>4. Longer(Q, c)[i - Len(P)] = IF i - Len(P) = Len(Q) THEN Append(Q[i - Len(P)], c) ELSE Q[i - Len(P)]
          BY <3>1, <1>4
    <3> QED  BY <3>1, <3>2, <3>3, <3>4
  <2> QED  BY <2>1, <2>2
<1>8. Len(l) = Len(r) /\ \A i \in 1..Len(l) : l[i] = r[i]
      BY <1>3, <1>5, <1>7
<1>9. l = r
      BY <1>2, <1>5, <1>8, SeqEqual DEF Names
<1> QED  BY <1>9 DEF l, r

(* A separator splits what is before it from what is behind it.            *)
LEMMA SplitConcat ==
    ASSUME NEW sep \in Char, NEW s \in Str, NEW t \in Str
    PROVE  Split(s \o <<sep>> \o t, sep) = Split(s, sep) \o Split(t, sep)
<1> DEFINE u == s \o <<sep>>
           P == {v \in Str : Split(u \o v, sep) = Split(s, sep) \o Split(v, sep)}
<1>0. <<sep>> \in Str /\ u \in Str /\ u = Append(s, sep)
      BY OneChar, ConcatProperties, AppendIsConcat DEF Str
<1> HIDE DEF u
<1>1. <<>> \in P
  <2>1. <<>> \in Str /\ u \o <<>> = u
        BY <1>0, EmptySeq, ConcatEmptySeq DEF Str
  <2>2. Split(u, sep) = Append(Split(s, sep), <<>>)
        BY <1>0, SplitRules
  <2>3. Append(Split(s, sep), <<>>) = Split(s, sep) \o << <<>> >>
        BY <2>1, SplitRules, AppendIsConcat DEF Names
  <2>4. Split(<<>>, sep) = << <<>> >>
        BY SplitRules
  <2> QED  BY <2>1, <2>2, <2>3, <2>4
<1>2. ASSUME NEW v \in Str, NEW c \in Char, v \in P PROVE Append(v, c) \in P
  <2>1. Append(v, c) \in Str /\ u \o v \in Str /\ u \o Append(v, c) = Append(u \o v, c)
        BY <1>0, AppendProperties, ConcatProperties, ConcatAppend DEF Str
  <2>2. /\ Split(s, sep) \in Names
        /\ Split(v, sep) \in Names /\ Split(v, sep) # <<>>
        /\ <<>> \in Str
        BY SplitRules, EmptySeq DEF Str
  <2>3. Split(u \o v, sep) = Split(s, sep) \o Split(v, sep)
        BY <1>2
  <2>4. Split(Append(u \o v, c), sep) = IF c = sep THEN Append(Split(u \o v, sep), <<>>)
                                        ELSE Longer(Split(u \o v, sep), c)
        BY <2>1, SplitRules
  <2>5. Split(Append(v, c), sep) = IF c = sep THEN Append(Split(v, sep), <<>>)
                                   ELSE Longer(Split(v, sep), c)
        BY SplitRules
  <2>6. Append(Split(s, sep) \o Split(v, sep), <<>>) = Split(s, sep) \o Append(Split(v, sep), <<>>)
        BY <2>2, NamesRules
  <2>7. Longer(Split(s, sep) \o Split(v, sep), c) = Split(s, sep) \o Longer(Split(v, sep), c)
        BY <2>2, LongerConcat
  <2> QED  BY <2>1, <2>3, <2>4, <2>5, <2>6, <2>7
<1>3. \A v \in Str : v \in P
      BY <1>1, <1>2, SeqInduction DEF Str
<1> QED  BY <1>3 DEF u

(* Strings without separator.                                              *)
Free(s, sep) == \A i \in 1..Len(s) : s[i] # sep

LEMMA FreeRules ==
    ASSUME NEW s \in Str, NEW c \in Char, NEW sep
    PROVE  /\ Free(Append(s, c), sep) <=> Free(s, sep) /\ c # sep
           /\ Free(<<>>, sep)
<1>1. /\ Len(s) \in Nat /\ Len(Append(s, c)) = Len(s) + 1 /\ Append(s, c)[Len(s) + 1] = c
      /\ \A i \in 1..Len(s) : Append(s, c)[i] = s[i]
      BY LenProperties, AppendProperties DEF Str
<1>2. Free(<<>>, sep)
      BY DEF Free
<1>3. \A i \in 1..Len(s) + 1 : i \in 1..Len(s) \/ i = Len(s) + 1
      BY <1>1
<1>4. Len(s) + 1 \in 1..Len(s) + 1 /\ \A i \in 1..Len(s) : i \in 1..Len(s) + 1
      BY <1>1
<1> QED  BY <1>1, <1>2, <1>3, <1>4 DEF Free

LEMMA SplitFree ==
    ASSUME NEW sep \in Char, NEW s \in Str, Free(s, sep)
    PROVE  Split(s, sep) = <<s>>
<1> DEFINE P == {v \in Str : Free(v, sep) => Split(v, sep) = <<v>>}
<1>1. <<>> \in P
      BY SplitRules, EmptySeq DEF Str
<1>2. ASSUME NEW v \in Str, NEW c \in Char, v \in P PROVE Append(v, c) \in P
  <2>1. Append(v, c) \in Str
        BY StrRules
  <2>2. ASSUME Free(Append(v, c), sep) PROVE Split(Append(v, c), sep) = <<Append(v, c)>>
    <3>1. Free(v, sep) /\ c # sep
          BY <2>2, FreeRules
    <3>2. Split(Append(v, c), sep) = Longer(<<v>>, c)
      <4>1. Split(v, sep) = <<v>>
            BY <1>2, <3>1
      <4>2. Split(Append(v, c), sep) = Longer(Split(v, sep), c)
            BY <3>1, SplitRules
      <4> QED  BY <4>1, <4>2
    <3>3. Longer(<<v>>, c) = <<Append(v, c)>>
          BY <2>1 DEF Longer
    <3> QED  BY <3>2, <3>3
  <2> QED  BY <2>1, <2>2
<1>3. \A v \in Str : v \in P
      BY <1>1, <1>2, SeqInduction DEF Str
<1> QED  BY <1>3

(* The parts have none.                                                    *)
AllFree(names, sep) == \A i \in 1..Len(names) : Free(names[i], sep)

LEMMA AllFreeRules ==
    ASSUME NEW names \in Names, NEW n \in Str, NEW sep
    PROVE  /\ AllFree(Append(names, n), sep) <=> AllFree(names, sep) /\ Free(n, sep)
           /\ AllFree(<<>>, sep)
<1>1. /\ Len(names) \in Nat /\ Len(Append(names, n)) = Len(names) + 1
      /\ Append(names, n)[Len(names) + 1] = n
      /\ \A i \in 1..Len(names) : Append(names, n)[i] = names[i]
      BY LenProperties, AppendProperties DEF Names
<1>2. AllFree(<<>>, sep)
      BY DEF AllFree
<1>3. \A i \in 1..Len(names) + 1 : i \in 1..Len(names) \/ i = Len(names) + 1
      BY <1>1
<1>4. Len(names) + 1 \in 1..Len(names) + 1
      /\ \A i \in 1..Len(names) : i \in 1..Len(names) + 1
      BY <1>1
<1> QED  BY <1>1, <1>2, <1>3, <1>4 DEF AllFree

LEMMA PartsAreFree ==
    ASSUME NEW sep \in Char, NEW s \in Str
    PROVE  AllFree(Split(s, sep), sep)
<1> DEFINE P == {v \in Str : AllFree(Split(v, sep), sep)}
<1>1. <<>> \in P
  <2>1. <<>> \in Str /\ <<>> \in Names /\ << <<>> >> = Append(<<>>, <<>>)
        BY EmptySeq DEF Str, Names
  <2>2. Free(<<>>, sep)
        BY DEF Free
  <2>3. AllFree(<<>>, sep)
        BY DEF AllFree
  <2> QED  BY <2>1, <2>2, <2>3, SplitRules, AllFreeRules
<1>2. ASSUME NEW v \in Str, NEW c \in Char, v \in P PROVE Append(v, c) \in P
  <2> DEFINE parts == Split(v, sep)
  <2>1. Append(v, c) \in Str /\ <<>> \in Str
        BY StrRules
  <2>2. parts \in Names /\ parts # <<>> /\ AllFree(parts, sep)
        BY <1>2, SplitRules
  <2>3. CASE c = sep
    <3>1. AllFree(Append(parts, <<>>), sep)
          BY <2>1, <2>2, AllFreeRules, FreeRules
    <3> QED  BY <2>1, <2>3, <3>1, SplitRules
  <2>4. CASE c # sep
    <3> DEFINE new == Longer(parts, c)
    <3>1. Split(Append(v, c), sep) = new
          BY <2>4, SplitRules
    <3>2. Len(parts) \in Nat /\ DOMAIN parts = 1..Len(parts) /\ \A i \in 1..Len(parts) : parts[i] \in Str
          BY <2>2, LenProperties, ElementOfSeq DEF Names
    <3>3. new \in Names /\ DOMAIN new = 1..Len(parts)
          BY <2>2, <3>2, LongerParts DEF Longer
    <3>4. DOMAIN new = 1..Len(new) /\ Len(new) \in Nat
          BY <3>3, LenProperties DEF Names
    <3>5. \A i \in 1..Len(parts) : new[i] = IF i = Len(parts) THEN Append(parts[i], c) ELSE parts[i]
          BY <3>2 DEF Longer
    <3> HIDE DEF new, parts
    <3>6. \A i \in 1..Len(parts) : Free(new[i], sep)
      <4> SUFFICES ASSUME NEW i \in 1..Len(parts) PROVE Free(new[i], sep)
          OBVIOUS
      <4>1. Free(parts[i], sep) /\ parts[i] \in Str
            BY <2>2, <3>2 DEF AllFree
      <4>2. Free(Append(parts[i], c), sep)
            BY <4>1, <2>4, FreeRules
      <4> QED  BY <4>1, <4>2, <3>5
    <3>7. AllFree(new, sep)
          BY <3>3, <3>4, <3>6 DEF AllFree
    <3> QED  BY <2>1, <3>1, <3>7
  <2> QED  BY <2>3, <2>4
<1>3. \A v \in Str : v \in P
      BY <1>1, <1>2, SeqInduction DEF Str
<1> QED  BY <1>3

-----------------------------------------------------------------------------
(* Resolve and Written.                                                    *)

LEMMA ResolveRules ==
    /\ Resolve(<<>>) = <<>>
    /\ \A s \in Names, n \in Str : Resolve(Append(s, n)) = Entered(Resolve(s), n)
    /\ \A s \in Names : Resolve(s) \in Names
<1>1. PICK F \in [Names -> Names] :
              /\ F[<<>>] = <<>>
              /\ \A s \in Names, n \in Str : F[Append(s, n)] = Entered(F[s], n)
              /\ \A s \in Names : Resolve(s) = F[s]
      BY ResolveIsFold
<1>2. <<>> \in Names /\ \A s \in Names, n \in Str : Append(s, n) \in Names
      BY EmptySeq, AppendProperties DEF Names
<1> QED  BY <1>1, <1>2

LEMMA JoinRules ==
    /\ Join(<<>>) = <<>>
    /\ \A s \in Names, n \in Str : Join(Append(s, n)) = Under(Join(s), n)
    /\ \A s \in Names : Join(s) \in Str
<1>1. PICK F \in [Names -> Str] :
              /\ F[<<>>] = <<>>
              /\ \A s \in Names, n \in Str : F[Append(s, n)] = Under(F[s], n)
              /\ \A s \in Names : Join(s) = F[s]
      BY JoinIsFold
<1>2. <<>> \in Names /\ \A s \in Names, n \in Str : Append(s, n) \in Names
      BY EmptySeq, AppendProperties DEF Names
<1> QED  BY <1>1, <1>2

LEMMA WrittenIsJoin ==
    ASSUME NEW names
    PROVE  Written(names) = IF names = <<>> THEN <<"/">> ELSE Join(names)
BY DEF Written, Join

(* What comes after does not depend on how a directory was reached.        *)
LEMMA ResolveOn ==
    ASSUME NEW a \in Names, NEW b \in Names, Resolve(a) = Resolve(b), NEW c \in Names
    PROVE  Resolve(a \o c) = Resolve(b \o c)
<1> DEFINE P == {v \in Names : Resolve(a \o v) = Resolve(b \o v)}
<1>1. <<>> \in P
  <2>1. a \o <<>> = a /\ b \o <<>> = b /\ <<>> \in Names
        BY EmptySeq, ConcatEmptySeq DEF Names
  <2> QED  BY <2>1
<1>2. ASSUME NEW v \in Names, NEW n \in Str, v \in P PROVE Append(v, n) \in P
  <2>a. Append(v, n) \in Names
        BY NamesRules
  <2>b. a \o v \in Names
        BY NamesRules
  <2>c. b \o v \in Names
        BY NamesRules
  <2>1. a \o Append(v, n) = Append(a \o v, n)
        BY NamesRules
  <2>2. b \o Append(v, n) = Append(b \o v, n)
        BY NamesRules
  <2>3. Resolve(Append(a \o v, n)) = Entered(Resolve(a \o v), n)
        BY <2>b, ResolveRules
  <2>4. Resolve(Append(b \o v, n)) = Entered(Resolve(b \o v), n)
        BY <2>c, ResolveRules
  <2>5. Resolve(a \o v) = Resolve(b \o v)
        BY <1>2
  <2> QED  BY <2>a, <2>1, <2>2, <2>3, <2>4, <2>5
<1>3. \A v \in Names : v \in P
      BY <1>1, <1>2, SeqInduction DEF Names
<1> QED  BY <1>3

(* Names that a directory can list.                                        *)
PlainName(n) == Free(n, "/") /\ n \notin {<<>>, <<".">>, <<".", ".">>}
PlainNames(names) == \A i \in 1..Len(names) : PlainName(names[i])

LEMMA PlainRules ==
    ASSUME NEW names \in Names, NEW n \in Str
    PROVE  /\ PlainNames(Append(names, n)) <=> PlainNames(names) /\ PlainName(n)
           /\ PlainNames(<<>>)
<1>1. /\ Len(names) \in Nat /\ Len(Append(names, n)) = Len(names) + 1
      /\ Append(names, n)[Len(names) + 1] = n
      /\ \A i \in 1..Len(names) : Append(names, n)[i] = names[i]
      BY LenProperties, AppendProperties DEF Names
<1>2. PlainNames(<<>>)
      BY DEF PlainNames
<1>3. \A i \in 1..Len(names) + 1 : i \in 1..Len(names) \/ i = Len(names) + 1
      BY <1>1
<1>4. Len(names) + 1 \in 1..Len(names) + 1
      /\ \A i \in 1..Len(names) : i \in 1..Len(names) + 1
      BY <1>1
<1> QED  BY <1>1, <1>2, <1>3, <1>4 DEF PlainNames

LEMMA DotsDiffer == <<".", ".">> # <<>> /\ <<".", ".">> # <<".">> /\ <<".">> # <<>>
<1>1. Len(<<".", ".">>) = 2 /\ Len(<<".">>) = 1 /\ Len(<<>>) = 0
      OBVIOUS
<1> QED  BY <1>1

LEMMA EnteredRules ==
    ASSUME NEW stack, NEW n
    PROVE  /\ n \in {<<>>, <<".">>} => Entered(stack, n) = stack
           /\ n = <<".", ".">> => Entered(stack, n) = IF stack = <<>> THEN stack ELSE Front(stack)
           /\ n \notin {<<>>, <<".">>, <<".", ".">>} => Entered(stack, n) = Append(stack, n)
BY DotsDiffer, Zenon DEF Entered

(* A list without its last name.                                           *)
LEMMA FrontRules ==
    ASSUME NEW S, NEW s \in Seq(S), s # <<>>
    PROVE  /\ Front(s) \in Seq(S) /\ Len(Front(s)) = Len(s) - 1 /\ Len(s) \in Nat \ {0}
           /\ \A i \in 1..Len(s) - 1 : Front(s)[i] = s[i]
           /\ Last(s) \in S
           /\ s = Append(Front(s), Last(s))
<1>1. Len(s) \in Nat \ {0} /\ \A i \in 1..Len(s) : s[i] \in S
      BY EmptySeq, ElementOfSeq
<1>2. /\ Front(s) \in Seq(S) /\ Len(Front(s)) = Len(s) - 1
      /\ \A i \in 1..Len(s) - 1 : Front(s)[i] = s[i]
  <2>1. Len(s) - 1 \in Int /\ \A i \in 1..Len(s) - 1 : s[i] \in S
        BY <1>1
  <2>2. /\ SubSeq(s, 1, Len(s) - 1) \in Seq(S)
        /\ Len(SubSeq(s, 1, Len(s) - 1)) = IF 1 <= Len(s) - 1 THEN Len(s) - 1 - 1 + 1 ELSE 0
        /\ \A i \in 1..Len(s) - 1 - 1 + 1 : SubSeq(s, 1, Len(s) - 1)[i] = s[1 + i - 1]
        BY <2>1, SubSeqProperties
  <2>3. Front(s) = SubSeq(s, 1, Len(s) - 1)
        BY DEF Front
  <2>4. Len(Front(s)) = Len(s) - 1
    <3>1. Len(Front(s)) = IF 1 <= Len(s) - 1 THEN Len(s) - 1 - 1 + 1 ELSE 0
          BY <2>2, <2>3, Zenon
    <3> DEFINE l == Len(s)
    <3>2. l \in Nat \ {0}
          BY <1>1
    <3> HIDE DEF l
    <3>3. (IF 1 <= l - 1 THEN l - 1 - 1 + 1 ELSE 0) = l - 1
          BY <3>2
    <3> QED  BY <3>1, <3>3 DEF l
  <2>5. ASSUME NEW i \in 1..Len(s) - 1 PROVE Front(s)[i] = s[i]
    <3>1. i \in 1..Len(s) - 1 - 1 + 1 /\ 1 + i - 1 = i
          BY <1>1
    <3> QED  BY <2>2, <2>3, <3>1
  <2> QED  BY <2>2, <2>3, <2>4, <2>5
<1>3. Last(s) \in S
      BY <1>1 DEF Last
<1>4. s = Append(Front(s), Last(s))
  <2> DEFINE t == Append(Front(s), Last(s))
  <2>1. /\ t \in Seq(S) /\ Len(t) = Len(s) /\ t[Len(s)] = Last(s)
        /\ \A i \in 1..Len(s) - 1 : t[i] = s[i]
        BY <1>1, <1>2, <1>3, AppendProperties
  <2> HIDE DEF t
  <2>2. \A i \in 1..Len(s) : t[i] = s[i]
        BY <1>1, <2>1 DEF Last
  <2>3. t = s
        BY <2>1, <2>2, SeqEqual
  <2> QED  BY <2>3 DEF t
<1> QED  BY <1>1, <1>2, <1>3, <1>4

(* Resolve leaves plain names,                                             *)
LEMMA ResolveIsPlain ==
    ASSUME NEW names \in Names, AllFree(names, "/")
    PROVE  PlainNames(Resolve(names))
<1> DEFINE P == {v \in Names : AllFree(v, "/") => PlainNames(Resolve(v))}
<1>1. <<>> \in P
  <2>1. <<>> \in Names /\ PlainNames(<<>>)
        BY EmptySeq DEF Names, PlainNames
  <2> QED  BY <2>1, ResolveRules
<1>2. ASSUME NEW v \in Names, NEW n \in Str, v \in P PROVE Append(v, n) \in P
  <2>1. Append(v, n) \in Names
        BY NamesRules
  <2>2. ASSUME AllFree(Append(v, n), "/") PROVE PlainNames(Resolve(Append(v, n)))
    <3> DEFINE stack == Resolve(v)
    <3>1. AllFree(v, "/") /\ Free(n, "/")
          BY <2>2, AllFreeRules
    <3>2. stack \in Names /\ PlainNames(stack)
          BY <1>2, <3>1, ResolveRules
    <3>3. Resolve(Append(v, n)) = Entered(stack, n)
          BY ResolveRules
    <3> HIDE DEF stack
    <3>4. CASE n \in {<<>>, <<".">>}
      <4>1. Entered(stack, n) = stack
            BY <3>4, EnteredRules, Zenon
      <4> QED  BY <3>2, <3>3, <4>1
    <3>5. CASE n = <<".", ".">>
      <4>1. Entered(stack, n) = IF stack = <<>> THEN stack ELSE Front(stack)
            BY <3>5, EnteredRules, Zenon
      <4>2. ASSUME stack # <<>> PROVE PlainNames(Front(stack))
        <5>1. Len(Front(stack)) = Len(stack) - 1 /\ Len(stack) \in Nat
              /\ \A i \in 1..Len(stack) - 1 : Front(stack)[i] = stack[i]
              BY <3>2, <4>2, FrontRules DEF Names
        <5> QED  BY <3>2, <5>1 DEF PlainNames
      <4> QED  BY <3>2, <3>3, <4>1, <4>2
    <3>6. CASE n \notin {<<>>, <<".">>, <<".", ".">>}
      <4>1. Entered(stack, n) = Append(stack, n)
            BY <3>6, EnteredRules, Zenon
      <4>2. PlainName(n)
            BY <3>1, <3>6 DEF PlainName
      <4>3. PlainNames(Append(stack, n))
            BY <3>2, <4>2, PlainRules
      <4> QED  BY <3>3, <4>1, <4>3
    <3> QED  BY <3>4, <3>5, <3>6
  <2> QED  BY <2>1, <2>2
<1>3. \A v \in Names : v \in P
      BY <1>1, <1>2, SeqInduction DEF Names
<1> QED  BY <1>3

(* and leaves them where they are.                                         *)
LEMMA ResolvePlain ==
    ASSUME NEW names \in Names, PlainNames(names)
    PROVE  Resolve(names) = names
<1> DEFINE P == {v \in Names : PlainNames(v) => Resolve(v) = v}
<1>1. <<>> \in P
  <2>1. <<>> \in Names
        BY EmptySeq DEF Names
  <2> QED  BY <2>1, ResolveRules
<1>2. ASSUME NEW v \in Names, NEW n \in Str, v \in P PROVE Append(v, n) \in P
  <2>1. Append(v, n) \in Names
        BY NamesRules
  <2>2. ASSUME PlainNames(Append(v, n)) PROVE Resolve(Append(v, n)) = Append(v, n)
    <3>1. PlainNames(v) /\ PlainName(n)
          BY <2>2, PlainRules
    <3>2. Resolve(v) = v
          BY <1>2, <3>1
    <3>3. Resolve(Append(v, n)) = Entered(Resolve(v), n)
          BY ResolveRules
    <3>4. Entered(Resolve(v), n) = Append(Resolve(v), n)
          BY <3>1, EnteredRules, Zenon DEF PlainName
    <3> QED  BY <3>2, <3>3, <3>4
  <2> QED  BY <2>1, <2>2
<1>3. \A v \in Names : v \in P
      BY <1>1, <1>2, SeqInduction DEF Names
<1> QED  BY <1>3

(* What is written can be split again.                                     *)
LEMMA SplitJoin ==
    ASSUME NEW names \in Names, AllFree(names, "/")
    PROVE  Split(Join(names), "/") = << <<>> >> \o names
<1> DEFINE P == {v \in Names : AllFree(v, "/") => Split(Join(v), "/") = << <<>> >> \o v}
<1>0. << <<>> >> \in Names /\ <<>> \in Str /\ <<>> \in Names /\ "/" \in Char
  <2>1. <<>> \in Str /\ <<>> \in Names
        BY EmptySeq DEF Str, Names
  <2>2. << <<>> >> \in Names
        BY <2>1, OneItem DEF Names
  <2> QED  BY <2>1, <2>2, CharsAre
<1>1. <<>> \in P
  <2>1. Split(Join(<<>>), "/") = << <<>> >>
        BY JoinRules, SplitRules
  <2>2. << <<>> >> \o <<>> = << <<>> >>
        BY <1>0, ConcatEmptySeq DEF Names
  <2> QED  BY <1>0, <2>1, <2>2
<1>2. ASSUME NEW v \in Names, NEW n \in Str, v \in P PROVE Append(v, n) \in P
  <2>1. Append(v, n) \in Names
        BY NamesRules
  <2>2. ASSUME AllFree(Append(v, n), "/")
        PROVE  Split(Join(Append(v, n)), "/") = << <<>> >> \o Append(v, n)
    <3>1. AllFree(v, "/") /\ Free(n, "/")
          BY <2>2, AllFreeRules
    <3>2. Join(v) \in Str /\ Join(Append(v, n)) = Join(v) \o <<"/">> \o n
          BY JoinRules DEF Under
    <3>3. Split(Join(v) \o <<"/">> \o n, "/") = Split(Join(v), "/") \o Split(n, "/")
          BY <1>0, <3>2, SplitConcat
    <3>4. Split(n, "/") = <<n>>
          BY <1>0, <3>1, SplitFree
    <3>5. Split(Join(v), "/") = << <<>> >> \o v
          BY <1>2, <3>1
    <3>6. << <<>> >> \o v \in Names
          BY <1>0, NamesRules
    <3>7. Append(<< <<>> >> \o v, n) = (<< <<>> >> \o v) \o <<n>>
          BY <3>6, NamesRules
    <3>8. << <<>> >> \o Append(v, n) = Append(<< <<>> >> \o v, n)
      <4>1. ASSUME NEW x \in Names PROVE x \o Append(v, n) = Append(x \o v, n)
            BY NamesRules
      <4> QED  BY <1>0, <4>1
    <3> QED  BY <3>2, <3>3, <3>4, <3>5, <3>7, <3>8
  <2> QED  BY <2>1, <2>2
<1>3. \A v \in Names : v \in P
      BY <1>1, <1>2, SeqInduction DEF Names
<1> QED  BY <1>3

(* The slash in front is an empty name.                                    *)
LEMMA SplitTail ==
    ASSUME NEW s \in Str, s # <<>>, s[1] = "/"
    PROVE  /\ Tail(s) \in Str /\ s = <<"/">> \o Tail(s)
           /\ Split(s, "/") = << <<>> >> \o Split(Tail(s), "/")
<1>1. Tail(s) \in Str /\ Len(Tail(s)) = Len(s) - 1 /\ \A i \in 1..Len(Tail(s)) : Tail(s)[i] = s[i + 1]
      BY HeadTailProperties DEF Str
<1>2. Len(s) \in Nat \ {0} /\ "/" \in Char
      BY EmptySeq, CharsAre DEF Str
<1>3. <<"/">> \in Str /\ Len(<<"/">>) = 1 /\ <<"/">>[1] = "/"
      BY <1>2, OneChar
<1>4. s = <<"/">> \o Tail(s)
  <2> DEFINE t == <<"/">> \o Tail(s)
  <2>1. t \in Str /\ Len(t) = Len(s) /\ \A i \in 1..Len(s) : t[i] = IF i <= 1 THEN <<"/">>[i] ELSE Tail(s)[i - 1]
        BY <1>1, <1>2, <1>3, ConcatProperties DEF Str
  <2> HIDE DEF t
  <2>2. \A i \in 1..Len(s) : t[i] = s[i]
    <3> SUFFICES ASSUME NEW i \in 1..Len(s) PROVE t[i] = s[i]
        OBVIOUS
    <3>1. CASE i = 1
          BY <3>1, <2>1, <1>3
    <3>2. CASE i # 1
      <4>1. i - 1 \in 1..Len(Tail(s)) /\ ~(i <= 1) /\ (i - 1) + 1 = i
            BY <3>2, <1>1, <1>2
      <4> QED  BY <4>1, <2>1, <1>1
    <3> QED  BY <3>1, <3>2
  <2>3. t = s
        BY <2>1, <2>2, SeqEqual DEF Str
  <2> QED  BY <2>3 DEF t
<1>5. <<>> \in Str /\ <<>> \o <<"/">> = <<"/">>
      BY <1>3, EmptySeq, ConcatEmptySeq DEF Str
<1>6. Split(<<>> \o <<"/">> \o Tail(s), "/") = Split(<<>>, "/") \o Split(Tail(s), "/")
      BY <1>1, <1>2, <1>5, SplitConcat
<1>7. Split(<<>>, "/") = << <<>> >>
      BY SplitRules
<1> QED  BY <1>1, <1>4, <1>5, <1>6, <1>7

-----------------------------------------------------------------------------
(* simplifyPath.                                                           *)

\* Where name can be cut.
Marks(m, len) ==
    /\ m \in Seq(Nat) /\ m # <<>>
    /\ \A i \in 1..Len(m) : 1 <= m[i] /\ m[i] <= len
    /\ \A i, j \in 1..Len(m) : i <= j => m[i] <= m[j]

States == {s \in [name : Str, marks : Seq(Nat), slash : Nat] : Marks(s.marks, Len(s.name))}

Start == [name |-> <<"/">>, marks |-> <<1>>, slash |-> 1]

Taken(path, s, i) ==
    IF i <= Len(path) /\ path[i] # "/"
    THEN [s EXCEPT !.name = Append(@, path[i])]
    ELSE [Closed(s, SubSeq(path, s.slash + 1, i - 1)) EXCEPT !.slash = i]

(* The beginning of a string.                                              *)
LEMMA CutRules ==
    ASSUME NEW s \in Str, NEW m \in Nat, m <= Len(s)
    PROVE  /\ SubSeq(s, 1, m) \in Str /\ Len(SubSeq(s, 1, m)) = m
           /\ \A i \in 1..m : SubSeq(s, 1, m)[i] = s[i]
<1>1. Len(s) \in Nat /\ \A i \in 1..Len(s) : s[i] \in Char
      BY LenProperties, ElementOfSeq DEF Str
<1>2. m \in Int /\ \A i \in 1..m : s[i] \in Char
      BY <1>1
<1>3. /\ SubSeq(s, 1, m) \in Seq(Char)
      /\ Len(SubSeq(s, 1, m)) = IF 1 <= m THEN m - 1 + 1 ELSE 0
      /\ \A i \in 1..m - 1 + 1 : SubSeq(s, 1, m)[i] = s[1 + i - 1]
      BY <1>2, SubSeqProperties
<1>4. (IF 1 <= m THEN m - 1 + 1 ELSE 0) = m
      OBVIOUS
<1>5. ASSUME NEW i \in 1..m PROVE SubSeq(s, 1, m)[i] = s[i]
  <2>1. i \in 1..m - 1 + 1 /\ 1 + i - 1 = i
        OBVIOUS
  <2> QED  BY <1>3, <2>1
<1> QED  BY <1>3, <1>4, <1>5 DEF Str

LEMMA StartIsState == Start \in States
<1>1. <<"/">> \in Str /\ Len(<<"/">>) = 1
      BY OneChar, CharsAre
<1>2. <<1>> \in Seq(Nat) /\ Len(<<1>>) = 1 /\ <<1>>[1] = 1 /\ <<1>> # <<>>
      BY OneItem
<1>3. \A i \in 1..1 : i = 1
      OBVIOUS
<1>4. Marks(<<1>>, 1)
      BY <1>2, <1>3 DEF Marks
<1> QED  BY <1>1, <1>2, <1>4 DEF Start, States

LEMMA Records ==
    ASSUME NEW s \in States, NEW m, NEW n, NEW c
    PROVE  /\ s = [name |-> s.name, marks |-> s.marks, slash |-> s.slash]
           /\ [s EXCEPT !.name = n] = [name |-> n, marks |-> s.marks, slash |-> s.slash]
           /\ [s EXCEPT !.slash = c] = [name |-> s.name, marks |-> s.marks, slash |-> c]
           /\ [[s EXCEPT !.name = n] EXCEPT !.slash = c]
                = [name |-> n, marks |-> s.marks, slash |-> c]
           /\ [[s EXCEPT !.marks = m, !.name = n] EXCEPT !.slash = c]
                = [name |-> n, marks |-> m, slash |-> c]
           /\ [[s EXCEPT !.name = n, !.marks = m] EXCEPT !.slash = c]
                = [name |-> n, marks |-> m, slash |-> c]
<1> DEFINE x == s.name  y == s.marks  z == s.slash
           sm == [s EXCEPT !.marks = m]  sn == [s EXCEPT !.name = n]
           tm == [name |-> x, marks |-> m, slash |-> z]
           tn == [name |-> n, marks |-> y, slash |-> z]
           tt == [name |-> n, marks |-> m, slash |-> z]
<1>0. s \in [name : Str, marks : Seq(Nat), slash : Nat]
      BY DEF States
<1>1. s = [name |-> x, marks |-> y, slash |-> z]
      BY <1>0
<1>2. sn = tn
      BY <1>0
<1>3. sm = tm
      BY <1>0
<1>4. [s EXCEPT !.slash = c] = [name |-> x, marks |-> y, slash |-> c]
      BY <1>0
<1>5. [s EXCEPT !.marks = m, !.name = n] = [sm EXCEPT !.name = n]
      BY <1>0
<1>6. [s EXCEPT !.name = n, !.marks = m] = [sn EXCEPT !.marks = m]
      BY <1>0
<1>7. [tn EXCEPT !.slash = c] = [name |-> n, marks |-> y, slash |-> c]
      OBVIOUS
<1>8. [tm EXCEPT !.name = n] = tt
      OBVIOUS
<1>9. [tn EXCEPT !.marks = m] = tt
      OBVIOUS
<1>10. [tt EXCEPT !.slash = c] = [name |-> n, marks |-> m, slash |-> c]
      OBVIOUS
<1>11. [sn EXCEPT !.slash = c] = [name |-> n, marks |-> y, slash |-> c]
  <2> HIDE DEF sn, tn
  <2> QED  BY <1>2, <1>7
<1>12. [[s EXCEPT !.marks = m, !.name = n] EXCEPT !.slash = c] = [name |-> n, marks |-> m, slash |-> c]
  <2>1. [s EXCEPT !.marks = m, !.name = n] = tt
    <3> HIDE DEF sm, tm, tt
    <3> QED  BY <1>3, <1>5, <1>8
  <2> HIDE DEF tt
  <2> QED  BY <2>1, <1>10
<1>13. [[s EXCEPT !.name = n, !.marks = m] EXCEPT !.slash = c] = [name |-> n, marks |-> m, slash |-> c]
  <2>1. [s EXCEPT !.name = n, !.marks = m] = tt
    <3> HIDE DEF sn, tn, tt
    <3> QED  BY <1>2, <1>6, <1>9
  <2> HIDE DEF tt
  <2> QED  BY <2>1, <1>10
<1> QED  BY <1>1, <1>2, <1>4, <1>11, <1>12, <1>13

(* The five things that can happen at a character.                         *)
LEMMA TakenRules ==
    ASSUME NEW path, NEW s \in States, NEW i \in Nat, NEW part,
           part = SubSeq(path, s.slash + 1, i - 1)
    PROVE  /\ i <= Len(path) /\ path[i] # "/" =>
                 Taken(path, s, i)
                   = [name |-> Append(s.name, path[i]), marks |-> s.marks, slash |-> s.slash]
           /\ ~(i <= Len(path) /\ path[i] # "/") =>
                 /\ part = <<>> =>
                       Taken(path, s, i) = [name |-> s.name, marks |-> s.marks, slash |-> i]
                 /\ part = <<".">> =>
                       Taken(path, s, i) = [name  |-> SubSeq(s.name, 1, Last(s.marks)),
                                            marks |-> s.marks, slash |-> i]
                 /\ part = <<".", ".">> =>
                       Taken(path, s, i) = [name  |-> SubSeq(s.name, 1, Last(Popped(s.marks))),
                                            marks |-> Popped(s.marks), slash |-> i]
                 /\ part \notin {<<>>, <<".">>, <<".", ".">>} =>
                       Taken(path, s, i) = [name  |-> Append(s.name, "/"),
                                            marks |-> Append(s.marks, Len(s.name) + 1),
                                            slash |-> i]
<1> DEFINE Slash == ~(i <= Len(path) /\ path[i] # "/")
<1>1. ASSUME ~Slash
      PROVE  Taken(path, s, i)
                   = [name |-> Append(s.name, path[i]), marks |-> s.marks, slash |-> s.slash]
  <2>1. Taken(path, s, i) = [s EXCEPT !.name = Append(s.name, path[i])]
        BY <1>1 DEF Taken
  <2> QED  BY <2>1, Records, Zenon
<1>2. ASSUME Slash PROVE Taken(path, s, i) = [Closed(s, part) EXCEPT !.slash = i]
  <2> DEFINE d == Closed(s, part)
             e == Closed(s, SubSeq(path, s.slash + 1, i - 1))
  <2>1. Taken(path, s, i) = [e EXCEPT !.slash = i]
        BY <1>2, Zenon DEF Taken
  <2>2. d = e
        OBVIOUS
  <2> HIDE DEF d, e
  <2>3. [d EXCEPT !.slash = i] = [e EXCEPT !.slash = i]
        BY <2>2
  <2> QED  BY <2>1, <2>3, Zenon DEF d
<1>3. ASSUME part = <<>> PROVE Closed(s, part) = s
      BY <1>3, DotsDiffer, Zenon DEF Closed
<1>4. ASSUME part = <<".">> PROVE Closed(s, part) = [s EXCEPT !.name = SubSeq(s.name, 1, Last(s.marks))]
      BY <1>4, DotsDiffer, Zenon DEF Closed
<1>5. ASSUME part = <<".", ".">>
      PROVE  Closed(s, part) = [s EXCEPT !.marks = Popped(s.marks),
                                         !.name = SubSeq(s.name, 1, Last(Popped(s.marks)))]
      BY <1>5, DotsDiffer, Zenon DEF Closed
<1>6. ASSUME part \notin {<<>>, <<".">>, <<".", ".">>}
      PROVE  Closed(s, part) = [s EXCEPT !.name = Append(s.name, "/"),
                                         !.marks = Append(s.marks, Len(s.name) + 1)]
      BY <1>6, Zenon DEF Closed
<1>7. ASSUME Slash, part = <<>>
      PROVE  Taken(path, s, i) = [name |-> s.name, marks |-> s.marks, slash |-> i]
      BY <1>2, <1>3, <1>7, Records, Zenon
<1>8. ASSUME Slash, part = <<".">>
      PROVE  Taken(path, s, i) = [name |-> SubSeq(s.name, 1, Last(s.marks)),
                                  marks |-> s.marks, slash |-> i]
      BY <1>2, <1>4, <1>8, Records, Zenon
<1>9. ASSUME Slash, part = <<".", ".">>
      PROVE  Taken(path, s, i) = [name  |-> SubSeq(s.name, 1, Last(Popped(s.marks))),
                                  marks |-> Popped(s.marks), slash |-> i]
      BY <1>2, <1>5, <1>9, Records, Zenon
<1>10. ASSUME Slash, part \notin {<<>>, <<".">>, <<".", ".">>}
       PROVE  Taken(path, s, i) = [name |-> Append(s.name, "/"),
                                   marks |-> Append(s.marks, Len(s.name) + 1), slash |-> i]
      BY <1>2, <1>6, <1>10, Records, Zenon
<1> HIDE DEF Slash
<1> QED  BY <1>1, <1>7, <1>8, <1>9, <1>10 DEF Slash

(* Each of them leaves a state.                                            *)
LEMMA MarksRules ==
    ASSUME NEW m, NEW len \in Nat, Marks(m, len)
    PROVE  /\ Marks(m, len + 1)
           /\ Last(m) \in Nat /\ 1 <= Last(m) /\ Last(m) <= len /\ Marks(m, Last(m))
           /\ Marks(Popped(m), len)
           /\ Marks(Append(m, len + 1), len + 1)
<1>0. /\ m \in Seq(Nat) /\ Len(m) \in Nat \ {0} /\ Last(m) = m[Len(m)] /\ Len(m) \in 1..Len(m)
      /\ \A i \in 1..Len(m) : m[i] \in Nat /\ 1 <= m[i] /\ m[i] <= len
      /\ \A i, j \in 1..Len(m) : i <= j => m[i] <= m[j]
  <2>1. m \in Seq(Nat) /\ m # <<>>
        BY DEF Marks
  <2>2. Len(m) \in Nat \ {0} /\ \A i \in 1..Len(m) : m[i] \in Nat
        BY <2>1, EmptySeq, LenProperties, ElementOfSeq
  <2> QED  BY <2>1, <2>2 DEF Marks, Last
<1>1. Marks(m, len + 1)
      BY <1>0 DEF Marks
<1>2. Last(m) \in Nat /\ 1 <= Last(m) /\ Last(m) <= len
      BY <1>0
<1>3. Marks(m, Last(m))
      BY <1>0 DEF Marks
<1>4. Marks(Popped(m), len)
  <2>1. CASE Len(m) <= 1
    <3>1. <<1>> \in Seq(Nat) /\ Len(<<1>>) = 1 /\ <<1>>[1] = 1 /\ <<1>> # <<>>
          BY OneItem
    <3>2. \A i \in 1..1 : i = 1
          OBVIOUS
    <3>3. 1 <= len
          BY <1>0
    <3>4. Popped(m) = <<1>>
          BY <2>1 DEF Popped
    <3> QED  BY <3>1, <3>2, <3>3, <3>4 DEF Marks
  <2>2. CASE ~(Len(m) <= 1)
    <3>1. Popped(m) = Front(m)
          BY <2>2 DEF Popped
    <3>2. Front(m) \in Seq(Nat) /\ Len(Front(m)) = Len(m) - 1
          /\ \A i \in 1..Len(m) - 1 : Front(m)[i] = m[i]
          BY <1>0, EmptySeq, FrontRules
    <3>3. Front(m) # <<>>
          BY <2>2, <3>2, <1>0, EmptySeq
    <3>4. \A i \in 1..Len(m) - 1 : i \in 1..Len(m)
          BY <1>0
    <3>5. Marks(Front(m), len)
          BY <1>0, <3>2, <3>3, <3>4 DEF Marks
    <3> QED  BY <3>1, <3>5
  <2> QED  BY <2>1, <2>2
<1>5. Marks(Append(m, len + 1), len + 1)
  <2> DEFINE t == Append(m, len + 1)
  <2>1. /\ t \in Seq(Nat) /\ Len(t) = Len(m) + 1 /\ t # <<>> /\ t[Len(m) + 1] = len + 1
        /\ \A i \in 1..Len(m) : t[i] = m[i]
        BY <1>0, AppendProperties
  <2> HIDE DEF t
  <2>2. \A i \in 1..Len(t) : i = Len(m) + 1 \/ i \in 1..Len(m)
        BY <1>0, <2>1
  <2>3. \A i \in 1..Len(t) : 1 <= t[i] /\ t[i] <= len + 1
    <3>1. \A i \in 1..Len(m) : 1 <= m[i] /\ m[i] <= len + 1
          BY <1>0
    <3> QED  BY <3>1, <2>1, <2>2
  <2>4. ASSUME NEW i \in 1..Len(t), NEW j \in 1..Len(t), i <= j PROVE t[i] <= t[j]
    <3>1. CASE j = Len(m) + 1
          BY <3>1, <2>1, <2>3
    <3>2. CASE j # Len(m) + 1
      <4>1. j \in 1..Len(m) /\ i \in 1..Len(m)
            BY <3>2, <2>2, <2>4, <1>0
      <4> QED  BY <4>1, <2>1, <2>4, <1>0
    <3> QED  BY <3>1, <3>2
  <2> QED  BY <2>1, <2>3, <2>4 DEF Marks
<1> QED  BY <1>1, <1>2, <1>3, <1>4, <1>5

LEMMA StateParts ==
    ASSUME NEW s \in States
    PROVE  s.name \in Str /\ s.slash \in Nat /\ Len(s.name) \in Nat /\ Marks(s.marks, Len(s.name))
<1>1. s.name \in Str /\ s.slash \in Nat /\ Marks(s.marks, Len(s.name))
      BY DEF States
<1> QED  BY <1>1, LenProperties DEF Str

LEMMA MakeState ==
    ASSUME NEW n \in Str, NEW m, NEW c \in Nat, Marks(m, Len(n))
    PROVE  [name |-> n, marks |-> m, slash |-> c] \in States
<1>1. m \in Seq(Nat)
      BY DEF Marks
<1> QED  BY <1>1 DEF States

LEMMA TakenIsState ==
    ASSUME NEW path \in Str, NEW s \in States, NEW i \in 1..Len(path) + 1
    PROVE  Taken(path, s, i) \in States
<1> DEFINE n == s.name  m == s.marks  k == Len(n)
           part == SubSeq(path, s.slash + 1, i - 1)
<1>0. n \in Str /\ k \in Nat /\ Marks(m, k) /\ s.slash \in Nat /\ i \in Nat
      BY StateParts
<1>1. Last(m) \in Nat /\ Last(m) <= k /\ Marks(m, Last(m)) /\ Marks(Popped(m), k) /\ Marks(m, k + 1)
      /\ Marks(Append(m, k + 1), k + 1)
      BY <1>0, MarksRules
<1>2. Last(Popped(m)) \in Nat /\ Last(Popped(m)) <= k /\ Marks(Popped(m), Last(Popped(m)))
      BY <1>0, <1>1, MarksRules
<1>3. ASSUME NEW c \in Char PROVE Append(n, c) \in Str /\ Len(Append(n, c)) = k + 1
      BY <1>0, AppendProperties DEF Str
<1>4. ASSUME NEW l \in Nat, l <= k PROVE SubSeq(n, 1, l) \in Str /\ Len(SubSeq(n, 1, l)) = l
      BY <1>0, <1>4, CutRules
<1>5. "/" \in Char /\ (i <= Len(path) => path[i] \in Char)
  <2>1. i <= Len(path) => i \in 1..Len(path)
        OBVIOUS
  <2> QED  BY <2>1, CharsAre, ElementOfSeq DEF Str
<1> HIDE DEF n, m, k, part
<1>6. ASSUME i <= Len(path) /\ path[i] # "/" PROVE Taken(path, s, i) \in States
  <2>1. Taken(path, s, i) = [name |-> Append(n, path[i]), marks |-> m, slash |-> s.slash]
        BY <1>0, <1>6, TakenRules DEF n, m
  <2>2. Append(n, path[i]) \in Str /\ Len(Append(n, path[i])) = k + 1
        BY <1>3, <1>5, <1>6
  <2> QED  BY <2>1, <2>2, <1>0, <1>1, MakeState
<1>7. ASSUME ~(i <= Len(path) /\ path[i] # "/"), part = <<>> PROVE Taken(path, s, i) \in States
  <2>1. Taken(path, s, i) = [name |-> n, marks |-> m, slash |-> i]
        BY <1>0, <1>7, TakenRules DEF n, m, part
  <2> QED  BY <2>1, <1>0, MakeState DEF k
<1>8. ASSUME ~(i <= Len(path) /\ path[i] # "/"), part = <<".">> PROVE Taken(path, s, i) \in States
  <2>1. Taken(path, s, i) = [name |-> SubSeq(n, 1, Last(m)), marks |-> m, slash |-> i]
        BY <1>0, <1>8, TakenRules DEF n, m, part
  <2>2. SubSeq(n, 1, Last(m)) \in Str /\ Len(SubSeq(n, 1, Last(m))) = Last(m)
        BY <1>1, <1>4
  <2> QED  BY <2>1, <2>2, <1>0, <1>1, MakeState
<1>9. ASSUME ~(i <= Len(path) /\ path[i] # "/"), part = <<".", ".">> PROVE Taken(path, s, i) \in States
  <2> DEFINE p == Popped(m)
  <2>1. Taken(path, s, i) = [name |-> SubSeq(n, 1, Last(p)), marks |-> p, slash |-> i]
        BY <1>0, <1>9, TakenRules DEF n, m, part
  <2>2. SubSeq(n, 1, Last(p)) \in Str /\ Len(SubSeq(n, 1, Last(p))) = Last(p)
        BY <1>2, <1>4
  <2> QED  BY <2>1, <2>2, <1>0, <1>2, MakeState
<1>10. ASSUME ~(i <= Len(path) /\ path[i] # "/"), part \notin {<<>>, <<".">>, <<".", ".">>}
       PROVE  Taken(path, s, i) \in States
  <2>1. Taken(path, s, i) = [name |-> Append(n, "/"), marks |-> Append(m, k + 1), slash |-> i]
        BY <1>0, <1>10, TakenRules DEF n, m, part, k
  <2>2. Append(n, "/") \in Str /\ Len(Append(n, "/")) = k + 1
        BY <1>3, <1>5
  <2> QED  BY <2>1, <2>2, <1>0, <1>1, MakeState
<1> QED  BY <1>6, <1>7, <1>8, <1>9, <1>10

(* The loop of simplifyPath: r[n] is the state before the character n + 2  *)
(* of the path, a slash for the one behind its end.                        *)
Loops(path, r) ==
    /\ r \in [0..Len(path) -> States] /\ r[0] = Start
    /\ \A n \in 1..Len(path) : r[n] = Taken(path, r[n - 1], n + 1)

LEMMA SimplifyLoops ==
    ASSUME NEW path \in Str
    PROVE  \E r : /\ Loops(path, r)
                  /\ simplifyPath(path) = LET name == r[Len(path)].name
                                          IN  IF Len(name) = 1 THEN name ELSE Front(name)
<1> DEFINE A     == States
           N     == Len(path)
           idx   == [i \in 1..Len(path) |-> i + 1]
           base  == Start
           st    == [n \in 1..N |-> [s \in A |-> Taken(path, s, n + 1)]]
           Eq(f) == f = [t \in SUBSET (DOMAIN idx) |->
                            IF t = {} THEN base ELSE Taken(path, f[t \ {Max(t)}], idx[Max(t)])]
           it    == CHOOSE f : Eq(f)
           end   == it[DOMAIN idx]
<1>1. N \in Nat /\ DOMAIN idx = 1..N /\ (\A n \in 1..N : idx[n] = n + 1) /\ base \in A
      BY LenProperties, StartIsState DEF Str
<1>2. simplifyPath(path) = IF Len(end.name) = 1 THEN end.name ELSE Front(end.name)
      BY DEF simplifyPath, FoldLeft, MapThenFoldSet, Taken, Start
<1>3. \A n \in 1..N : n + 1 \in 1..Len(path) + 1
      BY <1>1
<1> HIDE DEF idx, A, base
<1>4. \A n \in 1..N, s \in A : Taken(path, s, n + 1) \in A
      BY <1>3, TakenIsState DEF A
<1>5. st \in Bodies(A, 1..N)
  <2> HIDE DEF N
  <2> QED  BY <1>4 DEF Bodies
<1>6. \A n \in 1..N, s \in A : st[n][s] = Taken(path, s, n + 1)
      OBVIOUS
<1> HIDE DEF st, N
<1>7. PICK f : FoldInside(A, N, st, base, f)
      BY <1>1, <1>5, FoldOverSets
<1>8. Eq(f)
  <2>1. ASSUME NEW t \in SUBSET (1..N), t # {}
        PROVE  f[t] = Taken(path, f[t \ {Max(t)}], idx[Max(t)])
    <3>1. Max(t) \in 1..N /\ f[t] = st[Max(t)][f[t \ {Max(t)}]]
          BY <1>7, <2>1 DEF FoldInside
    <3>2. f[t \ {Max(t)}] \in A
          BY <1>7 DEF FoldInside
    <3> QED  BY <3>1, <3>2, <1>1, <1>6
  <2> QED  BY <1>1, <1>7, <2>1 DEF FoldInside
<1>9. Eq(it)
      BY <1>8
<1> HIDE DEF it
<1>10. IsFold(A, N, st, base, it)
  <2>1. it[{}] = base
        BY <1>9
  <2>2. ASSUME NEW t \in SUBSET (1..N), t # {}, it[t \ {Max(t)}] \in A
        PROVE  it[t] = st[Max(t)][it[t \ {Max(t)}]]
    <3>1. Max(t) \in 1..N
          BY <1>1, <2>2, MaxIsGreatest
    <3>2. it[t] = Taken(path, it[t \ {Max(t)}], idx[Max(t)])
          BY <1>1, <1>9, <2>2
    <3> QED  BY <3>1, <3>2, <2>2, <1>1, <1>6
  <2> QED  BY <2>1, <2>2 DEF IsFold
<1>11. PICK r : IsRun(A, N, st, base, r)
      BY <1>1, <1>5, LoopRuns
<1>12. end = r[N]
  <2>1. it[1..N] = r[N]
        BY <1>1, <1>5, <1>10, <1>11, FoldIsRun
  <2> QED  BY <2>1, <1>1
<1>13. Loops(path, r)
  <2>1. r \in [0..N -> A] /\ r[0] = base /\ \A n \in 1..N : r[n] = st[n][r[n - 1]]
        BY <1>11 DEF IsRun
  <2>2. \A n \in 1..N : n - 1 \in 0..N
        BY <1>1
  <2>3. \A n \in 1..N : r[n] = Taken(path, r[n - 1], n + 1)
        BY <2>1, <2>2, <1>6
  <2> QED  BY <2>1, <2>3 DEF Loops, A, N, base
<1> QED  BY <1>2, <1>12, <1>13 DEF N

LEMMA StrConcat ==
    ASSUME NEW s \in Str, NEW t \in Str
    PROVE  /\ s \o t \in Str
           /\ \A c \in Char : s \o Append(t, c) = Append(s \o t, c)
           /\ \A u \in Str : (s \o t) \o u = s \o (t \o u)
<1>1. s \o t \in Str
      BY ConcatProperties DEF Str
<1>2. \A c \in Char : s \o Append(t, c) = Append(s \o t, c)
      BY ConcatAppend DEF Str
<1>3. \A u \in Str : (s \o t) \o u = s \o (t \o u)
      BY ConcatAssociative DEF Str
<1> QED  BY <1>1, <1>2, <1>3

LEMMA StrAssoc ==
    ASSUME NEW s \in Str, NEW t \in Str, NEW u \in Str
    PROVE  (s \o t) \o u = s \o (t \o u)
BY ConcatAssociative DEF Str

(* What comes in front of a string can be cut out of it again.             *)
LEMMA FrontOfConcat ==
    ASSUME NEW s \in Str, NEW t \in Str
    PROVE  SubSeq(s \o t, 1, Len(s)) = s
<1>1. s \o t \in Str /\ Len(s) \in Nat /\ Len(t) \in Nat /\ Len(s \o t) = Len(s) + Len(t)
      /\ \A i \in 1..Len(s) : (s \o t)[i] = s[i]
  <2>1. s \o t \in Str /\ Len(s) \in Nat /\ Len(t) \in Nat /\ Len(s \o t) = Len(s) + Len(t)
        BY ConcatProperties, LenProperties DEF Str
  <2>2. \A i \in 1..Len(s) + Len(t) : (s \o t)[i] = IF i <= Len(s) THEN s[i] ELSE t[i - Len(s)]
        BY ConcatProperties DEF Str
  <2>3. \A i \in 1..Len(s) : i \in 1..Len(s) + Len(t) /\ i <= Len(s)
        BY <2>1
  <2> QED  BY <2>1, <2>2, <2>3
<1> DEFINE u == SubSeq(s \o t, 1, Len(s))
<1>2. u \in Str /\ Len(u) = Len(s) /\ \A i \in 1..Len(s) : u[i] = (s \o t)[i]
  <2>1. Len(s) <= Len(s \o t)
        BY <1>1
  <2> QED  BY <1>1, <2>1, CutRules
<1> HIDE DEF u
<1>3. u = s
      BY <1>1, <1>2, SeqEqual DEF Str
<1> QED  BY <1>3 DEF u

(* The directory with the names, as it stands in name: each name followed  *)
(* by a slash.                                                             *)
Dir(names) == Append(Join(names), "/")

LEMMA DirRules ==
    /\ Dir(<<>>) = <<"/">>
    /\ \A ns \in Names : Dir(ns) \in Str /\ Len(Dir(ns)) \in Nat
    /\ \A ns \in Names, n \in Str :
          /\ Dir(Append(ns, n)) = Append(Dir(ns) \o n, "/")
          /\ Dir(Append(ns, n)) = Dir(ns) \o Append(n, "/")
<1>0. "/" \in Char
      BY CharsAre
<1>1. Dir(<<>>) = <<"/">>
  <2>1. Append(<<>>, "/") = <<"/">>
        BY <1>0, OneItem
  <2> QED  BY <2>1, JoinRules DEF Dir
<1>2. ASSUME NEW ns \in Names PROVE Dir(ns) \in Str /\ Len(Dir(ns)) \in Nat
  <2>1. Dir(ns) \in Str
        BY <1>0, JoinRules, AppendProperties DEF Dir, Str
  <2> QED  BY <2>1, LenProperties DEF Str
<1>3. ASSUME NEW ns \in Names, NEW n \in Str
      PROVE  Dir(Append(ns, n)) = Append(Dir(ns) \o n, "/")
  <2>1. Join(Append(ns, n)) = Join(ns) \o <<"/">> \o n /\ Join(ns) \in Str
        BY JoinRules DEF Under
  <2>2. Append(Join(ns), "/") = Join(ns) \o <<"/">>
        BY <1>0, <2>1, AppendIsConcat DEF Str
  <2> QED  BY <2>1, <2>2 DEF Dir
<1>4. ASSUME NEW ns \in Names, NEW n \in Str
      PROVE  Append(Dir(ns) \o n, "/") = Dir(ns) \o Append(n, "/")
  <2> DEFINE d == Dir(ns)
  <2>1. d \in Str
        BY <1>2
  <2> HIDE DEF d
  <2> QED  BY <1>0, <2>1, StrConcat DEF d
<1> QED  BY <1>1, <1>2, <1>3, <1>4

(* marks has the lengths of the directories on the way.                    *)
MarksAre(m, ns) ==
    /\ m \in Seq(Nat) /\ Len(m) = Len(ns) + 1
    /\ \A k \in 0..Len(ns) : m[k + 1] = Len(Dir(SubSeq(ns, 1, k)))

LEMMA CutNames ==
    ASSUME NEW s \in Names, NEW n \in Str
    PROVE  /\ SubSeq(s, 1, Len(s)) = s /\ SubSeq(s, 1, 0) = <<>>
           /\ Len(s) \in Nat /\ Len(Append(s, n)) = Len(s) + 1
           /\ \A k \in 0..Len(s) : SubSeq(Append(s, n), 1, k) = SubSeq(s, 1, k)
<1>1. Len(s) \in Nat /\ Append(s, n) \in Names /\ Len(Append(s, n)) = Len(s) + 1
      /\ \A i \in 1..Len(s) : Append(s, n)[i] = s[i] /\ s[i] \in Str
      BY AppendProperties, LenProperties, ElementOfSeq DEF Names
<1>2. SubSeq(s, 1, Len(s)) = s /\ SubSeq(s, 1, 0) = <<>>
      BY SubSeqFull, SubSeqEmpty DEF Names
<1>3. ASSUME NEW k \in 0..Len(s) PROVE SubSeq(Append(s, n), 1, k) = SubSeq(s, 1, k)
  <2> DEFINE t == Append(s, n)  u == SubSeq(t, 1, k)  v == SubSeq(s, 1, k)
  <2>1. k \in Int /\ (\A i \in 1..k : s[i] \in Str /\ t[i] \in Str /\ t[i] = s[i])
        BY <1>1
  <2> HIDE DEF t
  <2>2. /\ u \in Seq(Str) /\ Len(u) = IF 1 <= k THEN k - 1 + 1 ELSE 0
        /\ \A i \in 1..k - 1 + 1 : u[i] = t[1 + i - 1]
        BY <2>1, SubSeqProperties
  <2>3. /\ v \in Seq(Str) /\ Len(v) = IF 1 <= k THEN k - 1 + 1 ELSE 0
        /\ \A i \in 1..k - 1 + 1 : v[i] = s[1 + i - 1]
        BY <2>1, SubSeqProperties
  <2>4. (IF 1 <= k THEN k - 1 + 1 ELSE 0) = k
        OBVIOUS
  <2> HIDE DEF u, v
  <2>5. \A i \in 1..Len(u) : u[i] = v[i]
    <3> SUFFICES ASSUME NEW i \in 1..k PROVE u[i] = v[i]
        BY <2>2, <2>4
    <3>1. i \in 1..k - 1 + 1 /\ 1 + i - 1 = i
          OBVIOUS
    <3> QED  BY <3>1, <2>1, <2>2, <2>3
  <2>6. u = v
        BY <2>2, <2>3, <2>5, SeqEqual
  <2> QED  BY <2>6 DEF u, v, t
<1> QED  BY <1>1, <1>2, <1>3

LEMMA MarksOfRoot ==
    /\ MarksAre(<<1>>, <<>>)
    /\ \A m : MarksAre(m, <<>>) => Popped(m) = <<1>>
<1>1. <<>> \in Names /\ SubSeq(<<>>, 1, 0) = <<>> /\ Len(<<>>) = 0
  <2>1. <<>> \in Names /\ <<>> \in Str
        BY EmptySeq DEF Names, Str
  <2> QED  BY <2>1, CutNames, EmptySeq
<1>2. <<1>> \in Seq(Nat) /\ Len(<<1>>) = 1 /\ <<1>>[1] = 1
      BY OneItem
<1>3. Len(Dir(<<>>)) = 1
      BY DirRules, OneChar, CharsAre
<1>4. \A k \in 0..0 : k = 0
      OBVIOUS
<1>5. MarksAre(<<1>>, <<>>)
  <2> DEFINE e == <<>>  o == <<1>>
  <2>1. /\ SubSeq(e, 1, 0) = e /\ Len(Dir(e)) = 1 /\ o[1] = 1
        /\ o \in Seq(Nat) /\ Len(o) = 1 /\ Len(e) = 0
        BY <1>1, <1>2, <1>3
  <2> HIDE DEF e, o
  <2>2. \A k \in 0..0 : k = 0 /\ k + 1 = 1
        OBVIOUS
  <2>3. ASSUME NEW k \in 0..Len(e) PROVE o[k + 1] = Len(Dir(SubSeq(e, 1, k)))
    <3>1. k = 0 /\ k + 1 = 1
          BY <2>1
    <3>2. SubSeq(e, 1, k) = e /\ o[k + 1] = 1
          BY <2>1, <3>1
    <3> QED  BY <2>1, <3>2
  <2>4. Len(o) = Len(e) + 1
        BY <2>1
  <2>5. MarksAre(o, e)
        BY <2>1, <2>3, <2>4 DEF MarksAre
  <2> QED  BY <2>5 DEF e, o
<1>6. \A m : MarksAre(m, <<>>) => Popped(m) = <<1>>
      BY <1>1 DEF MarksAre, Popped
<1> QED  BY <1>5, <1>6

LEMMA MarksOfNames ==
    ASSUME NEW ns \in Names, NEW m, MarksAre(m, ns)
    PROVE  Last(m) = Len(Dir(ns))
<1>1. Len(ns) \in Nat /\ SubSeq(ns, 1, Len(ns)) = ns
      BY LenProperties, SubSeqFull DEF Names
<1>2. m[Len(ns) + 1] = Len(Dir(ns)) /\ Len(m) = Len(ns) + 1
  <2>1. Len(ns) \in 0..Len(ns)
        BY <1>1
  <2> QED  BY <1>1, <2>1 DEF MarksAre
<1> QED  BY <1>2 DEF Last

LEMMA MarksOneMore ==
    ASSUME NEW ns \in Names, NEW n \in Str, NEW m, MarksAre(m, ns)
    PROVE  MarksAre(Append(m, Len(Dir(Append(ns, n)))), Append(ns, n))
<1> DEFINE t == Append(ns, n)  l == Len(Dir(t))  u == Append(m, l)
<1>1. m \in Seq(Nat) /\ Len(m) = Len(ns) + 1
      /\ \A k \in 0..Len(ns) : m[k + 1] = Len(Dir(SubSeq(ns, 1, k)))
      BY DEF MarksAre
<1>2. Len(ns) \in Nat /\ Len(t) = Len(ns) + 1
      /\ \A k \in 0..Len(ns) : SubSeq(t, 1, k) = SubSeq(ns, 1, k)
      BY CutNames
<1>3. t \in Names /\ SubSeq(t, 1, Len(t)) = t
  <2>1. t \in Names
        BY AppendProperties DEF Names
  <2> HIDE DEF t
  <2> QED  BY <2>1, SubSeqFull DEF Names
<1> HIDE DEF t
<1>4. l \in Nat
      BY <1>3, DirRules
<1> HIDE DEF l
<1>5. u \in Seq(Nat) /\ Len(u) = Len(m) + 1 /\ u[Len(m) + 1] = l
      /\ \A i \in 1..Len(m) : u[i] = m[i]
      BY <1>1, <1>4, AppendProperties
<1> HIDE DEF u
<1>6. ASSUME NEW k \in 0..Len(t) PROVE u[k + 1] = Len(Dir(SubSeq(t, 1, k)))
  <2>1. CASE k = Len(t)
    <3>1. u[k + 1] = l
          BY <2>1, <1>1, <1>2, <1>5
    <3> QED  BY <2>1, <3>1, <1>3 DEF l
  <2>2. CASE k # Len(t)
    <3>1. k \in 0..Len(ns) /\ k + 1 \in 1..Len(m)
          BY <2>2, <1>1, <1>2
    <3>2. u[k + 1] = m[k + 1] /\ SubSeq(t, 1, k) = SubSeq(ns, 1, k)
          BY <3>1, <1>2, <1>5
    <3> QED  BY <3>1, <3>2, <1>1
  <2> QED  BY <2>1, <2>2
<1>7. MarksAre(u, t)
      BY <1>1, <1>2, <1>5, <1>6 DEF MarksAre
<1> QED  BY <1>7 DEF u, l, t

LEMMA MarksOneLess ==
    ASSUME NEW ns \in Names, NEW n \in Str, NEW m, MarksAre(m, Append(ns, n))
    PROVE  MarksAre(Popped(m), ns)
<1> DEFINE t == Append(ns, n)
<1>1. m \in Seq(Nat) /\ Len(m) = Len(t) + 1
      /\ \A k \in 0..Len(t) : m[k + 1] = Len(Dir(SubSeq(t, 1, k)))
      BY DEF MarksAre
<1>2. Len(ns) \in Nat /\ Len(t) = Len(ns) + 1
      /\ \A k \in 0..Len(ns) : SubSeq(t, 1, k) = SubSeq(ns, 1, k)
      BY CutNames
<1> HIDE DEF t
<1>3. Popped(m) = Front(m) /\ m # <<>>
      BY <1>1, <1>2, EmptySeq DEF Popped
<1>4. Front(m) \in Seq(Nat) /\ Len(Front(m)) = Len(m) - 1
      /\ \A i \in 1..Len(m) - 1 : Front(m)[i] = m[i]
      BY <1>1, <1>3, FrontRules
<1>5. ASSUME NEW k \in 0..Len(ns) PROVE Front(m)[k + 1] = Len(Dir(SubSeq(ns, 1, k)))
  <2>1. k \in 0..Len(t) /\ k + 1 \in 1..Len(m) - 1
        BY <1>1, <1>2
  <2>2. Front(m)[k + 1] = m[k + 1] /\ SubSeq(t, 1, k) = SubSeq(ns, 1, k)
        BY <2>1, <1>2, <1>4
  <2> QED  BY <2>1, <2>2, <1>1
<1>6. Len(Front(m)) = Len(ns) + 1
      BY <1>1, <1>2, <1>4
<1> QED  BY <1>3, <1>4, <1>5, <1>6 DEF MarksAre

(* What the loop has: the names so far, and the part since the last slash. *)
Shape(s, ns, part) == s.name = Dir(ns) \o part /\ MarksAre(s.marks, ns)

LEMMA CharTaken ==
    ASSUME NEW path \in Str, NEW s \in States, NEW i \in 1..Len(path), path[i] # "/",
           NEW ns \in Names, NEW part \in Str, Shape(s, ns, part)
    PROVE  /\ Shape(Taken(path, s, i), ns, Append(part, path[i]))
           /\ Taken(path, s, i).slash = s.slash
<1> DEFINE c == path[i]  t == Taken(path, s, i)
<1>1. c \in Char /\ i \in Nat /\ i <= Len(path)
      BY ElementOfSeq DEF Str
<1>2. t = [name |-> Append(s.name, c), marks |-> s.marks, slash |-> s.slash]
      BY <1>1, TakenRules
<1> HIDE DEF c, t
<1>3. Append(Dir(ns) \o part, c) = Dir(ns) \o Append(part, c)
  <2> DEFINE d == Dir(ns)
  <2>1. d \in Str
        BY DirRules
  <2> HIDE DEF d
  <2> QED  BY <1>1, <2>1, StrConcat DEF d
<1>4. t.name = Dir(ns) \o Append(part, c) /\ t.marks = s.marks /\ t.slash = s.slash
      BY <1>2, <1>3 DEF Shape
<1> QED  BY <1>4 DEF Shape, c, t

LEMMA SlashTaken ==
    ASSUME NEW path \in Str, NEW s \in States, NEW i \in 1..Len(path) + 1,
           ~(i <= Len(path) /\ path[i] # "/"),
           NEW ns \in Names, NEW part \in Str, Shape(s, ns, part),
           part = SubSeq(path, s.slash + 1, i - 1)
    PROVE  /\ Shape(Taken(path, s, i), Entered(ns, part), <<>>)
           /\ Taken(path, s, i).slash = i
<1> DEFINE t == Taken(path, s, i)
<1>0. i \in Nat /\ <<>> \in Str
      BY EmptySeq DEF Str
<1>a. /\ part = <<>> => t = [name |-> s.name, marks |-> s.marks, slash |-> i]
      /\ part = <<".">> =>
            t = [name |-> SubSeq(s.name, 1, Last(s.marks)), marks |-> s.marks, slash |-> i]
      /\ part = <<".", ".">> =>
            t = [name  |-> SubSeq(s.name, 1, Last(Popped(s.marks))),
                 marks |-> Popped(s.marks), slash |-> i]
      /\ part \notin {<<>>, <<".">>, <<".", ".">>} =>
            t = [name |-> Append(s.name, "/"), marks |-> Append(s.marks, Len(s.name) + 1), slash |-> i]
      BY <1>0, TakenRules, Zenon
<1>1. ASSUME NEW a \in Names, t.name = Dir(a), MarksAre(t.marks, a), t.slash = i, a = Entered(ns, part)
      PROVE  /\ Shape(Taken(path, s, i), Entered(ns, part), <<>>)
             /\ Taken(path, s, i).slash = i
  <2>1. Dir(a) \o <<>> = Dir(a)
        BY DirRules, ConcatEmptySeq DEF Str
  <2> QED  BY <1>1, <2>1 DEF Shape
<1>2. CASE part = <<>>
  <2>1. t = [name |-> s.name, marks |-> s.marks, slash |-> i]
        BY <1>2, <1>a
  <2>2. Dir(ns) \o part = Dir(ns)
        BY <1>2, DirRules, ConcatEmptySeq DEF Str
  <2>3. Entered(ns, part) = ns
        BY <1>2, EnteredRules, Zenon
  <2> HIDE DEF t
  <2>4. t.name = Dir(ns) /\ t.marks = s.marks /\ t.slash = i
        BY <2>1, <2>2 DEF Shape
  <2> QED  BY <1>1, <2>3, <2>4 DEF Shape
<1>3. CASE part = <<".">>
  <2>1. t = [name |-> SubSeq(s.name, 1, Last(s.marks)), marks |-> s.marks, slash |-> i]
        BY <1>3, <1>a
  <2>2. Last(s.marks) = Len(Dir(ns))
        BY MarksOfNames DEF Shape
  <2>3. SubSeq(Dir(ns) \o part, 1, Len(Dir(ns))) = Dir(ns)
        BY DirRules, FrontOfConcat
  <2>4. Entered(ns, part) = ns
        BY <1>3, EnteredRules, Zenon
  <2> HIDE DEF t
  <2>5. t.name = Dir(ns) /\ t.marks = s.marks /\ t.slash = i
        BY <2>1, <2>2, <2>3 DEF Shape
  <2> QED  BY <1>1, <2>4, <2>5 DEF Shape
<1>4. CASE part = <<".", ".">>
  <2> DEFINE p == Popped(s.marks)
  <2>1. t = [name |-> SubSeq(s.name, 1, Last(p)), marks |-> p, slash |-> i]
        BY <1>4, <1>a
  <2>2. ASSUME NEW a \in Names, NEW x \in Str, Dir(ns) \o part = Dir(a) \o x, MarksAre(p, a),
               Entered(ns, part) = a
        PROVE  t.name = Dir(a) /\ t.marks = p /\ t.slash = i
    <3>1. Last(p) = Len(Dir(a))
          BY <2>2, MarksOfNames
    <3>2. SubSeq(Dir(a) \o x, 1, Len(Dir(a))) = Dir(a)
          BY DirRules, FrontOfConcat
    <3> HIDE DEF t, p
    <3> QED  BY <2>1, <2>2, <3>1, <3>2 DEF Shape
  <2> HIDE DEF t, p
  <2>3. CASE ns = <<>>
    <3>1. p = <<1>> /\ MarksAre(p, ns)
          BY <2>3, MarksOfRoot DEF Shape, p
    <3>2. Entered(ns, part) = ns
          BY <1>4, <2>3, EnteredRules, Zenon
    <3>3. t.name = Dir(ns) /\ t.marks = p /\ t.slash = i
          BY <2>2, <3>1, <3>2
    <3> QED  BY <1>1, <3>1, <3>2, <3>3
  <2>4. CASE ns # <<>>
    <3> DEFINE a == Front(ns)  n == Last(ns)
    <3>1. a \in Names /\ n \in Str /\ ns = Append(a, n)
          BY <2>4, FrontRules DEF Names
    <3>2. Entered(ns, part) = a
          BY <1>4, <2>4, EnteredRules, Zenon
    <3> HIDE DEF a, n
    <3>3. MarksAre(p, a)
          BY <3>1, MarksOneLess DEF Shape, p
    <3>4. Append(n, "/") \in Str /\ Append(n, "/") \o part \in Str
      <4>1. Append(n, "/") \in Str
            BY <3>1, CharsAre, AppendProperties DEF Str
      <4> QED  BY <4>1, ConcatProperties DEF Str
    <3>5. Dir(ns) \o part = Dir(a) \o (Append(n, "/") \o part)
      <4>1. Dir(ns) = Dir(a) \o Append(n, "/")
            BY <3>1, DirRules
      <4> DEFINE d == Dir(a)  x == Append(n, "/")
      <4>2. d \in Str
            BY <3>1, DirRules
      <4> HIDE DEF d, x
      <4>3. (d \o x) \o part = d \o (x \o part)
            BY <3>4, <4>2, StrConcat DEF x
      <4> QED  BY <4>1, <4>3 DEF d, x
    <3>6. t.name = Dir(a) /\ t.marks = p /\ t.slash = i
          BY <2>2, <3>1, <3>2, <3>3, <3>4, <3>5
    <3> QED  BY <1>1, <3>1, <3>2, <3>3, <3>6
  <2> QED  BY <2>3, <2>4
<1>5. CASE part \notin {<<>>, <<".">>, <<".", ".">>}
  <2> DEFINE a == Append(ns, part)
  <2>1. t = [name |-> Append(s.name, "/"), marks |-> Append(s.marks, Len(s.name) + 1), slash |-> i]
        BY <1>5, <1>a
  <2>2. Entered(ns, part) = a
        BY <1>5, EnteredRules, Zenon
  <2>3. a \in Names
        BY AppendProperties DEF Names
  <2>4. Dir(a) = Append(s.name, "/")
        BY DirRules DEF Shape
  <2>5. Len(Append(s.name, "/")) = Len(s.name) + 1
    <3>1. s.name \in Str /\ "/" \in Char
          BY StateParts, CharsAre
    <3> QED  BY <3>1, AppendProperties DEF Str
  <2>6. MarksAre(Append(s.marks, Len(Dir(a))), a)
        BY MarksOneMore DEF Shape
  <2> HIDE DEF a, t
  <2>7. t.name = Dir(a) /\ t.marks = Append(s.marks, Len(Dir(a))) /\ t.slash = i
        BY <2>1, <2>4, <2>5
  <2> QED  BY <1>1, <2>2, <2>3, <2>6, <2>7
<1> QED  BY <1>2, <1>3, <1>4, <1>5

(* One character further.                                                  *)
LEMMA PartOneMore ==
    ASSUME NEW s \in Str, NEW a \in Nat, NEW b \in Nat, 1 <= a, a <= b + 1, b + 1 <= Len(s)
    PROVE  /\ SubSeq(s, a, b) \in Str
           /\ SubSeq(s, a, b + 1) = Append(SubSeq(s, a, b), s[b + 1])
<1>0. Len(s) \in Nat /\ \A i \in 1..Len(s) : s[i] \in Char
      BY LenProperties, ElementOfSeq DEF Str
<1>1. a \in 1..Len(s) /\ b + 1 \in a..Len(s) /\ (b + 1) - 1 = b
      BY <1>0
<1>2. SubSeq(s, a, b + 1) = SubSeq(s, a, (b + 1) - 1) \o <<s[b + 1]>>
      BY <1>1, SubSeqRecursiveSecond DEF Str
<1>3. SubSeq(s, a, b) \in Seq(Char)
  <2>1. \A i \in a..b : s[i] \in Char
        BY <1>0
  <2> QED  BY <2>1, SubSeqProperties
<1>4. s[b + 1] \in Char
      BY <1>0, <1>1
<1>5. Append(SubSeq(s, a, b), s[b + 1]) = SubSeq(s, a, b) \o <<s[b + 1]>>
      BY <1>3, <1>4, AppendIsConcat
<1> QED  BY <1>1, <1>2, <1>3, <1>5 DEF Str

LEMMA FrontOfAppend ==
    ASSUME NEW S, NEW s \in Seq(S), NEW e \in S
    PROVE  Front(Append(s, e)) = s /\ Last(Append(s, e)) = e
<1> DEFINE t == Append(s, e)
<1>1. t \in Seq(S) /\ t # <<>>
      BY AppendProperties
<1> HIDE DEF t
<1>2. Front(t) \in Seq(S) /\ Last(t) \in S /\ t = Append(Front(t), Last(t))
      BY <1>1, FrontRules
<1>3. Append(s, e) = Append(Front(t), Last(t))
      BY <1>2 DEF t
<1>4. s = Front(t) /\ e = Last(t)
      BY <1>2, <1>3, AppendInjective
<1> QED  BY <1>4 DEF t

(* The last part grows with a character.                                   *)
LEMMA LongerLast ==
    ASSUME NEW parts \in Names, parts # <<>>, NEW c \in Char
    PROVE  /\ Front(parts) \in Names /\ Last(parts) \in Str
           /\ Front(Longer(parts, c)) = Front(parts)
           /\ Last(Longer(parts, c)) = Append(Last(parts), c)
<1> DEFINE a == Front(parts)  x == Last(parts)  y == Append(x, c)
<1>1. a \in Names /\ x \in Str /\ parts = Append(a, x)
      BY FrontRules DEF Names
<1> HIDE DEF a, x
<1>2. y \in Str /\ <<x>> \in Names /\ <<x>> # <<>>
  <2>1. y \in Str
        BY <1>1, AppendProperties DEF Str
  <2>2. <<x>> \in Seq(Str)
        BY <1>1, OneItem
  <2> QED  BY <2>1, <2>2 DEF Names
<1>3. parts = a \o <<x>>
      BY <1>1, AppendIsConcat DEF Names
<1>4. Longer(<<x>>, c) = <<y>>
      BY <1>1 DEF Longer
<1> HIDE DEF y
<1>5. Longer(parts, c) = a \o <<y>>
      BY <1>1, <1>2, <1>3, <1>4, LongerConcat
<1>6. Longer(parts, c) = Append(a, y)
      BY <1>1, <1>2, <1>5, AppendIsConcat DEF Names
<1>7. Front(Longer(parts, c)) = a /\ Last(Longer(parts, c)) = y
      BY <1>1, <1>2, <1>6, FrontOfAppend DEF Names
<1> QED  BY <1>1, <1>7 DEF a, x, y

LEMMA SplitOneMore ==
    ASSUME NEW u \in Str, NEW c \in Char, NEW sep
    PROVE  /\ Split(u, sep) \in Names /\ Split(u, sep) # <<>>
           /\ Split(Append(u, c), sep) = IF c = sep THEN Append(Split(u, sep), <<>>)
                                         ELSE Longer(Split(u, sep), c)
BY SplitRules

(* What holds when n characters behind the first slash have been taken:    *)
(* the names in front of the last part are resolved, the last part is kept *)
(* as it is.                                                               *)
LoopInv(path, n, s) ==
    LET parts == Split(SubSeq(Append(path, "/"), 1, n + 1), "/")
    IN  /\ Shape(s, Resolve(Front(parts)), Last(parts))
        /\ s.slash \in 1..n + 1
        /\ Last(parts) = SubSeq(path, s.slash + 1, n + 1)

LEMMA LoopStarts ==
    ASSUME NEW path \in Str, path # <<>>, path[1] = "/"
    PROVE  LoopInv(path, 0, Start)
<1> DEFINE q == Append(path, "/")  parts == Split(SubSeq(q, 1, 0 + 1), "/")
<1>0. <<>> \in Str /\ <<>> \in Names /\ "/" \in Char /\ Len(path) \in Nat \ {0}
      BY EmptySeq, CharsAre, LenProperties DEF Str, Names
<1>1. q \in Str /\ Len(q) = Len(path) + 1 /\ q[1] = "/"
  <2>1. 1 \in 1..Len(path)
        BY <1>0
  <2> QED  BY <1>0, <2>1, AppendProperties DEF Str
<1> HIDE DEF q
<1>2. parts = Append(<< <<>> >>, <<>>)
  <2> DEFINE e == <<>>  z == 0 + 1
  <2>1. SubSeq(q, 1, 0) = e
        BY <1>1, SubSeqEmpty
  <2>2. 0 + 1 <= Len(q) /\ 0 + 1 = 1
        BY <1>0, <1>1
  <2>3. SubSeq(q, 1, z) = Append(SubSeq(q, 1, 0), q[z])
        BY <1>1, <2>2, PartOneMore
  <2>4. q[z] = "/"
        BY <1>1, <2>2
  <2>5. Split(e, "/") = << <<>> >> /\ e \in Str
        BY <1>0, SplitRules
  <2> HIDE DEF e, z
  <2>6. SubSeq(q, 1, z) = Append(e, "/")
        BY <2>1, <2>3, <2>4
  <2>7. Split(Append(e, "/"), "/") = Append(Split(e, "/"), <<>>)
        BY <1>0, <2>5, SplitOneMore
  <2>8. Split(SubSeq(q, 1, z), "/") = Append(<< <<>> >>, <<>>)
        BY <2>5, <2>6, <2>7
  <2> QED  BY <2>8, Zenon DEF z
<1> HIDE DEF parts
<1>4. << <<>> >> \in Names /\ << <<>> >> = Append(<<>>, <<>>)
      BY <1>0, OneItem DEF Names
<1>5. Front(parts) = << <<>> >> /\ Last(parts) = <<>>
      BY <1>0, <1>2, <1>4, FrontOfAppend DEF Names
<1>6. Resolve(Front(parts)) = <<>>
  <2>1. Resolve(Append(<<>>, <<>>)) = Entered(Resolve(<<>>), <<>>)
        BY <1>0, ResolveRules
  <2>2. Entered(<<>>, <<>>) = <<>>
        BY EnteredRules, Zenon
  <2> QED  BY <2>1, <2>2, <1>4, <1>5, ResolveRules
<1>7. Shape(Start, <<>>, <<>>)
  <2>1. Dir(<<>>) \o <<>> = <<"/">>
        BY DirRules, OneChar, CharsAre, ConcatEmptySeq DEF Str
  <2> QED  BY <2>1, MarksOfRoot DEF Shape, Start
<1>8. SubSeq(path, 1 + 1, 0 + 1) = <<>>
      BY SubSeqEmpty
<1>9. Start.slash = 1
      BY DEF Start
<1>10. 1 \in 1..0 + 1
      OBVIOUS
<1>11. /\ Shape(Start, Resolve(Front(parts)), Last(parts)) /\ Start.slash \in 1..0 + 1
       /\ Last(parts) = SubSeq(path, Start.slash + 1, 0 + 1)
  <2> DEFINE e == <<>>  z == 0 + 1  w == 1 + 1
  <2>1. /\ Last(parts) = e /\ Resolve(Front(parts)) = e /\ Shape(Start, e, e)
        /\ SubSeq(path, w, z) = e /\ 1 \in 1..z
        BY <1>5, <1>6, <1>7, <1>8, <1>10, Zenon
  <2>2. Start.slash + 1 = w
        BY <1>9, Zenon
  <2> HIDE DEF e, z, w
  <2>3. /\ Shape(Start, Resolve(Front(parts)), Last(parts)) /\ Start.slash \in 1..z
        /\ Last(parts) = SubSeq(path, Start.slash + 1, z)
        BY <1>9, <2>1, <2>2, Zenon
  <2> QED  BY <2>3, Zenon DEF z
<1> QED  BY <1>11, Zenon DEF LoopInv, parts, q

LEMMA LoopGoesOn ==
    ASSUME NEW path \in Str, NEW n \in Nat, n < Len(path), NEW s \in States, LoopInv(path, n, s)
    PROVE  LoopInv(path, n + 1, Taken(path, s, (n + 1) + 1))
<1> DEFINE q == Append(path, "/")
           i == (n + 1) + 1
           parts == Split(SubSeq(q, 1, n + 1), "/")
           after == Split(SubSeq(q, 1, i), "/")
           ns == Resolve(Front(parts))
           part == Last(parts)
           t == Taken(path, s, i)
           c == q[i]
<1>0. /\ <<>> \in Str /\ <<>> \in Names /\ "/" \in Char /\ Len(path) \in Nat
      /\ i \in Nat /\ i \in 1..Len(path) + 1 /\ i - 1 = n + 1
  <2>1. <<>> \in Str /\ <<>> \in Names /\ "/" \in Char /\ Len(path) \in Nat
        BY EmptySeq, CharsAre, LenProperties DEF Str, Names
  <2>2. i \in Nat /\ i \in 1..Len(path) + 1 /\ i - 1 = n + 1
        BY <2>1
  <2> QED  BY <2>1, <2>2
<1>1. q \in Str /\ Len(q) = Len(path) + 1 /\ q[Len(path) + 1] = "/"
      /\ \A k \in 1..Len(path) : q[k] = path[k]
      BY <1>0, AppendProperties DEF Str
<1>2. c \in Char /\ (i \in 1..Len(path) => c = path[i]) /\ (i \notin 1..Len(path) => c = "/")
  <2>1. c \in Char
        BY <1>0, <1>1, ElementOfSeq DEF Str
  <2>2. i \notin 1..Len(path) => i = Len(path) + 1
        BY <1>0
  <2> QED  BY <2>1, <2>2, <1>1
<1>3. SubSeq(q, 1, n + 1) \in Str /\ SubSeq(q, 1, i) = Append(SubSeq(q, 1, n + 1), c)
  <2>1. 1 <= (n + 1) + 1 /\ (n + 1) + 1 <= Len(q) /\ n + 1 \in Nat
        BY <1>0, <1>1
  <2> HIDE DEF q
  <2> QED  BY <1>1, <2>1, PartOneMore
<1>4. parts \in Names /\ parts # <<>>
      /\ after = IF c = "/" THEN Append(parts, <<>>) ELSE Longer(parts, c)
  <2> DEFINE u == SubSeq(q, 1, n + 1)
  <2>1. parts = Split(u, "/") /\ after = Split(Append(u, c), "/") /\ u \in Str /\ c \in Char
        BY <1>2, <1>3
  <2> HIDE DEF u, c, parts, after
  <2> QED  BY <2>1, SplitOneMore
<1>5. /\ Shape(s, ns, part) /\ s.slash \in 1..n + 1
      /\ part = SubSeq(path, s.slash + 1, n + 1)
      BY DEF LoopInv
<1> HIDE DEF q, parts, after, c
<1>6. part \in Str /\ Front(parts) \in Names /\ ns \in Names
      BY <1>4, FrontRules, ResolveRules DEF Names
<1>7. ASSUME c # "/"
      PROVE  /\ Shape(t, Resolve(Front(after)), Last(after))
             /\ t.slash \in 1..i
             /\ Last(after) = SubSeq(path, t.slash + 1, i)
  <2>1. i \in 1..Len(path) /\ path[i] = c
        BY <1>2, <1>7
  <2>2. Front(after) = Front(parts) /\ Last(after) = Append(part, c)
        BY <1>2, <1>4, <1>7, LongerLast
  <2> HIDE DEF ns, part, t
  <2>3. Shape(t, ns, Append(part, c)) /\ t.slash = s.slash
        BY <2>1, <1>5, <1>6, <1>7, CharTaken DEF t
  <2>4. SubSeq(path, s.slash + 1, i) = Append(SubSeq(path, s.slash + 1, n + 1), path[i])
    <3>1. s.slash + 1 \in Nat /\ n + 1 \in Nat /\ 1 <= s.slash + 1 /\ s.slash + 1 <= (n + 1) + 1
          /\ (n + 1) + 1 <= Len(path)
          BY <1>5, <2>1
    <3> QED  BY <3>1, PartOneMore
  <2>5. Resolve(Front(after)) = ns
        BY <2>2 DEF ns
  <2>6. t.slash \in 1..i
        BY <2>3, <1>5, <1>0
  <2> QED  BY <2>1, <2>2, <2>3, <2>4, <2>5, <2>6, <1>5
<1>8. ASSUME c = "/"
      PROVE  /\ Shape(t, Resolve(Front(after)), Last(after))
             /\ t.slash \in 1..i
             /\ Last(after) = SubSeq(path, t.slash + 1, i)
  <2>1. ~(i <= Len(path) /\ path[i] # "/")
        BY <1>0, <1>2, <1>8
  <2>2. Front(after) = parts /\ Last(after) = <<>>
        BY <1>0, <1>4, <1>8, FrontOfAppend DEF Names
  <2>3. Resolve(parts) = Entered(ns, part)
    <3>1. parts = Append(Front(parts), part)
          BY <1>4, FrontRules DEF Names
    <3>2. Resolve(Append(Front(parts), part)) = Entered(ns, part)
          BY <1>6, ResolveRules
    <3> QED  BY <3>1, <3>2
  <2>4. part = SubSeq(path, s.slash + 1, i - 1)
        BY <1>0, <1>5
  <2> HIDE DEF ns, part, t, i
  <2>5. Shape(t, Entered(ns, part), <<>>) /\ t.slash = i
        BY <2>1, <2>4, <1>0, <1>5, <1>6, SlashTaken DEF t
  <2>6. SubSeq(path, i + 1, i) = <<>>
        BY <1>0, SubSeqEmpty
  <2>7. t.slash \in 1..i
        BY <2>5, <1>0
  <2> QED  BY <2>2, <2>3, <2>5, <2>6, <2>7
<1>9. /\ Shape(t, Resolve(Front(after)), Last(after))
      /\ t.slash \in 1..i
      /\ Last(after) = SubSeq(path, t.slash + 1, i)
      BY <1>7, <1>8
<1> QED  BY <1>9 DEF LoopInv, after, q

LEMMA LoopKeeps ==
    ASSUME NEW path \in Str, path # <<>>, path[1] = "/", NEW r, Loops(path, r)
    PROVE  LoopInv(path, Len(path), r[Len(path)])
<1> DEFINE Good == {n \in 0..Len(path) : LoopInv(path, n, r[n])}
<1>0. Len(path) \in Nat
      BY LenProperties DEF Str
<1>1. 0 \in Good
      BY <1>0, LoopStarts DEF Loops
<1>2. ASSUME NEW n \in Nat, n < Len(path), n \in Good PROVE n + 1 \in Good
  <2>1. n \in 0..Len(path) /\ n + 1 \in 1..Len(path) /\ (n + 1) - 1 = n /\ n + 1 \in 0..Len(path)
        BY <1>0, <1>2
  <2>2. r[n] \in States /\ r[n + 1] = Taken(path, r[n], (n + 1) + 1)
        BY <2>1 DEF Loops
  <2>3. LoopInv(path, n, r[n])
        BY <1>2
  <2>4. LoopInv(path, n + 1, r[n + 1])
        BY <1>2, <2>2, <2>3, LoopGoesOn
  <2> QED  BY <2>1, <2>4
<1>3. \A n \in 0..Len(path) : n \in Good
      BY <1>0, <1>1, <1>2, CountingUp
<1> QED  BY <1>0, <1>3

LEMMA JoinIsLong ==
    ASSUME NEW ns \in Names, ns # <<>>
    PROVE  Len(Join(ns)) \in Nat \ {0}
<1> DEFINE a == Front(ns)  n == Last(ns)  o == <<"/">>
<1>1. a \in Names /\ n \in Str /\ ns = Append(a, n)
      BY FrontRules DEF Names
<1> HIDE DEF a, n
<1>2. Join(ns) = Join(a) \o o \o n /\ Join(a) \in Str
      BY <1>1, JoinRules DEF Under
<1>3. o \in Str /\ Len(o) = 1
      BY OneChar, CharsAre
<1> HIDE DEF o
<1>4. Join(a) \o o \in Str /\ Len(Join(a) \o o) = Len(Join(a)) + 1 /\ Len(Join(a)) \in Nat
      BY <1>2, <1>3, ConcatProperties, LenProperties DEF Str
<1>5. Len(Join(a) \o o \o n) = Len(Join(a) \o o) + Len(n) /\ Len(n) \in Nat
      BY <1>1, <1>4, ConcatProperties, LenProperties DEF Str
<1> QED  BY <1>2, <1>4, <1>5

(* simplifyPath, one loop over characters and an array of lengths, works   *)
(* out what the path means: its names pushed on a stack, `..' taking one   *)
(* off, and writes it, for every path that begins with a slash.            *)
THEOREM SimplifyResolves ==
    ASSUME NEW path \in Str, path # <<>>, path[1] = "/"
    PROVE  simplifyPath(path) = Written(Resolve(Split(path, "/")))
<1> DEFINE N == Len(path)  q == Append(path, "/")  ns == Resolve(Split(path, "/"))
<1>0. N \in Nat /\ "/" \in Char /\ <<>> \in Str
      BY LenProperties, CharsAre, EmptySeq DEF Str
<1>1. PICK r : /\ Loops(path, r)
               /\ simplifyPath(path) = IF Len(r[N].name) = 1 THEN r[N].name ELSE Front(r[N].name)
      BY SimplifyLoops
<1>2. q \in Str /\ Len(q) = N + 1
      BY <1>0, AppendProperties DEF Str
<1>3. SubSeq(q, 1, N + 1) = q
      BY <1>2, SubSeqFull DEF Str
<1>4. /\ Split(path, "/") \in Names
      /\ Split(q, "/") = Append(Split(path, "/"), <<>>)
      BY <1>0, SplitOneMore
<1>5. Front(Split(q, "/")) = Split(path, "/") /\ Last(Split(q, "/")) = <<>>
      BY <1>0, <1>4, FrontOfAppend DEF Names
<1>6. LoopInv(path, N, r[N])
      BY <1>1, LoopKeeps
<1>7. r[N].name = Dir(ns) \o <<>>
      BY <1>3, <1>5, <1>6 DEF LoopInv, Shape
<1>8. ns \in Names /\ Dir(ns) \in Str /\ Join(ns) \in Str
      BY <1>4, ResolveRules, DirRules, JoinRules
<1> HIDE DEF ns, q, N
<1>9. r[N].name = Dir(ns)
      BY <1>7, <1>8, ConcatEmptySeq DEF Str
<1>10. Len(Dir(ns)) = Len(Join(ns)) + 1 /\ Front(Dir(ns)) = Join(ns) /\ Len(Join(ns)) \in Nat
      BY <1>0, <1>8, AppendProperties, FrontOfAppend, LenProperties DEF Dir, Str
<1>11. CASE ns = <<>>
  <2>1. Dir(ns) = <<"/">> /\ Len(<<"/">>) = 1
        BY <1>11, DirRules, OneChar, CharsAre
  <2>2. simplifyPath(path) = <<"/">>
        BY <1>1, <1>9, <2>1
  <2> QED  BY <1>11, <2>2, WrittenIsJoin DEF ns
<1>12. CASE ns # <<>>
  <2>1. Len(Dir(ns)) # 1
        BY <1>8, <1>10, <1>12, JoinIsLong
  <2>2. simplifyPath(path) = Join(ns)
        BY <1>1, <1>9, <1>10, <2>1
  <2> QED  BY <1>12, <2>2, WrittenIsJoin DEF ns
<1> QED  BY <1>11, <1>12

-----------------------------------------------------------------------------
(* The working directory.                                                  *)

LEMMA ConcatAt ==
    ASSUME NEW S, NEW a \in Seq(S), NEW b \in Seq(S)
    PROVE  /\ a \o b \in Seq(S) /\ Len(a) \in Nat /\ Len(b) \in Nat
           /\ Len(a \o b) = Len(a) + Len(b)
           /\ \A k \in 1..Len(a) : (a \o b)[k] = a[k]
           /\ \A k \in 1..Len(b) : (a \o b)[Len(a) + k] = b[k]
<1>1. Len(a) \in Nat /\ Len(b) \in Nat
      BY LenProperties
<1>2. a \o b \in Seq(S) /\ Len(a \o b) = Len(a) + Len(b)
      BY ConcatProperties
<1>3. \A k \in 1..Len(a) + Len(b) : (a \o b)[k] = IF k <= Len(a) THEN a[k] ELSE b[k - Len(a)]
      BY ConcatProperties
<1>4. \A k \in 1..Len(a) : (a \o b)[k] = a[k]
  <2>1. \A k \in 1..Len(a) : k \in 1..Len(a) + Len(b) /\ k <= Len(a)
        BY <1>1
  <2> QED  BY <1>3, <2>1
<1>5. \A k \in 1..Len(b) : (a \o b)[Len(a) + k] = b[k]
  <2>1. \A k \in 1..Len(b) : /\ Len(a) + k \in 1..Len(a) + Len(b) /\ ~(Len(a) + k <= Len(a))
                              /\ (Len(a) + k) - Len(a) = k
        BY <1>1
  <2> QED  BY <1>3, <2>1
<1> QED  BY <1>1, <1>2, <1>4, <1>5

LEMMA StrConcatAt ==
    ASSUME NEW a \in Str, NEW b \in Str
    PROVE  /\ a \o b \in Str /\ Len(a) \in Nat /\ Len(b) \in Nat
           /\ Len(a \o b) = Len(a) + Len(b)
           /\ \A k \in 1..Len(a) : (a \o b)[k] = a[k]
           /\ \A k \in 1..Len(b) : (a \o b)[Len(a) + k] = b[k]
BY ConcatAt DEF Str

LEMMA NamesConcatAt ==
    ASSUME NEW a \in Names, NEW b \in Names
    PROVE  /\ a \o b \in Names /\ Len(a) \in Nat /\ Len(b) \in Nat
           /\ Len(a \o b) = Len(a) + Len(b)
           /\ \A k \in 1..Len(a) : (a \o b)[k] = a[k]
           /\ \A k \in 1..Len(b) : (a \o b)[Len(a) + k] = b[k]
BY ConcatAt DEF Names

LEMMA JoinStarts ==
    ASSUME NEW ns \in Names, ns # <<>>
    PROVE  Join(ns) # <<>> /\ Join(ns)[1] = "/"
<1> DEFINE P == {v \in Names : v # <<>> => Join(v)[1] = "/"}
<1>1. <<>> \in P
      BY EmptySeq DEF Names
<1>2. ASSUME NEW v \in Names, NEW n \in Str, v \in P PROVE Append(v, n) \in P
  <2> DEFINE o == <<"/">>
  <2>1. Append(v, n) \in Names
        BY AppendProperties DEF Names
  <2>2. Join(Append(v, n)) = Join(v) \o o \o n /\ Join(v) \in Str
        BY JoinRules DEF Under
  <2>3. o \in Str /\ Len(o) = 1 /\ o[1] = "/"
        BY OneChar, CharsAre
  <2> HIDE DEF o
  <2>4. /\ Join(v) \o o \in Str /\ Len(Join(v) \o o) = Len(Join(v)) + 1 /\ Len(Join(v)) \in Nat
        /\ \A k \in 1..Len(Join(v)) : (Join(v) \o o)[k] = Join(v)[k]
        /\ \A k \in 1..1 : (Join(v) \o o)[Len(Join(v)) + k] = o[k]
    <3> DEFINE j == Join(v)
    <3>1. j \in Str
          BY <2>2
    <3> HIDE DEF j
    <3>2. /\ j \o o \in Str /\ Len(j) \in Nat /\ Len(j \o o) = Len(j) + Len(o)
          /\ \A k \in 1..Len(j) : (j \o o)[k] = j[k]
          /\ \A k \in 1..Len(o) : (j \o o)[Len(j) + k] = o[k]
          BY <2>3, <3>1, StrConcatAt
    <3> QED  BY <2>3, <3>2 DEF j
  <2>5. (Join(v) \o o)[1] = "/"
    <3>1. CASE v = <<>>
      <4>1. Join(v) = <<>> /\ Len(Join(v)) = 0
            BY <3>1, JoinRules
      <4>2. Len(Join(v)) + 1 = 1 /\ 1 \in 1..1
            BY <4>1
      <4>3. (Join(v) \o o)[Len(Join(v)) + 1] = o[1]
            BY <4>2, <2>4
      <4> QED  BY <4>2, <4>3, <2>3
    <3>2. CASE v # <<>>
      <4>1. Join(v)[1] = "/" /\ 1 \in 1..Len(Join(v))
            BY <3>2, <1>2, JoinIsLong
      <4> QED  BY <4>1, <2>4
    <3> QED  BY <3>1, <3>2
  <2>6. (Join(v) \o o \o n)[1] = (Join(v) \o o)[1]
    <3> DEFINE d == Join(v) \o o
    <3>1. d \in Str /\ 1 \in 1..Len(d)
          BY <2>4
    <3> HIDE DEF d
    <3>2. (d \o n)[1] = d[1]
          BY <3>1, ConcatAt DEF Str
    <3> QED  BY <3>2 DEF d
  <2>7. Join(Append(v, n))[1] = "/"
        BY <2>2, <2>5, <2>6
  <2> QED  BY <2>1, <2>7
<1>3. \A v \in Names : v \in P
      BY <1>1, <1>2, SeqInduction DEF Names
<1>4. Join(ns)[1] = "/"
      BY <1>3
<1>5. Join(ns) # <<>>
  <2>1. Len(Join(ns)) \in Nat \ {0}
        BY JoinIsLong
  <2> QED  BY <2>1, EmptySeq
<1> QED  BY <1>4, <1>5

LEMMA SameFront ==
    ASSUME NEW a \in Names, NEW b \in Names, NEW x \in Str, <<x>> \o a = <<x>> \o b
    PROVE  a = b
<1> DEFINE o == <<x>>
<1>1. o \in Names /\ Len(o) = 1
      BY OneItem DEF Names
<1> HIDE DEF o
<1>2. o \o a = o \o b
      BY DEF o
<1>3. Len(o \o a) = 1 + Len(a) /\ Len(a) \in Nat /\ \A k \in 1..Len(a) : (o \o a)[1 + k] = a[k]
  <2>1. Len(o \o a) = Len(o) + Len(a) /\ Len(a) \in Nat
        /\ \A k \in 1..Len(a) : (o \o a)[Len(o) + k] = a[k]
        BY <1>1, NamesConcatAt
  <2> QED  BY <1>1, <2>1
<1>4. Len(o \o b) = 1 + Len(b) /\ Len(b) \in Nat /\ \A k \in 1..Len(b) : (o \o b)[1 + k] = b[k]
  <2>1. Len(o \o b) = Len(o) + Len(b) /\ Len(b) \in Nat
        /\ \A k \in 1..Len(b) : (o \o b)[Len(o) + k] = b[k]
        BY <1>1, NamesConcatAt
  <2> QED  BY <1>1, <2>1
<1>5. Len(a) = Len(b)
      BY <1>2, <1>3, <1>4
<1>6. ASSUME NEW i \in 1..Len(a) PROVE a[i] = b[i]
      BY <1>2, <1>3, <1>4, <1>5
<1> QED  BY <1>5, <1>6, SeqEqual DEF Names

(* A path that is written can be read again.                               *)
LEMMA WrittenRules ==
    ASSUME NEW ns \in Names, PlainNames(ns)
    PROVE  /\ Written(ns) \in Str /\ Written(ns) # <<>> /\ Written(ns)[1] = "/"
           /\ Tail(Written(ns)) \in Str
           /\ ns # <<>> => Split(Tail(Written(ns)), "/") = ns
           /\ ns = <<>> => Split(Tail(Written(ns)), "/") = << <<>> >>
           /\ Resolve(Split(Written(ns), "/")) = ns
<1>0. <<>> \in Str /\ <<>> \in Names /\ << <<>> >> \in Names /\ "/" \in Char
  <2>1. <<>> \in Str /\ <<>> \in Names
        BY EmptySeq DEF Str, Names
  <2> QED  BY <2>1, OneItem, CharsAre DEF Names
<1>a. AllFree(ns, "/") /\ Resolve(ns) = ns
      BY ResolvePlain DEF PlainNames, PlainName, AllFree
<1>b. Resolve(<< <<>> >>) = <<>>
  <2>1. << <<>> >> = Append(<<>>, <<>>)
        BY <1>0, OneItem
  <2>2. Resolve(Append(<<>>, <<>>)) = Entered(Resolve(<<>>), <<>>)
        BY <1>0, ResolveRules
  <2>3. Entered(<<>>, <<>>) = <<>>
        BY EnteredRules, Zenon
  <2> QED  BY <2>1, <2>2, <2>3, ResolveRules
<1>c. Resolve(<< <<>> >> \o ns) = ns
  <2> DEFINE e == <<>>  o == << <<>> >>
  <2>1. Resolve(o \o ns) = Resolve(e \o ns)
    <3>1. Resolve(o) = Resolve(e) /\ o \in Names /\ e \in Names
          BY <1>0, <1>b, ResolveRules
    <3> HIDE DEF o, e
    <3> QED  BY <3>1, ResolveOn
  <2>2. <<>> \o ns = ns
        BY ConcatEmptySeq DEF Names
  <2> QED  BY <1>a, <2>1, <2>2
<1>1. CASE ns = <<>>
  <2> DEFINE o == <<"/">>
  <2>1. Written(ns) = o
        BY <1>1, WrittenIsJoin
  <2>2. o \in Str /\ Len(o) = 1 /\ o[1] = "/" /\ o # <<>> /\ Tail(o) = <<>>
        BY <1>0, OneChar
  <2>3. Split(<<>>, "/") = << <<>> >>
        BY SplitRules
  <2> HIDE DEF o
  <2>4. Split(o, "/") = << <<>> >> \o Split(Tail(o), "/")
        BY <2>2, SplitTail
  <2>5. Resolve(Split(o, "/")) = ns
    <3>1. Split(o, "/") = << <<>> >> \o << <<>> >>
          BY <2>2, <2>3, <2>4
    <3>2. Resolve(<< <<>> >> \o << <<>> >>) = Resolve(<<>> \o << <<>> >>)
      <4> DEFINE e == <<>>  p == << <<>> >>
      <4>1. Resolve(p) = Resolve(e) /\ p \in Names /\ e \in Names
            BY <1>0, <1>b, ResolveRules
      <4> HIDE DEF p, e
      <4>2. Resolve(p \o p) = Resolve(e \o p)
            BY <4>1, ResolveOn
      <4> QED  BY <4>2, Zenon DEF p, e
    <3>3. <<>> \o << <<>> >> = << <<>> >>
          BY <1>0, ConcatEmptySeq DEF Names
    <3> QED  BY <3>1, <3>2, <3>3, <1>1, <1>b, Zenon
  <2> QED  BY <1>0, <1>1, <2>1, <2>2, <2>3, <2>5
<1>2. CASE ns # <<>>
  <2> DEFINE w == Written(ns)
  <2>1. w = Join(ns)
        BY <1>2, WrittenIsJoin
  <2>2. w \in Str /\ w # <<>> /\ w[1] = "/"
        BY <1>2, <2>1, JoinRules, JoinStarts
  <2>3. Split(w, "/") = << <<>> >> \o ns
        BY <1>a, <2>1, SplitJoin
  <2> HIDE DEF w
  <2>4. Tail(w) \in Str /\ Split(w, "/") = << <<>> >> \o Split(Tail(w), "/")
        BY <2>2, SplitTail
  <2>5. Split(Tail(w), "/") \in Names
        BY <2>4, SplitRules
  <2>6. Split(Tail(w), "/") = ns
        BY <1>0, <2>3, <2>4, <2>5, SameFront
  <2>7. Resolve(Split(w, "/")) = ns
        BY <1>c, <2>3
  <2> QED  BY <1>2, <2>2, <2>4, <2>6, <2>7 DEF w
<1> QED  BY <1>1, <1>2

LEMMA AccountPlain == Account \in Str /\ PlainName(Account) /\ Account # <<>>
<1>1. /\ Account \in Seq(Range(Account)) /\ Account \notin {<<>>, <<".">>, <<".", ".">>}
      /\ \A i \in 1..Len(Account) : Account[i] # "/"
      BY InputAssumption DEF InputIsText
<1>2. Range(Account) \subseteq Char
      BY DEF Char
<1>3. Account \in Str
      BY <1>1, <1>2, SeqMonotonic DEF Str
<1> QED  BY <1>1, <1>3 DEF PlainName, Free

LEMMA AllFreeConcat ==
    ASSUME NEW a \in Names, NEW b \in Names, NEW sep, AllFree(a, sep), AllFree(b, sep)
    PROVE  AllFree(a \o b, sep)
<1>1. /\ Len(a) \in Nat /\ Len(b) \in Nat /\ Len(a \o b) = Len(a) + Len(b)
      /\ \A k \in 1..Len(a) : (a \o b)[k] = a[k]
      /\ \A k \in 1..Len(b) : (a \o b)[Len(a) + k] = b[k]
      BY NamesConcatAt
<1> SUFFICES ASSUME NEW i \in 1..Len(a \o b) PROVE Free((a \o b)[i], sep)
    BY DEF AllFree
<1>2. CASE i <= Len(a)
  <2>1. i \in 1..Len(a)
        BY <1>1, <1>2
  <2> QED  BY <1>1, <2>1 DEF AllFree
<1>3. CASE ~(i <= Len(a))
  <2>1. i - Len(a) \in 1..Len(b) /\ Len(a) + (i - Len(a)) = i
        BY <1>1, <1>3
  <2>2. (a \o b)[i] = b[i - Len(a)]
        BY <1>1, <2>1
  <2> QED  BY <2>1, <2>2 DEF AllFree
<1> QED  BY <1>2, <1>3

(* The path get_user_path gives is the one that is meant, written.         *)
IsHome(R) == R \in Names /\ R # <<>> /\ PlainNames(R) /\ R[1] = Account

LEMMA UserPath ==
    ASSUME NEW R, IsHome(R), workpath = Written(R), NEW arg \in Str
    PROVE  /\ Meant(workpath, arg) \in Names /\ PlainNames(Meant(workpath, arg))
           /\ get_user_path(arg) = Written(Meant(workpath, arg))
<1> DEFINE o == <<"/">>  acc == <<Account>>
<1>0. /\ R \in Names /\ R # <<>> /\ PlainNames(R) /\ R[1] = Account
      /\ <<>> \in Str /\ <<>> \in Names /\ "/" \in Char /\ o \in Str /\ acc \in Names
      /\ Account \in Str /\ PlainName(Account) /\ Account # <<>>
  <2>1. R \in Names /\ R # <<>> /\ PlainNames(R) /\ R[1] = Account
        BY DEF IsHome
  <2>2. <<>> \in Str /\ <<>> \in Names /\ "/" \in Char /\ o \in Str
        BY EmptySeq, CharsAre, OneChar DEF Str, Names
  <2>3. acc \in Names
        BY AccountPlain, OneItem DEF Names
  <2> QED  BY <2>1, <2>2, <2>3, AccountPlain
<1>1. /\ workpath \in Str /\ workpath # <<>> /\ workpath[1] = "/"
      /\ Split(Tail(workpath), "/") = R /\ Resolve(Split(workpath, "/")) = R
      BY <1>0, WrittenRules
<1>2. /\ Split(workpath, "/") \in Names /\ Split(arg, "/") \in Names
      /\ AllFree(Split(workpath, "/"), "/") /\ AllFree(Split(arg, "/"), "/")
      BY <1>0, <1>1, SplitRules, PartsAreFree
<1>3. AllFree(acc, "/") /\ Split(Account, "/") = acc
  <2>1. Free(Account, "/")
        BY <1>0 DEF PlainName
  <2>2. Split(Account, "/") = acc
        BY <1>0, <2>1, SplitFree
  <2>3. AllFree(Split(Account, "/"), "/")
        BY <1>0, PartsAreFree
  <2> QED  BY <2>2, <2>3
<1>4. CASE arg = <<>>
  <2>1. get_user_path(arg) = workpath
        BY <1>4 DEF get_user_path
  <2>2. Meant(workpath, arg) = Resolve(Split(workpath, "/") \o Split(arg, "/"))
        BY <1>4 DEF Meant
  <2>3. Split(arg, "/") = << <<>> >>
        BY <1>4, SplitRules
  <2>4. Resolve(Split(workpath, "/") \o Split(arg, "/")) = R
    <3> DEFINE w == Split(workpath, "/")  e == <<>>
    <3>1. w \in Names /\ Resolve(w) = R
          BY <1>1, <1>2
    <3> HIDE DEF w
    <3>2. w \o <<e>> = Append(w, e)
          BY <1>0, <3>1, NamesRules
    <3>3. Resolve(Append(w, e)) = Entered(Resolve(w), e)
          BY <1>0, <3>1, ResolveRules
    <3>4. Entered(R, e) = R
          BY EnteredRules, Zenon
    <3>5. Resolve(w \o <<e>>) = R
          BY <3>1, <3>2, <3>3, <3>4
    <3> QED  BY <2>3, <3>5 DEF w
  <2> QED  BY <1>0, <2>1, <2>2, <2>4
<1>5. CASE arg # <<>> /\ arg[1] = "/"
  <2> DEFINE full == o \o Account \o arg
             head == o \o Account
             ps   == Split(arg, "/")
  <2>1. Meant(workpath, arg) = Resolve(acc \o ps)
        BY <1>5 DEF Meant
  <2>2. splite_file_name(workpath)[1] = Account
        BY <1>0, <1>1 DEF splite_file_name
  <2>3. get_user_path(arg) = simplifyPath(full)
        BY <1>5, <2>2, Zenon DEF get_user_path
  <2>4. Tail(arg) \in Str /\ arg = o \o Tail(arg) /\ ps = << <<>> >> \o Split(Tail(arg), "/")
        BY <1>5, SplitTail
  <2> DEFINE tl == Tail(arg)  ts == Split(tl, "/")
  <2>5. ts \in Names
        BY <2>4, SplitRules
  <2> HIDE DEF tl
  <2>6. head \in Str /\ full = head \o o \o tl
    <3> HIDE DEF o
    <3>1. head \in Str
          BY <1>0, StrConcat
    <3>2. full = head \o (o \o tl)
          BY <2>4 DEF tl
    <3> HIDE DEF head, full
    <3>3. (head \o o) \o tl = head \o (o \o tl)
          BY <1>0, <2>4, <3>1, StrConcat DEF tl
    <3> QED  BY <3>1, <3>2, <3>3
  <2>7. Split(full, "/") = Split(head, "/") \o ts
    <3> HIDE DEF head, full
    <3> QED  BY <1>0, <2>4, <2>6, SplitConcat DEF tl
  <2>8. Split(head, "/") = << <<>> >> \o acc
    <3>1. <<>> \o o \o Account = head
      <4>1. <<>> \o o = o
            BY <1>0, ConcatEmptySeq DEF Str
      <4> QED  BY <4>1
    <3>2. Split(<<>> \o o \o Account, "/") = Split(<<>>, "/") \o Split(Account, "/")
          BY <1>0, SplitConcat
    <3>3. Split(<<>>, "/") = << <<>> >>
          BY SplitRules
    <3> QED  BY <3>1, <3>2, <3>3, <1>3
  <2>9. full \in Str /\ full # <<>> /\ full[1] = "/"
    <3> DEFINE x == Account \o arg
    <3>1. x \in Str
          BY <1>0, StrConcat
    <3>2. full = o \o x
      <4> HIDE DEF o
      <4> QED  BY <1>0, StrAssoc
    <3>3. Len(o) = 1 /\ o[1] = "/"
          BY <1>0, OneChar
    <3> HIDE DEF o, x, full
    <3>4. /\ o \o x \in Str /\ Len(o \o x) = Len(o) + Len(x) /\ Len(x) \in Nat
          /\ \A k \in 1..Len(o) : (o \o x)[k] = o[k]
          BY <1>0, <3>1, StrConcatAt
    <3>5. 1 \in 1..Len(o) /\ Len(o \o x) # 0
          BY <3>3, <3>4
    <3> QED  BY <3>2, <3>3, <3>4, <3>5, EmptySeq
  <2>10. simplifyPath(full) = Written(Resolve(Split(full, "/")))
    <3> HIDE DEF full
    <3> QED  BY <2>9, SimplifyResolves
  <2> DEFINE e == << <<>> >>
  <2>11. e \in Names /\ Resolve(e \o acc) = acc /\ Resolve(acc \o e) = acc
    <3>1. e \in Names /\ acc = Append(<<>>, Account) /\ e = Append(<<>>, <<>>)
          BY <1>0, OneItem DEF Names
    <3>2. Entered(<<>>, Account) = Append(<<>>, Account) /\ Entered(<<>>, <<>>) = <<>>
          BY <1>0, EnteredRules, Zenon DEF PlainName
    <3>a. Resolve(<<>>) = <<>>
          BY ResolveRules
    <3>3. Resolve(acc) = acc
      <4>1. Resolve(Append(<<>>, Account)) = Entered(Resolve(<<>>), Account)
            BY <1>0, ResolveRules
      <4> QED  BY <4>1, <3>1, <3>2, <3>a
    <3>4. Resolve(e) = <<>>
      <4>1. Resolve(Append(<<>>, <<>>)) = Entered(Resolve(<<>>), <<>>)
            BY <1>0, ResolveRules
      <4> QED  BY <4>1, <3>1, <3>2, <3>a
    <3>5. Resolve(e \o acc) = acc
      <4> DEFINE z == <<>>
      <4>1. z \in Names /\ Resolve(e) = Resolve(z) /\ z \o acc = acc
            BY <1>0, <3>a, <3>4, ConcatEmptySeq DEF Names
      <4> HIDE DEF e, z, acc
      <4>2. Resolve(e \o acc) = Resolve(z \o acc)
            BY <1>0, <3>1, <4>1, ResolveOn
      <4> QED  BY <4>1, <4>2, <3>3
    <3>6. Resolve(acc \o e) = acc
      <4> DEFINE z == <<>>
      <4> HIDE DEF acc
      <4>1. acc \o e = Append(acc, z)
            BY <1>0, NamesRules
      <4>2. Resolve(Append(acc, z)) = Entered(Resolve(acc), z)
            BY <1>0, ResolveRules
      <4>3. Entered(acc, z) = acc
            BY EnteredRules, Zenon
      <4> QED  BY <4>1, <4>2, <4>3, <3>3
    <3> QED  BY <3>1, <3>5, <3>6
  <2>12. Resolve((e \o acc) \o ts) = Resolve((acc \o e) \o ts)
    <3>1. e \o acc \in Names /\ acc \o e \in Names /\ Resolve(e \o acc) = Resolve(acc \o e)
          BY <1>0, <2>11, NamesConcatAt
    <3> HIDE DEF e, acc, ts
    <3> QED  BY <2>5, <3>1, ResolveOn
  <2>13. (acc \o e) \o ts = acc \o ps
    <3>1. (acc \o e) \o ts = acc \o (e \o ts)
      <4> HIDE DEF e, acc, ts
      <4> QED  BY <1>0, <2>5, <2>11, ConcatAssociative DEF Names
    <3> QED  BY <2>4, <3>1 DEF tl
  <2>14. get_user_path(arg) = Written(Meant(workpath, arg))
    <3> HIDE DEF full, e, acc, ts, ps
    <3>1. Split(full, "/") = (e \o acc) \o ts
          BY <2>7, <2>8 DEF e, acc
    <3> QED  BY <2>1, <2>3, <2>10, <2>12, <2>13, <3>1
  <2>15. acc \o ps \in Names /\ AllFree(acc \o ps, "/")
    <3> HIDE DEF acc, ps
    <3>1. ps \in Names /\ AllFree(ps, "/")
          BY <1>2 DEF ps
    <3> QED  BY <1>0, <1>3, <3>1, AllFreeConcat, NamesConcatAt
  <2>16. Resolve(acc \o ps) \in Names /\ PlainNames(Resolve(acc \o ps))
    <3> DEFINE x == acc \o ps
    <3>1. x \in Names /\ AllFree(x, "/")
          BY <2>15
    <3> HIDE DEF x
    <3>2. Resolve(x) \in Names /\ PlainNames(Resolve(x))
          BY <3>1, ResolveRules, ResolveIsPlain
    <3> QED  BY <3>2 DEF x
  <2> QED  BY <2>1, <2>14, <2>16
<1>6. CASE ~(arg # <<>> /\ arg[1] = "/") /\ arg # <<>>
  <2> DEFINE full == workpath \o o \o arg  x == Split(workpath, "/") \o Split(arg, "/")
  <2>1. Meant(workpath, arg) = Resolve(x)
        BY <1>6, Zenon DEF Meant
  <2>2. get_user_path(arg) = simplifyPath(full)
        BY <1>6, Zenon DEF get_user_path
  <2>3. Split(full, "/") = x
        BY <1>0, <1>1, SplitConcat
  <2>4. full \in Str /\ full # <<>> /\ full[1] = "/"
    <3> DEFINE y == o \o arg
    <3>1. y \in Str
          BY <1>0, StrConcat
    <3>2. full = workpath \o y
      <4> DEFINE w == workpath
      <4>1. w \in Str /\ o \in Str
            BY <1>0, <1>1
      <4> HIDE DEF o, w
      <4>2. (w \o o) \o arg = w \o (o \o arg)
            BY <4>1, StrAssoc
      <4> QED  BY <4>2 DEF w
    <3> HIDE DEF o, y, full
    <3>3. /\ workpath \o y \in Str /\ Len(workpath \o y) = Len(workpath) + Len(y) /\ Len(y) \in Nat
          /\ Len(workpath) \in Nat
          /\ \A k \in 1..Len(workpath) : (workpath \o y)[k] = workpath[k]
          BY <1>1, <3>1, StrConcatAt
    <3>4. Len(workpath) # 0
          BY <1>1, EmptySeq DEF Str
    <3>5. 1 \in 1..Len(workpath) /\ Len(workpath \o y) # 0
          BY <3>3, <3>4
    <3>6. (workpath \o y)[1] = "/"
          BY <3>3, <3>5, <1>1
    <3> QED  BY <3>2, <3>3, <3>5, <3>6, EmptySeq
  <2>5. x \in Names /\ AllFree(x, "/")
        BY <1>2, AllFreeConcat, NamesConcatAt
  <2> HIDE DEF full, x
  <2>6. get_user_path(arg) = Written(Resolve(x))
        BY <2>2, <2>3, <2>4, SimplifyResolves
  <2>7. Resolve(x) \in Names /\ PlainNames(Resolve(x))
        BY <2>5, ResolveRules, ResolveIsPlain
  <2> QED  BY <2>1, <2>6, <2>7
<1> QED  BY <1>4, <1>5, <1>6

-----------------------------------------------------------------------------
(* remove_space.                                                           *)

Kept(s, t, i) == IF Dropped(s, i) THEN t ELSE Append(t, s[i])

Keeps(s, r) ==
    /\ r \in [0..Len(s) -> Str] /\ r[0] = <<>>
    /\ \A n \in 1..Len(s) : r[n] = Kept(s, r[n - 1], n)

LEMMA RemoveKeeps ==
    ASSUME NEW s \in Str
    PROVE  \E r : /\ Keeps(s, r)
                  /\ remove_space(s) = LET kept == r[Len(s)]
                                       IN  IF kept # <<>> /\ Last(kept) = Blank
                                           THEN Front(kept) ELSE kept
<1> DEFINE A     == Str
           N     == Len(s)
           idx   == [i \in DOMAIN s |-> i]
           base  == <<>>
           st    == [n \in 1..N |-> [t \in A |-> Kept(s, t, n)]]
           Eq(f) == f = [t \in SUBSET (DOMAIN idx) |->
                            IF t = {} THEN base ELSE Kept(s, f[t \ {Max(t)}], idx[Max(t)])]
           it    == CHOOSE f : Eq(f)
           end   == it[DOMAIN idx]
<1>1. N \in Nat /\ DOMAIN s = 1..N /\ base \in A /\ \A n \in 1..N : s[n] \in Char
      BY LenProperties, ElementOfSeq, EmptySeq DEF Str
<1>2. remove_space(s) = IF end # <<>> /\ Last(end) = Blank THEN Front(end) ELSE end
      BY DEF remove_space, FoldLeftDomain, FoldLeft, MapThenFoldSet, Kept, Blank
<1>a. DOMAIN idx = 1..N /\ \A n \in 1..N : idx[n] = n
      BY <1>1
<1> HIDE DEF idx, base
<1>4. \A n \in 1..N, t \in A : Kept(s, t, n) \in A
      BY <1>1, AppendProperties DEF A, Kept, Str
<1> HIDE DEF A
<1>5. st \in Bodies(A, 1..N)
  <2> HIDE DEF N
  <2> QED  BY <1>4 DEF Bodies
<1>6. \A n \in 1..N, t \in A : st[n][t] = Kept(s, t, n)
      OBVIOUS
<1> HIDE DEF st, N
<1>7. PICK f : FoldInside(A, N, st, base, f)
      BY <1>1, <1>5, FoldOverSets
<1>8. Eq(f)
  <2>1. ASSUME NEW t \in SUBSET (1..N), t # {}
        PROVE  f[t] = Kept(s, f[t \ {Max(t)}], idx[Max(t)])
    <3>1. Max(t) \in 1..N /\ f[t] = st[Max(t)][f[t \ {Max(t)}]]
          BY <1>7, <2>1 DEF FoldInside
    <3>2. f[t \ {Max(t)}] \in A
          BY <1>7 DEF FoldInside
    <3> QED  BY <3>1, <3>2, <1>a, <1>6
  <2> QED  BY <1>a, <1>7, <2>1 DEF FoldInside
<1>9. Eq(it)
      BY <1>8
<1> HIDE DEF it
<1>10. IsFold(A, N, st, base, it)
  <2>1. it[{}] = base
        BY <1>9
  <2>2. ASSUME NEW t \in SUBSET (1..N), t # {}, it[t \ {Max(t)}] \in A
        PROVE  it[t] = st[Max(t)][it[t \ {Max(t)}]]
    <3>1. Max(t) \in 1..N
          BY <1>1, <2>2, MaxIsGreatest
    <3>2. it[t] = Kept(s, it[t \ {Max(t)}], idx[Max(t)])
          BY <1>a, <1>9, <2>2
    <3> QED  BY <3>1, <3>2, <2>2, <1>a, <1>6
  <2> QED  BY <2>1, <2>2 DEF IsFold
<1>11. PICK r : IsRun(A, N, st, base, r)
      BY <1>1, <1>5, LoopRuns
<1>12. end = r[N]
  <2>1. it[1..N] = r[N]
        BY <1>1, <1>5, <1>10, <1>11, FoldIsRun
  <2> QED  BY <2>1, <1>a
<1>13. Keeps(s, r)
  <2>1. r \in [0..N -> A] /\ r[0] = base /\ \A n \in 1..N : r[n] = st[n][r[n - 1]]
        BY <1>11 DEF IsRun
  <2>2. \A n \in 1..N : n - 1 \in 0..N
        BY <1>1
  <2>3. \A n \in 1..N : r[n] = Kept(s, r[n - 1], n)
        BY <2>1, <2>2, <1>6
  <2> QED  BY <2>1, <2>3 DEF Keeps, A, N, base
<1> QED  BY <1>2, <1>12, <1>13 DEF N

(* A line end only at the end.                                             *)
OneLine(s) == \A i \in 1..Len(s) : i < Len(s) => s[i] # Newline

(* No space in front, no two spaces, no line end,                          *)
Tidy(t) == /\ Free(t, Newline)
           /\ \A i \in 1..Len(t) : t[i] = Blank => i > 1 /\ t[i - 1] # Blank

(* and no space at the end.                                                *)
Clean(t) == t \in Str /\ Tidy(t) /\ (t # <<>> => Last(t) # Blank)

LEMMA DroppedIs ==
    ASSUME NEW s, NEW i
    PROVE  Dropped(s, i) <=> \/ s[i] = Blank /\ (i = 1 \/ s[i - 1] = Blank)
                             \/ s[i] = Newline
BY Zenon DEF Dropped, Newline, Blank

LEMMA StrAppend ==
    ASSUME NEW t \in Str, NEW c \in Char
    PROVE  /\ Append(t, c) \in Str /\ Append(t, c) # <<>> /\ Len(t) \in Nat
           /\ Len(Append(t, c)) = Len(t) + 1 /\ Append(t, c)[Len(t) + 1] = c
           /\ \A i \in 1..Len(t) : Append(t, c)[i] = t[i]
<1>1. Len(t) \in Nat
      BY LenProperties DEF Str
<1> QED  BY <1>1, AppendProperties DEF Str

LEMMA TidyMore ==
    ASSUME NEW t \in Str, Tidy(t), NEW c \in Char, c # Newline, c = Blank => t # <<>> /\ Last(t) # Blank
    PROVE  Append(t, c) \in Str /\ Tidy(Append(t, c)) /\ Last(Append(t, c)) = c /\ Append(t, c) # <<>>
<1> DEFINE u == Append(t, c)
<1>1. /\ u \in Str /\ u # <<>> /\ Len(u) = Len(t) + 1 /\ Len(t) \in Nat /\ u[Len(t) + 1] = c
      /\ \A i \in 1..Len(t) : u[i] = t[i]
      BY StrAppend
<1> HIDE DEF u
<1>a. Len(t) \in Nat /\ Len(u) = Len(t) + 1
      BY <1>1
<1>2. \A i \in 1..Len(u) : i = Len(t) + 1 \/ i \in 1..Len(t)
      BY <1>a
<1>3. Free(u, Newline)
      BY <1>1, <1>2 DEF Free, Tidy
<1>4. ASSUME NEW i \in 1..Len(u), u[i] = Blank PROVE i > 1 /\ u[i - 1] # Blank
  <2>1. CASE i = Len(t) + 1
    <3>1. c = Blank /\ t # <<>> /\ Last(t) # Blank
          BY <2>1, <1>1, <1>4
    <3>2. Len(t) # 0
          BY <3>1, EmptySeq DEF Str
    <3>3. i > 1 /\ i - 1 \in 1..Len(t) /\ i - 1 = Len(t)
          BY <1>a, <2>1, <3>2
    <3>4. u[i - 1] = t[Len(t)]
          BY <3>3, <1>1
    <3> QED  BY <3>1, <3>3, <3>4 DEF Last
  <2>2. CASE i # Len(t) + 1
    <3>1. i \in 1..Len(t)
          BY <2>2, <1>2
    <3>2. i > 1 /\ t[i - 1] # Blank
          BY <3>1, <1>1, <1>4 DEF Tidy
    <3>3. i - 1 \in 1..Len(t)
          BY <3>1, <3>2, <1>a
    <3> QED  BY <3>2, <3>3, <1>1
  <2> QED  BY <2>1, <2>2
<1>5. Tidy(u)
      BY <1>3, <1>4 DEF Tidy
<1>6. Last(u) = c
      BY <1>1 DEF Last
<1> QED  BY <1>1, <1>5, <1>6 DEF u

LEMMA RemoveTidies ==
    ASSUME NEW s \in Str, OneLine(s)
    PROVE  Clean(remove_space(s))
<1>1. PICK r : /\ Keeps(s, r)
               /\ remove_space(s) = IF r[Len(s)] # <<>> /\ Last(r[Len(s)]) = Blank
                                    THEN Front(r[Len(s)]) ELSE r[Len(s)]
      BY RemoveKeeps
<1>0. Len(s) \in Nat /\ \A i \in 1..Len(s) : s[i] \in Char
      BY LenProperties, ElementOfSeq DEF Str
<1>a. Len(s) \in Nat
      BY <1>0
<1> DEFINE Fine(n) == /\ Tidy(r[n])
                      /\ n > 0 /\ n < Len(s) /\ s[n] # Blank => r[n] # <<>> /\ Last(r[n]) # Blank
           Good == {n \in 0..Len(s) : Fine(n)}
<1>2. 0 \in Good
  <2>1. r[0] = <<>>
        BY <1>1 DEF Keeps
  <2>2. Tidy(<<>>)
        BY EmptySeq DEF Tidy, Free
  <2>3. Fine(0)
        BY <2>1, <2>2
  <2> HIDE DEF Fine
  <2> QED  BY <1>a, <2>3
<1>3. ASSUME NEW m \in Nat, m < Len(s), m \in Good PROVE m + 1 \in Good
  <2> DEFINE n == m + 1  t == r[m]  c == s[n]
  <2>1. n \in 1..Len(s) /\ n \in 0..Len(s) /\ n - 1 = m /\ m \in 0..Len(s)
    <3> HIDE DEF Fine
    <3> QED  BY <1>a, <1>3
  <2>2. t \in Str /\ r[n] = Kept(s, t, n) /\ c \in Char
        BY <2>1, <1>0, <1>1 DEF Keeps
  <2>3. Tidy(t) /\ (m > 0 /\ s[m] # Blank => t # <<>> /\ Last(t) # Blank)
    <3>1. Fine(m)
      <4> HIDE DEF Fine
      <4> QED  BY <1>3
    <3> QED  BY <3>1, <1>3
  <2> HIDE DEF n, t
  <2>4. CASE Dropped(s, n)
    <3>1. r[n] = t
          BY <2>2, <2>4 DEF Kept
    <3>2. n < Len(s) => s[n] = Blank
          BY <2>1, <2>4, DroppedIs DEF OneLine
    <3>3. Fine(n)
          BY <2>3, <3>1, <3>2
    <3> HIDE DEF Fine
    <3> QED  BY <2>1, <3>3 DEF n
  <2>5. CASE ~Dropped(s, n)
    <3>1. r[n] = Append(t, c)
          BY <2>2, <2>5 DEF Kept
    <3>2. c # Newline /\ (c = Blank => t # <<>> /\ Last(t) # Blank)
      <4>1. c # Newline /\ (c = Blank => n # 1 /\ s[n - 1] # Blank)
            BY <2>5, DroppedIs
      <4>2. c = Blank => m > 0 /\ s[m] # Blank
        <5>1. c = Blank => m # 0 /\ s[m] # Blank
              BY <4>1, <2>1 DEF n
        <5> QED  BY <5>1
      <4> QED  BY <4>1, <4>2, <2>3
    <3>3. Tidy(Append(t, c)) /\ Last(Append(t, c)) = c /\ Append(t, c) # <<>>
          BY <2>2, <2>3, <3>2, TidyMore
    <3>4. Fine(n)
          BY <3>1, <3>3
    <3> HIDE DEF Fine
    <3> QED  BY <2>1, <3>4 DEF n
  <2> QED  BY <2>4, <2>5
<1>4. \A n \in 0..Len(s) : n \in Good
  <2> HIDE DEF Fine
  <2> QED  BY <1>a, <1>2, <1>3, CountingUp
<1> DEFINE kept == r[Len(s)]
<1>5. kept \in Str /\ Tidy(kept)
  <2>1. Len(s) \in 0..Len(s)
        BY <1>a
  <2>2. Fine(Len(s))
    <3> HIDE DEF Fine
    <3> QED  BY <2>1, <1>4
  <2> QED  BY <1>1, <2>1, <2>2 DEF Keeps
<1> HIDE DEF kept
<1>6. remove_space(s) = IF kept # <<>> /\ Last(kept) = Blank THEN Front(kept) ELSE kept
      BY <1>1 DEF kept
<1>7. CASE kept # <<>> /\ Last(kept) = Blank
  <2> DEFINE u == Front(kept)
  <2>1. /\ u \in Str /\ Len(u) = Len(kept) - 1 /\ Len(kept) \in Nat \ {0}
        /\ \A i \in 1..Len(kept) - 1 : u[i] = kept[i]
        BY <1>5, <1>7, FrontRules DEF Str
  <2> HIDE DEF u
  <2>a. Len(u) = Len(kept) - 1 /\ Len(kept) \in Nat \ {0}
        BY <2>1
  <2>2. Tidy(u)
    <3>1. \A i \in 1..Len(u) : i \in 1..Len(kept) /\ u[i] = kept[i]
          BY <2>1
    <3>2. Free(u, Newline)
          BY <3>1, <1>5 DEF Tidy, Free
    <3>3. ASSUME NEW i \in 1..Len(u), u[i] = Blank PROVE i > 1 /\ u[i - 1] # Blank
      <4>1. i > 1 /\ kept[i - 1] # Blank
            BY <3>1, <3>3, <1>5 DEF Tidy
      <4>2. i - 1 \in 1..Len(u)
            BY <4>1, <2>a
      <4> QED  BY <4>1, <4>2, <3>1
    <3> QED  BY <3>2, <3>3 DEF Tidy
  <2>3. ASSUME u # <<>> PROVE Last(u) # Blank
    <3>1. Len(kept) \in 1..Len(kept) /\ kept[Len(kept)] = Blank
      <4>1. Len(kept) \in 1..Len(kept)
            BY <2>a
      <4> QED  BY <4>1, <1>7 DEF Last
    <3>2. kept[Len(kept) - 1] # Blank
          BY <3>1, <1>5 DEF Tidy
    <3>3. Len(u) # 0
          BY <2>1, <2>3, EmptySeq DEF Str
    <3>4. Len(u) \in 1..Len(kept) - 1 /\ Len(u) = Len(kept) - 1
          BY <2>1, <3>3
    <3> QED  BY <2>1, <3>2, <3>4 DEF Last
  <2> QED  BY <1>6, <1>7, <2>1, <2>2, <2>3 DEF Clean, u
<1>8. CASE ~(kept # <<>> /\ Last(kept) = Blank)
      BY <1>5, <1>6, <1>8 DEF Clean
<1> QED  BY <1>7, <1>8

LEMMA CleanStays ==
    ASSUME NEW t, Clean(t)
    PROVE  remove_space(t) = t
<1>0. t \in Str /\ Tidy(t) /\ (t # <<>> => Last(t) # Blank)
      BY DEF Clean
<1>a. Len(t) \in Nat
      BY <1>0, LenProperties DEF Str
<1>1. PICK r : /\ Keeps(t, r)
               /\ remove_space(t) = IF r[Len(t)] # <<>> /\ Last(r[Len(t)]) = Blank
                                    THEN Front(r[Len(t)]) ELSE r[Len(t)]
      BY <1>0, RemoveKeeps
<1>2. ASSUME NEW n \in 1..Len(t) PROVE ~Dropped(t, n)
  <2>1. t[n] # Newline /\ (t[n] = Blank => n > 1 /\ t[n - 1] # Blank)
        BY <1>0 DEF Tidy, Free
  <2>2. n > 1 => n # 1
        OBVIOUS
  <2> QED  BY <2>1, <2>2, DroppedIs
<1> DEFINE Good == {n \in 0..Len(t) : r[n] = SubSeq(t, 1, n)}
<1>3. 0 \in Good
  <2>1. r[0] = <<>>
        BY <1>1 DEF Keeps
  <2>2. SubSeq(t, 1, 0) = <<>>
        BY <1>0, SubSeqEmpty
  <2>3. r[0] = SubSeq(t, 1, 0)
        BY <2>1, <2>2, Zenon
  <2>4. 0 \in 0..Len(t)
        BY <1>a
  <2> QED  BY <2>3, <2>4, Zenon
<1>4. ASSUME NEW m \in Nat, m < Len(t), m \in Good PROVE m + 1 \in Good
  <2>1. m + 1 \in 1..Len(t) /\ m + 1 \in 0..Len(t) /\ (m + 1) - 1 = m
        /\ 1 <= m + 1 /\ m + 1 <= Len(t)
        BY <1>a, <1>4
  <2>2. r[m + 1] = Append(r[m], t[m + 1])
        BY <1>1, <1>2, <2>1 DEF Keeps, Kept
  <2>3. SubSeq(t, 1, m + 1) = Append(SubSeq(t, 1, m), t[m + 1])
        BY <1>0, <2>1, PartOneMore
  <2> QED  BY <1>4, <2>1, <2>2, <2>3
<1>5. \A n \in 0..Len(t) : n \in Good
      BY <1>a, <1>3, <1>4, CountingUp
<1>6. r[Len(t)] = t
  <2>1. Len(t) \in 0..Len(t)
        BY <1>a
  <2>2. SubSeq(t, 1, Len(t)) = t
        BY <1>0, SubSeqFull DEF Str
  <2> QED  BY <1>5, <2>1, <2>2
<1> QED  BY <1>0, <1>1, <1>6

(* The first word of a line, and the rest.                                 *)
LEMMA SpliteIs ==
    ASSUME NEW s
    PROVE  splite_argument(s) =
             LET S == {i \in 1..Len(s) : s[i] = Blank}
             IN  IF S = {} THEN <<>>
                 ELSE LET first == CHOOSE i \in S : \A j \in S : i <= j
                          rest  == CHOOSE i \in first..Len(s) + 1 :
                                     /\ (i = Len(s) + 1 \/ s[i] # Blank)
                                     /\ \A j \in first..i - 1 : s[j] = Blank
                      IN  <<SubSeq(s, 1, first - 1), SubSeq(s, rest, Len(s))>>
BY Zenon DEF splite_argument, Blank

WordAndRest(t, w, rest) ==
    /\ w \in Str /\ Free(w, Blank) /\ Clean(rest) /\ rest # <<>>
    /\ t = w \o <<Blank>> \o rest

LEMMA SpliteRules ==
    ASSUME NEW t, Clean(t)
    PROVE  /\ Free(t, Blank) => splite_argument(t) = <<>>
           /\ ~Free(t, Blank) => \E w, rest : WordAndRest(t, w, rest) /\ splite_argument(t) = <<w, rest>>
<1> DEFINE S == {i \in 1..Len(t) : t[i] = Blank}
           first == CHOOSE i \in S : \A j \in S : i <= j
           IsRest(i) == /\ (i = Len(t) + 1 \/ t[i] # Blank)
                        /\ \A j \in first..i - 1 : t[j] = Blank
           rst == CHOOSE i \in first..Len(t) + 1 : IsRest(i)
           w == SubSeq(t, 1, first - 1)
           rest == SubSeq(t, rst, Len(t))
<1>0. t \in Str /\ Tidy(t) /\ (t # <<>> => Last(t) # Blank)
      BY DEF Clean
<1>a. Len(t) \in Nat
      BY <1>0, LenProperties DEF Str
<1>b. \A i \in 1..Len(t) : t[i] \in Char
      BY <1>0, ElementOfSeq DEF Str
<1>1. splite_argument(t) = IF S = {} THEN <<>> ELSE <<w, rest>>
      BY SpliteIs, Zenon
<1>2. S = {} <=> Free(t, Blank)
      BY DEF Free
<1>3. ASSUME S # {} PROVE WordAndRest(t, w, rest)
  <2>1. first \in S /\ \A j \in S : first <= j
    <3>1. S \in SUBSET Nat
          OBVIOUS
    <3>2. \E i \in S : \A j \in S : i <= j
      <4> HIDE DEF S
      <4> QED  BY <1>3, <3>1, LeastNat
    <3> HIDE DEF S
    <3> QED  BY <3>2
  <2>2. first \in 1..Len(t) /\ t[first] = Blank
        BY <2>1
  <2>3. \A j \in 1..Len(t) : t[j] = Blank => first <= j
        BY <2>1
  <2> HIDE DEF first, S
  <2>4. first < Len(t)
    <3>1. t # <<>>
          BY <1>a, <2>2, EmptySeq
    <3>2. t[Len(t)] # Blank
          BY <1>0, <3>1 DEF Last
    <3> QED  BY <1>a, <2>2, <3>2
  <2>5. first + 1 \in 1..Len(t) /\ (first + 1) - 1 = first /\ first \in Nat
        BY <1>a, <2>2, <2>4
  <2>6. t[first + 1] # Blank
        BY <1>0, <2>2, <2>5 DEF Tidy
  <2>7. rst = first + 1
    <3>1. IsRest(first + 1) /\ first + 1 \in first..Len(t) + 1
      <4>1. \A j \in first..first + 1 - 1 : j = first
            BY <2>5
      <4>2. first + 1 \in first..Len(t) + 1
            BY <1>a, <2>5
      <4> QED  BY <2>2, <2>6, <4>1, <4>2
    <3>2. ASSUME NEW i \in first..Len(t) + 1, IsRest(i) PROVE i = first + 1
      <4>1. i # first
        <5>1. first # Len(t) + 1
              BY <1>a, <2>2
        <5> QED  BY <2>2, <3>2, <5>1
      <4>2. ~(i > first + 1)
        <5> SUFFICES ASSUME i > first + 1 PROVE FALSE
            OBVIOUS
        <5>1. first + 1 \in first..i - 1
              BY <2>5
        <5> QED  BY <2>6, <3>2, <5>1
      <4>3. i \in Int /\ i >= first
            OBVIOUS
      <4> QED  BY <2>5, <4>1, <4>2, <4>3
    <3> HIDE DEF IsRest
    <3>3. rst \in first..Len(t) + 1 /\ IsRest(rst)
          BY <3>1
    <3> HIDE DEF rst
    <3> QED  BY <3>2, <3>3
  <2> HIDE DEF rst, IsRest
  <2> DEFINE f == first - 1
  <2>8. f \in Nat /\ f + 1 = first /\ f + 1 <= Len(t) /\ 1 <= f + 1 /\ f <= Len(t)
        BY <1>a, <2>2
  <2>9. w \in Str /\ Len(w) = f /\ \A i \in 1..f : w[i] = t[i]
        BY <1>0, <2>8, CutRules
  <2>10. SubSeq(t, 1, first) = Append(w, Blank)
        BY <1>0, <2>2, <2>8, PartOneMore
  <2>11. Append(w, Blank) = w \o <<Blank>>
    <3> HIDE DEF w
    <3> QED  BY <2>9, CharsAre, AppendIsConcat DEF Str
  <2>12. Free(w, Blank)
    <3>1. \A i \in 1..f : i \in 1..Len(t) /\ ~(first <= i)
          BY <2>8
    <3> HIDE DEF w, f
    <3> QED  BY <2>3, <2>9, <3>1 DEF Free
  <2>13. SubSeq(t, 1, first) \o SubSeq(t, first + 1, Len(t)) = SubSeq(t, 1, Len(t))
    <3>1. 1 \in 1..Len(t) + 1 /\ first \in 1 - 1..Len(t) /\ Len(t) \in first..Len(t)
          BY <1>a, <2>2
    <3>2. t \in Seq(Char)
          BY <1>0 DEF Str
    <3> QED  BY <3>1, <3>2, ConcatAdjacentSubSeq
  <2>14. SubSeq(t, 1, Len(t)) = t
        BY <1>0, SubSeqFull DEF Str
  <2>15. t = w \o <<Blank>> \o rest
        BY <2>7, <2>10, <2>11, <2>13, <2>14
  <2>16. /\ rest \in Str /\ Len(rest) = Len(t) - first
         /\ \A i \in 1..Len(t) - first : rest[i] = t[first + i]
    <3>1. first + 1 \in Int /\ Len(t) \in Int /\ \A i \in first + 1..Len(t) : t[i] \in Char
          BY <1>a, <1>b, <2>2
    <3>2. /\ SubSeq(t, first + 1, Len(t)) \in Seq(Char)
          /\ Len(SubSeq(t, first + 1, Len(t))) = IF first + 1 <= Len(t) THEN Len(t) - (first + 1) + 1 ELSE 0
          /\ \A i \in 1..Len(t) - (first + 1) + 1 : SubSeq(t, first + 1, Len(t))[i] = t[(first + 1) + i - 1]
          BY <3>1, SubSeqProperties
    <3>3. first + 1 <= Len(t) /\ Len(t) - (first + 1) + 1 = Len(t) - first
          BY <1>a, <2>2, <2>5
    <3>4. \A i \in 1..Len(t) - first : (first + 1) + i - 1 = first + i
          BY <1>a, <2>2
    <3> DEFINE v == SubSeq(t, first + 1, Len(t))
    <3>5. rest = v
          BY <2>7
    <3>6. v \in Str /\ Len(v) = Len(t) - first /\ \A i \in 1..Len(t) - first : v[i] = t[first + i]
          BY <3>2, <3>3, <3>4 DEF Str
    <3> HIDE DEF v, rest
    <3> QED  BY <3>5, <3>6
  <2> HIDE DEF rest, w, f
  <2>a. Len(rest) = Len(t) - first /\ first \in Nat /\ first < Len(t)
        BY <2>4, <2>5, <2>16
  <2>17. \A i \in 1..Len(rest) : first + i \in 1..Len(t) /\ rest[i] = t[first + i]
    <3>1. \A i \in 1..Len(rest) : first + i \in 1..Len(t) /\ i \in 1..Len(t) - first
          BY <1>a, <2>a
    <3> QED  BY <2>16, <3>1
  <2>18. Tidy(rest)
    <3>1. Free(rest, Newline)
          BY <1>0, <2>17 DEF Free, Tidy
    <3>2. ASSUME NEW i \in 1..Len(rest), rest[i] = Blank PROVE i > 1 /\ rest[i - 1] # Blank
      <4>1. i # 1
            BY <2>5, <2>6, <2>17, <3>2
      <4>2. i > 1 /\ i - 1 \in 1..Len(rest) /\ first + (i - 1) = (first + i) - 1
            BY <4>1, <1>a, <2>a
      <4>3. t[(first + i) - 1] # Blank
            BY <1>0, <2>17, <3>2 DEF Tidy
      <4>4. rest[i - 1] = t[first + (i - 1)]
            BY <2>17, <4>2
      <4> QED  BY <4>2, <4>3, <4>4
    <3> QED  BY <3>1, <3>2 DEF Tidy
  <2>19. rest # <<>>
        BY <1>a, <2>a, EmptySeq
  <2>20. Last(rest) # Blank
    <3>1. Len(rest) \in 1..Len(rest) /\ first + Len(rest) = Len(t)
          BY <1>a, <2>a
    <3>2. rest[Len(rest)] = t[Len(t)]
          BY <2>17, <3>1
    <3>3. t # <<>>
          BY <1>a, <2>2, EmptySeq
    <3> QED  BY <1>0, <3>2, <3>3 DEF Last
  <2> QED  BY <2>9, <2>12, <2>15, <2>16, <2>18, <2>19, <2>20 DEF WordAndRest, Clean
<1> HIDE DEF S, w, rest
<1> QED  BY <1>1, <1>2, <1>3

-----------------------------------------------------------------------------
(* Words.                                                                  *)

LEMMA CharFacts == Blank \in Char /\ Newline \in Char /\ "/" \in Char /\ <<>> \in Str /\ Blank # "/"
<1>1. Blank # "/"
      BY Zenon DEF Blank
<1> QED  BY <1>1, CharsAre, EmptySeq DEF Str

LEMMA Words ==
    ASSUME NEW t, NEW w, NEW rest, WordAndRest(t, w, rest)
    PROVE  /\ Split(t, Blank) = <<w>> \o Split(rest, Blank)
           /\ Split(rest, Blank) \in Names /\ <<w>> \in Names
<1>1. w \in Str /\ rest \in Str /\ t = w \o <<Blank>> \o rest /\ Free(w, Blank)
      BY DEF WordAndRest, Clean
<1>2. Split(w, Blank) = <<w>>
      BY <1>1, CharFacts, SplitFree
<1>3. Split(t, Blank) = Split(w, Blank) \o Split(rest, Blank)
      BY <1>1, CharFacts, SplitConcat
<1>4. Split(rest, Blank) \in Names /\ Split(w, Blank) \in Names
      BY <1>1, SplitRules
<1> QED  BY <1>2, <1>3, <1>4

(* There is a space between two words.                                     *)
Blanks(s) == {n \in 1..Len(s) : s[n] = Blank}

LEMMA CountBlanks ==
    ASSUME NEW s \in Str
    PROVE  Cardinality(Blanks(s)) \in Nat /\ Len(Split(s, Blank)) = Cardinality(Blanks(s)) + 1
<1> DEFINE P == {v \in Str : /\ IsFiniteSet(Blanks(v)) /\ Cardinality(Blanks(v)) \in Nat
                             /\ Len(Split(v, Blank)) = Cardinality(Blanks(v)) + 1}
<1>1. <<>> \in P
  <2>1. Blanks(<<>>) = {}
        BY EmptySeq DEF Blanks
  <2>2. Split(<<>>, Blank) = << <<>> >> /\ Len(<< <<>> >>) = 1
        BY SplitRules
  <2> DEFINE e == <<>>
  <2>3. /\ e \in Str /\ IsFiniteSet(Blanks(e)) /\ Cardinality(Blanks(e)) = 0
        /\ Len(Split(e, Blank)) = 1
    <3>1. IsFiniteSet({}) /\ Cardinality({}) = 0
          BY FS_EmptySet
    <3> QED  BY <2>1, <2>2, <3>1, CharFacts, Zenon
  <2> HIDE DEF e
  <2>4. e \in P
        BY <2>3
  <2> QED  BY <2>4 DEF e
<1>2. ASSUME NEW v \in Str, NEW c \in Char, v \in P PROVE Append(v, c) \in P
  <2> DEFINE u == Append(v, c)  b == Blanks(v)  l == Len(v) + 1
  <2>1. /\ u \in Str /\ Len(v) \in Nat /\ Len(u) = l /\ u[l] = c
        /\ \A i \in 1..Len(v) : u[i] = v[i]
        BY StrAppend
  <2>2. IsFiniteSet(b) /\ Cardinality(b) \in Nat /\ Len(Split(v, Blank)) = Cardinality(b) + 1
        BY <1>2
  <2>3. Split(v, Blank) \in Names /\ Split(v, Blank) # <<>>
        /\ Split(u, Blank) = IF c = Blank THEN Append(Split(v, Blank), <<>>)
                             ELSE Longer(Split(v, Blank), c)
        BY SplitOneMore
  <2>4. \A i \in 1..l : i = l \/ i \in 1..Len(v)
        BY <2>1
  <2>5. l \in 1..l /\ l \notin 1..Len(v) /\ \A i \in 1..Len(v) : i \in 1..l
        BY <2>1
  <2> HIDE DEF u, l
  <2>6. CASE c = Blank
    <3>1. Blanks(u) = b \cup {l} /\ l \notin b
          BY <2>1, <2>4, <2>5, <2>6 DEF Blanks
    <3>2. IsFiniteSet(b \cup {l}) /\ Cardinality(b \cup {l}) = Cardinality(b) + 1
      <4> HIDE DEF b
      <4> QED  BY <2>2, <3>1, FS_AddElement
    <3>3. Len(Split(u, Blank)) = Len(Split(v, Blank)) + 1
      <4> DEFINE p == Split(v, Blank)
      <4>1. p \in Seq(Str) /\ Split(u, Blank) = Append(p, <<>>)
            BY <2>3, <2>6 DEF Names
      <4> HIDE DEF p
      <4>2. Len(Append(p, <<>>)) = Len(p) + 1
            BY <4>1, CharFacts, AppendProperties
      <4> QED  BY <4>1, <4>2 DEF p
    <3> HIDE DEF b
    <3>4. IsFiniteSet(Blanks(u)) /\ Cardinality(Blanks(u)) \in Nat
          /\ Len(Split(u, Blank)) = Cardinality(Blanks(u)) + 1
          BY <2>2, <3>1, <3>2, <3>3
    <3> QED  BY <2>1, <3>4 DEF u
  <2>7. CASE c # Blank
    <3>1. Blanks(u) = b
          BY <2>1, <2>4, <2>5, <2>7 DEF Blanks
    <3>2. Len(Split(u, Blank)) = Len(Split(v, Blank))
      <4>1. Split(u, Blank) = Longer(Split(v, Blank), c)
            BY <2>3, <2>7
      <4> DEFINE p == Split(v, Blank)
      <4>2. p \in Seq(Str)
            BY <2>3 DEF Names
      <4> HIDE DEF p
      <4>3. Len(Longer(p, c)) = Len(p)
            BY <4>2 DEF Longer
      <4> QED  BY <4>1, <4>3 DEF p
    <3> HIDE DEF b
    <3>4. IsFiniteSet(Blanks(u)) /\ Cardinality(Blanks(u)) \in Nat
          /\ Len(Split(u, Blank)) = Cardinality(Blanks(u)) + 1
          BY <2>2, <3>1, <3>2
    <3> QED  BY <2>1, <3>4 DEF u
  <2> QED  BY <2>6, <2>7
<1>3. \A v \in Str : v \in P
      BY <1>1, <1>2, SeqInduction DEF Str
<1> QED  BY <1>3

(* The first word, and what is behind it.                                  *)

LEMMA Parsed ==
    ASSUME NEW t, Clean(t)
    PROVE  /\ FirstWord(t) \in Str /\ Clean(TheRest(t))
           /\ splite_argument(t) = <<>> <=> Free(t, Blank)
           /\ TheRest(t) = <<>> <=> Free(t, Blank)
           /\ Free(t, Blank) => FirstWord(t) = t /\ Split(t, Blank) = <<FirstWord(t)>>
           /\ ~Free(t, Blank) => /\ splite_argument(t) = <<FirstWord(t), TheRest(t)>>
                                 /\ WordAndRest(t, FirstWord(t), TheRest(t))
                                 /\ Split(t, Blank) = <<FirstWord(t)>> \o Split(TheRest(t), Blank)
<1>0. t \in Str
      BY DEF Clean
<1>1. CASE Free(t, Blank)
  <2>1. splite_argument(t) = <<>>
        BY <1>1, SpliteRules
  <2>2. FirstWord(t) = t /\ TheRest(t) = <<>>
        BY <2>1 DEF FirstWord, TheRest
  <2>3. Split(t, Blank) = <<t>>
        BY <1>0, <1>1, CharFacts, SplitFree
  <2>4. Clean(<<>>)
        BY EmptySeq DEF Clean, Tidy, Free, Str
  <2> QED  BY <1>0, <1>1, <2>1, <2>2, <2>3, <2>4
<1>2. CASE ~Free(t, Blank)
  <2>1. PICK w, rest : WordAndRest(t, w, rest) /\ splite_argument(t) = <<w, rest>>
        BY <1>2, SpliteRules
  <2>2. splite_argument(t) # <<>>
    <3>1. <<w, rest>> # <<>>
          OBVIOUS
    <3> QED  BY <2>1, <3>1
  <2>3. FirstWord(t) = w /\ TheRest(t) = rest
        BY <2>1, <2>2 DEF FirstWord, TheRest
  <2>4. w \in Str /\ Clean(rest) /\ rest # <<>>
        BY <2>1 DEF WordAndRest
  <2>5. Split(t, Blank) = <<w>> \o Split(rest, Blank)
        BY <2>1, Words
  <2> QED  BY <1>2, <2>1, <2>2, <2>3, <2>4, <2>5
<1> QED  BY <1>1, <1>2

-----------------------------------------------------------------------------
(* Commands: no two begin with the same two letters.                       *)

LEMMA OrderIs ==
    /\ DOMAIN order = 1..8
    /\ order[1] = <<"c", "d">> /\ order[2] = <<"l", "s">> /\ order[3] = <<"l", "l">>
    /\ order[4] = <<"p", "w", "d">> /\ order[5] = <<"m", "k", "d", "i", "r">>
    /\ order[6] = <<"p", "u", "t", "s">> /\ order[7] = <<"g", "e", "t", "s">>
    /\ order[8] = <<"r", "m">>
BY DEF order

LEMMA LettersDiffer ==
    /\ "c" # "l" /\ "c" # "p" /\ "c" # "m" /\ "c" # "g" /\ "c" # "r" /\ "l" # "p" /\ "l" # "m"
    /\ "l" # "g" /\ "l" # "r" /\ "p" # "m" /\ "p" # "g" /\ "p" # "r" /\ "m" # "g" /\ "m" # "r"
    /\ "g" # "r" /\ "s" # "l" /\ "w" # "u"
OBVIOUS

LEMMA LettersAre ==
    ASSUME NEW x \in Letters
    PROVE  x \in Char /\ x # Blank /\ x # Newline
<1>1. x # Blank
      BY Zenon DEF Letters, Blank
<1>2. x # Newline
      BY Zenon DEF Letters, Newline
<1> QED  BY <1>1, <1>2 DEF Char

LEMMA OrderText ==
    ASSUME NEW i \in 1..8
    PROVE  /\ order[i] \in Seq(Letters) /\ order[i] # <<>>
           /\ Len(order[i]) \in Nat /\ 2 <= Len(order[i])
<1>1. CASE i = 1
  <2>1. <<"c", "d">> \in Seq(Letters) /\ Len(<<"c", "d">>) = 2
        BY DEF Letters
  <2> QED  BY <1>1, <2>1, OrderIs
<1>2. CASE i = 2
  <2>1. <<"l", "s">> \in Seq(Letters) /\ Len(<<"l", "s">>) = 2
        BY DEF Letters
  <2> QED  BY <1>2, <2>1, OrderIs
<1>3. CASE i = 3
  <2>1. <<"l", "l">> \in Seq(Letters) /\ Len(<<"l", "l">>) = 2
        BY DEF Letters
  <2> QED  BY <1>3, <2>1, OrderIs
<1>4. CASE i = 4
  <2>1. <<"p", "w", "d">> \in Seq(Letters) /\ Len(<<"p", "w", "d">>) = 3
        BY DEF Letters
  <2> QED  BY <1>4, <2>1, OrderIs
<1>5. CASE i = 5
  <2>1. <<"m", "k", "d", "i", "r">> \in Seq(Letters) /\ Len(<<"m", "k", "d", "i", "r">>) = 5
        BY DEF Letters
  <2> QED  BY <1>5, <2>1, OrderIs
<1>6. CASE i = 6
  <2>1. <<"p", "u", "t", "s">> \in Seq(Letters) /\ Len(<<"p", "u", "t", "s">>) = 4
        BY DEF Letters
  <2> QED  BY <1>6, <2>1, OrderIs
<1>7. CASE i = 7
  <2>1. <<"g", "e", "t", "s">> \in Seq(Letters) /\ Len(<<"g", "e", "t", "s">>) = 4
        BY DEF Letters
  <2> QED  BY <1>7, <2>1, OrderIs
<1>8. CASE i = 8
  <2>1. <<"r", "m">> \in Seq(Letters) /\ Len(<<"r", "m">>) = 2
        BY DEF Letters
  <2> QED  BY <1>8, <2>1, OrderIs
<1>9. i = 1 \/ i = 2 \/ i = 3 \/ i = 4 \/ i = 5 \/ i = 6 \/ i = 7 \/ i = 8
      OBVIOUS
<1> QED  BY <1>1, <1>2, <1>3, <1>4, <1>5, <1>6, <1>7, <1>8, <1>9

LEMMA OrderRules ==
    ASSUME NEW i \in DOMAIN order
    PROVE  /\ order[i] \in Str /\ order[i] # <<>> /\ Len(order[i]) \in Nat /\ 2 <= Len(order[i])
           /\ Free(order[i], Blank) /\ Free(order[i], Newline)
<1>1. order[i] \in Seq(Letters) /\ order[i] # <<>> /\ Len(order[i]) \in Nat /\ 2 <= Len(order[i])
      BY OrderIs, OrderText
<1>2. Letters \subseteq Char
      BY LettersAre
<1>3. order[i] \in Str
      BY <1>1, <1>2, SeqMonotonic DEF Str
<1>4. \A k \in 1..Len(order[i]) : order[i][k] \in Letters
      BY <1>1, ElementOfSeq
<1>5. Free(order[i], Blank) /\ Free(order[i], Newline)
      BY <1>4, LettersAre DEF Free
<1> QED  BY <1>1, <1>3, <1>5

LEMMA Initials ==
    ASSUME NEW i \in 1..8, NEW j \in 1..8, order[i][1] = order[j][1], order[i][2] = order[j][2]
    PROVE  i = j
<1> DEFINE a(k) == order[k][1]  b(k) == order[k][2]
<1>1. /\ a(1) = "c" /\ a(2) = "l" /\ a(3) = "l" /\ a(4) = "p" /\ a(5) = "m" /\ a(6) = "p"
      /\ a(7) = "g" /\ a(8) = "r" /\ b(2) = "s" /\ b(3) = "l" /\ b(4) = "w" /\ b(6) = "u"
      BY OrderIs
<1>2. a(i) = a(j) /\ b(i) = b(j)
      OBVIOUS
<1> HIDE DEF a, b
<1>3. \A k \in 1..8 : k = 1 \/ k = 2 \/ k = 3 \/ k = 4 \/ k = 5 \/ k = 6 \/ k = 7 \/ k = 8
      OBVIOUS
<1> QED  BY <1>1, <1>2, <1>3, LettersDiffer

(* A string begins with one of them at most,                               *)
Begins(i, s) == i \in 1..8 /\ 2 <= Len(s) /\ s[1] = order[i][1] /\ s[2] = order[i][2]

LEMMA BeginsOnce ==
    ASSUME NEW s, NEW i, NEW j, Begins(i, s), Begins(j, s)
    PROVE  i = j
BY Initials DEF Begins

(* with the one it has as a prefix,                                        *)
LEMMA PrefixBegins ==
    ASSUME NEW s \in Str, NEW i \in DOMAIN order, IsPrefix(order[i], s)
    PROVE  Begins(i, s)
<1> DEFINE o == order[i]
<1>1. o \in Str /\ Len(o) \in Nat /\ 2 <= Len(o) /\ i \in 1..8
      BY OrderRules, OrderIs
<1>2. Len(s) \in Nat
      BY LenProperties DEF Str
<1>3. Len(o) <= Len(s) /\ SubSeq(o, 1, Len(o)) = SubSeq(s, 1, Len(o))
      BY DEF IsPrefix
<1> HIDE DEF o
<1>4. \A k \in 1..Len(o) : SubSeq(o, 1, Len(o))[k] = o[k]
      BY <1>1, CutRules
<1>5. \A k \in 1..Len(o) : SubSeq(s, 1, Len(o))[k] = s[k]
      BY <1>1, <1>3, CutRules
<1>6. 1 \in 1..Len(o) /\ 2 \in 1..Len(o) /\ 2 <= Len(s)
      BY <1>1, <1>2, <1>3
<1>7. s[1] = o[1] /\ s[2] = o[2]
      BY <1>3, <1>4, <1>5, <1>6
<1> QED  BY <1>1, <1>6, <1>7 DEF Begins, o

LEMMA CommandBegins ==
    ASSUME NEW s \in Str, CommandOf(s) # 0
    PROVE  CommandOf(s) \in 1..8 /\ Begins(CommandOf(s), s)
<1> DEFINE S == {i \in DOMAIN order : IsPrefix(order[i], s)}
<1>1. S \in SUBSET Nat /\ S # {} /\ CommandOf(s) = CHOOSE i \in S : \A j \in S : i <= j
      BY OrderIs DEF CommandOf
<1>2. \E i \in S : \A j \in S : i <= j
  <2> HIDE DEF S
  <2> QED  BY <1>1, LeastNat
<1>3. CommandOf(s) \in S
  <2> HIDE DEF S
  <2> QED  BY <1>1, <1>2
<1> QED  BY <1>3, OrderIs, PrefixBegins

(* or as its first word.                                                   *)
LEMMA FirstWordBegins ==
    ASSUME NEW t, Clean(t), NEW i \in DOMAIN order, FirstWord(t) = order[i]
    PROVE  Begins(i, t)
<1> DEFINE o == order[i]
<1>1. o \in Str /\ Len(o) \in Nat /\ 2 <= Len(o) /\ i \in 1..8 /\ FirstWord(t) = o
      BY OrderRules, OrderIs
<1> HIDE DEF o
<1>2. CASE Free(t, Blank)
  <2>1. t = o
        BY <1>1, <1>2, Parsed
  <2> QED  BY <1>1, <2>1 DEF Begins, o
<1>3. CASE ~Free(t, Blank)
  <2> DEFINE b == <<Blank>> \o TheRest(t)
  <2>1. b \in Str /\ t = o \o b
    <3>1. WordAndRest(t, o, TheRest(t))
          BY <1>1, <1>3, Parsed
    <3>2. <<Blank>> \in Str /\ TheRest(t) \in Str /\ t = (o \o <<Blank>>) \o TheRest(t)
          BY <3>1, CharFacts, OneChar DEF WordAndRest, Clean
    <3>3. b \in Str
          BY <3>2, StrConcat
    <3>4. (o \o <<Blank>>) \o TheRest(t) = o \o b
      <4> DEFINE bb == <<Blank>>  rr == TheRest(t)
      <4>1. bb \in Str /\ rr \in Str
            BY <3>2
      <4> HIDE DEF bb, rr
      <4>2. (o \o bb) \o rr = o \o (bb \o rr)
            BY <1>1, <4>1, StrAssoc
      <4> QED  BY <4>2 DEF bb, rr
    <3> QED  BY <3>2, <3>3, <3>4
  <2> HIDE DEF b
  <2>2. /\ Len(b) \in Nat /\ Len(o \o b) = Len(o) + Len(b)
        /\ \A k \in 1..Len(o) : (o \o b)[k] = o[k]
        BY <1>1, <2>1, StrConcatAt
  <2>3. 1 \in 1..Len(o) /\ 2 \in 1..Len(o) /\ 2 <= Len(o) + Len(b)
        BY <1>1, <2>2
  <2>4. t[1] = o[1] /\ t[2] = o[2] /\ 2 <= Len(t)
        BY <2>1, <2>2, <2>3
  <2> QED  BY <1>1, <2>4 DEF Begins, o
<1> QED  BY <1>2, <1>3

-----------------------------------------------------------------------------
(* The last name of a path.                                                *)

Slashes(s) == {i \in 1..Len(s) : s[i] = "/"} \cup {0}

LEMMA IsLastSlash ==
    ASSUME NEW s, NEW i \in Slashes(s), \A j \in Slashes(s) : j <= i
    PROVE  LastSlash(s) = i
<1> DEFINE S == Slashes(s)
<1>1. LastSlash(s) = CHOOSE k \in S : \A j \in S : j <= k
      BY DEF LastSlash, Slashes
<1>2. \A k \in S : k \in Int
      BY DEF Slashes
<1> HIDE DEF S
<1>3. \E k \in S : \A j \in S : j <= k
      BY DEF S
<1>4. LastSlash(s) \in S /\ \A j \in S : j <= LastSlash(s)
      BY <1>1, <1>3
<1>5. i \in S /\ \A j \in S : j <= i
      BY DEF S
<1>6. i <= LastSlash(s) /\ LastSlash(s) <= i /\ i \in Int /\ LastSlash(s) \in Int
      BY <1>2, <1>4, <1>5
<1> QED  BY <1>6

LEMMA NoSlashYet == LastSlash(<<>>) = 0
<1>1. Slashes(<<>>) = {0}
      BY EmptySeq DEF Slashes
<1> QED  BY <1>1, IsLastSlash

LEMMA LastSlashMore ==
    ASSUME NEW s \in Str, NEW c \in Char, LastSlash(s) \in Slashes(s),
           \A j \in Slashes(s) : j <= LastSlash(s)
    PROVE  /\ LastSlash(Append(s, c)) = IF c = "/" THEN Len(s) + 1 ELSE LastSlash(s)
           /\ LastSlash(Append(s, c)) \in Slashes(Append(s, c))
           /\ \A j \in Slashes(Append(s, c)) : j <= LastSlash(Append(s, c))
<1> DEFINE u == Append(s, c)  l == Len(s) + 1
<1>1. /\ u \in Str /\ Len(s) \in Nat /\ Len(u) = l /\ u[l] = c
      /\ \A i \in 1..Len(s) : u[i] = s[i]
      BY StrAppend
<1>2. \A i \in 1..l : i = l \/ i \in 1..Len(s)
      BY <1>1
<1>3. l \in 1..l /\ l \notin 1..Len(s) /\ \A i \in 1..Len(s) : i \in 1..l
      BY <1>1
<1> HIDE DEF u
<1>4. CASE c = "/"
  <2>1. Slashes(u) = Slashes(s) \cup {l}
        BY <1>1, <1>2, <1>3, <1>4 DEF Slashes
  <2>2. \A j \in Slashes(s) : j <= l
    <3>1. \A j \in Slashes(s) : j \in 1..Len(s) \/ j = 0
          BY DEF Slashes
    <3> QED  BY <3>1, <1>1
  <2>3. l <= l
        BY <1>1
  <2>4. l \in Slashes(u) /\ \A j \in Slashes(u) : j <= l
        BY <2>1, <2>2, <2>3
  <2>5. LastSlash(u) = l
        BY <2>4, IsLastSlash
  <2> QED  BY <1>4, <2>4, <2>5 DEF u
<1>5. CASE c # "/"
  <2>1. Slashes(u) = Slashes(s)
        BY <1>1, <1>2, <1>3, <1>5 DEF Slashes
  <2>2. LastSlash(u) = LastSlash(s)
        BY <2>1, IsLastSlash
  <2> QED  BY <1>5, <2>1, <2>2 DEF u
<1> QED  BY <1>4, <1>5

(* It is the last part.                                                    *)
LEMMA FileNameIs ==
    ASSUME NEW s \in Str
    PROVE  /\ get_file_name(s) = Last(Split(s, "/"))
           /\ get_file_name(s) \in Str /\ Free(get_file_name(s), "/")
<1> DEFINE P == {v \in Str : /\ LastSlash(v) \in Slashes(v)
                             /\ \A j \in Slashes(v) : j <= LastSlash(v)
                             /\ get_file_name(v) = Last(Split(v, "/"))}
<1>1. <<>> \in P
  <2> DEFINE e == <<>>
  <2>1. LastSlash(e) = 0 /\ Slashes(e) = {0}
        BY NoSlashYet, EmptySeq DEF Slashes
  <2>2. get_file_name(e) = <<>>
    <3>1. SubSeq(e, 0 + 1, Len(e)) = <<>>
          BY EmptySeq
    <3> QED  BY <2>1, <3>1 DEF get_file_name
  <2>3. Last(Split(e, "/")) = <<>>
    <3>1. Split(e, "/") = << <<>> >>
          BY SplitRules
    <3>2. Last(<< <<>> >>) = <<>>
          BY DEF Last
    <3> QED  BY <3>1, <3>2
  <2>4. e \in Str
        BY CharFacts
  <2> HIDE DEF e
  <2>5. e \in P
        BY <2>1, <2>2, <2>3, <2>4
  <2> QED  BY <2>5 DEF e
<1>2. ASSUME NEW v \in Str, NEW c \in Char, v \in P PROVE Append(v, c) \in P
  <2> DEFINE u == Append(v, c)  l == LastSlash(v)  p == Split(v, "/")
  <2>1. /\ l \in Slashes(v) /\ \A j \in Slashes(v) : j <= l
        /\ get_file_name(v) = Last(p)
        BY <1>2
  <2>2. /\ LastSlash(u) = IF c = "/" THEN Len(v) + 1 ELSE l
        /\ LastSlash(u) \in Slashes(u)
        /\ \A j \in Slashes(u) : j <= LastSlash(u)
        BY <2>1, LastSlashMore
  <2>3. u \in Str /\ Len(v) \in Nat /\ Len(u) = Len(v) + 1 /\ u[Len(v) + 1] = c
        /\ \A i \in 1..Len(v) : u[i] = v[i]
        BY StrAppend
  <2>4. p \in Names /\ p # <<>> /\ Split(u, "/") = IF c = "/" THEN Append(p, <<>>) ELSE Longer(p, c)
        BY SplitOneMore
  <2>5. l \in 0..Len(v)
        BY <2>1, <2>3 DEF Slashes
  <2>6. get_file_name(v) = SubSeq(v, l + 1, Len(v)) /\ get_file_name(u) = SubSeq(u, LastSlash(u) + 1, Len(u))
        BY DEF get_file_name
  <2> HIDE DEF u, l, p
  <2>7. CASE c = "/"
    <3>1. SubSeq(u, (Len(v) + 1) + 1, Len(v) + 1) = <<>>
          BY <2>3, SubSeqEmpty
    <3>2. get_file_name(u) = <<>>
          BY <2>2, <2>3, <2>6, <2>7, <3>1
    <3>3. Last(Split(u, "/")) = <<>>
          BY <2>4, <2>7, CharFacts, FrontOfAppend DEF Names
    <3> QED  BY <2>2, <2>3, <3>2, <3>3 DEF u
  <2>8. CASE c # "/"
    <3>1. LastSlash(u) = l
          BY <2>2, <2>8
    <3>2. SubSeq(u, l + 1, Len(v) + 1) = Append(SubSeq(u, l + 1, Len(v)), u[Len(v) + 1])
      <4>1. l + 1 \in Nat /\ 1 <= l + 1 /\ l + 1 <= Len(v) + 1 /\ Len(v) + 1 <= Len(u) /\ Len(v) \in Nat
            BY <2>3, <2>5
      <4> QED  BY <2>3, <4>1, PartOneMore
    <3>3. SubSeq(u, l + 1, Len(v)) = SubSeq(v, l + 1, Len(v))
      <4> DEFINE a == SubSeq(u, l + 1, Len(v))  b == SubSeq(v, l + 1, Len(v))
      <4>1. \A i \in l + 1..Len(v) : i \in 1..Len(v)
            BY <2>3, <2>5
      <4>2. \A i \in 1..Len(v) : v[i] \in Char
            BY ElementOfSeq DEF Str
      <4>3. \A i \in l + 1..Len(v) : v[i] \in Char /\ u[i] \in Char /\ u[i] = v[i]
            BY <2>3, <4>1, <4>2
      <4>4. l + 1 \in Int /\ Len(v) \in Int
            BY <2>3, <2>5
      <4>5. /\ a \in Seq(Char) /\ Len(a) = IF l + 1 <= Len(v) THEN Len(v) - (l + 1) + 1 ELSE 0
            /\ \A i \in 1..Len(v) - (l + 1) + 1 : a[i] = u[(l + 1) + i - 1]
            BY <4>3, <4>4, SubSeqProperties
      <4>6. /\ b \in Seq(Char) /\ Len(b) = IF l + 1 <= Len(v) THEN Len(v) - (l + 1) + 1 ELSE 0
            /\ \A i \in 1..Len(v) - (l + 1) + 1 : b[i] = v[(l + 1) + i - 1]
            BY <4>3, <4>4, SubSeqProperties
      <4> HIDE DEF a, b
      <4>7. \A i \in 1..Len(a) : i \in 1..Len(v) - (l + 1) + 1 /\ (l + 1) + i - 1 \in l + 1..Len(v)
            BY <2>3, <2>5, <4>5
      <4>8. \A i \in 1..Len(a) : a[i] = b[i]
            BY <4>3, <4>5, <4>6, <4>7
      <4>9. a = b
            BY <4>5, <4>6, <4>8, SeqEqual
      <4> QED  BY <4>9 DEF a, b
    <3>4. get_file_name(u) = Append(Last(p), c)
          BY <2>1, <2>3, <2>6, <3>1, <3>2, <3>3 DEF l, p
    <3>5. Last(Split(u, "/")) = Append(Last(p), c)
          BY <2>4, <2>8, LongerLast
    <3> QED  BY <2>2, <2>3, <3>4, <3>5 DEF u
  <2> QED  BY <2>7, <2>8
<1>3. \A v \in Str : v \in P
      BY <1>1, <1>2, SeqInduction DEF Str
<1>4. get_file_name(s) = Last(Split(s, "/"))
      BY <1>3
<1>5. Last(Split(s, "/")) \in Str /\ Free(Last(Split(s, "/")), "/")
  <2> DEFINE p == Split(s, "/")
  <2>1. p \in Names /\ p # <<>> /\ AllFree(p, "/")
        BY CharFacts, SplitRules, PartsAreFree
  <2> HIDE DEF p
  <2>2. Last(p) \in Str /\ Len(p) \in 1..Len(p)
    <3>1. Last(p) \in Str /\ Len(p) \in Nat \ {0}
          BY <2>1, FrontRules DEF Names
    <3> QED  BY <3>1
  <2>3. Free(Last(p), "/")
        BY <2>1, <2>2 DEF AllFree, Last
  <2> QED  BY <2>2, <2>3 DEF p
<1> QED  BY <1>4, <1>5

LEMMA LastOfConcat ==
    ASSUME NEW a \in Names, NEW b \in Names, b # <<>>
    PROVE  Last(a \o b) = Last(b)
<1>1. /\ Len(a) \in Nat /\ Len(b) \in Nat /\ Len(a \o b) = Len(a) + Len(b)
      /\ \A k \in 1..Len(b) : (a \o b)[Len(a) + k] = b[k]
      BY NamesConcatAt
<1>2. Len(b) # 0
      BY EmptySeq DEF Names
<1>3. Len(b) \in 1..Len(b)
      BY <1>1, <1>2
<1> QED  BY <1>1, <1>3 DEF Last

LEMMA FileNameUnder ==
    ASSUME NEW a \in Str, NEW b \in Str
    PROVE  get_file_name(a \o <<"/">> \o b) = get_file_name(b)
<1> DEFINE o == <<"/">>  u == a \o o \o b  p == Split(a, "/")  q == Split(b, "/")
<1>1. u \in Str
  <2>1. o \in Str
        BY CharFacts, OneChar
  <2> HIDE DEF o
  <2> QED  BY <2>1, StrConcat
<1>2. Split(u, "/") = p \o q
      BY CharFacts, SplitConcat
<1>3. p \in Names /\ q \in Names /\ q # <<>>
      BY SplitRules
<1> HIDE DEF u, p, q
<1>4. Last(p \o q) = Last(q)
      BY <1>3, LastOfConcat
<1>5. get_file_name(u) = Last(p \o q)
      BY <1>1, <1>2, FileNameIs
<1>6. get_file_name(b) = Last(q)
      BY FileNameIs DEF q
<1> QED  BY <1>4, <1>5, <1>6 DEF u

LEMMA FileNameOfWritten ==
    ASSUME NEW ns \in Names, PlainNames(ns), ns # <<>>
    PROVE  get_file_name(Written(ns)) = Last(ns)
<1> DEFINE e == << <<>> >>
<1>1. Written(ns) = Join(ns) /\ Join(ns) \in Str
      BY WrittenIsJoin, JoinRules
<1>2. AllFree(ns, "/")
      BY DEF PlainNames, PlainName, AllFree
<1>3. Split(Join(ns), "/") = e \o ns
      BY <1>2, SplitJoin
<1>4. e \in Names
      BY CharFacts, OneItem DEF Names
<1> HIDE DEF e
<1>5. Last(e \o ns) = Last(ns)
      BY <1>4, LastOfConcat
<1>6. get_file_name(Join(ns)) = Last(Split(Join(ns), "/"))
      BY <1>1, FileNameIs
<1> QED  BY <1>1, <1>3, <1>5, <1>6

(* A path without its last name.                                           *)
LEMMA LastSlashAt ==
    ASSUME NEW a \in Str, NEW n \in Str, Free(n, "/")
    PROVE  LastSlash(Under(a, n)) = Len(a) + 1
<1> DEFINE o == <<"/">>  b == o \o n  u == a \o b
<1>1. o \in Str /\ Len(o) = 1 /\ o[1] = "/"
      BY CharFacts, OneChar
<1>2. Under(a, n) = u
  <2> HIDE DEF o
  <2>1. (a \o o) \o n = a \o (o \o n)
        BY <1>1, StrAssoc
  <2> QED  BY <2>1 DEF Under, o
<1> HIDE DEF o
<1>3. /\ b \in Str /\ Len(b) = 1 + Len(n) /\ Len(n) \in Nat /\ b[1] = "/"
      /\ \A k \in 1..Len(n) : b[1 + k] = n[k]
  <2>1. /\ o \o n \in Str /\ Len(n) \in Nat /\ Len(o \o n) = Len(o) + Len(n)
        /\ \A k \in 1..Len(o) : (o \o n)[k] = o[k]
        /\ \A k \in 1..Len(n) : (o \o n)[Len(o) + k] = n[k]
        BY <1>1, StrConcatAt
  <2> QED  BY <1>1, <2>1
<1> HIDE DEF b
<1>4. /\ u \in Str /\ Len(a) \in Nat /\ Len(u) = Len(a) + (1 + Len(n))
      /\ \A k \in 1..1 + Len(n) : u[Len(a) + k] = b[k]
  <2>1. /\ a \o b \in Str /\ Len(a) \in Nat /\ Len(a \o b) = Len(a) + Len(b)
        /\ \A k \in 1..Len(b) : (a \o b)[Len(a) + k] = b[k]
        BY <1>3, StrConcatAt
  <2> QED  BY <1>3, <2>1
<1> HIDE DEF u
<1>5. Len(a) + 1 \in Slashes(u)
  <2>1. 1 \in 1..1 + Len(n) /\ Len(a) + 1 \in 1..Len(u)
        BY <1>3, <1>4
  <2>2. u[Len(a) + 1] = "/"
        BY <1>3, <1>4, <2>1
  <2> QED  BY <2>1, <2>2 DEF Slashes
<1>6. ASSUME NEW j \in Slashes(u), ~(j <= Len(a) + 1) PROVE FALSE
  <2>1. j \in 1..Len(u) /\ u[j] = "/"
        BY <1>4, <1>6 DEF Slashes
  <2>2. j - Len(a) - 1 \in 1..Len(n)
        BY <1>3, <1>4, <1>6, <2>1
  <2>3. 1 + (j - Len(a) - 1) \in 1..1 + Len(n) /\ Len(a) + (1 + (j - Len(a) - 1)) = j
        BY <1>3, <1>4, <2>1, <2>2
  <2>4. u[j] = b[1 + (j - Len(a) - 1)]
        BY <1>4, <2>3
  <2>5. b[1 + (j - Len(a) - 1)] = n[j - Len(a) - 1]
        BY <1>3, <2>2
  <2> QED  BY <2>1, <2>2, <2>4, <2>5 DEF Free
<1>7. LastSlash(u) = Len(a) + 1
      BY <1>5, <1>6, IsLastSlash
<1> QED  BY <1>2, <1>7

LEMMA CutOfWritten ==
    ASSUME NEW ns \in Names, PlainNames(ns), 2 <= Len(ns)
    PROVE  /\ Front(ns) \in Names /\ Front(ns) # <<>> /\ PlainNames(Front(ns))
           /\ Cut(Written(ns)) = Written(Front(ns))
           /\ ns = Append(Front(ns), Last(ns))
<1> DEFINE m == Front(ns)  n == Last(ns)  a == Join(m)
<1>1. ns # <<>>
      BY EmptySeq DEF Names
<1>2. m \in Names /\ Len(m) = Len(ns) - 1 /\ Len(ns) \in Nat /\ n \in Str /\ ns = Append(m, n)
      BY <1>1, FrontRules DEF Names
<1> HIDE DEF m, n
<1>3. m # <<>>
  <2>1. Len(m) # 0
        BY <1>2
  <2> QED  BY <1>2, <2>1, EmptySeq
<1>4. PlainNames(m) /\ PlainName(n)
      BY <1>2, PlainRules
<1>5. Written(ns) = Under(a, n) /\ Written(m) = a /\ a \in Str
  <2>1. Written(ns) = Join(ns) /\ Written(m) = Join(m)
        BY <1>1, <1>3, WrittenIsJoin
  <2>2. Join(Append(m, n)) = Under(Join(m), n) /\ Join(m) \in Str
        BY <1>2, JoinRules
  <2> QED  BY <1>2, <2>1, <2>2
<1>6. Len(a) \in Nat \ {0}
      BY <1>2, <1>3, JoinIsLong
<1> HIDE DEF a
<1>7. LastSlash(Under(a, n)) = Len(a) + 1
      BY <1>2, <1>4, <1>5, LastSlashAt DEF PlainName
<1>8. Cut(Under(a, n)) = SubSeq(Under(a, n), 1, Len(a))
  <2>1. ~(Len(a) + 1 <= 1) /\ Len(a) + 1 - 1 = Len(a)
        BY <1>6
  <2> QED  BY <1>7, <2>1 DEF Cut
<1>9. SubSeq(Under(a, n), 1, Len(a)) = a
  <2> DEFINE o == <<"/">>
  <2>1. o \in Str
        BY CharFacts, OneChar
  <2> HIDE DEF o
  <2>0. n \in Str /\ a \in Str
        BY <1>2, <1>5
  <2>4. (a \o o) \o n = a \o (o \o n)
        BY <2>0, <2>1, StrAssoc
  <2>5. o \o n \in Str
        BY <2>0, <2>1, StrConcat
  <2>2. (a \o o) \o n = a \o (o \o n) /\ o \o n \in Str
        BY <2>4, <2>5
  <2>3. SubSeq(a \o (o \o n), 1, Len(a)) = a
        BY <1>5, <2>2, FrontOfConcat
  <2> QED  BY <2>2, <2>3 DEF Under, o
<1> QED  BY <1>2, <1>3, <1>4, <1>5, <1>8, <1>9 DEF m, n

(* The last name of the argument, if plain, is that of what it means.      *)
LEMMA ResolveEnds ==
    ASSUME NEW x \in Names, NEW arg \in Str, Plain(arg)
    PROVE  \E y \in Names : Resolve(x \o Split(arg, "/")) = Append(y, get_file_name(arg))
<1> DEFINE p == Split(arg, "/")  f == Front(p)  n == get_file_name(arg)
<1>1. p \in Names /\ p # <<>>
      BY SplitRules
<1>2. n \in Str /\ n = Last(p)
      BY FileNameIs
<1>3. n \notin {<<>>, <<".">>, <<".", ".">>}
      BY Zenon DEF Plain
<1> HIDE DEF p, n
<1>4. f \in Names /\ p = Append(f, n)
      BY <1>1, <1>2, FrontRules DEF Names
<1> HIDE DEF f
<1>5. x \o Append(f, n) = Append(x \o f, n) /\ x \o f \in Names
  <2>1. f \in Names /\ n \in Str
        BY <1>2, <1>4
  <2>2. x \o f \in Names
        BY <2>1, NamesConcatAt
  <2>3. x \o Append(f, n) = Append(x \o f, n)
        BY <2>1, ConcatAppend DEF Names
  <2> QED  BY <2>2, <2>3
<1> DEFINE z == x \o f
<1>6. z \in Names /\ x \o p = Append(z, n)
      BY <1>4, <1>5
<1> HIDE DEF z
<1>7. Resolve(Append(z, n)) = Entered(Resolve(z), n) /\ Resolve(z) \in Names
      BY <1>2, <1>6, ResolveRules
<1>8. Entered(Resolve(z), n) = Append(Resolve(z), n)
      BY <1>3, EnteredRules
<1> QED  BY <1>6, <1>7, <1>8 DEF p, n

LEMMA ResolveLast ==
    ASSUME NEW x \in Names, NEW arg \in Str, Plain(arg)
    PROVE  /\ Resolve(x \o Split(arg, "/")) # <<>>
           /\ Last(Resolve(x \o Split(arg, "/"))) = get_file_name(arg)
<1> DEFINE n == get_file_name(arg)  r == Resolve(x \o Split(arg, "/"))
<1>1. n \in Str
      BY FileNameIs
<1>2. PICK y \in Names : r = Append(y, n)
      BY ResolveEnds
<1> HIDE DEF n, r
<1>3. Last(Append(y, n)) = n
      BY <1>1, FrontOfAppend DEF Names
<1>4. Append(y, n) # <<>>
      BY <1>1, AppendProperties DEF Names
<1> QED  BY <1>2, <1>3, <1>4 DEF n, r

(* The local file of a transfer has the name the user gave.                *)
LEMMA LocalIsText == LocalDir \in Str /\ LocalDir # <<>> /\ LocalDir[1] = "/"
<1>1. LocalDir \in Seq(Range(LocalDir)) /\ LocalDir # <<>> /\ LocalDir[1] = "/"
      BY InputAssumption DEF InputIsText
<1>2. Range(LocalDir) \subseteq Char
      BY DEF Char
<1>3. LocalDir \in Str
      BY <1>1, <1>2, SeqMonotonic DEF Str
<1> QED  BY <1>1, <1>3

LEMMA SimplifiedName ==
    ASSUME NEW path \in Str, Plain(path)
    PROVE  get_file_name(ClientSimplifyPath(LocalDir \o <<"/">> \o path)) = get_file_name(path)
<1> DEFINE d == LocalDir  o == <<"/">>  y == o \o path  full == d \o o \o path
           x == Split(d, "/") \o Split(path, "/")
<1>1. d \in Str /\ d # <<>> /\ d[1] = "/" /\ o \in Str
      BY LocalIsText, CharFacts, OneChar
<1>2. Split(full, "/") = x
      BY <1>1, CharFacts, SplitConcat
<1>3. x \in Names /\ AllFree(x, "/")
  <2> DEFINE a == Split(d, "/")  b == Split(path, "/")
  <2>1. a \in Names /\ b \in Names
        BY <1>1, SplitRules
  <2>2. AllFree(a, "/") /\ AllFree(b, "/")
        BY <1>1, CharFacts, PartsAreFree
  <2> HIDE DEF a, b
  <2>3. a \o b \in Names
        BY <2>1, NamesConcatAt
  <2>4. AllFree(a \o b, "/")
        BY <2>1, <2>2, AllFreeConcat
  <2> QED  BY <2>3, <2>4 DEF a, b
<1>4. Resolve(x) # <<>> /\ Last(Resolve(x)) = get_file_name(path)
  <2> DEFINE a == Split(d, "/")
  <2>1. a \in Names
        BY <1>1, SplitRules
  <2> HIDE DEF a
  <2>2. /\ Resolve(a \o Split(path, "/")) # <<>>
        /\ Last(Resolve(a \o Split(path, "/"))) = get_file_name(path)
        BY <2>1, ResolveLast
  <2> QED  BY <2>2 DEF a
<1> HIDE DEF d, o
<1>5. y \in Str
      BY <1>1, StrConcat
<1>6. full = d \o y
      BY <1>1, StrAssoc
<1> HIDE DEF y, full, x
<1>7. /\ d \o y \in Str /\ Len(d) \in Nat /\ Len(d \o y) = Len(d) + Len(y) /\ Len(y) \in Nat
      /\ \A k \in 1..Len(d) : (d \o y)[k] = d[k]
      BY <1>1, <1>5, StrConcatAt
<1>8. Len(d) # 0
      BY <1>1, EmptySeq DEF Str
<1>9. 1 \in 1..Len(d) /\ Len(d \o y) # 0
      BY <1>7, <1>8
<1>10. full \in Str /\ full # <<>> /\ full[1] = "/"
      BY <1>1, <1>6, <1>7, <1>9, EmptySeq
<1>11. simplifyPath(full) = Written(Resolve(x))
      BY <1>2, <1>10, SimplifyResolves
<1>12. Resolve(x) \in Names /\ PlainNames(Resolve(x))
      BY <1>3, ResolveRules, ResolveIsPlain
<1>13. get_file_name(Written(Resolve(x))) = Last(Resolve(x))
      BY <1>4, <1>12, FileNameOfWritten
<1> QED  BY <1>4, <1>11, <1>13 DEF ClientSimplifyPath, full, d, o

LEMMA NameOfName ==
    ASSUME NEW n \in Str, Free(n, "/")
    PROVE  get_file_name(n) = n
<1>1. Split(n, "/") = <<n>>
      BY CharFacts, SplitFree
<1>2. Last(<<n>>) = n
      BY DEF Last
<1> QED  BY <1>1, <1>2, FileNameIs

LEMMA TransferFile ==
    ASSUME NEW i \in {puts, gets}, NEW words, words[2] \in Str, i = gets => words[3] \in Str,
           Plain(words[2])
    PROVE  get_file_name(LocalFile(i, words)) = get_file_name(words[2])
<1> DEFINE n == get_file_name(words[2])
           path == IF i = puts THEN words[2] ELSE words[3] \o slash_file_name(words[2])
           last == IF i = puts THEN words[2] ELSE words[3]
<1>1. LocalFile(i, words) = IF last[1] = "/" THEN path ELSE ClientSimplifyPath(LocalDir \o <<"/">> \o path)
      BY DEF LocalFile
<1>2. n \in Str /\ Free(n, "/")
      BY FileNameIs
<1>3. path \in Str /\ get_file_name(path) = n
  <2>1. CASE i = puts
        BY <2>1
  <2>2. CASE i # puts
    <3> DEFINE w == words[3]  o == <<"/">>
    <3>1. w \in Str /\ o \in Str
          BY <2>2, CharFacts, OneChar
    <3>2. path = w \o (o \o n)
          BY <2>2 DEF slash_file_name
    <3> HIDE DEF w, n, o, path
    <3>3. o \o n \in Str
          BY <1>2, <3>1, StrConcat
    <3>4. w \o (o \o n) \in Str
          BY <3>1, <3>3, StrConcat
    <3>5. (w \o o) \o n = w \o (o \o n)
          BY <1>2, <3>1, StrAssoc
    <3>6. get_file_name(w \o o \o n) = get_file_name(n)
          BY <1>2, <3>1, FileNameUnder DEF o
    <3>7. get_file_name(n) = n
          BY <1>2, NameOfName
    <3> QED  BY <3>2, <3>4, <3>5, <3>6, <3>7
  <2> QED  BY <2>1, <2>2
<1> HIDE DEF path, last
<1>4. Plain(path)
      BY <1>3 DEF Plain
<1>5. get_file_name(ClientSimplifyPath(LocalDir \o <<"/">> \o path)) = get_file_name(path)
      BY <1>3, <1>4, SimplifiedName
<1> QED  BY <1>1, <1>3, <1>5

(* The same of the path the server makes of an argument.                   *)
LEMMA MeantEnds ==
    ASSUME NEW R, IsHome(R), workpath = Written(R), NEW arg \in Str, Plain(arg)
    PROVE  Meant(workpath, arg) # <<>> /\ Last(Meant(workpath, arg)) = get_file_name(arg)
<1>1. \E x \in Names : Meant(workpath, arg) = Resolve(x \o Split(arg, "/"))
  <2>1. CASE arg # <<>> /\ arg[1] = "/"
    <3> DEFINE acc == <<Account>>
    <3>1. acc \in Names
          BY AccountPlain, OneItem DEF Names
    <3>2. Meant(workpath, arg) = Resolve(acc \o Split(arg, "/"))
          BY <2>1, Zenon DEF Meant
    <3> QED  BY <3>1, <3>2
  <2>2. CASE ~(arg # <<>> /\ arg[1] = "/")
    <3>1. Meant(workpath, arg) = Resolve(Split(workpath, "/") \o Split(arg, "/"))
          BY <2>2, Zenon DEF Meant
    <3>2. Split(workpath, "/") \in Names
      <4>1. workpath \in Str
            BY WrittenRules DEF IsHome
      <4> QED  BY <4>1, SplitRules
    <3> QED  BY <3>1, <3>2
  <2> QED  BY <2>1, <2>2
<1> QED  BY <1>1, ResolveLast

LEMMA NameOfUserPath ==
    ASSUME NEW R, IsHome(R), workpath = Written(R), NEW arg \in Str, Plain(arg)
    PROVE  get_file_name(get_user_path(arg)) = get_file_name(arg)
<1> DEFINE ns == Meant(workpath, arg)
<1>1. ns \in Names /\ PlainNames(ns) /\ get_user_path(arg) = Written(ns)
      BY UserPath
<1>2. ns # <<>> /\ Last(ns) = get_file_name(arg)
      BY MeantEnds
<1> HIDE DEF ns
<1> QED  BY <1>1, <1>2, FileNameOfWritten

(* The entry the user named, from the resolved path.                       *)
LEMMA EntryOf ==
    ASSUME NEW R, IsHome(R), workpath = Written(R), NEW arg \in Str, 2 <= Len(Meant(workpath, arg))
    PROVE  LET path  == get_user_path(arg)
               meant == Meant(workpath, arg)
           IN  /\ meant = Append(splite_file_name(Cut(path)), get_file_name(path))
               /\ Plain(arg) => get_file_name(arg) = get_file_name(path)
<1> DEFINE ns == Meant(workpath, arg)  m == Front(ns)
<1>1. ns \in Names /\ PlainNames(ns) /\ get_user_path(arg) = Written(ns) /\ 2 <= Len(ns)
      BY UserPath
<1>2. Plain(arg) => Last(ns) = get_file_name(arg)
      BY MeantEnds
<1> HIDE DEF ns
<1>3. m \in Names /\ m # <<>> /\ PlainNames(m) /\ Cut(Written(ns)) = Written(m) /\ ns = Append(m, Last(ns))
      BY <1>1, CutOfWritten
<1>4. ns # <<>>
      BY <1>1, EmptySeq DEF Names
<1>5. get_file_name(Written(ns)) = Last(ns)
      BY <1>1, <1>4, FileNameOfWritten
<1> HIDE DEF m
<1>6. splite_file_name(Written(m)) = m
      BY <1>3, WrittenRules DEF splite_file_name
<1> QED  BY <1>1, <1>2, <1>3, <1>5, <1>6 DEF ns

-----------------------------------------------------------------------------
(* The words of a clean line, counted by its spaces.                       *)

LEMMA CountWords ==
    ASSUME NEW t, Clean(t)
    PROVE  /\ Cardinality(Blanks(t)) \in Nat
           /\ Free(t, Blank) => Cardinality(Blanks(t)) = 0
           /\ ~Free(t, Blank) => /\ Cardinality(Blanks(TheRest(t))) \in Nat
                                 /\ Cardinality(Blanks(t)) = 1 + Cardinality(Blanks(TheRest(t)))
<1> DEFINE n == Cardinality(Blanks(t))  w == FirstWord(t)  r == TheRest(t)  m == Cardinality(Blanks(r))
<1>1. t \in Str /\ r \in Str /\ w \in Str
      BY Parsed DEF Clean
<1>2. n \in Nat /\ Len(Split(t, Blank)) = n + 1
      BY <1>1, CountBlanks
<1>3. m \in Nat /\ Len(Split(r, Blank)) = m + 1
      BY <1>1, CountBlanks
<1> HIDE DEF n, m
<1>4. ASSUME Free(t, Blank) PROVE n = 0
  <2>1. Split(t, Blank) = <<w>>
        BY <1>4, Parsed
  <2>2. Len(<<w>>) = 1
        OBVIOUS
  <2> QED  BY <1>2, <2>1, <2>2
<1>5. ASSUME ~Free(t, Blank) PROVE n = 1 + m
  <2> DEFINE a == <<w>>  b == Split(r, Blank)
  <2>1. Split(t, Blank) = a \o b
        BY <1>5, Parsed
  <2>2. a \in Names /\ Len(a) = 1
        BY <1>1, OneItem DEF Names
  <2>3. b \in Names
        BY <1>1, SplitRules
  <2>4. Len(b) = m + 1
        BY <1>3
  <2> HIDE DEF a, b
  <2>5. Len(a \o b) = Len(a) + Len(b)
        BY <2>2, <2>3, NamesConcatAt
  <2>6. n + 1 = 1 + (m + 1)
        BY <1>2, <2>1, <2>2, <2>4, <2>5
  <2> QED  BY <1>2, <1>3, <2>6
<1> QED  BY <1>2, <1>3, <1>4, <1>5 DEF n, m

LEMMA NoWords ==
    ASSUME NEW t, Clean(t), Cardinality(Blanks(t)) = 0
    PROVE  Free(t, Blank)
<1>1. CASE ~Free(t, Blank)
  <2>1. /\ Cardinality(Blanks(TheRest(t))) \in Nat
        /\ Cardinality(Blanks(t)) = 1 + Cardinality(Blanks(TheRest(t)))
        BY <1>1, CountWords
  <2> QED  BY <2>1
<1> QED  BY <1>1

LEMMA OneWord ==
    ASSUME NEW t, Clean(t), Free(t, Blank)
    PROVE  Split(t, Blank)[1] = t
<1>1. Split(t, Blank) = <<t>>
      BY CharFacts, SplitFree DEF Clean
<1>2. <<t>>[1] = t
      OBVIOUS
<1> QED  BY <1>1, <1>2

LEMMA PairOf ==
    ASSUME NEW x \in Str, NEW y \in Str
    PROVE  <<x>> \o <<y>> = <<x, y>>
<1> DEFINE a == <<x>>  b == <<y>>  c == <<x, y>>
<1>1. a \in Names /\ b \in Names /\ Len(a) = 1 /\ Len(b) = 1 /\ a[1] = x /\ b[1] = y
      BY OneItem DEF Names
<1>2. c \in Names /\ Len(c) = 2 /\ c[1] = x /\ c[2] = y
      BY DEF Names
<1> HIDE DEF a, b, c
<1>3. /\ a \o b \in Names /\ Len(a \o b) = Len(a) + Len(b)
      /\ \A k \in 1..Len(a) : (a \o b)[k] = a[k]
      /\ \A k \in 1..Len(b) : (a \o b)[Len(a) + k] = b[k]
      BY <1>1, NamesConcatAt
<1>4. Len(a \o b) = 2 /\ (a \o b)[1] = x /\ (a \o b)[2] = y
  <2>1. 1 \in 1..Len(a) /\ 1 \in 1..Len(b) /\ Len(a) + 1 = 2
        BY <1>1
  <2>2. (a \o b)[1] = a[1]
        BY <1>3, <2>1
  <2>3. (a \o b)[Len(a) + 1] = b[1]
        BY <1>3, <2>1
  <2>4. Len(a \o b) = 2
        BY <1>1, <1>3
  <2> QED  BY <1>1, <2>1, <2>2, <2>3, <2>4
<1>5. \A k \in 1..2 : k = 1 \/ k = 2
      OBVIOUS
<1>6. a \o b = c
      BY <1>2, <1>3, <1>4, <1>5, SeqEqual DEF Names
<1> QED  BY <1>6 DEF a, b, c

LEMMA TwoWords ==
    ASSUME NEW t, Clean(t), Cardinality(Blanks(t)) = 1
    PROVE  /\ splite_argument(t) # <<>>
           /\ splite_argument(t)[1] = Split(t, Blank)[1] /\ Split(t, Blank)[1] \in Str
           /\ splite_argument(t)[2] = Split(t, Blank)[2] /\ Split(t, Blank)[2] \in Str
<1> DEFINE w == FirstWord(t)  r == TheRest(t)
<1>1. ~Free(t, Blank)
  <2>1. Free(t, Blank) => Cardinality(Blanks(t)) = 0
        BY CountWords
  <2> QED  BY <2>1
<1>2. w \in Str /\ Clean(r)
      BY Parsed
<1>3. splite_argument(t) = <<w, r>> /\ splite_argument(t) # <<>>
      BY <1>1, Parsed
<1>4. Cardinality(Blanks(r)) = 0
  <2>1. /\ Cardinality(Blanks(r)) \in Nat
        /\ Cardinality(Blanks(t)) = 1 + Cardinality(Blanks(r))
        BY <1>1, CountWords
  <2> QED  BY <2>1
<1>5. Free(r, Blank)
      BY <1>2, <1>4, NoWords
<1>6. Split(r, Blank) = <<r>>
      BY <1>2, <1>5, CharFacts, SplitFree DEF Clean
<1>7. Split(t, Blank) = <<w>> \o Split(r, Blank)
      BY <1>1, Parsed
<1> HIDE DEF w, r
<1>8. <<w>> \o <<r>> = <<w, r>>
      BY <1>2, PairOf DEF Clean
<1>9. r \in Str /\ <<w, r>>[1] = w /\ <<w, r>>[2] = r
      BY <1>2 DEF Clean
<1> QED  BY <1>2, <1>3, <1>6, <1>7, <1>8, <1>9

LEMMA FitIs ==
    ASSUME NEW i \in 1..8, NEW n \in Nat, SpacesFit(i, n)
    PROVE  /\ i \in {cd, mkdir, rm} => n = 1
           /\ i \in {2, 3} => n = 0 \/ n = 1
           /\ i \in {puts, gets} => n = 2
BY DEF SpacesFit, cd, mkdir, puts, gets, rm

-----------------------------------------------------------------------------
(* The invariant: the user is at or below their root, in a path written    *)
(* without empty names or dots; a structure under way has a clean line,    *)
(* with the spaces its command asks for.                                   *)

IsSent(q) ==
    /\ Clean(q.data)
    /\ q.no \in 1..8 /\ Begins(q.no, q.data)
    /\ SpacesFit(q.no, Cardinality(Blanks(q.data)))
    /\ q.no \in {puts, gets} => q.file = LocalFile(q.no, Split(q.data, Blank))

HomeInv == \E R : IsHome(R) /\ workpath = Written(R)
LineInv == line \in Str /\ Free(line, Newline)
SentInv == sent # None => IsSent(sent)

IInv == HomeInv /\ LineInv /\ SentInv

LEMMA InitIInv == Init => IInv
<1> SUFFICES ASSUME Init PROVE IInv
    OBVIOUS
<1> DEFINE R == <<Account>>
<1>1. HomeInv
  <2>1. R \in Names /\ R # <<>> /\ R[1] = Account /\ Len(R) = 1
        BY AccountPlain, OneItem DEF Names
  <2>2. PlainNames(R)
        BY <2>1, AccountPlain DEF PlainNames
  <2>3. Written(R) = workpath
    <3>1. Written(R) = Join(R)
          BY <2>1, WrittenIsJoin
    <3>2. Join(Append(<<>>, Account)) = Under(Join(<<>>), Account) /\ Join(<<>>) = <<>>
      <4>1. <<>> \in Names /\ Account \in Str
            BY EmptySeq, AccountPlain DEF Names
      <4> QED  BY <4>1, JoinRules
    <3>3. Append(<<>>, Account) = R
          BY AccountPlain, OneItem
    <3>4. <<>> \o <<"/">> = <<"/">>
      <4>1. <<"/">> \in Str
            BY CharFacts, OneChar
      <4> QED  BY <4>1, ConcatEmptySeq DEF Str
    <3>5. workpath = <<"/">> \o Account
          BY DEF Init
    <3> QED  BY <3>1, <3>2, <3>3, <3>4, <3>5, Zenon DEF Under
  <2> QED  BY <2>1, <2>2, <2>3, Zenon DEF HomeInv, IsHome
<1>2. LineInv
      BY EmptySeq DEF Init, LineInv, Str, Free
<1>3. SentInv
      BY DEF Init, SentInv
<1> QED  BY <1>1, <1>2, <1>3 DEF IInv

LEMMA TypesIInv ==
    ASSUME IInv, Types
    PROVE  IInv'
<1>1. UNCHANGED <<workpath, sent>>
      BY DEF Types
<1>2. HomeInv'
      BY <1>1 DEF IInv, HomeInv
<1>3. SentInv'
      BY <1>1 DEF IInv, SentInv
<1>4. line \in Str /\ Free(line, Newline)
      BY DEF IInv, LineInv
<1>5. (\E i \in DOMAIN order : line' = order[i]) \/ (\E c \in Chars : line' = Append(line, c))
      BY Zenon DEF Types
<1>6. LineInv'
  <2>1. CASE \E i \in DOMAIN order : line' = order[i]
    <3>1. PICK i \in DOMAIN order : line' = order[i]
          BY <2>1
    <3>2. order[i] \in Str /\ Free(order[i], Newline)
          BY OrderRules
    <3> QED  BY <3>1, <3>2, Zenon DEF LineInv
  <2>2. CASE \E c \in Chars : line' = Append(line, c)
    <3>1. PICK c \in Chars : line' = Append(line, c)
          BY <2>2
    <3>2. c \in Char
          BY DEF Char
    <3>3. c # Newline
      <4>1. Newline \notin Chars
            BY InputAssumption, Zenon DEF InputIsText, Newline
      <4> QED  BY <4>1
    <3> DEFINE l == line
    <3>4. l \in Str /\ Free(l, Newline)
          BY <1>4
    <3> HIDE DEF l
    <3>5. Append(l, c) \in Str
          BY <3>2, <3>4, StrAppend
    <3>6. Free(Append(l, c), Newline)
          BY <3>2, <3>3, <3>4, FreeRules
    <3> QED  BY <3>1, <3>5, <3>6, Zenon DEF LineInv, l
  <2> QED  BY <1>5, <2>1, <2>2
<1> QED  BY <1>2, <1>3, <1>6 DEF IInv

LEMMA ExecutesMakes ==
    ASSUME Executes
    PROVE  LET t == remove_space(Append(line, Newline))
               i == CommandOf(t)
           IN  \/ sent' = None
               \/ /\ i # 0 /\ SpacesFit(i, Cardinality(Blanks(t)))
                  /\ sent' = [no |-> i, data |-> t,
                              file |-> IF i \in {puts, gets} THEN LocalFile(i, Split(t, Blank)) ELSE None]
<1> DEFINE t == remove_space(Append(line, Newline))  i == CommandOf(t)  n == Cardinality(Blanks(t))
<1>1. IF i = 0 \/ ~SpacesFit(i, n)
      THEN sent' = None
      ELSE IF i \in {puts, gets}
      THEN \/ sent' = [no |-> i, data |-> t, file |-> LocalFile(i, Split(t, Blank))]
           \/ sent' = None
      ELSE sent' = [no |-> i, data |-> t, file |-> None]
      BY Zenon DEF Executes, ClientRemoveSpace, Spaces, Blanks, Blank, Newline
<1> HIDE DEF t, i, n
<1>2. \/ sent' = None
      \/ /\ i # 0 /\ SpacesFit(i, n)
         /\ sent' = [no |-> i, data |-> t,
                     file |-> IF i \in {puts, gets} THEN LocalFile(i, Split(t, Blank)) ELSE None]
      BY <1>1
<1> QED  BY <1>2, Zenon DEF t, i, n

LEMMA ExecutesIInv ==
    ASSUME IInv, Executes
    PROVE  IInv'
<1> DEFINE l == line  s == Append(l, Newline)  t == remove_space(s)  i == CommandOf(t)
           v == [no |-> i, data |-> t,
                 file |-> IF i \in {puts, gets} THEN LocalFile(i, Split(t, Blank)) ELSE None]
<1>1. UNCHANGED workpath /\ line' = <<>>
      BY DEF Executes
<1>2. HomeInv'
      BY <1>1 DEF IInv, HomeInv
<1>3. LineInv'
  <2>1. <<>> \in Str /\ Free(<<>>, Newline)
        BY EmptySeq DEF Str, Free
  <2> QED  BY <1>1, <2>1, Zenon DEF LineInv
<1>4. Clean(t)
  <2>1. l \in Str /\ Free(l, Newline)
        BY DEF IInv, LineInv
  <2> HIDE DEF l
  <2>2. /\ s \in Str /\ Len(l) \in Nat /\ Len(s) = Len(l) + 1
        /\ \A k \in 1..Len(l) : s[k] = l[k]
        BY <2>1, CharFacts, StrAppend
  <2> HIDE DEF s
  <2>3. \A k \in 1..Len(s) : k < Len(s) => k \in 1..Len(l)
        BY <2>2
  <2>4. OneLine(s)
        BY <2>1, <2>2, <2>3 DEF OneLine, Free
  <2> QED  BY <2>2, <2>4, RemoveTidies
<1>5. sent' = None \/ (i # 0 /\ SpacesFit(i, Cardinality(Blanks(t))) /\ sent' = v)
      BY ExecutesMakes
<1>6. SentInv'
  <2>1. CASE sent' = None
        BY <2>1, Zenon DEF SentInv
  <2>2. CASE i # 0 /\ SpacesFit(i, Cardinality(Blanks(t))) /\ sent' = v
    <3> HIDE DEF t
    <3>1. i \in 1..8 /\ Begins(i, t)
          BY <1>4, <2>2, CommandBegins DEF Clean
    <3> HIDE DEF i
    <3>2. v.no = i /\ v.data = t
          OBVIOUS
    <3>3. i \in {puts, gets} => v.file = LocalFile(i, Split(t, Blank))
          OBVIOUS
    <3> HIDE DEF v
    <3>4. IsSent(v)
          BY <1>4, <2>2, <3>1, <3>2, <3>3 DEF IsSent
    <3> QED  BY <2>2, <3>4, Zenon DEF SentInv
  <2> QED  BY <1>5, <2>1, <2>2
<1> QED  BY <1>2, <1>3, <1>6 DEF IInv

-----------------------------------------------------------------------------
(* Connects. *)

TheHandler(w) == IF \E n \in DOMAIN order : order[n] = w
                 THEN CHOOSE n \in DOMAIN order : order[n] = w ELSE 0

Dies(i, arg) == i \in {puts, gets} /\ splite_argument(arg) = <<>>

LEMMA ConnectsMakes ==
    ASSUME IInv, Connects
    PROVE  LET t   == sent.data
               arg == TheRest(t)
               i   == TheHandler(FirstWord(t))
           IN  /\ sent # None /\ IsSent(sent)
               /\ served' = [request |-> sent, handler |-> i, argument |-> arg, from |-> workpath,
                             died |-> Dies(i, arg),
                             target |-> IF i = 0 \/ Dies(i, arg) THEN None ELSE Target(i, arg)]
               /\ IF i = cd THEN ChangesDir(get_user_path(arg)) ELSE UNCHANGED workpath
               /\ sent' = None /\ UNCHANGED line
<1> DEFINE t == sent.data
<1>1. sent # None /\ sent' = None /\ UNCHANGED line
      BY DEF Connects
<1>2. IsSent(sent)
      BY <1>1 DEF IInv, SentInv
<1>3. remove_space(t) = t
      BY <1>2, CleanStays DEF IsSent
<1> DEFINE Made(x) ==
             LET arg == TheRest(x)
                 i   == TheHandler(FirstWord(x))
             IN  /\ served' = [request |-> sent, handler |-> i, argument |-> arg, from |-> workpath,
                               died |-> Dies(i, arg),
                               target |-> IF i = 0 \/ Dies(i, arg) THEN None ELSE Target(i, arg)]
                 /\ IF i = cd THEN ChangesDir(get_user_path(arg)) ELSE UNCHANGED workpath
<1>4. Made(remove_space(t))
      BY Zenon DEF Connects, TheHandler, Dies
<1>5. Made(t)
  <2> HIDE DEF Made
  <2> QED  BY <1>3, <1>4
<1> QED  BY <1>1, <1>2, <1>5

(* A handler runs with the number of the structure and the words of its    *)
(* line.                                                                   *)
LEMMA HandlerIs ==
    ASSUME NEW q, IsSent(q)
    PROVE  LET i == TheHandler(FirstWord(q.data))
           IN  i = 0 \/ (i = q.no /\ i \in 1..8 /\ order[i] = FirstWord(q.data))
<1> DEFINE t == q.data  w == FirstWord(t)  i == TheHandler(w)
<1>1. Clean(t) /\ q.no \in 1..8 /\ Begins(q.no, t)
      BY DEF IsSent
<1> HIDE DEF t, w
<1> SUFFICES ASSUME i # 0 PROVE i = q.no /\ i \in 1..8 /\ order[i] = w
    BY DEF t, w
<1>2. i \in DOMAIN order /\ order[i] = w
      BY Zenon DEF TheHandler
<1> HIDE DEF i
<1>3. Begins(i, t)
      BY <1>1, <1>2, FirstWordBegins DEF w
<1>4. i = q.no
      BY <1>1, <1>3, BeginsOnce
<1> QED  BY <1>1, <1>2, <1>4

LEMMA ArgumentIs ==
    ASSUME NEW q, IsSent(q), TheHandler(FirstWord(q.data)) # 0
    PROVE  LET i   == TheHandler(FirstWord(q.data))
               arg == TheRest(q.data)
           IN  /\ i = q.no /\ i \in 1..8 /\ order[i] = FirstWord(q.data)
               /\ Clean(arg) /\ arg \in Str
               /\ i \in {cd, mkdir, rm} => Free(arg, Blank) /\ arg # <<>>
               /\ i \in {puts, gets} => Cardinality(Blanks(arg)) = 1
<1> DEFINE t == q.data  w == FirstWord(t)  i == TheHandler(w)  arg == TheRest(t)
           n == Cardinality(Blanks(t))  m == Cardinality(Blanks(arg))
<1>1. Clean(t) /\ SpacesFit(q.no, n)
      BY DEF IsSent
<1>2. i = q.no /\ i \in 1..8 /\ order[i] = w
      BY HandlerIs
<1>3. Clean(arg) /\ arg \in Str
      BY <1>1, Parsed DEF Clean
<1>4. /\ n \in Nat
      /\ Free(t, Blank) => n = 0
      /\ ~Free(t, Blank) => m \in Nat /\ n = 1 + m
      BY <1>1, CountWords
<1>5. arg = <<>> <=> Free(t, Blank)
      BY <1>1, Parsed
<1>6. m = 0 => Free(arg, Blank)
      BY <1>3, NoWords
<1> HIDE DEF t, w, i, arg, n, m
<1>7. /\ i \in {cd, mkdir, rm} => n = 1
      /\ i \in {puts, gets} => n = 2
      BY <1>1, <1>2, <1>4, FitIs
<1>8. i \in {cd, mkdir, rm} => Free(arg, Blank) /\ arg # <<>>
  <2> SUFFICES ASSUME i \in {cd, mkdir, rm} PROVE Free(arg, Blank) /\ arg # <<>>
      OBVIOUS
  <2>1. ~Free(t, Blank)
        BY <1>4, <1>7
  <2>2. m = 0
        BY <1>4, <1>7, <2>1
  <2> QED  BY <1>5, <1>6, <2>1, <2>2
<1>9. i \in {puts, gets} => m = 1
  <2> SUFFICES ASSUME i \in {puts, gets} PROVE m = 1
      OBVIOUS
  <2>1. ~Free(t, Blank)
        BY <1>4, <1>7
  <2> QED  BY <1>4, <1>7, <2>1
<1> QED  BY <1>2, <1>3, <1>8, <1>9 DEF t, w, i, arg, m

LEMMA HomeAfter ==
    ASSUME IInv, NEW arg \in Str, ChangesDir(get_user_path(arg))
    PROVE  HomeInv'
<1>1. PICK R : IsHome(R) /\ workpath = Written(R)
      BY DEF IInv, HomeInv
<1>2. CASE UNCHANGED workpath
      BY <1>1, <1>2 DEF HomeInv
<1>3. CASE QueryCdMayFind(get_user_path(arg)) /\ workpath' = get_user_path(arg)
  <2> DEFINE M == Meant(workpath, arg)
  <2>1. M \in Names /\ PlainNames(M) /\ get_user_path(arg) = Written(M)
        BY <1>1, UserPath
  <2> HIDE DEF M
  <2>2. Split(Tail(Written(M)), "/")[1] = Account
        BY <1>3, <2>1 DEF QueryCdMayFind, splite_file_name
  <2>3. M # <<>>
    <3> SUFFICES ASSUME M = <<>> PROVE FALSE
        OBVIOUS
    <3>1. Split(Tail(Written(M)), "/") = << <<>> >>
          BY <2>1, WrittenRules
    <3>2. << <<>> >>[1] = <<>>
          OBVIOUS
    <3>3. Account # <<>>
          BY AccountPlain
    <3> QED  BY <2>2, <3>1, <3>2, <3>3
  <2>4. Split(Tail(Written(M)), "/") = M
        BY <2>1, <2>3, WrittenRules
  <2>5. IsHome(M)
        BY <2>1, <2>2, <2>3, <2>4 DEF IsHome
  <2>6. workpath' = Written(M)
        BY <1>3, <2>1
  <2> QED  BY <2>5, <2>6, Zenon DEF HomeInv
<1> QED  BY <1>2, <1>3 DEF ChangesDir

LEMMA ConnectsIInv ==
    ASSUME IInv, Connects
    PROVE  IInv'
<1> DEFINE q == sent  i == TheHandler(FirstWord(q.data))  arg == TheRest(q.data)
<1>1. /\ IsSent(q)
      /\ IF i = cd THEN ChangesDir(get_user_path(arg)) ELSE UNCHANGED workpath
      /\ sent' = None /\ UNCHANGED line
      BY ConnectsMakes
<1>2. LineInv'
      BY <1>1 DEF IInv, LineInv
<1>3. SentInv'
      BY <1>1, Zenon DEF SentInv
<1>4. HomeInv'
  <2>1. CASE i = cd
    <3> HIDE DEF q
    <3>1. i # 0
          BY <2>1 DEF cd
    <3>2. arg \in Str
          BY <1>1, <3>1, ArgumentIs
    <3> HIDE DEF i, arg
    <3>3. ChangesDir(get_user_path(arg))
          BY <1>1, <2>1
    <3> QED  BY <3>2, <3>3, HomeAfter
  <2>2. CASE i # cd
    <3>1. UNCHANGED workpath
          BY <1>1, <2>2
    <3> QED  BY <3>1 DEF IInv, HomeInv
  <2> QED  BY <2>1, <2>2
<1> QED  BY <1>2, <1>3, <1>4 DEF IInv

(* A line whose first word is too long changes nothing but the answer,     *)
(* which no handler has given.                                             *)
LEMMA OverrunsMakes ==
    ASSUME IInv, Overruns
    PROVE  /\ served'.request = sent /\ ~Fits(FirstWord(sent.data)) /\ served'.handler = 0
           /\ sent' = None /\ UNCHANGED <<workpath, line>>
<1>1. sent # None /\ sent' = None /\ UNCHANGED <<workpath, line>>
      BY DEF Overruns
<1>2. served'.request = sent /\ served'.handler = 0
  <2> DEFINE q == sent  w == workpath
  <2>1. \E dies \in BOOLEAN :
           served' = [request |-> q, handler |-> 0, argument |-> <<>>,
                      from |-> w, died |-> dies, target |-> None]
        BY DEF Overruns
  <2> HIDE DEF q, w
  <2>2. served'.request = q /\ served'.handler = 0
        BY <2>1
  <2> QED  BY <2>2 DEF q
<1>3. remove_space(sent.data) = sent.data
      BY <1>1, CleanStays DEF IInv, SentInv, IsSent
<1>4. ~Fits(FirstWord(remove_space(sent.data)))
      BY DEF Overruns
<1>5. ~Fits(FirstWord(sent.data))
      BY <1>3, <1>4
<1> QED  BY <1>1, <1>2, <1>5

LEMMA OverrunsIInv ==
    ASSUME IInv, Overruns
    PROVE  IInv'
<1>1. sent' = None /\ UNCHANGED <<workpath, line>>
      BY OverrunsMakes
<1>2. HomeInv' /\ LineInv'
      BY <1>1 DEF IInv, HomeInv, LineInv
<1>3. SentInv'
      BY <1>1, Zenon DEF SentInv
<1> QED  BY <1>2, <1>3 DEF IInv

LEMMA StepIInv ==
    ASSUME IInv, [Next]_vars
    PROVE  IInv'
<1>1. CASE Types
      BY <1>1, TypesIInv
<1>2. CASE Executes
      BY <1>2, ExecutesIInv
<1>3. CASE Connects
      BY <1>3, ConnectsIInv
<1>4. CASE Overruns
      BY <1>4, OverrunsIInv
<1>5. CASE UNCHANGED vars
  <2>1. UNCHANGED <<workpath, line, sent>>
        BY <1>5 DEF vars
  <2> QED  BY <2>1 DEF IInv, HomeInv, LineInv, SentInv
<1> QED  BY <1>1, <1>2, <1>3, <1>4, <1>5 DEF Next

(* What IInv says holds of the whole specification.                        *)
LEMMA AlwaysIInv == Spec => []IInv
<1>1. Init => IInv
      BY InitIInv
<1>2. IInv /\ [Next]_vars => IInv'
      BY StepIInv
<1> QED  BY <1>1, <1>2, PTL DEF Spec

(* The working directory a user's next token carries is at or below their  *)
(* root, written without empty names or dots, whatever they typed.         *)
THEOREM WorkpathIsHome == Spec => []WorkpathStaysHome
<1>1. IInv => WorkpathStaysHome
  <2> SUFFICES ASSUME IInv PROVE WorkpathStaysHome
      OBVIOUS
  <2>1. PICK R : IsHome(R) /\ workpath = Written(R)
        BY DEF IInv, HomeInv
  <2>2. R \in Names /\ PlainNames(R) /\ R # <<>> /\ R[1] = Account
        BY <2>1 DEF IsHome
  <2>3. Split(Tail(workpath), "/") = R
        BY <2>1, <2>2, WrittenRules
  <2>4. Resolve(R) = R
        BY <2>2, ResolvePlain
  <2> QED  BY <2>1, <2>2, <2>3, <2>4, Zenon DEF WorkpathStaysHome
<1> QED  BY <1>1, AlwaysIInv, PTL

-----------------------------------------------------------------------------
(* What a handler works on.                                                *)

LEMMA TargetIs ==
    ASSUME NEW i \in 1..8, NEW arg
    PROVE  /\ i \in {1, 2, 3}  => Target(i, arg).path = get_user_path(arg)
           /\ i \in {mkdir, rm} => /\ Target(i, arg).dir = Cut(get_user_path(arg))
                                   /\ Target(i, arg).name = get_file_name(arg)
           /\ i = gets => LET path == get_user_path(splite_argument(arg)[1])
                          IN  Target(i, arg).dir = Cut(path) /\ Target(i, arg).name = get_file_name(path)
           /\ i = puts => /\ Target(i, arg).dir = get_user_path(splite_argument(arg)[2])
                          /\ Target(i, arg).name = get_file_name(splite_argument(arg)[1])
<1>1. mkdir = 5 /\ puts = 6 /\ gets = 7 /\ rm = 8
      BY DEF mkdir, puts, gets, rm
<1>2. ASSUME i \in {1, 2, 3} PROVE Target(i, arg) = [path |-> get_user_path(arg)]
      BY <1>1, <1>2 DEF Target
<1>3. ASSUME i \in {mkdir, rm} PROVE Target(i, arg) = EntryToChange(arg)
      BY <1>1, <1>3 DEF Target
<1>4. ASSUME i = gets PROVE Target(i, arg) = EntryToGet(arg)
      BY <1>1, <1>4 DEF Target
<1>5. ASSUME i = puts PROVE Target(i, arg) = EntryToPut(arg)
      BY <1>1, <1>5 DEF Target
<1>6. ASSUME i \in {1, 2, 3} PROVE Target(i, arg).path = get_user_path(arg)
      BY <1>2, <1>6
<1>7. ASSUME i \in {mkdir, rm}
      PROVE  /\ Target(i, arg).dir = Cut(get_user_path(arg))
             /\ Target(i, arg).name = get_file_name(arg)
      BY <1>3, <1>7 DEF EntryToChange
<1>8. ASSUME i = gets
      PROVE  LET path == get_user_path(splite_argument(arg)[1])
             IN  Target(i, arg).dir = Cut(path) /\ Target(i, arg).name = get_file_name(path)
      BY <1>4, <1>8 DEF EntryToGet
<1>9. ASSUME i = puts
      PROVE  /\ Target(i, arg).dir = get_user_path(splite_argument(arg)[2])
             /\ Target(i, arg).name = get_file_name(splite_argument(arg)[1])
      BY <1>5, <1>9 DEF EntryToPut
<1> QED  BY <1>6, <1>7, <1>8, <1>9

LEMMA ServedIs ==
    ASSUME IInv, Connects
    PROVE  LET arg == TheRest(sent.data)
               i   == TheHandler(FirstWord(sent.data))
           IN  /\ IsSent(sent)
               /\ served'.request = sent /\ served'.handler = i /\ served'.argument = arg
               /\ served'.from = workpath /\ ~served'.died
               /\ Args' = Split(arg, Blank)
               /\ i # 0 => /\ served'.target = Target(i, arg)
                           /\ i = sent.no /\ i \in 1..8 /\ order[i] = FirstWord(sent.data)
                           /\ Clean(arg) /\ arg \in Str
                           /\ i \in {mkdir, rm} => Split(arg, Blank)[1] = arg
                           /\ i \in {puts, gets} =>
                                 /\ splite_argument(arg)[1] = Split(arg, Blank)[1]
                                 /\ splite_argument(arg)[2] = Split(arg, Blank)[2]
                                 /\ Split(arg, Blank)[1] \in Str
                                 /\ Split(arg, Blank)[2] \in Str
<1> DEFINE q == sent  arg == TheRest(q.data)  i == TheHandler(FirstWord(q.data))  d == Dies(i, arg)
           as == Split(arg, Blank)
           v == [request |-> sent, handler |-> i, argument |-> arg, from |-> workpath, died |-> d,
                 target |-> IF i = 0 \/ d THEN None ELSE Target(i, arg)]
<1>1. IsSent(q) /\ served' = v
      BY ConnectsMakes
<1>2. ASSUME i # 0
      PROVE  /\ i = q.no /\ i \in 1..8 /\ order[i] = FirstWord(q.data)
             /\ Clean(arg) /\ arg \in Str
             /\ i \in {mkdir, rm} => Free(arg, Blank)
             /\ i \in {puts, gets} => Cardinality(Blanks(arg)) = 1
  <2> HIDE DEF q
  <2> QED  BY <1>1, <1>2, ArgumentIs
<1>3. ASSUME i # 0, i \in {puts, gets}
      PROVE  /\ splite_argument(arg) # <<>>
             /\ splite_argument(arg)[1] = as[1] /\ as[1] \in Str
             /\ splite_argument(arg)[2] = as[2] /\ as[2] \in Str
  <2>1. Clean(arg) /\ Cardinality(Blanks(arg)) = 1
        BY <1>2, <1>3
  <2> HIDE DEF arg
  <2> QED  BY <2>1, TwoWords
<1>4. ASSUME i # 0, i \in {mkdir, rm} PROVE as[1] = arg
  <2>1. Clean(arg) /\ Free(arg, Blank)
        BY <1>2, <1>4
  <2> HIDE DEF arg
  <2> QED  BY <2>1, OneWord
<1>5. ~d
  <2>1. i \in {puts, gets} => i # 0
        BY DEF puts, gets
  <2> HIDE DEF i, arg
  <2> QED  BY <1>3, <2>1 DEF Dies
<1>6. /\ served'.request = sent /\ served'.handler = i /\ served'.argument = arg
      /\ served'.from = workpath /\ (i # 0 => served'.target = Target(i, arg))
  <2> HIDE DEF i, arg, d
  <2> QED  BY <1>1, <1>5
<1>7. ~served'.died
  <2> HIDE DEF i, arg, d, q
  <2>1. served'.died = d
        BY <1>1
  <2> QED  BY <1>5, <2>1, Zenon
<1>8. Args' = as
  <2> HIDE DEF arg
  <2> QED  BY <1>6, Zenon DEF Args, Blank
<1> QED  BY <1>1, <1>2, <1>3, <1>4, <1>6, <1>7, <1>8

LEMMA ConnectsResolves ==
    ASSUME IInv, Connects
    PROVE  PathsAreResolved'
<1> DEFINE arg == TheRest(sent.data)  i == TheHandler(FirstWord(sent.data))  as == Split(arg, Blank)
<1>1. /\ served'.handler = i /\ served'.argument = arg /\ served'.from = workpath /\ Args' = as
      /\ i # 0 => /\ served'.target = Target(i, arg) /\ i \in 1..8 /\ arg \in Str
                  /\ i = puts => splite_argument(arg)[2] = as[2] /\ as[2] \in Str
      BY ServedIs
<1>2. PICK R : IsHome(R) /\ workpath = Written(R)
      BY DEF IInv, HomeInv
<1> HIDE DEF arg, i, as
<1>3. ASSUME i \in {1, 2, 3}
      PROVE  served'.target.path = Written(Meant(workpath, arg))
  <2>0. i # 0
        BY <1>3
  <2>3. served'.target = Target(i, arg) /\ i \in 1..8 /\ arg \in Str
        BY <1>1, <2>0
  <2>1. Target(i, arg).path = get_user_path(arg)
        BY <1>3, <2>3, TargetIs
  <2>2. get_user_path(arg) = Written(Meant(workpath, arg))
        BY <1>2, <2>3, UserPath
  <2> QED  BY <2>1, <2>2, <2>3
<1>4. ASSUME i = puts
      PROVE  served'.target.dir = Written(Meant(workpath, as[2]))
  <2>1. i # 0
        BY <1>4 DEF puts
  <2>4. served'.target = Target(i, arg) /\ i \in 1..8 /\ splite_argument(arg)[2] = as[2] /\ as[2] \in Str
        BY <1>1, <1>4, <2>1
  <2>5. Target(i, arg).dir = get_user_path(splite_argument(arg)[2])
        BY <1>4, <2>4, TargetIs
  <2>3. get_user_path(as[2]) = Written(Meant(workpath, as[2]))
        BY <1>2, <2>4, UserPath
  <2> QED  BY <2>3, <2>4, <2>5
<1>5. Handled({1, 2, 3})' => served'.target.path = Written(Meant(served'.from, served'.argument))
      BY <1>1, <1>3 DEF Handled
<1>6. Handled({puts})' => served'.target.dir = Written(Meant(served'.from, Args'[2]))
      BY <1>1, <1>4 DEF Handled
<1> QED  BY <1>5, <1>6 DEF PathsAreResolved

LEMMA ConnectsNames ==
    ASSUME IInv, Connects
    PROVE  EntryIsNamed'
<1> DEFINE arg == TheRest(sent.data)  i == TheHandler(FirstWord(sent.data))  as == Split(arg, Blank)
<1>1. /\ served'.handler = i /\ served'.argument = arg /\ served'.from = workpath /\ Args' = as
      /\ i # 0 => /\ served'.target = Target(i, arg) /\ i \in 1..8 /\ arg \in Str
                  /\ i \in {mkdir, rm} => as[1] = arg
                  /\ i = gets => splite_argument(arg)[1] = as[1] /\ as[1] \in Str
      BY ServedIs
<1>2. PICK R : IsHome(R) /\ workpath = Written(R)
      BY DEF IInv, HomeInv
<1> HIDE DEF arg, i, as
<1> DEFINE meant == Meant(workpath, as[1])
<1>3. ASSUME i \in {mkdir, rm, gets}, i = gets \/ Plain(as[1]), 2 <= Len(meant)
      PROVE  Append(splite_file_name(served'.target.dir), served'.target.name) = meant
  <2>0. i # 0
        BY <1>3 DEF mkdir, rm, gets
  <2>1. i # 0 /\ i \in 1..8 /\ as[1] \in Str
        BY <1>1, <1>3, <2>0
  <2> DEFINE a == as[1]
  <2> HIDE DEF a
  <2>2. a \in Str /\ 2 <= Len(Meant(workpath, a))
        BY <1>3, <2>1 DEF a
  <2>3. /\ Meant(workpath, a) = Append(splite_file_name(Cut(get_user_path(a))), get_file_name(get_user_path(a)))
        /\ Plain(a) => get_file_name(a) = get_file_name(get_user_path(a))
        BY <1>2, <2>2, EntryOf
  <2>4. CASE i \in {mkdir, rm}
    <3>1. Plain(a)
      <4>1. i # gets
            BY <2>4 DEF mkdir, rm, gets
      <4> QED  BY <1>3, <4>1 DEF a
    <3>2. a = arg
          BY <1>1, <2>1, <2>4 DEF a
    <3>3. Target(i, arg).dir = Cut(get_user_path(a)) /\ Target(i, arg).name = get_file_name(a)
          BY <2>1, <2>4, <3>2, TargetIs
    <3> QED  BY <1>1, <2>1, <2>3, <3>1, <3>3 DEF a
  <2>5. CASE i = gets
    <3>1. splite_argument(arg)[1] = a
          BY <1>1, <2>1, <2>5 DEF a
    <3>2. Target(i, arg).dir = Cut(get_user_path(a)) /\ Target(i, arg).name = get_file_name(get_user_path(a))
          BY <2>1, <2>5, <3>1, TargetIs
    <3> QED  BY <1>1, <2>1, <2>3, <3>2 DEF a
  <2> QED  BY <1>3, <2>4, <2>5
<1> HIDE DEF meant
<1>4. ASSUME NEW k \in {mkdir, rm, gets}, Handled({k})', k = gets \/ Plain(Args[1])',
             2 <= Len(Meant(served.from, Args[1]))'
      PROVE  Append(splite_file_name(served'.target.dir), served'.target.name) = Meant(served.from, Args[1])'
  <2>1. i = k
        BY <1>1, <1>4 DEF Handled
  <2> QED  BY <1>1, <1>3, <1>4, <2>1 DEF meant
<1> QED  BY <1>4 DEF EntryIsNamed

LEMMA SameWords ==
    ASSUME NEW q, IsSent(q), TheHandler(FirstWord(q.data)) # 0
    PROVE  LET arg == TheRest(q.data)
           IN  <<order[TheHandler(FirstWord(q.data))]>>
                   \o (IF arg = <<>> THEN <<>> ELSE Split(arg, Blank)) = Split(q.data, Blank)
<1> DEFINE t == q.data  w == FirstWord(t)  arg == TheRest(t)  i == TheHandler(w)
           as == Split(arg, Blank)
<1>1. Clean(t) /\ order[i] = w
      BY HandlerIs DEF IsSent
<1>2. /\ w \in Str
      /\ arg = <<>> <=> Free(t, Blank)
      /\ Free(t, Blank) => Split(t, Blank) = <<w>>
      /\ ~Free(t, Blank) => Split(t, Blank) = <<w>> \o as
      BY <1>1, Parsed
<1> HIDE DEF t, w, arg, i, as
<1> DEFINE e == <<>>
<1>3. <<w>> \o e = <<w>>
  <2>1. <<w>> \in Names
        BY <1>2, OneItem DEF Names
  <2> QED  BY <2>1, ConcatEmptySeq DEF Names
<1>4. arg = e <=> Free(t, Blank)
      BY <1>2
<1> HIDE DEF e
<1>5. <<w>> \o (IF arg = e THEN e ELSE as) = Split(t, Blank)
      BY <1>2, <1>3, <1>4
<1> QED  BY <1>1, <1>5, Zenon DEF e, t, w, arg, i, as

(* The words of the line of a transfer: those of the argument come behind  *)
(* the command.                                                            *)
LEMMA TransferWords ==
    ASSUME NEW q, IsSent(q), TheHandler(FirstWord(q.data)) \in {puts, gets}
    PROVE  LET as == Split(TheRest(q.data), Blank)
               ws == Split(q.data, Blank)
           IN  ws[2] = as[1] /\ ws[3] = as[2]
<1> DEFINE t == q.data  w == FirstWord(t)  arg == TheRest(t)  i == TheHandler(w)
           as == Split(arg, Blank)  a == <<w>>
<1>1. i # 0
      BY DEF puts, gets
<1>2. Clean(t) /\ arg \in Str /\ Cardinality(Blanks(arg)) = 1
      BY <1>1, ArgumentIs DEF IsSent
<1>3. ~Free(t, Blank)
  <2> SUFFICES ASSUME Free(t, Blank) PROVE FALSE
      OBVIOUS
  <2>1. arg = <<>>
        BY <1>2, Parsed
  <2> HIDE DEF arg
  <2>2. Len(arg) = 0
        BY <2>1
  <2>3. Blanks(arg) = {}
        BY <2>2 DEF Blanks
  <2>4. Cardinality(Blanks(arg)) = 0
        BY <2>3, FS_EmptySet
  <2> QED  BY <1>2, <2>4
<1>4. w \in Str /\ Split(t, Blank) = a \o as
      BY <1>2, <1>3, Parsed
<1>5. as \in Names /\ Len(as) = 2
  <2>1. Len(as) = Cardinality(Blanks(arg)) + 1
        BY <1>2, CountBlanks
  <2>2. as \in Names
        BY <1>2, SplitRules
  <2> QED  BY <1>2, <2>1, <2>2
<1>6. a \in Names /\ Len(a) = 1
      BY <1>4, OneItem DEF Names
<1> HIDE DEF t, w, arg, i, as, a
<1>7. \A k \in 1..Len(as) : (a \o as)[Len(a) + k] = as[k]
      BY <1>5, <1>6, NamesConcatAt
<1>8. (a \o as)[2] = as[1] /\ (a \o as)[3] = as[2]
  <2>1. 1 \in 1..Len(as) /\ 2 \in 1..Len(as) /\ Len(a) + 1 = 2 /\ Len(a) + 2 = 3
        BY <1>5, <1>6
  <2>2. (a \o as)[Len(a) + 1] = as[1]
        BY <1>7, <2>1
  <2>3. (a \o as)[Len(a) + 2] = as[2]
        BY <1>7, <2>1
  <2> QED  BY <2>1, <2>2, <2>3
<1> QED  BY <1>4, <1>8 DEF t, as, arg

LEMMA ConnectsAgrees ==
    ASSUME IInv, Connects
    PROVE  ServerAgrees'
<1> DEFINE q == sent  t == q.data  arg == TheRest(t)  i == TheHandler(FirstWord(t))
           as == Split(arg, Blank)
<1>1. /\ IsSent(q)
      /\ served'.request = q /\ served'.handler = i /\ served'.argument = arg
      /\ ~served'.died /\ Args' = as
      /\ i # 0 => /\ served'.target = Target(i, arg) /\ i = q.no /\ i \in 1..8 /\ arg \in Str
                  /\ i \in {puts, gets} => /\ splite_argument(arg)[1] = as[1]
                                           /\ as[1] \in Str /\ as[2] \in Str
      BY ServedIs
<1>2. PICK R : IsHome(R) /\ workpath = Written(R)
      BY DEF IInv, HomeInv
<1>3. i # 0 => <<order[i]>> \o (IF arg = <<>> THEN <<>> ELSE as) = Split(t, Blank)
  <2> HIDE DEF q
  <2> QED  BY <1>1, SameWords
<1>4. ASSUME i \in {puts, gets}, Plain(as[1])
      PROVE  get_file_name(q.file) = served'.target.name
  <2>0. i # 0
        BY <1>4 DEF puts, gets
  <2> DEFINE ws == Split(t, Blank)
  <2>1. ws[2] = as[1] /\ ws[3] = as[2]
    <3> HIDE DEF q
    <3> QED  BY <1>1, <1>4, TransferWords
  <2>2. q.file = LocalFile(i, ws)
    <3>1. q.no \in {puts, gets} => q.file = LocalFile(q.no, Split(q.data, Blank))
          BY <1>1 DEF IsSent
    <3> HIDE DEF q, i
    <3>2. i = q.no
          BY <1>1, <2>0
    <3> QED  BY <1>4, <3>1, <3>2
  <2> HIDE DEF q, t, arg, i, as, ws
  <2>3. as[1] \in Str /\ as[2] \in Str /\ splite_argument(arg)[1] = as[1]
        BY <1>1, <1>4, <2>0
  <2>4. served'.target = Target(i, arg) /\ i \in 1..8
        BY <1>1, <2>0
  <2>5. get_file_name(LocalFile(i, ws)) = get_file_name(ws[2])
    <3>1. ws[2] \in Str /\ ws[3] \in Str /\ Plain(ws[2])
          BY <1>4, <2>1, <2>3
    <3> QED  BY <1>4, <3>1, TransferFile
  <2>6. CASE i = puts
    <3>1. Target(i, arg).name = get_file_name(splite_argument(arg)[1])
          BY <2>4, <2>6, TargetIs
    <3> QED  BY <2>1, <2>2, <2>3, <2>4, <2>5, <3>1
  <2>7. CASE i = gets
    <3>1. Target(i, arg).name = get_file_name(get_user_path(splite_argument(arg)[1]))
          BY <2>4, <2>7, TargetIs
    <3> DEFINE a == as[1]
    <3>2. a \in Str /\ Plain(a)
          BY <1>4, <2>3
    <3> HIDE DEF a
    <3>3. get_file_name(get_user_path(a)) = get_file_name(a)
          BY <1>2, <3>2, NameOfUserPath
    <3> QED  BY <2>1, <2>2, <2>3, <2>4, <2>5, <3>1, <3>3 DEF a
  <2> QED  BY <1>4, <2>6, <2>7
<1> HIDE DEF q, t, arg, i, as
<1>5. served'.handler \in {0, served'.request.no}
      BY <1>1
<1>6. served'.handler # 0 =>
        <<order[served'.handler]>> \o (IF served'.argument = <<>> THEN <<>> ELSE Args')
          = Split(served'.request.data, Blank)
      BY <1>1, <1>3, Zenon DEF t
<1>7. served'.handler \in {puts, gets} /\ Plain(Args'[1]) =>
        get_file_name(served'.request.file) = served'.target.name
      BY <1>1, <1>4
<1>8. ~served'.died
      BY <1>1
<1> QED  BY <1>5, <1>6, <1>7, <1>8, Zenon DEF ServerAgrees, Blank

(* Nothing is claimed of a line whose first word is too long.              *)
LEMMA OverrunsClaimsNothing ==
    ASSUME IInv, Overruns
    PROVE  (PathsAreResolved /\ EntryIsNamed /\ ServerAgrees)'
<1>1. served'.request = sent /\ ~Fits(FirstWord(sent.data)) /\ served'.handler = 0
      BY OverrunsMakes
<1>2. ~Fits(FirstWord(served'.request.data))
      BY <1>1
<1>3. ServerAgrees'
      BY <1>2, Zenon DEF ServerAgrees, Fits
<1>4. \A S : 0 \notin S => ~Handled(S)'
      BY <1>1 DEF Handled
<1>5. /\ ~Handled({1, 2, 3})' /\ ~Handled({puts})'
      /\ \A k \in {mkdir, rm, gets} : ~Handled({k})'
      BY <1>4 DEF mkdir, rm, gets, puts
<1> QED  BY <1>3, <1>5, Zenon DEF PathsAreResolved, EntryIsNamed

-----------------------------------------------------------------------------
(* The three properties of what was served.                                *)

ServedInv == IInv /\ PathsAreResolved /\ EntryIsNamed /\ ServerAgrees

LEMMA NothingServed ==
    ASSUME served = None
    PROVE  PathsAreResolved /\ EntryIsNamed /\ ServerAgrees
BY DEF PathsAreResolved, EntryIsNamed, ServerAgrees, Handled

LEMMA AlwaysServed == Spec => []ServedInv
<1>1. Init => ServedInv
  <2>1. Init => served = None
        BY DEF Init
  <2> QED  BY <2>1, InitIInv, NothingServed DEF ServedInv
<1>2. ServedInv /\ [Next]_vars => ServedInv'
  <2> SUFFICES ASSUME ServedInv, [Next]_vars PROVE ServedInv'
      OBVIOUS
  <2>1. IInv /\ IInv'
        BY StepIInv DEF ServedInv
  <2>2. (PathsAreResolved /\ EntryIsNamed /\ ServerAgrees)'
    <3>1. CASE Types
      <4>1. served' = None
            BY <3>1 DEF Types
      <4> QED  BY <4>1 DEF PathsAreResolved, EntryIsNamed, ServerAgrees, Handled
    <3>2. CASE UNCHANGED served
          BY <3>2 DEF ServedInv, PathsAreResolved, EntryIsNamed, ServerAgrees, Handled, Args
    <3>3. CASE Connects
          BY <2>1, <3>3, ConnectsResolves, ConnectsNames, ConnectsAgrees
    <3>4. Executes => UNCHANGED served
          BY DEF Executes
    <3>5. CASE Overruns
          BY <2>1, <3>5, OverrunsClaimsNothing
    <3> QED  BY <3>1, <3>2, <3>3, <3>4, <3>5 DEF Next, vars
  <2> QED  BY <2>1, <2>2 DEF ServedInv
<1> QED  BY <1>1, <1>2, PTL DEF Spec

(* get_user_path gives a handler the path that the argument means, written *)
(* the one way query_cd can compare with the tables.                       *)
THEOREM UserPathsAreResolved == Spec => []PathsAreResolved
<1>1. ServedInv => PathsAreResolved
      BY DEF ServedInv
<1> QED  BY <1>1, AlwaysServed, PTL

(* mkdir, rm and gets hand the tables the entry the user named.            *)
THEOREM UsersNameEntries == Spec => []EntryIsNamed
<1>1. ServedInv => EntryIsNamed
      BY DEF ServedInv
<1> QED  BY <1>1, AlwaysServed, PTL

(* The handler that runs is the one the client let through, with the words *)
(* it saw, for every line whose first word fits in the server's array.     *)
THEOREM ServerRunsWhatWasSent == Spec => []ServerAgrees
<1>1. ServedInv => ServerAgrees
      BY DEF ServedInv
<1> QED  BY <1>1, AlwaysServed, PTL
=============================================================================
