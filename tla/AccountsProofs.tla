--------------------------- MODULE AccountsProofs ---------------------------
(***************************************************************************)
(* Safety of the connection pool, for every number of workers, connections *)
(* and jobs, and of the requests of Accounts over it, for every number of  *)
(* accounts and requests too.                                              *)
(*                                                                         *)
(* The pool.  The counter and the flags are correct only together:         *)
(* get_connection tests the counter and then scans the flags, so that the  *)
(* scan succeeds because the counter is the number of clear flags;         *)
(* release_connection may add one to the counter because the flag it       *)
(* clears was set, which holds because the caller got that connection and  *)
(* nobody else has it.  The inductive invariant IInv is the conjunction of *)
(* these facts.                                                            *)
(*                                                                         *)
(* The requests.  Every step of the requests is a step of the pool, or     *)
(* none of it, so what is shown of the pool holds of them.  From it: a     *)
(* connection has one user, so a transaction that is open for a good       *)
(* reason (its request is between two of its statements) can be told from  *)
(* one that was left open, and only a refused registration leaves one.     *)
(***************************************************************************)
EXTENDS Accounts, FiniteSetTheorems, WellFoundedInduction, TLAPS

-----------------------------------------------------------------------------
(* The pool.                                                               *)

(* A worker has a connection exactly between its two critical sections,    *)
(* and it has a job from its first test of the counter on.                 *)
HoldsWhileUsing ==
    \A w \in Workers :
        /\ pc[w] = "using" <=> held[w] # None
        /\ pc[w] \in {"waiting", "woken", "using"} => jobs[w] > 0

IInv == TypeOK /\ HoldsWhileUsing /\ Accounting /\ ExclusiveConnections /\ NoLostWakeup

USE DEF Conns

(* The sets that are counted are finite. *)
LEMMA FiniteSets ==
    /\ IsFiniteSet(Conns)
    /\ Cardinality(Conns) = MaxPool
    /\ IsFiniteSet(Free)
    /\ IsFiniteSet(Woken)
<1>1. IsFiniteSet(Conns) /\ Cardinality(Conns) = MaxPool
  BY FS_Interval, MaxPoolAssumption
<1>2. Free \subseteq Conns /\ Woken \subseteq Workers
  BY DEF Free, Woken
<1> QED BY <1>1, <1>2, FS_Subset, WorkersAssumption

(* Every set of natural numbers that is not empty has a least element. *)
LEMMA LeastElement ==
    ASSUME NEW S \in SUBSET Nat, S # {}
    PROVE  \E m \in S : \A n \in S : m <= n
<1>1. PICK m \in S : \A n \in S : ~ (<<n, m>> \in OpToRel(<, Nat))
  BY NatLessThanWellFounded, WFMin
<1>2. ASSUME NEW n \in S PROVE m <= n
  <2>1. <<n, m>> \notin OpToRel(<, Nat)
    BY <1>1
  <2>2. ~ (n < m)
    BY <2>1 DEF OpToRel
  <2> QED BY <2>2
<1> QED BY <1>2

(* The scan of get_connection finds the first idle slot when there is one. *)
LEMMA FirstFreeIsFree ==
    ASSUME TypeOK, Accounting, available # 0
    PROVE  FirstFree \in Free /\ FirstFree \in Conns /\ FirstFree # None
<1>1. Free # {}
  BY FiniteSets, FS_EmptySet DEF Accounting
<1>2. Free \subseteq Conns /\ Free \in SUBSET Nat
  BY DEF Free
<1>3. FirstFree \in Free
  BY <1>1, <1>2, LeastElement DEF FirstFree
<1> QED BY <1>2, <1>3, NoneAssumption

(* The pool starts full and unused.                                        *)
LEMMA InitInvariant == Init => IInv
<1> SUFFICES ASSUME Init PROVE IInv
  OBVIOUS
<1>1. TypeOK
  BY MaxPoolAssumption, MaxJobsAssumption DEF Init, TypeOK
<1>2. HoldsWhileUsing /\ ExclusiveConnections /\ NoLostWakeup
  BY DEF Init, HoldsWhileUsing, ExclusiveConnections, NoLostWakeup, Waiting
<1>3. Accounting
  <2>1. Free = Conns
    BY DEF Init, Free
  <2>2. \A c \in Conns : ~in_use[c] /\ \A w \in Workers : held[w] # c
    BY NoneAssumption DEF Init
  <2> QED BY <2>1, <2>2, FiniteSets DEF Init, Accounting
<1> QED BY <1>1, <1>2, <1>3 DEF IInv

(* A worker that finds no connection waits.                                *)
LEMMA WaitPreserves ==
    ASSUME IInv, NEW w \in Workers, WaitForConnection(w)
    PROVE  IInv'
<1> USE DEF IInv, WaitForConnection
<1>1. TypeOK'
  BY DEF TypeOK
<1>2. HoldsWhileUsing'
  BY DEF TypeOK, HoldsWhileUsing
<1>3. Accounting'
  BY DEF Accounting, Free
<1>4. ExclusiveConnections'
  BY DEF TypeOK, ExclusiveConnections
<1>5. NoLostWakeup'
  <2>1. Woken' \subseteq Workers
    BY DEF Woken
  <2>2. Cardinality(Woken') \in Nat
    BY <2>1, WorkersAssumption, FS_Subset, FS_CardinalityType
  <2> QED BY <2>2 DEF NoLostWakeup
<1> QED BY <1>1, <1>2, <1>3, <1>4, <1>5

(* A worker takes the first free connection.                               *)
LEMMA TakePreserves ==
    ASSUME IInv, NEW w \in Workers, TakeConnection(w)
    PROVE  IInv'
<1> USE DEF IInv
<1> DEFINE c == FirstFree
<1>1. c \in Free /\ c \in Conns /\ c # None
  BY FirstFreeIsFree DEF TakeConnection
<1>2. /\ held[w] = None
      /\ jobs[w] > 0
      /\ pc[w] \in {"idle", "woken"}
  BY DEF TakeConnection, HoldsWhileUsing, TypeOK
<1>3. /\ held' = [held EXCEPT ![w] = c]
      /\ pc' = [pc EXCEPT ![w] = "using"]
      /\ in_use' = [d \in Conns |-> in_use[d] \/ d = c]
      /\ available' = available - 1
      /\ jobs' = jobs
      /\ destroyed' = destroyed
      /\ available # 0
  BY <1>1 DEF TakeConnection
<1> HIDE DEF c
<1>4. TypeOK'
  BY <1>1, <1>3 DEF TypeOK
<1>5. HoldsWhileUsing'
  BY <1>1, <1>2, <1>3 DEF TypeOK, HoldsWhileUsing
<1>6. Accounting'
  <2>1. Free' = Free \ {c}
    BY <1>3 DEF Free
  <2>2. available' = Cardinality(Free')
    BY <1>1, <1>3, <2>1, FiniteSets, FS_RemoveElement DEF Accounting, TypeOK
  <2>3. ASSUME NEW d \in Conns
        PROVE  in_use'[d] <=> \E v \in Workers : held'[v] = d
    <3>1. CASE d = c
      BY <1>3, <3>1 DEF TypeOK
    <3>2. CASE d # c
      <4>1. in_use'[d] <=> in_use[d]
        BY <1>3, <3>2 DEF TypeOK
      <4>2. \A v \in Workers : held'[v] = d <=> held[v] = d
        BY <1>2, <1>3, <3>2, NoneAssumption DEF TypeOK
      <4> QED BY <4>1, <4>2 DEF Accounting
    <3> QED BY <3>1, <3>2
  <2> QED BY <2>2, <2>3 DEF Accounting
<1>7. ExclusiveConnections'
  <2>1. \A v \in Workers : held[v] # c
    BY <1>1 DEF Accounting, Free
  <2>2. \A v \in Workers : held'[v] = (IF v = w THEN c ELSE held[v])
    BY <1>3 DEF TypeOK
  <2>3. \A v \in Workers : pc'[v] = "using" => held'[v] \in Conns
    BY <1>1, <1>3, <2>2 DEF TypeOK, ExclusiveConnections
  <2> QED BY <2>1, <2>2, <2>3 DEF ExclusiveConnections
<1>8. NoLostWakeup'
  <2>1. Waiting' = Waiting
    BY <1>2, <1>3 DEF Waiting, TypeOK
  <2>2. Woken' = Woken \ {w}
    BY <1>3 DEF Woken, TypeOK
  <2>3. Cardinality(Woken') >= Cardinality(Woken) - 1
    BY <2>2, FiniteSets, FS_RemoveElement, FS_CardinalityType
  <2>4. Cardinality(Woken) \in Nat /\ Cardinality(Woken') \in Nat
    BY <2>2, FiniteSets, FS_RemoveElement, FS_CardinalityType
  <2> QED BY <1>3, <2>1, <2>3, <2>4 DEF NoLostWakeup, TypeOK
<1> QED BY <1>4, <1>5, <1>6, <1>7, <1>8

(* A worker gives its connection back and wakes one that waits.            *)
LEMMA ReleasePreserves ==
    ASSUME IInv, NEW w \in Workers, ReleaseConnection(w)
    PROVE  IInv'
<1> USE DEF IInv
<1> DEFINE c == held[w]
<1>1. /\ c \in Conns
      /\ c # None
      /\ in_use[c]
      /\ jobs[w] \in Nat \ {0}
      /\ pc[w] = "using"
  BY DEF ReleaseConnection, TypeOK, HoldsWhileUsing, Accounting
<1>2. /\ held' = [held EXCEPT ![w] = None]
      /\ in_use' = [in_use EXCEPT ![c] = FALSE]
      /\ available' = available + 1
      /\ jobs' = [jobs EXCEPT ![w] = jobs[w] - 1]
      /\ destroyed' = destroyed
  BY DEF ReleaseConnection
<1>3. \/ /\ Waiting = {}
         /\ pc' = [pc EXCEPT ![w] = "idle"]
      \/ \E v \in Waiting : pc' = [pc EXCEPT ![w] = "idle", ![v] = "woken"]
  BY DEF ReleaseConnection, SignalOne
<1>4. \A v \in Waiting : v \in Workers /\ pc[v] = "waiting" /\ v # w
  BY <1>1 DEF Waiting
<1>5. TypeOK'
  BY <1>1, <1>2, <1>3, <1>4 DEF TypeOK
<1>6. HoldsWhileUsing'
  BY <1>1, <1>2, <1>3, <1>4 DEF TypeOK, HoldsWhileUsing
<1>7. Accounting'
  <2>1. Free' = Free \cup {c} /\ c \notin Free
    BY <1>1, <1>2 DEF Free, TypeOK
  <2>2. available' = Cardinality(Free')
    BY <1>2, <2>1, FiniteSets, FS_AddElement DEF Accounting
  <2>3. ASSUME NEW d \in Conns
        PROVE  in_use'[d] <=> \E v \in Workers : held'[v] = d
    <3>1. CASE d = c
      <4>1. ~in_use'[d]
        BY <1>1, <1>2, <3>1 DEF TypeOK
      <4>2. \A v \in Workers : held'[v] # d
        BY <1>1, <1>2, <3>1 DEF TypeOK, ExclusiveConnections
      <4> QED BY <4>1, <4>2
    <3>2. CASE d # c
      <4>1. in_use'[d] <=> in_use[d]
        BY <1>2, <3>2 DEF TypeOK
      <4>2. \A v \in Workers : held'[v] = d <=> held[v] = d
        BY <1>2, <3>2, NoneAssumption DEF TypeOK
      <4> QED BY <4>1, <4>2 DEF Accounting
    <3> QED BY <3>1, <3>2
  <2> QED BY <2>2, <2>3 DEF Accounting
<1>8. ExclusiveConnections'
  <2>1. \A v \in Workers : held'[v] = (IF v = w THEN None ELSE held[v])
    BY <1>2 DEF TypeOK
  <2>2. \A v \in Workers : pc'[v] = "using" => v # w /\ pc[v] = "using"
    BY <1>1, <1>3, <1>4 DEF TypeOK
  <2> QED BY <2>1, <2>2 DEF ExclusiveConnections
<1>9. NoLostWakeup'
  <2>1. CASE Waiting = {} /\ pc' = [pc EXCEPT ![w] = "idle"]
    <3>1. Waiting' = {}
      BY <2>1 DEF Waiting, TypeOK
    <3> QED BY <3>1 DEF NoLostWakeup
  <2>2. CASE \E v \in Waiting : pc' = [pc EXCEPT ![w] = "idle", ![v] = "woken"]
    <3>1. PICK v \in Waiting : pc' = [pc EXCEPT ![w] = "idle", ![v] = "woken"]
      BY <2>2
    <3>2. Woken' = Woken \cup {v} /\ v \notin Woken
      BY <1>1, <1>4, <3>1 DEF Woken, Waiting, TypeOK
    <3>3. Cardinality(Woken') = Cardinality(Woken) + 1 /\ Cardinality(Woken) \in Nat
      BY <3>2, FiniteSets, FS_AddElement, FS_CardinalityType
    <3>4. available <= Cardinality(Woken)
      BY <3>1 DEF NoLostWakeup
    <3> QED BY <1>2, <3>3, <3>4 DEF NoLostWakeup, TypeOK
  <2> QED BY <1>3, <2>1, <2>2
<1> QED BY <1>5, <1>6, <1>7, <1>8, <1>9

(* A wait returns without a signal.                                        *)
LEMMA SpuriousPreserves ==
    ASSUME IInv, NEW w \in Workers, SpuriousWakeup(w)
    PROVE  IInv'
<1> USE DEF IInv, SpuriousWakeup
<1>1. TypeOK'
  BY DEF TypeOK
<1>2. HoldsWhileUsing'
  BY DEF TypeOK, HoldsWhileUsing
<1>3. Accounting'
  BY DEF Accounting, Free
<1>4. ExclusiveConnections'
  BY DEF TypeOK, ExclusiveConnections
<1>5. NoLostWakeup'
  <2>1. Woken' = Woken \cup {w} /\ w \notin Woken /\ w \in Waiting
    BY DEF Woken, Waiting, TypeOK
  <2>2. Cardinality(Woken') = Cardinality(Woken) + 1 /\ Cardinality(Woken) \in Nat
    BY <2>1, FiniteSets, FS_AddElement, FS_CardinalityType
  <2> QED BY <2>1, <2>2 DEF NoLostWakeup, TypeOK
<1> QED BY <1>1, <1>2, <1>3, <1>4, <1>5

(* A worker that holds nothing leaves.                                     *)
LEMMA ExitPreserves ==
    ASSUME IInv, NEW w \in Workers, ExitWorker(w)
    PROVE  IInv'
<1> USE DEF IInv, ExitWorker
<1>1. TypeOK'
  BY DEF TypeOK
<1>2. HoldsWhileUsing'
  BY DEF TypeOK, HoldsWhileUsing
<1>3. Accounting'
  BY DEF Accounting, Free
<1>4. ExclusiveConnections'
  BY DEF TypeOK, ExclusiveConnections
<1>5. Waiting' = Waiting /\ Woken' = Woken
  BY DEF Waiting, Woken, TypeOK
<1>6. NoLostWakeup'
  BY <1>5 DEF NoLostWakeup
<1> QED BY <1>1, <1>2, <1>3, <1>4, <1>6

(* Every step of the pool keeps the invariant.                             *)
LEMMA NextPreserves == IInv /\ [Next]_vars => IInv'
<1> SUFFICES ASSUME IInv, [Next]_vars PROVE IInv'
  OBVIOUS
<1>1. ASSUME NEW w \in Workers, WaitForConnection(w) PROVE IInv'
  BY <1>1, WaitPreserves
<1>2. ASSUME NEW w \in Workers, TakeConnection(w) PROVE IInv'
  BY <1>2, TakePreserves
<1>3. ASSUME NEW w \in Workers, ReleaseConnection(w) PROVE IInv'
  BY <1>3, ReleasePreserves
<1>4. ASSUME NEW w \in Workers, SpuriousWakeup(w) PROVE IInv'
  BY <1>4, SpuriousPreserves
<1>5. ASSUME NEW w \in Workers, ExitWorker(w) PROVE IInv'
  BY <1>5, ExitPreserves
<1>6. CASE DestroyPool
  BY <1>6 DEF DestroyPool, IInv, TypeOK, HoldsWhileUsing, Accounting, Free,
              ExclusiveConnections, NoLostWakeup, Waiting, Woken
<1>7. CASE Terminated \/ UNCHANGED vars
  <2>1. UNCHANGED vars
    BY <1>7 DEF Terminated
  <2>2. TypeOK' /\ HoldsWhileUsing'
    BY <2>1 DEF vars, IInv, TypeOK, HoldsWhileUsing
  <2>3. Accounting' /\ ExclusiveConnections'
    BY <2>1 DEF vars, IInv, Accounting, Free, ExclusiveConnections
  <2>4. NoLostWakeup'
    BY <2>1 DEF vars, IInv, NoLostWakeup, Waiting, Woken
  <2> QED BY <2>2, <2>3, <2>4 DEF IInv
<1> QED BY <1>1, <1>2, <1>3, <1>4, <1>5, <1>6, <1>7 DEF Next

(* get_connection and release_connection keep the whole invariant. *)
THEOREM Invariance == Spec => []IInv
<1> QED BY InitInvariant, NextPreserves, PTL DEF Spec

(* The variables of the pool keep their types: the counter never drops     *)
(* below zero (get_connection decrements it, database.c 74).               *)
THEOREM TypeCorrect == Spec => []TypeOK
<1>1. IInv => TypeOK
  BY DEF IInv
<1> QED BY <1>1, Invariance, PTL

(* No connection is handed to two workers, and get_connection never falls  *)
(* through to return NULL (database.c 69-80).                              *)
THEOREM Exclusion == Spec => []ExclusiveConnections
<1>1. IInv => ExclusiveConnections
  BY DEF IInv
<1> QED BY <1>1, Invariance, PTL

(* The counter is the number of idle connections (database.c 74, 93).      *)
THEOREM CounterIsRight == Spec => []Accounting
<1>1. IInv => Accounting
  BY DEF IInv
<1> QED BY <1>1, Invariance, PTL

(* One signal per released connection is enough (database.c 94).           *)
THEOREM NoWakeupIsLost == Spec => []NoLostWakeup
<1>1. IInv => NoLostWakeup
  BY DEF IInv
<1> QED BY <1>1, Invariance, PTL

(* Once the workers are gone the wait loop of destory_database_pool is not *)
(* entered (database.c 106): no path of a worker keeps a connection.       *)
THEOREM DestroyIsImmediate == Spec => []DestroyNeverWaits
<1>1. ASSUME IInv, AllExited PROVE available = MaxPool
  <2>1. \A w \in Workers : held[w] = None
    BY <1>1 DEF IInv, HoldsWhileUsing, AllExited
  <2>2. Free = Conns
    BY <1>1, <2>1, NoneAssumption DEF IInv, Accounting, Free
  <2> QED BY <1>1, <2>2, FiniteSets DEF IInv, Accounting
<1>2. IInv => DestroyNeverWaits
  BY <1>1 DEF DestroyNeverWaits
<1> QED BY <1>2, Invariance, PTL

-----------------------------------------------------------------------------
(* The requests.                                                           *)

(* Statements that a request issues while its transaction is open.         *)
Mid == {"user", "file", "entry", "commit", "dir", "name"}
Labels == Ops \cup Mid \cup {"none", "done", "failed", "refused"}
Rows == [table : Tables, key : Users \cup {NoUser}, by : Requests]

AccountsTypeOK ==
    /\ task \in [Workers -> Task \cup {NoTask}]
    /\ at \in [Workers -> Labels]
    /\ autocommit \in [Conns -> BOOLEAN]
    /\ view \in [Conns -> SUBSET SUBSET Rows]
    /\ pending \in [Conns -> SUBSET Rows]
    /\ committed \in SUBSET Rows
    /\ told \in SUBSET Rows
    /\ refused \in SUBSET Conns

(* A request inside its transaction has its connection, in a transaction;  *)
(* the label "dir" stands before mysql_autocommit(connect,0).              *)
MidUses ==
    \A w \in Workers :
        /\ at[w] \in Mid => pc[w] = "using"
        /\ at[w] \in Mid \ {"dir"} => ~autocommit[held[w]]
        /\ pc[w] \in {"waiting", "woken", "using"} => task[w] \in Task

(* Every account row that is not committed yet is whole, or its request is *)
(* about to insert what is missing.                                        *)
RootOf(r)  == Row("file", NoUser, r.by)
EntryOf(r) == Row("user_file", NoUser, r.by)

PendingAreWhole ==
    \A c \in Conns : \A r \in pending[c] :
        r.table = "user" =>
            \/ {RootOf(r), EntryOf(r)} \subseteq pending[c]
            \/ \E w \in Workers :
                  /\ pc[w] = "using" /\ held[w] = c /\ r.by = Request(w)
                  /\ \/ at[w] = "file"
                     \/ at[w] = "entry" /\ RootOf(r) \in pending[c]

(* Rows that are not committed were written over their connection, by a    *)
(* request that is over or by the one that has it now.                     *)
PendingBy ==
    \A c \in Conns : \A r \in pending[c] : \A w \in Workers : \A n \in Nat :
        r.by = <<w, n>> => n > jobs[w] \/ (n = jobs[w] /\ held[w] = c /\ pc[w] = "using")

(* A connection that no refused registration left in a transaction commits *)
(* what is written over it and reads what is committed, except while its   *)
(* user is inside a transaction.                                           *)
CleanConnections ==
    \A c \in Conns : c \notin refused =>
        \/ autocommit[c] /\ view[c] = {} /\ pending[c] = {}
        \/ \E w \in Workers : held[w] = c /\ at[w] \in Mid

AInv == /\ AccountsTypeOK /\ MidUses /\ PendingAreWhole /\ PendingBy /\ CleanConnections
        /\ AccountsAreWhole /\ ToldIsKept

USE DEF Conns

(* What the pool's invariant says of a worker that runs statements.        *)
LEMMA HolderIsAlone ==
    ASSUME IInv, NEW w \in Workers, pc[w] = "using"
    PROVE  /\ held[w] \in Conns
           /\ jobs[w] \in Nat /\ jobs[w] > 0
           /\ \A v \in Workers : held[v] = held[w] => v = w
<1> QED BY NoneAssumption DEF IInv, TypeOK, HoldsWhileUsing, ExclusiveConnections

(* A worker that waits for a connection has none.                          *)
LEMMA OthersHoldNothing ==
    ASSUME IInv, NEW w \in Workers, pc[w] # "using"
    PROVE  held[w] = None /\ held[w] \notin Conns
<1> QED BY NoneAssumption DEF IInv, HoldsWhileUsing

(* The rows that the inserts of a busy worker make are rows of the tables. *)
LEMMA RowTypes ==
    ASSUME IInv, AInv, NEW w \in Workers, pc[w] = "using"
    PROVE  /\ Request(w) \in Requests
           /\ Row("user", task[w].account, Request(w)) \in Rows
           /\ Row("file", NoUser, Request(w)) \in Rows
           /\ Row("user_file", NoUser, Request(w)) \in Rows
<1>1. Request(w) \in Requests
  BY HolderIsAlone DEF Request, Requests
<1>2. task[w].account \in Users
  BY DEF AInv, MidUses, Task
<1> QED BY <1>1, <1>2 DEF Row, Rows, Tables

(* Nothing is pending when no request has begun.                           *)
LEMMA AccountsInitInvariant == AccountsInit => AInv
<1> SUFFICES ASSUME AccountsInit PROVE AInv
  OBVIOUS
<1> USE DEF AccountsInit
<1>1. AccountsTypeOK
  BY DEF AccountsTypeOK, Labels
<1>2. MidUses
  BY DEF MidUses, Mid, Init
<1>3. PendingAreWhole /\ PendingBy /\ CleanConnections
  BY DEF PendingAreWhole, PendingBy, CleanConnections
<1>4. AccountsAreWhole /\ ToldIsKept
  BY DEF AccountsAreWhole, ToldIsKept
<1> QED BY <1>1, <1>2, <1>3, <1>4 DEF AInv

(* get_connection, entered or tried again.                                 *)
LEMMA GetConnectionPreserves ==
    ASSUME IInv, AInv, NEW w \in Workers, GetConnection(w),
           \/ \E t \in Task : Begins(w, t)
           \/ TriesAgain(w)
    PROVE  AInv'
<1> USE DEF AInv
<1>1. /\ pc[w] \in {"idle", "woken"}
      /\ held[w] = None
      /\ at[w] \notin Mid
  BY OthersHoldNothing DEF GetConnection, WaitForConnection, TakeConnection, MidUses
<1>2. /\ pc' \in [Workers -> {"idle", "waiting", "woken", "using", "exited"}]
      /\ pc'[w] \in {"waiting", "using"}
      /\ \A v \in Workers \ {w} : pc'[v] = pc[v] /\ held'[v] = held[v]
      /\ jobs' = jobs
  BY DEF GetConnection, WaitForConnection, TakeConnection, IInv, TypeOK
<1>3. UNCHANGED <<database, history>>
  BY DEF Begins, TriesAgain, accountVars
<1>4. /\ task' \in [Workers -> Task \cup {NoTask}]
      /\ task'[w] \in Task
      /\ at' \in [Workers -> Labels]
      /\ at'[w] \notin Mid
      /\ \A v \in Workers \ {w} : task'[v] = task[v] /\ at'[v] = at[v]
  <2>1. ASSUME NEW t \in Task, Begins(w, t) PROVE <1>4!1 /\ <1>4!2 /\ <1>4!3 /\ <1>4!4 /\ <1>4!5
    <3>1. t.op \in Labels /\ t.op \notin Mid
      BY DEF Task, Ops, Labels, Mid
    <3> QED BY <2>1, <3>1 DEF Begins, Goto, AccountsTypeOK
  <2>2. CASE TriesAgain(w)
    BY <1>1, <2>2 DEF TriesAgain, accountVars, AccountsTypeOK, MidUses
  <2> QED BY <2>1, <2>2
<1>5. AccountsTypeOK'
  BY <1>3, <1>4 DEF AccountsTypeOK, database, history
<1>6. MidUses'
  BY <1>2, <1>3, <1>4 DEF MidUses, database
<1>7. PendingAreWhole'
  BY <1>1, <1>2, <1>3, <1>4 DEF PendingAreWhole, database, Request, Mid
<1>8. PendingBy'
  BY <1>1, <1>2, <1>3 DEF PendingBy, database
<1>9. CleanConnections'
  BY <1>1, <1>2, <1>3, <1>4 DEF CleanConnections, database, history
<1>10. AccountsAreWhole' /\ ToldIsKept'
  BY <1>3 DEF AccountsAreWhole, ToldIsKept, database, history
<1> QED BY <1>5, <1>6, <1>7, <1>8, <1>9, <1>10

(* A spurious wake-up, or the end of a thread between two requests.        *)
LEMMA AsidePreserves ==
    ASSUME IInv, AInv, NEW w \in Workers, WakesUp(w) \/ Leaves(w)
    PROVE  AInv'
<1> USE DEF AInv
<1>1. /\ pc[w] # "using" /\ at[w] \notin Mid
      /\ pc'[w] # "using" /\ (pc'[w] = "woken" => pc[w] = "waiting")
      /\ pc'[w] # "waiting"
      /\ \A v \in Workers \ {w} : pc'[v] = pc[v]
      /\ held' = held /\ jobs' = jobs
      /\ UNCHANGED accountVars
  BY DEF WakesUp, Leaves, SpuriousWakeup, ExitWorker, IInv, TypeOK, MidUses
<1> USE DEF accountVars, database, history
<1>2. AccountsTypeOK'
  BY <1>1 DEF AccountsTypeOK
<1>3. MidUses'
  BY <1>1 DEF MidUses
<1>4. PendingAreWhole'
  BY <1>1 DEF PendingAreWhole, Request
<1>5. PendingBy'
  BY <1>1 DEF PendingBy
<1>6. CleanConnections'
  BY <1>1 DEF CleanConnections
<1>7. AccountsAreWhole' /\ ToldIsKept'
  BY <1>1 DEF AccountsAreWhole, ToldIsKept
<1> QED BY <1>2, <1>3, <1>4, <1>5, <1>6, <1>7

(* mysql_autocommit(connect,0) and the SELECT of a registration.           *)
LEMMA RegisterLooksPreserves ==
    ASSUME IInv, AInv, NEW w \in Workers, RegisterLooks(w)
    PROVE  AInv'
<1> USE DEF AInv
<1> DEFINE c == held[w]
<1>1. /\ pc[w] = "using" /\ at[w] = "register" /\ at[w] \notin Mid
      /\ c \in Conns
      /\ \A v \in Workers : held[v] = c => v = w
  BY HolderIsAlone DEF RegisterLooks, Stands, Mid
<1>2. /\ UNCHANGED <<vars, task, pending, committed, told>>
      /\ autocommit' = [autocommit EXCEPT ![c] = FALSE]
      /\ view' = [view EXCEPT ![c] = IF view[c] # {} THEN @ ELSE {committed}]
      /\ \/ at' = [at EXCEPT ![w] = "refused"] /\ refused' = refused \cup {c}
         \/ at' = [at EXCEPT ![w] = "user"] /\ refused' = refused
  BY DEF RegisterLooks, Selects, Goto
<1> HIDE DEF c
<1>3. AccountsTypeOK'
  BY <1>1, <1>2 DEF AccountsTypeOK, Labels, Mid
<1>4. MidUses'
  BY <1>1, <1>2 DEF MidUses, vars, AccountsTypeOK, Mid, c
<1>5. PendingAreWhole'
  BY <1>1, <1>2 DEF PendingAreWhole, Request, vars, AccountsTypeOK
<1>6. PendingBy'
  BY <1>1, <1>2 DEF PendingBy, vars
<1>7. CleanConnections'
  BY <1>1, <1>2 DEF CleanConnections, vars, AccountsTypeOK, Mid, c
<1>8. AccountsAreWhole' /\ ToldIsKept'
  BY <1>2 DEF AccountsAreWhole, ToldIsKept
<1> QED BY <1>3, <1>4, <1>5, <1>6, <1>7, <1>8

(* The SELECT of a login, of mkdir and of puts.                            *)
LEMMA SelectPreserves ==
    ASSUME IInv, AInv, NEW w \in Workers, LoginLooks(w) \/ MkdirChecks(w)
    PROVE  AInv'
<1> USE DEF AInv
<1> DEFINE c == held[w]
<1>1. /\ pc[w] = "using" /\ at[w] \notin Mid
      /\ c \in Conns
      /\ \A v \in Workers : held[v] = c => v = w
  BY HolderIsAlone DEF LoginLooks, MkdirChecks, Stands, Mid
<1>2. /\ UNCHANGED <<vars, task, autocommit, pending, committed, history>>
      /\ view' = [view EXCEPT ![c] = IF autocommit[c] \/ view[c] # {} THEN @ ELSE {committed}]
      /\ \E label \in {"done", "failed", "dir"} : at' = [at EXCEPT ![w] = label]
  BY DEF LoginLooks, MkdirChecks, Selects, Goto
<1> HIDE DEF c
<1> USE DEF vars, history
<1>3. AccountsTypeOK'
  BY <1>1, <1>2 DEF AccountsTypeOK, Labels, Mid
<1>4. MidUses'
  BY <1>1, <1>2 DEF MidUses, AccountsTypeOK, Mid
<1>5. PendingAreWhole'
  BY <1>1, <1>2 DEF PendingAreWhole, Request, AccountsTypeOK, Mid
<1>6. PendingBy'
  BY <1>1, <1>2 DEF PendingBy
<1>7. CleanConnections'
  BY <1>1, <1>2 DEF CleanConnections, AccountsTypeOK, Mid, c
<1>8. AccountsAreWhole' /\ ToldIsKept'
  BY <1>2 DEF AccountsAreWhole, ToldIsKept
<1> QED BY <1>3, <1>4, <1>5, <1>6, <1>7, <1>8

(* A row written inside a transaction: it is pending, and the statement    *)
(* after it is due.  What is claimed of the labels is what the three       *)
(* inserts of a registration and the two of mkdir have in common.          *)
LEMMA TransactionInsertPreserves ==
    ASSUME IInv, AInv, NEW w \in Workers, pc[w] = "using",
           NEW row \in Rows, row.by = Request(w),
           NEW next \in Mid \ {"dir", "user"},
           at[w] \in Mid,
           UNCHANGED <<vars, task, view, committed, history>>,
           pending' = [pending EXCEPT ![held[w]] = @ \cup {row}],
           autocommit' = [autocommit EXCEPT ![held[w]] = FALSE],
           at' = [at EXCEPT ![w] = next],
           row.table = "user" => next = "file",
           at[w] = "file" => next = "entry" /\ row = Row("file", NoUser, Request(w)),
           at[w] = "entry" => row = Row("user_file", NoUser, Request(w))
    PROVE  AInv'
<1> USE DEF AInv, vars, history
<1> DEFINE c == held[w]
<1>1. /\ c \in Conns
      /\ \A v \in Workers : held[v] = c => v = w
      /\ jobs[w] \in Nat
  BY HolderIsAlone
<1>2. /\ pending' \in [Conns -> SUBSET Rows]
      /\ pending'[c] = pending[c] \cup {row}
      /\ \A d \in Conns \ {c} : pending'[d] = pending[d]
  BY <1>1 DEF AccountsTypeOK
<1>3. /\ at' \in [Workers -> Labels]
      /\ at'[w] = next
      /\ \A v \in Workers \ {w} : at'[v] = at[v]
  BY DEF AccountsTypeOK, Labels
<1> HIDE DEF c
<1>4. AccountsTypeOK'
  BY <1>1, <1>2, <1>3 DEF AccountsTypeOK, c
<1>5. MidUses'
  BY <1>1, <1>3 DEF MidUses, AccountsTypeOK, c
<1>6. PendingAreWhole'
  <2> SUFFICES ASSUME NEW d \in Conns, NEW r \in pending'[d], r.table = "user"
               PROVE  \/ {RootOf(r), EntryOf(r)} \subseteq pending'[d]
                      \/ \E v \in Workers :
                            /\ pc[v] = "using" /\ held[v] = d /\ r.by = <<v, jobs[v]>>
                            /\ \/ at'[v] = "file"
                               \/ at'[v] = "entry" /\ RootOf(r) \in pending'[d]
    BY DEF PendingAreWhole, Request, RootOf, EntryOf
  <2>1. CASE r \in pending[d]
    <3>1. CASE {RootOf(r), EntryOf(r)} \subseteq pending[d]
      BY <1>2, <3>1
    <3>2. ASSUME NEW v \in Workers, pc[v] = "using", held[v] = d, r.by = Request(v),
                 \/ at[v] = "file"
                 \/ at[v] = "entry" /\ RootOf(r) \in pending[d]
          PROVE  \/ {RootOf(r), EntryOf(r)} \subseteq pending'[d]
                 \/ \E u \in Workers :
                       /\ pc[u] = "using" /\ held[u] = d /\ r.by = <<u, jobs[u]>>
                       /\ \/ at'[u] = "file"
                          \/ at'[u] = "entry" /\ RootOf(r) \in pending'[d]
      <4>1. CASE v # w
        BY <1>2, <1>3, <3>2, <4>1 DEF Request
      <4>2. CASE v = w /\ at[w] = "file"
        <5>1. at'[w] = "entry" /\ row = RootOf(r) /\ d = c
          BY <1>3, <3>2, <4>2 DEF RootOf, c
        <5> QED BY <1>2, <3>2, <4>2, <5>1 DEF Request
      <4>3. CASE v = w /\ at[w] = "entry"
        <5>1. row = EntryOf(r) /\ d = c /\ RootOf(r) \in pending[d]
          BY <3>2, <4>3 DEF EntryOf, c
        <5> QED BY <1>2, <5>1
      <4> QED BY <3>2, <4>1, <4>2, <4>3
    <3> QED BY <2>1, <3>1, <3>2 DEF PendingAreWhole
  <2>2. CASE r \notin pending[d]
    BY <1>1, <1>2, <1>3, <2>2 DEF Request, c
  <2> QED BY <2>1, <2>2
<1>7. PendingBy'
  BY <1>1, <1>2 DEF PendingBy, Request, c
<1>8. CleanConnections'
  BY <1>1, <1>2, <1>3 DEF CleanConnections, AccountsTypeOK, c
<1>9. AccountsAreWhole' /\ ToldIsKept'
  BY DEF AccountsAreWhole, ToldIsKept
<1> QED BY <1>4, <1>5, <1>6, <1>7, <1>8, <1>9

(* user_register (deal_sql.c:43-61) makes user, root and entry in one      *)
(* transaction.                                                            *)
LEMMA RegisterInsertsPreserves ==
    ASSUME IInv, AInv, NEW w \in Workers, RegisterInserts(w)
    PROVE  AInv'
<1>1. pc[w] = "using" /\ at[w] \in {"user", "file", "entry"}
  BY DEF RegisterInserts, Stands
<1>2. held[w] \in Conns /\ ~autocommit[held[w]]
  BY <1>1, HolderIsAlone DEF AInv, MidUses, Mid
<1>3. autocommit' = [autocommit EXCEPT ![held[w]] = FALSE]
  BY <1>2 DEF RegisterInserts, AInv, AccountsTypeOK
<1>4. UNCHANGED <<vars, task, view, committed, history>>
  BY <1>2 DEF RegisterInserts, Inserts
<1>5. at[w] \in Mid /\ {"file", "entry", "commit"} \subseteq Mid \ {"dir", "user"}
  BY <1>1 DEF Mid
<1> DEFINE Into(row, next) ==
              /\ pending' = [pending EXCEPT ![held[w]] = @ \cup {row}]
              /\ at' = [at EXCEPT ![w] = next]
<1>6. CASE at[w] = "user"
  <2>1. Into(Row("user", task[w].account, Request(w)), "file")
    BY <1>2, <1>6 DEF RegisterInserts, Inserts, Stands, Goto
  <2> QED BY <1>1, <1>3, <1>4, <1>5, <1>6, <2>1, RowTypes, TransactionInsertPreserves DEF Row
<1>7. CASE at[w] = "file"
  <2>1. Into(Row("file", NoUser, Request(w)), "entry")
    BY <1>2, <1>7 DEF RegisterInserts, Inserts, Stands, Goto
  <2> QED BY <1>1, <1>3, <1>4, <1>5, <1>7, <2>1, RowTypes, TransactionInsertPreserves DEF Row
<1>8. CASE at[w] = "entry"
  <2>1. Into(Row("user_file", NoUser, Request(w)), "commit")
    BY <1>2, <1>8 DEF RegisterInserts, Inserts, Stands, Goto
  <2> QED BY <1>1, <1>3, <1>4, <1>5, <1>8, <2>1, RowTypes, TransactionInsertPreserves DEF Row
<1> QED BY <1>1, <1>6, <1>7, <1>8

(* query_mkdir (deal_sql.c:190-205) makes directory and entry in one       *)
(* transaction.                                                            *)
LEMMA MkdirInsertsPreserves ==
    ASSUME IInv, AInv, NEW w \in Workers, MkdirInsertsFile(w) \/ MkdirInsertsName(w)
    PROVE  AInv'
<1>1. CASE MkdirInsertsFile(w)
  <2>1. pc[w] = "using" /\ at[w] = "dir"
    BY <1>1 DEF MkdirInsertsFile, Stands
  <2>2. "name" \in Mid \ {"dir", "user"} /\ at[w] \in Mid
    BY <2>1 DEF Mid
  <2>3. /\ pending' = [pending EXCEPT ![held[w]] = @ \cup {Row("file", NoUser, Request(w))}]
        /\ at' = [at EXCEPT ![w] = "name"]
        /\ autocommit' = [autocommit EXCEPT ![held[w]] = FALSE]
        /\ UNCHANGED <<vars, task, view, committed, history>>
    BY <1>1 DEF MkdirInsertsFile, Goto
  <2> QED BY <2>1, <2>2, <2>3, RowTypes, TransactionInsertPreserves DEF Row
<1>2. CASE MkdirInsertsName(w)
  <2>1. pc[w] = "using" /\ at[w] = "name"
    BY <1>2 DEF MkdirInsertsName, Stands
  <2>2. "commit" \in Mid \ {"dir", "user"} /\ at[w] \in Mid
    BY <2>1 DEF Mid
  <2>3. held[w] \in Conns /\ ~autocommit[held[w]]
    BY <2>1, HolderIsAlone DEF AInv, MidUses, Mid
  <2>4. /\ pending' = [pending EXCEPT ![held[w]] = @ \cup {Row("user_file", NoUser, Request(w))}]
        /\ at' = [at EXCEPT ![w] = "commit"]
        /\ UNCHANGED <<vars, task, view, committed, history>>
    BY <1>2, <2>3 DEF MkdirInsertsName, Inserts, Goto
  <2>5. autocommit' = [autocommit EXCEPT ![held[w]] = FALSE]
    BY <1>2, <2>3 DEF MkdirInsertsName, AInv, AccountsTypeOK
  <2> QED BY <2>1, <2>2, <2>4, <2>5, RowTypes, TransactionInsertPreserves DEF Row
<1> QED BY <1>1, <1>2

(* The insert without a transaction: over a clean connection it commits,   *)
(* over one left in a transaction it is pending.                           *)
LEMMA LinkPreserves ==
    ASSUME IInv, AInv, NEW w \in Workers, LinkInserts(w)
    PROVE  AInv'
<1> USE DEF AInv, vars, history
<1> DEFINE c == held[w]
           row == Row("user_file", NoUser, Request(w))
<1>1. /\ pc[w] = "using" /\ at[w] \notin Mid
      /\ c \in Conns
      /\ \A v \in Workers : held[v] = c => v = w
      /\ jobs[w] \in Nat
  BY HolderIsAlone DEF LinkInserts, Stands, Mid
<1>2. row \in Rows /\ row.table # "user" /\ row.by = Request(w)
  BY <1>1, RowTypes DEF Row
<1>3. /\ UNCHANGED <<vars, task, autocommit, view, history>>
      /\ at' \in [Workers -> Labels]
      /\ at'[w] = "done" /\ at'[w] \notin Mid
      /\ \A v \in Workers \ {w} : at'[v] = at[v]
  BY DEF LinkInserts, Goto, AccountsTypeOK, Labels, Mid
<1>4. \/ autocommit[c] /\ committed' = committed \cup {row} /\ pending' = pending
      \/ /\ ~autocommit[c] /\ committed' = committed
         /\ pending' = [pending EXCEPT ![c] = @ \cup {row}]
  BY DEF LinkInserts, Inserts
<1> HIDE DEF c, row
<1>5. AccountsTypeOK'
  BY <1>1, <1>2, <1>3, <1>4 DEF AccountsTypeOK
<1>6. MidUses'
  BY <1>1, <1>3 DEF MidUses, Mid
<1>4a. /\ pending'[c] \in {pending[c], pending[c] \cup {row}}
      /\ \A d \in Conns \ {c} : pending'[d] = pending[d]
  BY <1>1, <1>4 DEF AccountsTypeOK
<1>7. PendingAreWhole'
  <2>1. ASSUME NEW d \in Conns, NEW r \in pending'[d], r.table = "user"
        PROVE  r \in pending[d] /\ pending[d] \subseteq pending'[d]
    <3>1. CASE d = c
      BY <1>2, <1>4a, <2>1, <3>1
    <3>2. CASE d # c
      BY <1>4a, <2>1, <3>2
    <3> QED BY <3>1, <3>2
  <2>2. ASSUME NEW v \in Workers, at[v] \in {"file", "entry"} PROVE at'[v] = at[v]
    BY <1>1, <1>3, <2>2 DEF Mid
  <2> QED BY <1>3, <2>1, <2>2 DEF PendingAreWhole, Request
<1>8. PendingBy'
  <2>1. ASSUME NEW d \in Conns, NEW r \in pending'[d]
        PROVE  r \in pending[d] \/ (r = row /\ d = c)
    BY <1>4a, <2>1
  <2> QED BY <1>1, <1>2, <1>3, <2>1 DEF PendingBy, Request, c
<1>9. CleanConnections'
  BY <1>1, <1>3, <1>4 DEF CleanConnections, AccountsTypeOK, c
<1>10. AccountsAreWhole' /\ ToldIsKept'
  BY <1>2, <1>3, <1>4 DEF AccountsAreWhole, ToldIsKept
<1> QED BY <1>5, <1>6, <1>7, <1>8, <1>9, <1>10

(* mysql_commit and mysql_autocommit(connect,1): nobody else is between    *)
(* two inserts over this connection, so what becomes visible is whole.     *)
LEMMA CommitPreserves ==
    ASSUME IInv, AInv, NEW w \in Workers, RegisterCommits(w)
    PROVE  AInv'
<1> USE DEF AInv, vars
<1> DEFINE c == held[w]
<1>1. /\ pc[w] = "using" /\ at[w] = "commit"
      /\ c \in Conns
      /\ \A v \in Workers : held[v] = c => v = w
  BY HolderIsAlone DEF RegisterCommits, Stands
<1>2. /\ UNCHANGED <<vars, task, told>>
      /\ committed' = committed \cup pending[c]
      /\ pending' = [pending EXCEPT ![c] = {}]
      /\ view' = [view EXCEPT ![c] = {}]
      /\ autocommit' = [autocommit EXCEPT ![c] = TRUE]
      /\ refused' = refused \ {c}
      /\ at' = [at EXCEPT ![w] = "done"]
  BY DEF RegisterCommits, Commits, Goto
<1> HIDE DEF c
<1>3. AccountsTypeOK'
  BY <1>1, <1>2 DEF AccountsTypeOK, Labels
<1>4. MidUses'
  BY <1>1, <1>2 DEF MidUses, AccountsTypeOK, Mid, c
<1>5. PendingAreWhole'
  BY <1>1, <1>2 DEF PendingAreWhole, AccountsTypeOK, Request
<1>6. PendingBy'
  BY <1>1, <1>2 DEF PendingBy, AccountsTypeOK
<1>7. CleanConnections'
  BY <1>1, <1>2 DEF CleanConnections, AccountsTypeOK, c
<1>8. AccountsAreWhole'
  <2>1. ASSUME NEW r \in pending[c], r.table = "user"
        PROVE  {RootOf(r), EntryOf(r)} \subseteq pending[c]
    BY <1>1, <2>1 DEF PendingAreWhole, c
  <2> QED BY <1>2, <2>1 DEF AccountsAreWhole, RootOf, EntryOf
<1>9. ToldIsKept'
  BY <1>2 DEF ToldIsKept
<1> QED BY <1>3, <1>4, <1>5, <1>6, <1>7, <1>8, <1>9

(* release_connection and the answer: over a clean connection the rows of  *)
(* the request are committed.                                              *)
LEMMA ReleasesPreserves ==
    ASSUME IInv, AInv, NEW w \in Workers, Releases(w)
    PROVE  AInv'
<1> USE DEF AInv
<1> DEFINE c == held[w]
<1>1. /\ pc[w] = "using" /\ at[w] \in {"done", "failed", "refused"} /\ at[w] \notin Mid
      /\ c \in Conns
      /\ \A v \in Workers : held[v] = c => v = w
      /\ jobs[w] \in Nat /\ jobs[w] > 0
  BY HolderIsAlone DEF Releases, ReleaseConnection, Mid
<1>2. /\ UNCHANGED <<database, refused>>
      /\ task' = [task EXCEPT ![w] = NoTask]
      /\ at' = [at EXCEPT ![w] = "none"]
      /\ told' = told \/ (c \notin refused /\ at[w] = "done"
                           /\ told' = told \cup Written(Request(w)))
  BY DEF Releases, Goto
<1>3. /\ held' = [held EXCEPT ![w] = None]
      /\ jobs' = [jobs EXCEPT ![w] = jobs[w] - 1]
      /\ pc'[w] = "idle"
      /\ \A v \in Workers \ {w} : \/ pc'[v] = pc[v]
                                  \/ pc[v] = "waiting" /\ pc'[v] = "woken"
  BY <1>1 DEF Releases, ReleaseConnection, SignalOne, Waiting, IInv, TypeOK
<1>4. \A v \in Workers \ {w} : /\ held'[v] = held[v] /\ jobs'[v] = jobs[v]
                               /\ at'[v] = at[v] /\ task'[v] = task[v]
  BY <1>2, <1>3 DEF IInv, TypeOK, AccountsTypeOK
<1>5. at'[w] = "none" /\ jobs'[w] = jobs[w] - 1 /\ held'[w] = None
  BY <1>2, <1>3 DEF IInv, TypeOK, AccountsTypeOK
<1> HIDE DEF c
<1>6. AccountsTypeOK'
  <2>1. Written(Request(w)) \subseteq Rows
    BY DEF Written, AccountsTypeOK
  <2> QED BY <1>2, <2>1 DEF AccountsTypeOK, database, Labels
<1>7. MidUses'
  BY <1>2, <1>3, <1>4, <1>5 DEF MidUses, database, Mid
<1>8. PendingAreWhole'
  <2>1. ASSUME NEW v \in Workers, at[v] \in {"file", "entry"}, pc[v] = "using"
        PROVE  v # w /\ pc'[v] = "using" /\ held'[v] = held[v] /\ at'[v] = at[v]
               /\ jobs'[v] = jobs[v]
    BY <1>1, <1>3, <1>4, <2>1
  <2> QED BY <1>2, <2>1 DEF PendingAreWhole, database, Request
<1>9. PendingBy'
  <2> SUFFICES ASSUME NEW d \in Conns, NEW r \in pending[d], NEW v \in Workers,
                      NEW n \in Nat, r.by = <<v, n>>
               PROVE  n > jobs'[v] \/ (n = jobs'[v] /\ held'[v] = d /\ pc'[v] = "using")
    BY <1>2 DEF PendingBy, database
  <2>1. n > jobs[v] \/ (n = jobs[v] /\ held[v] = d /\ pc[v] = "using")
    BY DEF PendingBy
  <2>2. CASE v = w
    BY <1>1, <1>5, <2>1, <2>2
  <2>3. CASE v # w
    BY <1>3, <1>4, <2>1, <2>3
  <2> QED BY <2>2, <2>3
<1>10. CleanConnections'
  <2>1. ASSUME NEW v \in Workers, at[v] \in Mid
        PROVE  at'[v] = at[v] /\ held'[v] = held[v]
    BY <1>1, <1>4, <2>1
  <2> QED BY <1>2, <2>1 DEF CleanConnections, database
<1>11. AccountsAreWhole'
  BY <1>2 DEF AccountsAreWhole, database
<1>12. ToldIsKept'
  <2>1. ASSUME c \notin refused PROVE Written(Request(w)) \subseteq committed
    <3>1. pending[c] = {}
      BY <1>1, <2>1 DEF CleanConnections
    <3>2. ASSUME NEW d \in Conns, NEW r \in pending[d] PROVE r.by # Request(w)
      BY <1>1, <3>1, <3>2 DEF PendingBy, Request, c
    <3> QED BY <3>2 DEF Written
  <2> QED BY <1>2, <2>1 DEF ToldIsKept, database
<1> QED BY <1>6, <1>7, <1>8, <1>9, <1>10, <1>11, <1>12

(* Steps that leave the requests as they are: destory_database_pool, which *)
(* runs when nobody has a connection, and stuttering.                      *)
LEMMA EndPreserves ==
    ASSUME IInv, AInv, Destroys \/ Finished \/ UNCHANGED allVars
    PROVE  AInv'
<1> USE DEF AInv, vars, accountVars, allVars, database, history
<1>1. CASE Destroys
  <2>1. /\ UNCHANGED <<task, at, autocommit, committed, told, refused, held, pc, jobs>>
        /\ pending' = [c \in Conns |-> {}] /\ view' = [c \in Conns |-> {}]
    BY <1>1 DEF Destroys, DestroyPool
  <2>2. AccountsTypeOK' /\ MidUses'
    BY <2>1 DEF AccountsTypeOK, MidUses
  <2>3. PendingAreWhole' /\ PendingBy'
    BY <2>1 DEF PendingAreWhole, PendingBy
  <2>4. CleanConnections'
    BY <2>1 DEF CleanConnections, AccountsTypeOK
  <2>5. AccountsAreWhole' /\ ToldIsKept'
    BY <2>1 DEF AccountsAreWhole, ToldIsKept
  <2> QED BY <2>2, <2>3, <2>4, <2>5
<1>2. CASE Finished \/ UNCHANGED allVars
  <2>1. UNCHANGED <<vars, accountVars>>
    BY <1>2 DEF Finished, Terminated
  <2>2. AccountsTypeOK' /\ MidUses'
    BY <2>1 DEF AccountsTypeOK, MidUses
  <2>3. PendingAreWhole' /\ PendingBy' /\ CleanConnections'
    BY <2>1 DEF PendingAreWhole, PendingBy, CleanConnections, Request
  <2>4. AccountsAreWhole' /\ ToldIsKept'
    BY <2>1 DEF AccountsAreWhole, ToldIsKept
  <2> QED BY <2>2, <2>3, <2>4
<1> QED BY <1>1, <1>2

(* Every step of requests and pool keeps the invariant.                    *)
LEMMA AccountsNextPreserves == IInv /\ AInv /\ [AccountsNext]_allVars => AInv'
<1> SUFFICES ASSUME IInv, AInv, [AccountsNext]_allVars PROVE AInv'
  OBVIOUS
<1>1. ASSUME NEW w \in Workers, NEW t \in Task, Begins(w, t) PROVE AInv'
  BY <1>1, GetConnectionPreserves DEF Begins
<1>2. ASSUME NEW w \in Workers, TriesAgain(w) PROVE AInv'
  BY <1>2, GetConnectionPreserves DEF TriesAgain
<1>3. ASSUME NEW w \in Workers, WakesUp(w) \/ Leaves(w) PROVE AInv'
  BY <1>3, AsidePreserves
<1>4. ASSUME NEW w \in Workers, Statement(w) PROVE AInv'
  BY <1>4, RegisterLooksPreserves, RegisterInsertsPreserves, CommitPreserves,
     SelectPreserves, MkdirInsertsPreserves, LinkPreserves DEF Statement
<1>5. ASSUME NEW w \in Workers, Releases(w) PROVE AInv'
  BY <1>5, ReleasesPreserves
<1>6. CASE Destroys \/ Finished \/ UNCHANGED allVars
  BY <1>6, EndPreserves
<1> QED BY <1>1, <1>2, <1>3, <1>4, <1>5, <1>6 DEF AccountsNext

(* The requests use the pool as DbPool says it is used: a step of theirs   *)
(* is a step of the pool or leaves it alone (deal_sql.c calls              *)
(* get_connection and release_connection in turn, database.c 58-99).       *)
THEOREM RequestsUseThePool == AccountsSpec => Spec
<1>1. AccountsInit => Init
  BY DEF AccountsInit
<1>2. [AccountsNext]_allVars => [Next]_vars
  <2> SUFFICES ASSUME [AccountsNext]_allVars PROVE Next \/ UNCHANGED vars
    OBVIOUS
  <2>1. ASSUME NEW w \in Workers, NEW t \in Task, Begins(w, t) PROVE Next
    BY <2>1 DEF Begins, GetConnection, Next
  <2>2. ASSUME NEW w \in Workers, TriesAgain(w) PROVE Next
    BY <2>2 DEF TriesAgain, GetConnection, Next
  <2>3. ASSUME NEW w \in Workers, WakesUp(w) \/ Leaves(w) PROVE Next
    BY <2>3 DEF WakesUp, Leaves, Next
  <2>4. ASSUME NEW w \in Workers, Statement(w) PROVE UNCHANGED vars
    BY <2>4 DEF Statement, RegisterLooks, RegisterInserts, RegisterCommits, LoginLooks,
                MkdirChecks, MkdirInsertsFile, MkdirInsertsName, LinkInserts
  <2>5. ASSUME NEW w \in Workers, Releases(w) PROVE Next
    BY <2>5 DEF Releases, Next
  <2>6. CASE Destroys \/ Finished
    BY <2>6 DEF Destroys, Finished, Next
  <2>7. CASE UNCHANGED allVars
    BY <2>7 DEF allVars
  <2> QED BY <2>1, <2>2, <2>3, <2>4, <2>5, <2>6, <2>7 DEF AccountsNext
<1> QED BY <1>1, <1>2, PTL DEF AccountsSpec, Spec

(* The invariant of the requests rests on that of the pool.                *)
THEOREM AccountsInvariance == AccountsSpec => [](IInv /\ AInv)
<1>1. AccountsSpec => []IInv
  BY RequestsUseThePool, Invariance, PTL
<1>2. AccountsSpec => []AInv
  BY <1>1, AccountsInitInvariant, AccountsNextPreserves, PTL DEF AccountsSpec
<1> QED BY <1>1, <1>2, PTL

(* No two requests share a connection (deal_sql.c:34-55 relies on it for   *)
(* its transaction).                                                       *)
THEOREM RequestsHaveTheirConnection == AccountsSpec => []ExclusiveConnections
<1> QED BY RequestsUseThePool, Exclusion, PTL

(* An account row is committed with its root directory and the entry of it *)
(* or not at all (deal_sql.c:45-52): a crash leaves no half account.       *)
THEOREM AccountsStayWhole == AccountsSpec => []AccountsAreWhole
<1>1. AInv => AccountsAreWhole
  BY DEF AInv
<1> QED BY <1>1, AccountsInvariance, PTL

(* The rows of a request that is answered with success are committed,      *)
(* except over a connection which a refused registration left in a         *)
(* transaction (deal_sql.c:36-41).                                         *)
THEOREM SuccessIsKept == AccountsSpec => []ToldIsKept
<1>1. AInv => ToldIsKept
  BY DEF AInv
<1> QED BY <1>1, AccountsInvariance, PTL

(* A login over a connection that no refused registration left in a        *)
(* transaction finds every account whose registration was answered         *)
(* (deal_sql.c:12-19).                                                     *)
THEOREM LoginsFindAccounts == AccountsSpec => LoginFindsAccount
<1> DEFINE Found == \A w \in Workers :
                       LoginFails(w) /\ held[w] \notin refused =>
                           \A r \in told : r.table = "user" => r.key # task[w].account
<1>1. IInv /\ AInv /\ [AccountsNext]_allVars => [Found]_allVars
  <2> SUFFICES ASSUME IInv, AInv, AccountsNext, NEW w \in Workers,
                      LoginFails(w), held[w] \notin refused,
                      NEW r \in told, r.table = "user"
               PROVE  r.key # task[w].account
    OBVIOUS
  <2>1. /\ pc[w] = "using" /\ at[w] = "login" /\ at[w] \notin Mid /\ at'[w] = "failed"
        /\ held[w] \in Conns /\ \A v \in Workers : held[v] = held[w] => v = w
    BY HolderIsAlone DEF LoginFails, Stands, Mid
  <2>2. view[held[w]] = {} /\ pending[held[w]] = {}
    BY <2>1 DEF AInv, CleanConnections
  <2>3. Seen(held[w]) = committed
    BY <2>2 DEF Seen
  <2>4. LoginLooks(w)
    <3>1. ASSUME NEW v \in Workers, v # w,
                 \/ \E t \in Task : Begins(v, t)
                 \/ Statement(v) \/ Releases(v)
          PROVE  at'[w] = at[w]
      BY <3>1 DEF Begins, Statement, Releases, RegisterLooks, RegisterInserts,
                  RegisterCommits, LoginLooks, MkdirChecks, MkdirInsertsFile,
                  MkdirInsertsName, LinkInserts, Goto, AInv, AccountsTypeOK
    <3>2. ASSUME NEW v \in Workers, TriesAgain(v) \/ WakesUp(v) \/ Leaves(v)
          PROVE  at'[w] = at[w]
      BY <3>2 DEF TriesAgain, WakesUp, Leaves, accountVars
    <3>3. ~Destroys /\ ~Finished
      BY <2>1 DEF Destroys, Finished, accountVars
    <3>4. ~Releases(w) /\ \A t \in Task : ~Begins(w, t)
      BY <2>1 DEF Releases, Begins
    <3>5. Statement(w)
      BY <2>1, <3>1, <3>2, <3>3, <3>4 DEF AccountsNext
    <3> QED BY <2>1, <3>5 DEF Statement, RegisterLooks, RegisterInserts, RegisterCommits,
                MkdirChecks, MkdirInsertsFile, MkdirInsertsName, LinkInserts, Stands
  <2>5. ~Exists(held[w], task[w].account)
    BY <2>1, <2>4 DEF LoginLooks, Goto, AInv, AccountsTypeOK
  <2> QED BY <2>3, <2>5 DEF Exists, AInv, ToldIsKept
<1> QED BY <1>1, AccountsInvariance, PTL DEF AccountsSpec, LoginFindsAccount

-----------------------------------------------------------------------------
(* One account per name.  A name that is not raced has at most one         *)
(* registration between its test and its commit.  Until that one has       *)
(* inserted its row there is none; and a row that is pending belongs to a  *)
(* registration that is going on, so a test that finds nobody registering  *)
(* and reads what is committed has read everything.                        *)

(* The account rows, committed or not.                                     *)
UserRows == {r \in committed \cup UNION {pending[c] : c \in Conns} : r.table = "user"}

OneRow ==
    \A q \in UserRows : \A r \in UserRows : q.key = r.key /\ q.key \notin raced => q = r

PendingIsRegistered ==
    \A c \in Conns : \A r \in pending[c] :
        r.table = "user" =>
            \E w \in Registering(r.key) :
                pc[w] = "using" /\ held[w] = c /\ at[w] # "user"

RegistersAlone ==
    \A u \in Users \ raced : \A v \in Registering(u) : \A w \in Registering(u) : v = w

NewNameHasNoRow ==
    \A u \in Users \ raced : \A w \in Registering(u) :
        at[w] = "user" => \A r \in UserRows : r.key # u

(* The labels of registrations, and of mkdir, are those of no other        *)
(* request, but for "commit".                                              *)
OwnLabels ==
    \A w \in Workers :
        /\ at[w] \in {"register", "user", "file", "entry"} => task[w].op = "register"
        /\ at[w] \in {"mkdir", "dir", "name"} => task[w].op = "mkdir"

NamesInv == /\ OneRow /\ PendingIsRegistered /\ RegistersAlone /\ NewNameHasNoRow
            /\ OwnLabels

(* No name is registered at the start.                                     *)
LEMMA NamesInit == AccountsInit => NamesInv
BY DEF AccountsInit, NamesInv, OneRow, PendingIsRegistered, RegistersAlone,
       NewNameHasNoRow, OwnLabels, UserRows, Registering

(* A step of w that makes no account row and begins no registration: w was *)
(* none that had a row pending, or what was pending over its connection is *)
(* committed or gone.                                                      *)
LEMMA NamesAside ==
    ASSUME NamesInv, NEW w \in Workers,
           \A v \in Workers \ {w} : at'[v] = at[v] /\ task'[v] = task[v] /\ held'[v] = held[v],
           \A v \in Workers \ {w} : pc[v] = "using" => pc'[v] = "using",
           \A u : w \notin Registering(u)',
           at'[w] \in {"register", "user", "file", "entry"} => task'[w].op = "register",
           at'[w] \in {"mkdir", "dir", "name"} => task'[w].op = "mkdir",
           raced \subseteq raced',
           UserRows' \subseteq UserRows,
           \A c \in Conns : \A r \in pending'[c] : r.table = "user" => r \in pending[c],
           \A c \in Conns : held[w] = c /\ at[w] \in {"file", "entry", "commit"}
                            => pending'[c] = {}
    PROVE  NamesInv'
<1> USE DEF NamesInv
<1>1. \A u : Registering(u)' \subseteq Registering(u) \ {w}
  BY DEF Registering
<1>2. \A u : \A v \in Registering(u) : v # w =>
         v \in Registering(u)' /\ at'[v] = at[v] /\ held'[v] = held[v]
         /\ (pc[v] = "using" => pc'[v] = "using")
  BY DEF Registering
<1>3. OneRow'
  BY DEF OneRow
<1>4. PendingIsRegistered'
  <2> SUFFICES ASSUME NEW c \in Conns, NEW r \in pending'[c], r.table = "user"
               PROVE  \E v \in Registering(r.key)' :
                         pc'[v] = "using" /\ held'[v] = c /\ at'[v] # "user"
    BY DEF PendingIsRegistered
  <2>1. PICK v \in Registering(r.key) : pc[v] = "using" /\ held[v] = c /\ at[v] # "user"
    BY DEF PendingIsRegistered
  <2>2. v # w
    BY <2>1 DEF Registering
  <2> QED BY <1>2, <2>1, <2>2
<1>5. RegistersAlone'
  BY <1>1 DEF RegistersAlone
<1>6. NewNameHasNoRow'
  <2> SUFFICES ASSUME NEW u \in Users \ raced', NEW v \in Registering(u)', at'[v] = "user",
                      NEW r \in UserRows'
               PROVE  r.key # u
    BY DEF NewNameHasNoRow
  <2>1. v \in Registering(u) /\ v # w /\ at[v] = "user"
    BY <1>1, <1>2
  <2> QED BY <2>1 DEF NewNameHasNoRow
<1>7. OwnLabels'
  BY DEF OwnLabels
<1> QED BY <1>3, <1>4, <1>5, <1>6, <1>7

(* The SELECT of a registration of a name that is not raced reads every    *)
(* account row there is.                                                   *)
LEMMA NamesRegisterLooks ==
    ASSUME IInv, AInv, NamesInv, NEW w \in Workers, RegisterLooks(w)
    PROVE  NamesInv'
<1> USE DEF NamesInv
<1> DEFINE c == held[w]
           u == task[w].account
<1>1. /\ pc[w] = "using" /\ at[w] = "register" /\ at[w] \notin Mid
      /\ c \in Conns
      /\ \A v \in Workers : held[v] = c => v = w
      /\ task[w] \in Task /\ task[w] = [op |-> "register", account |-> u] /\ u \in Users
  <2>1. /\ pc[w] = "using" /\ at[w] = "register" /\ at[w] \notin Mid
        /\ task[w] \in Task
    BY DEF RegisterLooks, Stands, Mid, AInv, MidUses
  <2> QED BY <2>1, HolderIsAlone DEF OwnLabels, Task
<1>2. /\ UNCHANGED <<vars, task, pending, committed>>
      /\ raced' = IF Registering(u) # {} \/ c \in refused THEN raced \cup {u} ELSE raced
      /\ at' \in [Workers -> Labels]
      /\ at'[w] = IF Exists(c, u) THEN "refused" ELSE "user"
      /\ \A v \in Workers \ {w} : at'[v] = at[v]
  BY DEF RegisterLooks, Goto, AInv, AccountsTypeOK, Labels, Mid
<1>3. UserRows' = UserRows
  BY <1>2 DEF UserRows
<1>4. CASE Exists(c, u)
  <2>1. at'[w] = "refused"
    BY <1>2, <1>4
  <2>2. \A z : w \notin Registering(z)'
    BY <2>1 DEF Registering
  <2> QED BY <1>1, <1>2, <1>3, <2>1, <2>2, NamesAside DEF vars
<1>5. CASE ~Exists(c, u)
  <2>1. at'[w] = "user"
    BY <1>2, <1>5
  <2>2. ASSUME NEW z \in Users, NEW v \in Registering(z)'
        PROVE  v \in Registering(z) \/ (v = w /\ z = u)
    BY <1>1, <1>2, <2>2 DEF Registering
  <2>3. ASSUME u \notin raced'
        PROVE  Registering(u) = {} /\ \A r \in UserRows : r.key # u
    <3>1. Registering(u) = {} /\ c \notin refused
      BY <1>2, <2>3
    <3>2. view[c] = {} /\ pending[c] = {}
      BY <1>1, <3>1 DEF AInv, CleanConnections
    <3>3. \A r \in committed : ~(r.table = "user" /\ r.key = u)
      BY <1>5, <3>2 DEF Exists, Seen
    <3>4. \A d \in Conns : \A r \in pending[d] : ~(r.table = "user" /\ r.key = u)
      BY <3>1 DEF PendingIsRegistered
    <3> QED BY <3>1, <3>3, <3>4 DEF UserRows
  <2>4. OneRow'
    BY <1>2, <1>3 DEF OneRow
  <2>5. PendingIsRegistered'
    <3>1. \A z : \A v \in Registering(z) : v \in Registering(z)' /\ at'[v] = at[v]
      BY <1>1, <1>2 DEF Registering
    <3> QED BY <1>2, <3>1 DEF PendingIsRegistered, vars
  <2>6. RegistersAlone'
    BY <1>2, <2>2, <2>3 DEF RegistersAlone
  <2>7. NewNameHasNoRow'
    <3> SUFFICES ASSUME NEW z \in Users \ raced', NEW v \in Registering(z)', at'[v] = "user",
                        NEW r \in UserRows
                 PROVE  r.key # z
      BY <1>3 DEF NewNameHasNoRow
    <3>1. CASE v = w /\ z = u
      BY <2>3, <3>1
    <3>2. CASE v \in Registering(z)
      <4>1. v # w
        BY <1>1, <3>2 DEF Registering
      <4> QED BY <1>2, <3>2, <4>1 DEF NewNameHasNoRow, Registering
    <3> QED BY <2>2, <3>1, <3>2
  <2>8. OwnLabels'
    BY <1>1, <1>2 DEF OwnLabels
  <2> QED BY <2>4, <2>5, <2>6, <2>7, <2>8
<1> QED BY <1>4, <1>5

(* The inserts of a registration: the account row is the first of its name *)
(* unless the name is raced.                                               *)
LEMMA NamesRegisterInserts ==
    ASSUME IInv, AInv, NamesInv, NEW w \in Workers, RegisterInserts(w)
    PROVE  NamesInv'
<1> USE DEF NamesInv
<1> DEFINE c == held[w]
           u == task[w].account
<1>1. /\ pc[w] = "using" /\ at[w] \in {"user", "file", "entry"}
      /\ c \in Conns /\ ~autocommit[c]
      /\ w \in Registering(u) /\ u \in Users
  <2>1. /\ pc[w] = "using" /\ at[w] \in {"user", "file", "entry"}
        /\ task[w] \in Task
    BY DEF RegisterInserts, Stands, AInv, MidUses
  <2>2. held[w] \in Conns /\ ~autocommit[held[w]]
    BY <2>1, HolderIsAlone DEF AInv, MidUses, Mid
  <2> QED BY <2>1, <2>2 DEF OwnLabels, Registering, Task
<1>2. PICK row \in Rows :
         /\ pending' = [pending EXCEPT ![c] = @ \cup {row}]
         /\ row.table = "user" => at[w] = "user" /\ row.key = u
  <2>1. PICK row \in {Row("user", u, Request(w)), Row("file", NoUser, Request(w)),
                       Row("user_file", NoUser, Request(w))} :
           /\ Inserts(c, row)
           /\ row.table = "user" => at[w] = "user" /\ row.key = u
    BY DEF RegisterInserts, Stands, Row
  <2>2. row \in Rows
    BY <1>1, <2>1, RowTypes
  <2> QED BY <1>1, <2>1, <2>2 DEF Inserts
<1>3. /\ UNCHANGED <<vars, task, committed, raced>>
      /\ at'[w] \in {"file", "entry", "commit"}
      /\ \A v \in Workers \ {w} : at'[v] = at[v]
  BY <1>1 DEF RegisterInserts, Inserts, Goto, history, AInv, AccountsTypeOK
<1>4. \A z : Registering(z)' = Registering(z)
  BY <1>1, <1>3 DEF Registering
<1>5. /\ pending'[c] = pending[c] \cup {row}
      /\ \A d \in Conns \ {c} : pending'[d] = pending[d]
  BY <1>1, <1>2 DEF AInv, AccountsTypeOK
<1>6. ASSUME NEW r \in UserRows'
      PROVE  r \in UserRows \/ (r = row /\ row.table = "user")
  BY <1>3, <1>5, <1>6 DEF UserRows
<1>7. ASSUME row.table = "user", u \notin raced
      PROVE  \A r \in UserRows : r.key # u
  BY <1>1, <1>2, <1>7 DEF NewNameHasNoRow
<1>8. OneRow'
  BY <1>2, <1>3, <1>6, <1>7 DEF OneRow
<1>9. PendingIsRegistered'
  <2> SUFFICES ASSUME NEW d \in Conns, NEW r \in pending'[d], r.table = "user"
               PROVE  \E v \in Registering(r.key) : pc[v] = "using" /\ held[v] = d /\ at'[v] # "user"
    BY <1>3, <1>4 DEF PendingIsRegistered, vars
  <2>1. CASE r \in pending[d]
    <3>1. PICK v \in Registering(r.key) : pc[v] = "using" /\ held[v] = d /\ at[v] # "user"
      BY <2>1 DEF PendingIsRegistered
    <3> QED BY <1>3, <3>1 DEF Registering
  <2>2. CASE r = row /\ d = c
    BY <1>1, <1>2, <1>3, <2>2
  <2> QED BY <1>5, <2>1, <2>2
<1>10. RegistersAlone'
  BY <1>3, <1>4 DEF RegistersAlone
<1>11. NewNameHasNoRow'
  <2> SUFFICES ASSUME NEW z \in Users \ raced, NEW v \in Registering(z), at'[v] = "user",
                      NEW r \in UserRows'
               PROVE  r.key # z
    BY <1>3, <1>4 DEF NewNameHasNoRow
  <2>1. v # w /\ at[v] = "user"
    BY <1>3 DEF Registering
  <2>2. CASE r \in UserRows
    BY <2>1, <2>2 DEF NewNameHasNoRow
  <2>3. CASE r = row /\ row.table = "user"
    BY <1>1, <1>2, <2>1, <2>3 DEF RegistersAlone
  <2> QED BY <1>6, <2>2, <2>3
<1>12. OwnLabels'
  BY <1>1, <1>3 DEF OwnLabels, Registering
<1> QED BY <1>8, <1>9, <1>10, <1>11, <1>12

(* The steps of the other requests, and the end of a registration.         *)
LEMMA NamesOthers ==
    ASSUME IInv, AInv, NamesInv, NEW w \in Workers,
           \/ \E t \in Task : Begins(w, t)
           \/ TriesAgain(w) \/ WakesUp(w) \/ Leaves(w)
           \/ RegisterCommits(w) \/ LoginLooks(w) \/ MkdirChecks(w)
           \/ MkdirInsertsFile(w) \/ MkdirInsertsName(w) \/ LinkInserts(w) \/ Releases(w)
    PROVE  NamesInv'
<1> USE DEF database, history
<1>s. ASSUME UNCHANGED <<committed, pending>>
      PROVE  UserRows' = UserRows
  BY <1>s DEF UserRows
<1>f. at \in [Workers -> Labels] /\ task \in [Workers -> Task \cup {NoTask}]
      /\ pending \in [Conns -> SUBSET Rows]
  BY DEF AInv, AccountsTypeOK
<1>p. pc \in [Workers -> {"idle", "waiting", "woken", "using", "exited"}]
      /\ held \in [Workers -> Conns \cup {None}]
  BY DEF IInv, TypeOK
<1>1. ASSUME NEW t \in Task, Begins(w, t)
      PROVE  NamesInv'
  <2>1. pc[w] # "using" /\ at[w] \notin {"file", "entry", "commit"}
    BY <1>1 DEF Begins, GetConnection, AInv, MidUses, Mid
  <2>2. /\ t.op \in Ops /\ at'[w] = t.op /\ task'[w] = t
        /\ \A v \in Workers \ {w} : at'[v] = at[v] /\ task'[v] = task[v]
        /\ UNCHANGED <<committed, pending, raced>>
    BY <1>1, <1>f DEF Begins, Goto, Task
  <2>3. \A v \in Workers \ {w} : pc'[v] = pc[v] /\ held'[v] = held[v]
    BY <1>1, <1>p DEF Begins, GetConnection, WaitForConnection, TakeConnection
  <2>4. \A u : w \notin Registering(u)'
    BY <2>2 DEF Registering, Ops
  <2> QED BY <1>s, <2>1, <2>2, <2>3, <2>4, NamesAside DEF Ops
<1>2. CASE TriesAgain(w) \/ WakesUp(w) \/ Leaves(w)
  <2>1. /\ pc[w] # "using" /\ at[w] \notin Mid
        /\ UNCHANGED accountVars
    BY <1>2 DEF TriesAgain, WakesUp, Leaves, SpuriousWakeup, ExitWorker, AInv, MidUses
  <2>2. \A v \in Workers \ {w} : pc'[v] = pc[v] /\ held'[v] = held[v]
    BY <1>2, <1>p DEF TriesAgain, WakesUp, Leaves, SpuriousWakeup, ExitWorker, GetConnection,
                      WaitForConnection, TakeConnection
  <2>3. \A u : w \notin Registering(u)'
    BY <2>1 DEF Registering, Mid, accountVars
  <2> QED BY <1>s, <2>1, <2>2, <2>3, NamesAside DEF accountVars, Mid, NamesInv, OwnLabels
<1>3. CASE RegisterCommits(w)
  <2>1. /\ at'[w] = "done"
        /\ \A v \in Workers \ {w} : at'[v] = at[v]
        /\ UNCHANGED <<vars, task, raced>>
        /\ committed' = committed \cup pending[held[w]]
        /\ pending' = [pending EXCEPT ![held[w]] = {}]
        /\ held[w] \in Conns
    BY <1>3, <1>f, HolderIsAlone DEF RegisterCommits, Commits, Goto, Stands
  <2>2. UserRows' \subseteq UserRows
    BY <1>f, <2>1 DEF UserRows
  <2>3. \A u : w \notin Registering(u)'
    BY <2>1 DEF Registering
  <2> QED BY <1>f, <2>1, <2>2, <2>3, NamesAside DEF vars
<1>4. CASE LoginLooks(w) \/ MkdirChecks(w)
  <2>1. /\ at[w] \in {"login", "mkdir"} /\ at'[w] \in {"done", "failed", "dir"}
        /\ \A v \in Workers \ {w} : at'[v] = at[v]
        /\ UNCHANGED <<vars, task, committed, pending, raced>>
    BY <1>4, <1>f DEF LoginLooks, MkdirChecks, Goto, Stands
  <2>2. \A u : w \notin Registering(u)'
    BY <2>1 DEF Registering
  <2>3. at'[w] = "dir" => task'[w].op = "mkdir"
    BY <1>4, <1>f, <2>1 DEF LoginLooks, MkdirChecks, Goto, Stands, NamesInv, OwnLabels
  <2> QED BY <1>s, <2>1, <2>2, <2>3, NamesAside DEF vars
<1>5. CASE MkdirInsertsFile(w) \/ MkdirInsertsName(w) \/ LinkInserts(w)
  <2>1. /\ pc[w] = "using" /\ at[w] \in {"dir", "name", "link"}
        /\ UNCHANGED <<vars, task, raced>>
        /\ \A v \in Workers \ {w} : at'[v] = at[v]
    BY <1>5, <1>f DEF MkdirInsertsFile, MkdirInsertsName, LinkInserts, Goto, Stands
  <2>2. held[w] \in Conns
    BY <2>1, HolderIsAlone
  <2>3. PICK row \in {Row("file", NoUser, Request(w)), Row("user_file", NoUser, Request(w))} :
           /\ committed' \subseteq committed \cup {row}
           /\ pending' \in {pending, [pending EXCEPT ![held[w]] = @ \cup {row}]}
    BY <1>5 DEF MkdirInsertsFile, MkdirInsertsName, LinkInserts, Inserts
  <2>4. row.table # "user"
    BY DEF Row
  <2>c. \A c \in Conns : pending'[c] \subseteq pending[c] \cup {row}
    BY <1>f, <2>2, <2>3
  <2>5. UserRows' \subseteq UserRows
    <3>1. ASSUME NEW r \in UserRows'
          PROVE  r \in UserRows
      BY <2>3, <2>4, <2>c, <3>1 DEF UserRows
    <3> QED BY <3>1
  <2>6. \A c \in Conns : \A r \in pending'[c] : r.table = "user" => r \in pending[c]
    BY <2>c, <2>4
  <2>7. /\ at'[w] \in {"name", "commit", "done"}
        /\ at'[w] # "done" => task'[w].op = "mkdir"
    BY <1>5, <1>f, <2>1 DEF MkdirInsertsFile, MkdirInsertsName, LinkInserts, Goto, Stands,
                            NamesInv, OwnLabels
  <2>8. \A u : w \notin Registering(u)'
    BY <2>7 DEF Registering
  <2> QED BY <2>1, <2>5, <2>6, <2>7, <2>8, NamesAside DEF vars
<1>6. CASE Releases(w)
  <2>1. /\ at[w] \in {"done", "failed", "refused"} /\ at'[w] = "none"
        /\ \A v \in Workers \ {w} : at'[v] = at[v] /\ task'[v] = task[v] /\ held'[v] = held[v]
        /\ UNCHANGED <<committed, pending, raced>>
    BY <1>6, <1>f, <1>p DEF Releases, ReleaseConnection, Goto
  <2>2. \A v \in Workers \ {w} : pc[v] = "using" => pc'[v] = "using"
    BY <1>6, <1>p DEF Releases, ReleaseConnection, SignalOne, Waiting
  <2>3. \A u : w \notin Registering(u)'
    BY <2>1 DEF Registering
  <2> QED BY <1>s, <2>1, <2>2, <2>3, NamesAside
<1> QED BY <1>1, <1>2, <1>3, <1>4, <1>5, <1>6

(* Every step keeps names apart.                                           *)
LEMMA NamesKept == IInv /\ AInv /\ NamesInv /\ [AccountsNext]_allVars => NamesInv'
<1> SUFFICES ASSUME IInv, AInv, NamesInv, [AccountsNext]_allVars PROVE NamesInv'
  OBVIOUS
<1>1. ASSUME NEW w \in Workers, Statement(w)
      PROVE  NamesInv'
  BY <1>1, NamesRegisterLooks, NamesRegisterInserts, NamesOthers DEF Statement
<1>2. CASE Destroys
  <2>1. UserRows' \subseteq UserRows
    BY <1>2 DEF Destroys, UserRows
  <2> QED BY <1>2, <2>1
          DEF Destroys, DestroyPool, NamesInv, OneRow, PendingIsRegistered, RegistersAlone,
              NewNameHasNoRow, OwnLabels, Registering, history
<1>3. CASE Finished \/ UNCHANGED allVars
  <2>1. UNCHANGED <<vars, accountVars>>
    BY <1>3 DEF Finished, Terminated, allVars
  <2> QED BY <2>1
          DEF vars, accountVars, database, history, NamesInv, OneRow, PendingIsRegistered,
              RegistersAlone, NewNameHasNoRow, OwnLabels, Registering, UserRows
<1> QED BY <1>1, <1>2, <1>3, NamesOthers DEF AccountsNext

(* Two accounts have one name only when two registrations of it overlapped *)
(* between test and commit, or one tested over a connection left in a      *)
(* transaction (deal_sql.c:34-52).                                         *)
THEOREM OneAccountEach == AccountsSpec => []OneAccountPerName
<1>1. AccountsSpec => []NamesInv
  BY NamesInit, NamesKept, AccountsInvariance, PTL DEF AccountsSpec
<1>2. NamesInv => OneAccountPerName
  BY DEF NamesInv, OneRow, UserRows, OneAccountPerName
<1> QED BY <1>1, <1>2, PTL

=============================================================================
