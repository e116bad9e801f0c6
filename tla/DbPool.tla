------------------------------- MODULE DbPool -------------------------------
(***************************************************************************)
(* The pool of MySQL connections the worker threads share                  *)
(* (server/database.c): get_connection, release_connection and             *)
(* destory_database_pool.                                                  *)
(*                                                                         *)
(* Every critical section of the file is delimited by one lock and one     *)
(* unlock of pool->mutex and gives the mutex up in between only inside     *)
(* pthread_cond_wait, so each stretch from a lock (or a return from the    *)
(* wait) to the next unlock (or wait) is one action.                       *)
(***************************************************************************)
EXTENDS Integers, FiniteSets

CONSTANTS Workers,   \* the threads that borrow connections
          MaxPool,   \* MAX_POOL_SIZE (4 in header.h)
          MaxJobs,   \* bound: how many requests each worker serves
          None       \* the NULL connection

ASSUME WorkersAssumption == IsFiniteSet(Workers)
ASSUME MaxPoolAssumption == MaxPool \in Nat \ {0}
ASSUME MaxJobsAssumption == MaxJobs \in Nat
ASSUME NoneAssumption    == None \notin 1..MaxPool

Conns == 1..MaxPool

VARIABLES in_use,     \* connects[i].in_use
          available,  \* the counter of idle connections
          held,       \* the connection a worker got, None when it has none
          pc,         \* where each worker stands
          jobs,       \* requests a worker has still to serve
          destroyed   \* destory_database_pool has run

vars == <<in_use, available, held, pc, jobs, destroyed>>

Free    == {c \in Conns : ~in_use[c]}
Waiting == {w \in Workers : pc[w] = "waiting"}   \* inside pthread_cond_wait
Woken   == {w \in Workers : pc[w] = "woken"}     \* returned from it, not yet
                                                 \* past the while test

Init ==
    /\ in_use    = [c \in Conns |-> FALSE]
    /\ available = MaxPool
    /\ held      = [w \in Workers |-> None]
    /\ pc        = [w \in Workers |-> "idle"]
    /\ jobs      = [w \in Workers |-> MaxJobs]
    /\ destroyed = FALSE

(* get_connection on an exhausted pool: the while test sends the caller to *)
(* the condition variable, the first time and after each wake-up.          *)
WaitForConnection(w) ==
    /\ \/ pc[w] = "idle" /\ jobs[w] > 0
       \/ pc[w] = "woken"
    /\ available = 0
    /\ pc' = [pc EXCEPT ![w] = "waiting"]
    /\ UNCHANGED <<in_use, available, held, jobs, destroyed>>

(* Mutant: the scan does not look at in_use. *)
Bug_FirstFree == 1

(* The for loop of get_connection: the first idle slot, or NULL when it    *)
(* runs off the end of the array.                                          *)
FirstFree ==
    IF Free = {} THEN None ELSE CHOOSE c \in Free : \A d \in Free : c <= d

(* get_connection past its while loop.                                     *)
TakeConnection(w) ==
    /\ \/ pc[w] = "idle" /\ jobs[w] > 0
       \/ pc[w] = "woken"
    /\ available # 0
    /\ held' = [held EXCEPT ![w] = FirstFree]
    /\ in_use' = [c \in Conns |-> in_use[c] \/ c = FirstFree]
    /\ available' = IF FirstFree = None THEN available ELSE available - 1
    /\ pc' = [pc EXCEPT ![w] = "using"]
    /\ UNCHANGED <<jobs, destroyed>>

(* Mutant: the signal is forgotten. *)
Bug_SignalOne(w, next) == pc' = [pc EXCEPT ![w] = next]

(* pthread_cond_signal: one waiter, if there is any, returns from the wait *)
(* (w itself goes on to next).                                             *)
SignalOne(w, next) ==
    \/ /\ Waiting = {}
       /\ pc' = [pc EXCEPT ![w] = next]
    \/ \E v \in Waiting : pc' = [pc EXCEPT ![w] = next, ![v] = "woken"]

(* Mutant: the counter is not given back. *)
Bug_ReleaseConnection(w) ==
    /\ pc[w] = "using"
    /\ held[w] # None
    /\ in_use' = [in_use EXCEPT ![held[w]] = FALSE]
    /\ available' = available
    /\ SignalOne(w, "idle")
    /\ held' = [held EXCEPT ![w] = None]
    /\ jobs' = [jobs EXCEPT ![w] = @ - 1]
    /\ UNCHANGED destroyed

(* release_connection: the slot whose pointer matches is freed.            *)
ReleaseConnection(w) ==
    /\ pc[w] = "using"
    /\ held[w] # None
    /\ in_use' = [in_use EXCEPT ![held[w]] = FALSE]
    /\ available' = available + 1
    /\ SignalOne(w, "idle")
    /\ held' = [held EXCEPT ![w] = None]
    /\ jobs' = [jobs EXCEPT ![w] = @ - 1]
    /\ UNCHANGED destroyed

(* POSIX lets pthread_cond_wait return without a signal.                   *)
SpuriousWakeup(w) ==
    /\ pc[w] = "waiting"
    /\ pc' = [pc EXCEPT ![w] = "woken"]
    /\ UNCHANGED <<in_use, available, held, jobs, destroyed>>

(* Mutant: an early return skips release_connection. *)
Bug_ExitWorker(w) ==
    /\ pc[w] \in {"idle", "using"}
    /\ pc' = [pc EXCEPT ![w] = "exited"]
    /\ UNCHANGED <<in_use, available, held, jobs, destroyed>>

(* The worker's thread function returns between two requests.              *)
ExitWorker(w) ==
    /\ pc[w] = "idle"
    /\ pc' = [pc EXCEPT ![w] = "exited"]
    /\ UNCHANGED <<in_use, available, held, jobs, destroyed>>

AllExited == \A w \in Workers : pc[w] = "exited"

(* destory_database_pool, which work_process_quit calls after every worker *)
(* has been joined; the guard on available is the exit of its wait loop.   *)
DestroyPool ==
    /\ AllExited
    /\ ~destroyed
    /\ available = MaxPool
    /\ destroyed' = TRUE
    /\ UNCHANGED <<in_use, available, held, pc, jobs>>

Terminated == destroyed /\ UNCHANGED vars

Next ==
    \/ \E w \in Workers :
          \/ WaitForConnection(w)
          \/ TakeConnection(w)
          \/ ReleaseConnection(w)
          \/ SpuriousWakeup(w)
          \/ ExitWorker(w)
    \/ DestroyPool
    \/ Terminated

Spec == Init /\ [][Next]_vars

(* Every thread that can run is scheduled again; nothing is assumed of     *)
(* spurious wake-ups, nor that a worker ever stops before its last job.    *)
Fairness ==
    /\ \A w \in Workers :
          /\ WF_vars(TakeConnection(w))
          /\ WF_vars(ReleaseConnection(w))
          /\ WF_vars(jobs[w] = 0 /\ ExitWorker(w))
    /\ WF_vars(DestroyPool)

FairSpec == Spec /\ Fairness

-----------------------------------------------------------------------------

TypeOK ==
    /\ in_use    \in [Conns -> BOOLEAN]
    /\ available \in Nat
    /\ held      \in [Workers -> Conns \cup {None}]
    /\ pc        \in [Workers -> {"idle", "waiting", "woken", "using", "exited"}]
    /\ jobs      \in [Workers -> Nat]
    /\ destroyed \in BOOLEAN

(* get_connection never lets two threads run statements on one connection, *)
(* and never returns NULL: its callers mostly do not test for it.          *)
ExclusiveConnections ==
    /\ \A w \in Workers : pc[w] = "using" => held[w] \in Conns
    /\ \A v, w \in Workers : v # w /\ held[v] = held[w] => held[v] = None

(* The counter the wait loops test agrees with the flags the scans test,   *)
(* and a slot is marked used exactly while some worker holds it.           *)
Accounting ==
    /\ available = Cardinality(Free)
    /\ \A c \in Conns : in_use[c] <=> \E w \in Workers : held[w] = c

(* release_connection signals once per connection and newcomers may take   *)
(* it first: still, while anyone sleeps, there are at least as many woken  *)
(* threads about to retry as there are idle connections.                   *)
NoLostWakeup == Waiting # {} => available <= Cardinality(Woken)

(* When the workers have been joined no connection is missing, so          *)
(* destory_database_pool never enters its wait (only alarm would end it).  *)
DestroyNeverWaits == AllExited => available = MaxPool

(* Under the fairness above every job gets its connection and the pool is  *)
(* destroyed in the end.                                                   *)
EveryJobServed == <>destroyed

=============================================================================
