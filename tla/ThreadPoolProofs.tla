-------------------------- MODULE ThreadPoolProofs --------------------------
(***************************************************************************)
(* The work process for every number of workers and clients.  Its task     *)
(* queue behaves like QueueSpec, so what TaskQueueProofs proves of the     *)
(* list holds here; while the list is undamaged every open connection is   *)
(* in one pair of hands; and the workers leave an empty queue behind.      *)
(***************************************************************************)
EXTENDS ThreadPool, TaskQueueProofs

-----------------------------------------------------------------------------
(* The queue of the work process.                                          *)

(* What main.c hands to enqueue is a client's descriptor. *)
MainTypes ==
    /\ watched \subseteq Fd
    /\ open \subseteq Fd
    /\ main = "recv" => main_fd \in Fd

(* The steps that leave the queue alone. *)
LEMMA QueueUntouched ==
    ASSUME Next
    PROVE  \/ MainEnqueue
           \/ \E w \in Workers : WorkerTakes(w) \/ WorkerTakesAnything(w)
           \/ UNCHANGED queueVars
BY Zenon DEF Next, MainStep, Environment, WorkerStep, Accept, MainPick, AcceptFails, MainCrashes,
   MainCloses, NotifyWorkers, MainReadsPipe, MainQuits, NotifyExit, JoinAll, Alarm, SigInt,
   ClientSends, ClientCloses, WorkerLeaves, WorkerExits, WorkerDecidesToWait, WorkerWaits,
   SpuriousWakeup, WorkerTakesNothing, WorkerCrashes, HandleShort, WriteToPipe, HandleLong,
   Terminated, vars

(* At first no client is connected. *)
LEMMA InitMainTypes == Init => MainTypes
BY DEF Init, MainTypes

(* Descriptors enter the epoll set from accept, or from the pipe when      *)
(* they are open.                                                          *)
LEMMA MainTypesKept == MainTypes /\ [Next]_vars => MainTypes'
<1> SUFFICES ASSUME MainTypes, [Next]_vars PROVE MainTypes'
    OBVIOUS
<1> USE DEF MainTypes
<1>1. ASSUME NEW fd \in Fd, Accept(fd) PROVE MainTypes'
      BY <1>1 DEF Accept, mainVars
<1>2. ASSUME NEW fd \in Fd, MainPick(fd) PROVE MainTypes'
      BY <1>2 DEF MainPick
<1>3. CASE AcceptFails
      BY <1>3 DEF AcceptFails, connVars
<1>4. CASE MainEnqueue
      BY <1>4 DEF MainEnqueue
<1>5. CASE MainCrashes
      BY <1>5 DEF MainCrashes, connVars
<1>6. CASE MainCloses
      BY <1>6 DEF MainCloses
<1>7. CASE NotifyWorkers \/ NotifyExit \/ MainQuits \/ JoinAll \/ Alarm
      BY <1>7 DEF NotifyWorkers, NotifyExit, MainQuits, JoinAll, Alarm, connVars
<1>8. CASE MainReadsPipe
      BY <1>8 DEF MainReadsPipe
<1>9. CASE Environment
      BY <1>9 DEF Environment, SigInt, ClientSends, ClientCloses, mainVars, connVars
<1>10. ASSUME NEW w \in Workers, WorkerStep(w) PROVE MainTypes'
  <2>1. CASE WorkerCrashes(w)
        BY <2>1 DEF WorkerCrashes, connVars
  <2>2. CASE HandleLong(w)
        BY <2>2 DEF HandleLong, mainVars
  <2>3. CASE WriteToPipe(w)
        BY <2>3 DEF WriteToPipe, mainVars
  <2>4. CASE ~(WorkerCrashes(w) \/ HandleLong(w) \/ WriteToPipe(w))
    <3>1. UNCHANGED <<mainVars, connVars>>
          BY <1>10, <2>4, Zenon DEF WorkerStep, WorkerLeaves, WorkerExits, WorkerDecidesToWait,
             WorkerWaits, SpuriousWakeup, WorkerTakes, WorkerTakesAnything, WorkerTakesNothing,
             HandleShort, vars
    <3> QED  BY <3>1 DEF mainVars, connVars
  <2> QED  BY <2>1, <2>2, <2>3, <2>4
<1>11. CASE UNCHANGED vars
       BY <1>11 DEF vars, mainVars, connVars
<1> QED  BY <1>1, <1>2, <1>3, <1>4, <1>5, <1>6, <1>7, <1>8, <1>9, <1>10, <1>11, Zenon
         DEF Next, MainStep, Terminated

(* The main thread only ever enqueues the descriptor of a client           *)
(* (main.c:110).                                                           *)
THEOREM MainHandsOverClients == Spec => []MainTypes
BY InitMainTypes, MainTypesKept, PTL DEF Spec

(* A worker calls dequeue on the condition that QueueNext states. *)
LEMMA PoolStepsAreQueueSteps == MainTypes /\ [Next]_vars => [QueueNext]_queueVars
<1> SUFFICES ASSUME MainTypes, [Next]_vars PROVE [QueueNext]_queueVars
    OBVIOUS
<1>1. CASE MainEnqueue
  <2>1. main_fd \in Fd /\ \E c \in Cmd : Enqueue(main_fd, c)
        BY <1>1 DEF MainEnqueue, MainTypes
  <2> QED  BY <2>1 DEF QueueNext
<1>2. ASSUME NEW w \in Workers, WorkerTakes(w)
      PROVE  QueueNext
  <2> DEFINE short == (w = ShortThread)
  <2>1. ~NothingForMe(short) /\ ~NothingToDequeue(short) /\ Dequeue(short)
        BY <1>2 DEF WorkerTakes, MayDequeue, NothingFor, NothingForMe
  <2>2. short \in BOOLEAN
        OBVIOUS
  <2> HIDE DEF short
  <2> QED  BY <2>1, <2>2 DEF QueueNext
<1>3. ASSUME NEW w \in Workers, WorkerTakesAnything(w)
      PROVE  QueueNext
  <2> DEFINE short == (w = ShortThread)
  <2>1. ~NothingForMe(short) /\ \E c \in Cmd : DequeueDamaged(c)
        BY <1>3 DEF WorkerTakesAnything, MayDequeue, NothingFor, NothingForMe
  <2>2. short \in BOOLEAN
        OBVIOUS
  <2> HIDE DEF short
  <2> QED  BY <2>1, <2>2 DEF QueueNext
<1>4. CASE UNCHANGED vars
      BY <1>4 DEF vars
<1> QED  BY <1>1, <1>2, <1>3, <1>4, QueueUntouched

(* The main thread and the workers use the queue as QueueSpec says, so     *)
(* what is proved of the list of taskQueue.c holds in the work process.    *)
THEOREM PoolUsesQueue == Spec => QueueSpec
<1>1. Init => QueueInit
      BY DEF Init
<1> QED  BY <1>1, MainHandsOverClients, PoolStepsAreQueueSteps, PTL DEF Spec, QueueSpec

(* The list agrees with its counters in the work process,                  *)
THEOREM PoolListAgrees == Spec => []ListAgreesWithCounters
BY PoolUsesQueue, ListAgrees, PTL

(* until the damage a worker that calls dequeue gets a task,               *)
THEOREM PoolDequeueFinds == Spec => []FindsWhatIsCounted
BY PoolUsesQueue, DequeueFinds, PTL

(* and its tasks leave the queue in the promised order.                    *)
THEOREM PoolQueueIsFifo == Spec => ImplementsFifo
BY PoolUsesQueue, QueueIsFifo, PTL

-----------------------------------------------------------------------------
(* The shutdown.                                                           *)

(* The main thread enqueues nothing after it has set the exit flag, and a  *)
(* worker that takes long commands leaves only when the queue is empty.    *)
Quitting == {"quit", "join"} \cup Ended

Places == {"lock", "towait", "waiting", "leaving", "exited", "work", "write"}

ExitInv ==
    /\ exit => main \in Quitting
    /\ \A w \in Workers : w # ShortThread /\ pc[w] \in {"leaving", "exited"}
                              => exit /\ queue_size = 0
    /\ pc \in [Workers -> Places]

(* At first no worker has left. *)
LEMMA InitExitInv == Init => ExitInv
BY DEF Init, ExitInv, Places

(* The loop condition of thread.c is tested before the flag, so who        *)
(* leaves saw an empty queue.                                              *)
LEMMA ExitInvKept ==
    ASSUME ExitInv, QueueTypes, [Next]_vars
    PROVE  ExitInv'
<1> USE DEF ExitInv, Places
<1>0. queue_size \in Nat
      BY QueueAssumption DEF QueueTypes
<1>1. ASSUME NEW fd \in Fd, Accept(fd) PROVE ExitInv'
      BY <1>1 DEF Accept, mainVars, workerVars, queueVars
<1>2. ASSUME NEW fd \in Fd, MainPick(fd) PROVE ExitInv'
      BY <1>2 DEF MainPick, workerVars, queueVars, Quitting, Ended
<1>3. CASE AcceptFails
      BY <1>3 DEF AcceptFails, workerVars, queueVars, Quitting, Ended
<1>4. CASE MainEnqueue
      BY <1>4 DEF MainEnqueue, workerVars, Quitting, Ended
<1>5. CASE MainCrashes
      BY <1>5 DEF MainCrashes, workerVars, queueVars, Quitting, Ended
<1>6. CASE MainCloses
      BY <1>6 DEF MainCloses, workerVars, queueVars, Quitting, Ended
<1>7. CASE NotifyWorkers \/ NotifyExit
  <2>1. /\ exit' = exit /\ queue_size' = queue_size
        /\ pc' = [w \in Workers |-> IF w \in Waiting THEN "lock" ELSE pc[w]]
        /\ exit => main' \in Quitting
        BY <1>7 DEF NotifyWorkers, NotifyExit, WakeAll, queueVars, Quitting, Ended
  <2> QED  BY <2>1
<1>8. CASE MainQuits \/ JoinAll \/ Alarm
      BY <1>8 DEF MainQuits, JoinAll, Alarm, workerVars, queueVars, Quitting, Ended
<1>9. CASE MainReadsPipe
      BY <1>9 DEF MainReadsPipe, workerVars, queueVars, Quitting, Ended
<1>10. CASE Environment
       BY <1>10 DEF Environment, SigInt, ClientSends, ClientCloses, mainVars, workerVars, queueVars
<1>11. ASSUME NEW w \in Workers, WorkerStep(w) PROVE ExitInv'
  <2>1. CASE WorkerLeaves(w)
        BY <1>0, <2>1 DEF WorkerLeaves, NothingFor, mainVars, queueVars
  <2>2. CASE WorkerExits(w)
        BY <2>2 DEF WorkerExits, At, mainVars, queueVars, Waiting
  <2>3. CASE WorkerDecidesToWait(w) \/ WorkerWaits(w) \/ SpuriousWakeup(w)
        BY <2>3 DEF WorkerDecidesToWait, WorkerWaits, SpuriousWakeup, mainVars, queueVars
  <2>4. CASE WorkerTakes(w)
    <3>1. queue_size # 0 /\ pc' = [pc EXCEPT ![w] = "work"] /\ UNCHANGED <<exit, main>>
          BY <1>0, <2>4 DEF WorkerTakes, MayDequeue, NothingFor, mainVars
    <3> QED  BY <3>1
  <2>5. CASE WorkerTakesAnything(w)
    <3>1. queue_size # 0 /\ pc' = [pc EXCEPT ![w] = "work"] /\ UNCHANGED <<exit, main>>
          BY <1>0, <2>5 DEF WorkerTakesAnything, MayDequeue, NothingFor, mainVars
    <3> QED  BY <3>1
  <2>6. CASE WorkerTakesNothing(w)
        BY <2>6 DEF WorkerTakesNothing, vars, mainVars, workerVars, queueVars
  <2>7. CASE WorkerCrashes(w)
        BY <2>7 DEF WorkerCrashes, workerVars, queueVars, Quitting, Ended
  <2>8. CASE HandleShort(w) \/ WriteToPipe(w) \/ HandleLong(w)
        BY <2>8 DEF HandleShort, WriteToPipe, HandleLong, mainVars, queueVars
  <2> QED  BY <1>11, <2>1, <2>2, <2>3, <2>4, <2>5, <2>6, <2>7, <2>8 DEF WorkerStep
<1>12. CASE UNCHANGED vars
       BY <1>12 DEF vars, mainVars, workerVars, queueVars
<1> HIDE DEF ExitInv, Places
<1> QED  BY <1>1, <1>2, <1>3, <1>4, <1>5, <1>6, <1>7, <1>8, <1>9, <1>10, <1>11, <1>12, Zenon
         DEF Next, MainStep, Terminated

(* There is a worker besides the one kept for short commands. *)
LEMMA ExitInvImplies == QueueTypes /\ ExitInv => DrainedOnExit
<1> SUFFICES ASSUME ExitInv, AllExited PROVE queue_size = 0
    BY DEF DrainedOnExit
<1>1. PICK w \in Workers : w # ShortThread
      BY WorkersAssumption
<1> QED  BY <1>1 DEF AllExited, ExitInv

(* When all workers have left, no accepted request is still waiting.       *)
THEOREM ShutdownDrains == Spec => []DrainedOnExit
<1>1. Spec => [](QueueTypes /\ ListInv)
      BY PoolUsesQueue, QueueInvariant, PTL
<1>2. ExitInv /\ QueueTypes /\ [Next]_vars => ExitInv'
      BY ExitInvKept
<1> QED  BY <1>1, <1>2, InitExitInv, ExitInvImplies, PTL DEF Spec

-----------------------------------------------------------------------------
(* Who holds a connection.                                                 *)

Busy == {"work", "write"}

MainFds   == {main_fd} \ {Null}
QueueFds  == {heap[a].netfd : a \in live}
WorkerFds == {net_fd[w] : w \in Workers} \ {Null}
PipeFds   == {pipe[i] : i \in DOMAIN pipe}

(* A busy worker has a descriptor, an idle one none; the main thread has   *)
(* one while it receives, or had one when the process was killed.          *)
Hands ==
    /\ pc \in [Workers -> Places]
    /\ net_fd \in [Workers -> Fd \cup {Null}]
    /\ \A w \in Workers : net_fd[w] # Null <=> pc[w] \in Busy
    /\ pipe \in Seq(Fd)
    /\ main_fd \in Fd \cup {Null}
    /\ main \notin {"recv", "aborted"} => main_fd = Null
    /\ abandoned \subseteq Fd

(* The open connections are shared out without overlap. *)
Partition ==
    /\ open = watched \cup MainFds \cup QueueFds \cup WorkerFds \cup PipeFds \cup abandoned
    /\ watched \cap (MainFds \cup QueueFds \cup WorkerFds \cup PipeFds \cup abandoned) = {}
    /\ MainFds \cap (QueueFds \cup WorkerFds \cup PipeFds \cup abandoned) = {}
    /\ QueueFds \cap (WorkerFds \cup PipeFds \cup abandoned) = {}
    /\ WorkerFds \cap (PipeFds \cup abandoned) = {}
    /\ PipeFds \cap abandoned = {}

(* Nobody holds a connection twice. *)
Once ==
    /\ \A a, b \in live : heap[a].netfd = heap[b].netfd => a = b
    /\ \A v, w \in Workers : net_fd[v] = net_fd[w] /\ net_fd[v] # Null => v = w
    /\ \A i, j \in DOMAIN pipe : pipe[i] = pipe[j] => i = j

OwnerInv == Hands /\ Partition /\ Once /\ main # "epoll_error"

(* At first there is no connection. *)
LEMMA InitOwnerInv == Init => OwnerInv
<1> SUFFICES ASSUME Init PROVE OwnerInv
    OBVIOUS
<1>1. live = {} /\ pipe = <<>> /\ main_fd = Null /\ watched = {} /\ open = {} /\ abandoned = {}
      /\ net_fd = [w \in Workers |-> Null] /\ pc = [w \in Workers |-> "lock"] /\ main = "loop"
      BY DEF Init, QueueInit
<1>2. Hands
      BY <1>1, EmptySeq DEF Hands, Places, Busy
<1>3. Partition /\ Once
      BY <1>1 DEF Partition, MainFds, QueueFds, WorkerFds, PipeFds, Once
<1> QED  BY <1>1, <1>2, <1>3 DEF OwnerInv

(* A partition gives each connection at most one owner.                    *)
LEMMA OwnersOf ==
    ASSUME OwnerInv, NEW fd \in Fd
    PROVE  /\ Owners(fd) = {} \/ \E x : Owners(fd) = {x}
           /\ fd \in open <=> Owners(fd) # {} \/ fd \in abandoned
<1> USE DEF OwnerInv, Partition, Once
<1>1. /\ fd \in MainFds <=> main_fd = fd
      /\ fd \in QueueFds <=> \E a \in live : heap[a].netfd = fd
      /\ fd \in WorkerFds <=> \E w \in Workers : net_fd[w] = fd
      /\ fd \in PipeFds <=> \E i \in DOMAIN pipe : pipe[i] = fd
      BY QueueAssumption DEF MainFds, QueueFds, WorkerFds, PipeFds
<1>2. /\ {<<"epoll", 0>> : x \in watched \cap {fd}} = IF fd \in watched THEN {<<"epoll", 0>>} ELSE {}
      /\ {<<"main", 0>> : x \in {main_fd} \cap {fd}} = IF fd \in MainFds THEN {<<"main", 0>>} ELSE {}
  <2>1. \A S : {<<"epoll", 0>> : x \in S \cap {fd}} = IF fd \in S THEN {<<"epoll", 0>>} ELSE {}
        OBVIOUS
  <2>2. \A S : {<<"main", 0>> : x \in S \cap {fd}} = IF fd \in S THEN {<<"main", 0>>} ELSE {}
        OBVIOUS
  <2>3. fd \in {main_fd} <=> fd \in MainFds
        BY <1>1
  <2> QED  BY <2>1, <2>2, <2>3
<1> DEFINE E == {<<"epoll", 0>> : x \in watched \cap {fd}}
           M == {<<"main", 0>>  : x \in {main_fd} \cap {fd}}
           Q == {<<"queue", a>> : a \in {n \in live : heap[n].netfd = fd}}
           W == {<<"worker", w>> : w \in {v \in Workers : net_fd[v] = fd}}
           P == {<<"pipe", i>> : i \in {j \in DOMAIN pipe : pipe[j] = fd}}
<1>3. Owners(fd) = E \cup M \cup Q \cup W \cup P
      BY DEF Owners
<1>4. IF fd \in QueueFds THEN \E x : Q = {x} ELSE Q = {}
  <2>1. CASE fd \in QueueFds
    <3>1. PICK a \in live : heap[a].netfd = fd
          BY <1>1, <2>1
    <3>2. Q = {<<"queue", a>>}
          BY <3>1
    <3> QED  BY <2>1, <3>2
  <2>2. CASE fd \notin QueueFds
        BY <1>1, <2>2
  <2> QED  BY <2>1, <2>2
<1>5. IF fd \in WorkerFds THEN \E x : W = {x} ELSE W = {}
  <2>1. CASE fd \in WorkerFds
    <3>1. PICK w \in Workers : net_fd[w] = fd
          BY <1>1, <2>1
    <3>2. W = {<<"worker", w>>}
          BY <3>1, QueueAssumption
    <3> QED  BY <2>1, <3>2
  <2>2. CASE fd \notin WorkerFds
        BY <1>1, <2>2
  <2> QED  BY <2>1, <2>2
<1>6. IF fd \in PipeFds THEN \E x : P = {x} ELSE P = {}
  <2>1. CASE fd \in PipeFds
    <3>1. PICK i \in DOMAIN pipe : pipe[i] = fd
          BY <1>1, <2>1
    <3>2. P = {<<"pipe", i>>}
          BY <3>1
    <3> QED  BY <2>1, <3>2
  <2>2. CASE fd \notin PipeFds
        BY <1>1, <2>2
  <2> QED  BY <2>1, <2>2
<1>7. /\ IF fd \in watched THEN \E x : E = {x} ELSE E = {}
      /\ IF fd \in MainFds THEN \E x : M = {x} ELSE M = {}
      BY <1>2
<1> HIDE DEF E, M, Q, W, P
<1>8. CASE fd \in watched
      BY <1>3, <1>4, <1>5, <1>6, <1>7, <1>8
<1>9. CASE fd \in MainFds
      BY <1>3, <1>4, <1>5, <1>6, <1>7, <1>9
<1>10. CASE fd \in QueueFds
       BY <1>3, <1>4, <1>5, <1>6, <1>7, <1>10
<1>11. CASE fd \in WorkerFds
       BY <1>3, <1>4, <1>5, <1>6, <1>7, <1>11
<1>12. CASE fd \in PipeFds
       BY <1>3, <1>4, <1>5, <1>6, <1>7, <1>12
<1>13. CASE fd \notin watched \cup MainFds \cup QueueFds \cup WorkerFds \cup PipeFds
       BY <1>3, <1>4, <1>5, <1>6, <1>7, <1>13
<1> QED  BY <1>8, <1>9, <1>10, <1>11, <1>12, <1>13

(* What the partition says of owners is OneOwner. *)
LEMMA OwnerInvImplies == (intact => OwnerInv) => OneOwner
<1> SUFFICES ASSUME OwnerInv
             PROVE  /\ \A fd \in Fd : Cardinality(Owners(fd)) <= 1
                    /\ \A fd \in Fd : fd \in open <=> Owners(fd) # {} \/ fd \in abandoned
                    /\ main # "epoll_error"
    BY DEF OneOwner
<1>1. ASSUME NEW fd \in Fd
      PROVE  Cardinality(Owners(fd)) <= 1
  <2>1. CASE Owners(fd) = {}
        BY <2>1, FS_EmptySet
  <2>2. CASE \E x : Owners(fd) = {x}
    <3>1. PICK x : Owners(fd) = {x}
          BY <2>2
    <3>2. Cardinality({x}) = 1
          BY FS_Singleton
    <3> QED  BY <3>1, <3>2
  <2> QED  BY <2>1, <2>2, OwnersOf
<1> QED  BY <1>1, OwnersOf DEF OwnerInv

(* Most steps move no descriptor.                                          *)
LEMMA NothingMoves ==
    ASSUME OwnerInv, UNCHANGED <<net_fd, main_fd, pipe, watched, open, abandoned, live, heap>>,
           pc' \in [Workers -> Places], \A w \in Workers : pc'[w] \in Busy <=> pc[w] \in Busy,
           main' \notin {"recv", "aborted"} => main_fd = Null, main' # "epoll_error"
    PROVE  OwnerInv'
<1>1. Hands'
      BY DEF OwnerInv, Hands
<1>2. Partition' /\ Once'
      BY DEF OwnerInv, Partition, Once, MainFds, QueueFds, WorkerFds, PipeFds
<1> QED  BY <1>1, <1>2 DEF OwnerInv

(* A worker receives a descriptor,                                         *)
LEMMA WorkerGets ==
    ASSUME OwnerInv, NEW w \in Workers, net_fd[w] = Null, NEW fd \in Fd, fd \notin WorkerFds,
           net_fd' = [net_fd EXCEPT ![w] = fd]
    PROVE  /\ WorkerFds' = WorkerFds \cup {fd}
           /\ \A u, v \in Workers : net_fd'[u] = net_fd'[v] /\ net_fd'[u] # Null => u = v
<1>1. net_fd \in [Workers -> Fd \cup {Null}]
      BY DEF OwnerInv, Hands
<1>2. \A v \in Workers : net_fd'[v] = IF v = w THEN fd ELSE net_fd[v]
      BY <1>1
<1>3. \A v \in Workers : net_fd[v] # Null => net_fd[v] \in WorkerFds
      BY DEF WorkerFds
<1>4. WorkerFds' = WorkerFds \cup {fd}
  <2>1. \A x \in WorkerFds' : x \in WorkerFds \cup {fd}
        BY <1>2 DEF WorkerFds
  <2>2. fd \in WorkerFds'
        BY <1>2, QueueAssumption DEF WorkerFds
  <2>3. ASSUME NEW x \in WorkerFds
        PROVE  x \in WorkerFds'
    <3>1. PICK v \in Workers : x = net_fd[v] /\ x # Null
          BY <2>3 DEF WorkerFds
    <3>2. net_fd'[v] = x
          BY <1>2, <3>1
    <3> QED  BY <3>1, <3>2 DEF WorkerFds
  <2> QED  BY <2>1, <2>2, <2>3
<1>5. ASSUME NEW u \in Workers, NEW v \in Workers, net_fd'[u] = net_fd'[v], net_fd'[u] # Null
      PROVE  u = v
      BY <1>2, <1>3, <1>5 DEF OwnerInv, Once
<1> QED  BY <1>4, <1>5

(* and gives it away.                                                      *)
LEMMA WorkerGives ==
    ASSUME OwnerInv, NEW w \in Workers, net_fd[w] # Null,
           net_fd' = [net_fd EXCEPT ![w] = Null]
    PROVE  /\ net_fd[w] \in WorkerFds /\ WorkerFds' = WorkerFds \ {net_fd[w]}
           /\ \A u, v \in Workers : net_fd'[u] = net_fd'[v] /\ net_fd'[u] # Null => u = v
<1>1. net_fd \in [Workers -> Fd \cup {Null}]
      BY DEF OwnerInv, Hands
<1>2. \A v \in Workers : net_fd'[v] = IF v = w THEN Null ELSE net_fd[v]
      BY <1>1
<1>3. \A u, v \in Workers : net_fd[u] = net_fd[v] /\ net_fd[u] # Null => u = v
      BY DEF OwnerInv, Once
<1>4. WorkerFds' = WorkerFds \ {net_fd[w]}
  <2>1. ASSUME NEW x \in WorkerFds'
        PROVE  x \in WorkerFds \ {net_fd[w]}
    <3>1. PICK v \in Workers : x = net_fd'[v] /\ x # Null
          BY <2>1 DEF WorkerFds
    <3>2. v # w /\ x = net_fd[v]
          BY <1>2, <3>1
    <3> QED  BY <1>3, <3>1, <3>2 DEF WorkerFds
  <2>2. ASSUME NEW x \in WorkerFds \ {net_fd[w]}
        PROVE  x \in WorkerFds'
    <3>1. PICK v \in Workers : x = net_fd[v] /\ x # Null
          BY <2>2 DEF WorkerFds
    <3>2. net_fd'[v] = x
          BY <1>2, <2>2, <3>1
    <3> QED  BY <3>1, <3>2 DEF WorkerFds
  <2> QED  BY <2>1, <2>2
<1> QED  BY <1>2, <1>3, <1>4 DEF WorkerFds

(* write puts a descriptor into the pipe,                                  *)
LEMMA PipeGets ==
    ASSUME OwnerInv, NEW fd \in Fd, fd \notin PipeFds, pipe' = Append(pipe, fd)
    PROVE  /\ pipe' \in Seq(Fd) /\ PipeFds' = PipeFds \cup {fd}
           /\ \A i, j \in DOMAIN pipe' : pipe'[i] = pipe'[j] => i = j
<1>1. pipe \in Seq(Fd) /\ Len(pipe) \in Nat /\ DOMAIN pipe = 1..Len(pipe)
      BY LenProperties DEF OwnerInv, Hands
<1>2. /\ pipe' \in Seq(Fd) /\ Len(pipe') = Len(pipe) + 1
      /\ \A i \in 1..Len(pipe) : pipe'[i] = pipe[i]
      /\ pipe'[Len(pipe) + 1] = fd
      BY <1>1, AppendProperties
<1>3. DOMAIN pipe' = 1..(Len(pipe) + 1)
      BY <1>2, LenProperties
<1>4. \A i \in 1..(Len(pipe) + 1) : i = Len(pipe) + 1 \/ i \in 1..Len(pipe)
      BY <1>1
<1>5. \A i \in 1..Len(pipe) : i \in DOMAIN pipe' /\ pipe[i] # fd
      BY <1>1, <1>3 DEF PipeFds
<1>6. PipeFds' = PipeFds \cup {fd}
  <2>1. \A x \in PipeFds' : x \in PipeFds \cup {fd}
        BY <1>1, <1>2, <1>3, <1>4 DEF PipeFds
  <2>2. \A x \in PipeFds : x \in PipeFds'
        BY <1>1, <1>2, <1>5 DEF PipeFds
  <2>3. fd \in PipeFds'
    <3>1. Len(pipe) + 1 \in DOMAIN pipe'
          BY <1>1, <1>3
    <3> QED  BY <1>2, <3>1 DEF PipeFds
  <2> QED  BY <2>1, <2>2, <2>3
<1>7. \A i, j \in DOMAIN pipe' : pipe'[i] = pipe'[j] => i = j
  <2>1. \A i, j \in 1..Len(pipe) : pipe[i] = pipe[j] => i = j
        BY <1>1 DEF OwnerInv, Once
  <2> QED  BY <1>2, <1>3, <1>4, <1>5, <2>1
<1> QED  BY <1>2, <1>6, <1>7

(* and read takes the first one out.                                       *)
LEMMA PipeGives ==
    ASSUME OwnerInv, pipe # <<>>, pipe' = Tail(pipe)
    PROVE  /\ pipe' \in Seq(Fd) /\ Head(pipe) \in PipeFds /\ Head(pipe) \in Fd
           /\ PipeFds' = PipeFds \ {Head(pipe)}
           /\ \A i, j \in DOMAIN pipe' : pipe'[i] = pipe'[j] => i = j
<1>1. pipe \in Seq(Fd) /\ Len(pipe) \in Nat \ {0} /\ DOMAIN pipe = 1..Len(pipe)
  <2>1. pipe \in Seq(Fd)
        BY DEF OwnerInv, Hands
  <2> QED  BY <2>1, LenProperties, EmptySeq
<1>2. /\ Head(pipe) \in Fd /\ Head(pipe) = pipe[1]
      /\ pipe' \in Seq(Fd) /\ Len(pipe') = Len(pipe) - 1
      /\ \A i \in 1..(Len(pipe) - 1) : pipe'[i] = pipe[i + 1]
      BY <1>1, HeadTailProperties
<1>3. DOMAIN pipe' = 1..(Len(pipe) - 1)
      BY <1>2, LenProperties
<1>4. \A i, j \in 1..Len(pipe) : pipe[i] = pipe[j] => i = j
      BY <1>1 DEF OwnerInv, Once
<1>5. PipeFds' = PipeFds \ {Head(pipe)}
  <2>1. ASSUME NEW x \in PipeFds'
        PROVE  x \in PipeFds \ {Head(pipe)}
    <3>1. PICK i \in 1..(Len(pipe) - 1) : x = pipe'[i]
          BY <1>3 DEF PipeFds
    <3>2. x = pipe[i + 1] /\ i + 1 \in 1..Len(pipe) /\ 1 \in 1..Len(pipe) /\ i + 1 # 1
          BY <1>1, <1>2, <3>1
    <3> QED  BY <1>1, <1>2, <1>4, <3>2 DEF PipeFds
  <2>2. ASSUME NEW x \in PipeFds \ {Head(pipe)}
        PROVE  x \in PipeFds'
    <3>1. PICK i \in 1..Len(pipe) : x = pipe[i]
          BY <1>1 DEF PipeFds
    <3>2. i # 1
          BY <1>2, <2>2, <3>1
    <3>3. i - 1 \in 1..(Len(pipe) - 1) /\ (i - 1) + 1 = i
          BY <1>1, <3>2
    <3>4. pipe'[i - 1] = x /\ i - 1 \in DOMAIN pipe'
          BY <1>2, <1>3, <3>1, <3>3
    <3> QED  BY <3>4 DEF PipeFds
  <2> QED  BY <2>1, <2>2
<1>6. Head(pipe) \in PipeFds
  <2>1. 1 \in DOMAIN pipe
        BY <1>1
  <2> QED  BY <1>2, <2>1 DEF PipeFds
<1>7. \A i, j \in DOMAIN pipe' : pipe'[i] = pipe'[j] => i = j
  <2>1. \A i \in 1..(Len(pipe) - 1) : i + 1 \in 1..Len(pipe) /\ pipe'[i] = pipe[i + 1]
        BY <1>1, <1>2
  <2>2. \A i, j \in 1..(Len(pipe) - 1) : i + 1 = j + 1 => i = j
        OBVIOUS
  <2> QED  BY <1>3, <1>4, <2>1, <2>2
<1> QED  BY <1>2, <1>5, <1>6, <1>7

(* One connection moves from hand to hand, appears, or disappears.         *)
LEMMA OwnerInvKept ==
    ASSUME OwnerInv, MainTypes, QueueTypes, ListInv, intact, [Next]_vars
    PROVE  OwnerInv'
<1>t. /\ pc \in [Workers -> Places] /\ net_fd \in [Workers -> Fd \cup {Null}]
      /\ \A w \in Workers : net_fd[w] # Null <=> pc[w] \in Busy
      /\ pipe \in Seq(Fd) /\ main_fd \in Fd \cup {Null}
      /\ main \notin {"recv", "aborted"} => main_fd = Null
      /\ abandoned \subseteq Fd /\ main # "epoll_error"
      BY DEF OwnerInv, Hands
<1>q. UNCHANGED <<live, heap>> => UNCHANGED QueueFds
       BY DEF QueueFds
<1>w. UNCHANGED net_fd => UNCHANGED WorkerFds
       BY DEF WorkerFds
<1>p. UNCHANGED pipe => UNCHANGED PipeFds
       BY DEF PipeFds
<1>1. ASSUME NEW fd \in Fd, Accept(fd) PROVE OwnerInv'
  <2>1. /\ main = "loop" /\ UNCHANGED <<main, main_fd, pc, net_fd, pipe, abandoned, live, heap>>
        /\ fd \notin open /\ open' = open \cup {fd} /\ watched' = watched \cup {fd}
        BY <1>1 DEF Accept, workerVars, mainVars, queueVars
  <2>2. UNCHANGED <<MainFds, QueueFds, WorkerFds, PipeFds>>
        BY <1>q, <1>w, <1>p, <2>1 DEF MainFds
  <2>3. Partition'
        BY <2>1, <2>2 DEF OwnerInv, Partition
  <2>4. Hands' /\ Once'
        BY <1>t, <2>1 DEF OwnerInv, Hands, Once
  <2> QED  BY <1>t, <2>1, <2>3, <2>4 DEF OwnerInv
<1>2. ASSUME NEW fd \in Fd, MainPick(fd) PROVE OwnerInv'
  <2>1. /\ main = "loop" /\ UNCHANGED <<pc, net_fd, pipe, abandoned, open, live, heap>>
        /\ fd \in watched /\ watched' = watched \ {fd} /\ main' = "recv" /\ main_fd' = fd
        BY <1>2 DEF MainPick, workerVars, queueVars
  <2>2. /\ UNCHANGED <<QueueFds, WorkerFds, PipeFds>>
        /\ MainFds = {} /\ MainFds' = {fd}
        BY <1>t, <1>q, <1>w, <1>p, <2>1, QueueAssumption DEF MainFds
  <2>3. Partition'
        BY <2>1, <2>2 DEF OwnerInv, Partition
  <2>4. Hands' /\ Once'
        BY <1>t, <2>1 DEF OwnerInv, Hands, Once
  <2> QED  BY <1>t, <2>1, <2>3, <2>4 DEF OwnerInv
<1>3. CASE MainEnqueue
  <2>1. /\ main = "recv" /\ UNCHANGED <<watched, open, pc, net_fd, pipe>>
        /\ main_fd \in Fd /\ main_fd' = Null /\ main' = "broadcast"
        /\ abandoned' = abandoned \cup {fd \in {main_fd} : queue_size = MaxSize}
        /\ \E c \in Cmd : Enqueue(main_fd, c)
        BY <1>3 DEF MainEnqueue, MainTypes, workerVars
  <2>2. /\ UNCHANGED <<WorkerFds, PipeFds>>
        /\ MainFds = {main_fd} /\ MainFds' = {}
        BY <1>w, <1>p, <2>1, QueueAssumption DEF MainFds
  <2>3. PICK c \in Cmd : Enqueue(main_fd, c)
        BY <2>1
  <2>4. CASE queue_size = MaxSize
    <3>1. UNCHANGED <<live, heap>>
          BY <2>3, <2>4 DEF Enqueue, queueVars
    <3>2. abandoned' = abandoned \cup {main_fd}
          BY <2>1, <2>4
    <3>3. Partition'
          BY <1>q, <2>1, <2>2, <3>1, <3>2 DEF OwnerInv, Partition
    <3>4. Hands' /\ Once'
          BY <1>t, <2>1, <3>1, <3>2 DEF OwnerInv, Hands, Once
    <3> QED  BY <2>1, <3>3, <3>4 DEF OwnerInv
  <2>5. CASE queue_size # MaxSize
    <3>1. PICK s : IsList(s) \/ (queue_size = 0 /\ live = {})
      <4>1. queue_size \in Nat
            BY QueueAssumption DEF QueueTypes
      <4> QED  BY <4>1 DEF ListInv
    <3>2. PICK new \in Addr \ live :
             /\ live' = live \cup {new}
             /\ Task(new)' = [netfd |-> main_fd, cmd |-> c]
             /\ \A a \in live : Task(a)' = Task(a)
          BY <2>1, <2>3, <2>5, <3>1, EnqueueAppends
    <3>3. heap'[new].netfd = main_fd /\ \A a \in live : heap'[a].netfd = heap[a].netfd
          BY <3>2 DEF Task
    <3>4. QueueFds' = QueueFds \cup {main_fd}
          BY <3>2, <3>3 DEF QueueFds
    <3>5. main_fd \notin QueueFds
          BY <2>2 DEF OwnerInv, Partition
    <3>6. \A a, b \in live' : heap'[a].netfd = heap'[b].netfd => a = b
      <4>1. \A a \in live : heap[a].netfd # main_fd
            BY <3>5 DEF QueueFds
      <4> QED  BY <3>2, <3>3, <4>1 DEF OwnerInv, Once
    <3>7. abandoned' = abandoned
          BY <2>1, <2>5
    <3>8. Partition'
          BY <2>1, <2>2, <3>4, <3>7 DEF OwnerInv, Partition
    <3>9. Hands' /\ Once'
          BY <1>t, <2>1, <3>6, <3>7 DEF OwnerInv, Hands, Once
    <3> QED  BY <2>1, <3>8, <3>9 DEF OwnerInv
  <2> QED  BY <2>4, <2>5
<1>4. CASE MainCloses
  <2>1. /\ main = "recv" /\ UNCHANGED <<pc, net_fd, pipe, abandoned, watched, live, heap>>
        /\ main_fd \in Fd /\ open' = open \ {main_fd} /\ main' = "loop" /\ main_fd' = Null
        BY <1>4 DEF MainCloses, MainTypes, workerVars, queueVars
  <2>2. /\ UNCHANGED <<QueueFds, WorkerFds, PipeFds>>
        /\ MainFds = {main_fd} /\ MainFds' = {}
        BY <1>q, <1>w, <1>p, <2>1, QueueAssumption DEF MainFds
  <2>3. Partition'
        BY <2>1, <2>2 DEF OwnerInv, Partition
  <2>4. Hands' /\ Once'
        BY <1>t, <2>1 DEF OwnerInv, Hands, Once
  <2> QED  BY <2>1, <2>3, <2>4 DEF OwnerInv
<1>5. CASE MainReadsPipe
  <2> DEFINE fd == Head(pipe)
  <2>1. /\ main = "loop" /\ pipe # <<>> /\ pipe' = Tail(pipe)
        /\ UNCHANGED <<main_fd, pc, net_fd, abandoned, open, live, heap>>
        BY <1>5 DEF MainReadsPipe, workerVars, queueVars
  <2>2. /\ pipe' \in Seq(Fd) /\ fd \in PipeFds /\ PipeFds' = PipeFds \ {fd}
        /\ \A i, j \in DOMAIN pipe' : pipe'[i] = pipe'[j] => i = j
        BY <2>1, PipeGives
  <2>3. fd \in open \ watched
        BY <2>2 DEF OwnerInv, Partition
  <2>4. watched' = watched \cup {fd} /\ main' = main
        BY <1>5, <2>3 DEF MainReadsPipe
  <2>5. UNCHANGED <<MainFds, QueueFds, WorkerFds>>
        BY <1>q, <1>w, <2>1 DEF MainFds
  <2>6. Partition'
        BY <2>1, <2>2, <2>4, <2>5 DEF OwnerInv, Partition
  <2>7. Hands' /\ Once'
        BY <1>t, <2>1, <2>2, <2>4 DEF OwnerInv, Hands, Once
  <2> QED  BY <2>1, <2>4, <2>6, <2>7 DEF OwnerInv
<1>6. ASSUME NEW w \in Workers, WorkerTakes(w) PROVE OwnerInv'
  <2> DEFINE short == (w = ShortThread)  cur == Taken(short)  fd == heap[cur].netfd
  <2>1. /\ pc[w] = "lock" /\ pc' = [pc EXCEPT ![w] = "work"]
        /\ net_fd' = [net_fd EXCEPT ![w] = fd]
        /\ ~NothingFor(w) /\ ~NothingToDequeue(short) /\ Dequeue(short)
        /\ UNCHANGED <<main, main_fd, pipe, watched, open, abandoned>>
        BY <1>6 DEF WorkerTakes, MayDequeue, At, mainVars, connVars
  <2>2. PICK s : IsList(s)
    <3>1. queue_size > 0
          BY <2>1, QueueAssumption DEF NothingFor, QueueTypes
    <3> QED  BY <3>1 DEF ListInv
  <2>3. short \in BOOLEAN
        OBVIOUS
  <2> HIDE DEF short
  <2>4. cur \in live /\ live' = live \ {cur} /\ \A a \in Addr : a # cur => Task(a)' = Task(a)
        BY <2>1, <2>2, <2>3, SearchInList, DequeueUnlinks
  <2>5. \A a \in live' : heap'[a].netfd = heap[a].netfd
    <3>1. live \subseteq Addr
          BY DEF QueueTypes
    <3> QED  BY <2>4, <3>1 DEF Task
  <2>6. fd \in QueueFds /\ QueueFds' = QueueFds \ {fd}
    <3>1. \A a, b \in live : heap[a].netfd = heap[b].netfd => a = b
          BY DEF OwnerInv, Once
    <3> HIDE DEF cur
    <3> QED  BY <2>4, <2>5, <3>1 DEF QueueFds
  <2>7. fd \in Fd /\ fd \notin WorkerFds
        BY <2>4, <2>6 DEF ListInv, OwnerInv, Partition
  <2>8. net_fd[w] = Null
        BY <1>t, <2>1 DEF Busy
  <2> HIDE DEF fd
  <2>9. /\ WorkerFds' = WorkerFds \cup {fd}
        /\ \A u, v \in Workers : net_fd'[u] = net_fd'[v] /\ net_fd'[u] # Null => u = v
        BY <2>1, <2>7, <2>8, WorkerGets
  <2>10. UNCHANGED <<MainFds, PipeFds>>
         BY <1>p, <2>1 DEF MainFds
  <2>11. Partition'
         BY <2>1, <2>6, <2>9, <2>10 DEF OwnerInv, Partition
  <2>12. Hands'
         BY <1>t, <2>1, <2>7, QueueAssumption DEF Hands, Places, Busy
  <2>13. Once'
         BY <2>1, <2>4, <2>5, <2>9 DEF OwnerInv, Once
  <2> QED  BY <1>t, <2>1, <2>11, <2>12, <2>13 DEF OwnerInv
<1>7. ASSUME NEW w \in Workers, WriteToPipe(w) PROVE OwnerInv'
  <2> DEFINE fd == net_fd[w]
  <2>1. /\ pc[w] = "write" /\ pc' = [pc EXCEPT ![w] = "lock"]
        /\ pipe' = Append(pipe, fd) /\ net_fd' = [net_fd EXCEPT ![w] = Null]
        /\ UNCHANGED <<main, main_fd, watched, open, abandoned, live, heap>>
        BY <1>7 DEF WriteToPipe, At, mainVars, queueVars
  <2>2. fd # Null /\ fd \in Fd
        BY <1>t, <2>1 DEF Busy
  <2>3. /\ fd \in WorkerFds /\ WorkerFds' = WorkerFds \ {fd}
        /\ \A u, v \in Workers : net_fd'[u] = net_fd'[v] /\ net_fd'[u] # Null => u = v
        BY <2>1, <2>2, WorkerGives
  <2>4. fd \notin PipeFds
        BY <2>3 DEF OwnerInv, Partition
  <2>5. /\ pipe' \in Seq(Fd) /\ PipeFds' = PipeFds \cup {fd}
        /\ \A i, j \in DOMAIN pipe' : pipe'[i] = pipe'[j] => i = j
        BY <2>1, <2>2, <2>4, PipeGets
  <2>6. UNCHANGED <<MainFds, QueueFds>>
        BY <1>q, <2>1 DEF MainFds
  <2>7. Hands'
        BY <1>t, <2>1, <2>5 DEF Hands, Places, Busy
  <2> HIDE DEF fd
  <2>8. Partition'
        BY <2>1, <2>3, <2>5, <2>6 DEF OwnerInv, Partition
  <2>9. Once'
        BY <2>1, <2>3, <2>5 DEF OwnerInv, Once
  <2> QED  BY <1>t, <2>1, <2>7, <2>8, <2>9 DEF OwnerInv
<1>8. ASSUME NEW w \in Workers, HandleLong(w) PROVE OwnerInv'
  <2> DEFINE fd == net_fd[w]
  <2>1. /\ pc[w] = "work" /\ pc' = [pc EXCEPT ![w] = "lock"]
        /\ net_fd' = [net_fd EXCEPT ![w] = Null]
        /\ \/ open' = open \ {fd} /\ UNCHANGED abandoned
           \/ abandoned' = abandoned \cup {fd} /\ UNCHANGED open
        /\ UNCHANGED <<main, main_fd, watched, pipe, live, heap>>
        BY <1>8 DEF HandleLong, At, mainVars, queueVars
  <2>2. fd # Null /\ fd \in Fd
        BY <1>t, <2>1 DEF Busy
  <2>3. /\ fd \in WorkerFds /\ WorkerFds' = WorkerFds \ {fd}
        /\ \A u, v \in Workers : net_fd'[u] = net_fd'[v] /\ net_fd'[u] # Null => u = v
        BY <2>1, <2>2, WorkerGives
  <2>4. UNCHANGED <<MainFds, QueueFds, PipeFds>>
        BY <1>q, <1>p, <2>1 DEF MainFds
  <2>5. Hands'
        BY <1>t, <2>1, <2>2 DEF Hands, Places, Busy
  <2> HIDE DEF fd
  <2>6. Partition'
        BY <2>1, <2>3, <2>4 DEF OwnerInv, Partition
  <2>7. Once'
        BY <2>1, <2>3 DEF OwnerInv, Once
  <2> QED  BY <1>t, <2>1, <2>5, <2>6, <2>7 DEF OwnerInv
<1>9. CASE AcceptFails \/ MainCrashes \/ NotifyWorkers \/ MainQuits \/ NotifyExit \/ JoinAll \/ Alarm
  <2>1. /\ UNCHANGED <<net_fd, main_fd, pipe, watched, open, abandoned, live, heap>>
        /\ main' # "epoll_error" /\ (main' \notin {"recv", "aborted"} => main_fd = Null)
    <3>1. UNCHANGED <<net_fd, main_fd, connVars, queueVars>>
          BY <1>9, Zenon DEF AcceptFails, MainCrashes, NotifyWorkers, MainQuits, NotifyExit, JoinAll,
             Alarm, workerVars
    <3>2. main' # "epoll_error" /\ (main' \notin {"recv", "aborted"} => main_fd = Null)
          BY <1>t, <1>9 DEF AcceptFails, MainCrashes, NotifyWorkers, MainQuits, NotifyExit, JoinAll, Alarm
    <3> QED  BY <3>1, <3>2 DEF connVars, queueVars
  <2>2. pc' \in [Workers -> Places] /\ \A v \in Workers : pc'[v] \in Busy <=> pc[v] \in Busy
    <3>1. CASE NotifyWorkers \/ NotifyExit
          BY <1>t, <3>1 DEF NotifyWorkers, NotifyExit, WakeAll, Waiting, Places, Busy
    <3>2. CASE AcceptFails \/ MainCrashes \/ MainQuits \/ JoinAll \/ Alarm
          BY <1>t, <3>2 DEF AcceptFails, MainCrashes, MainQuits, JoinAll, Alarm, workerVars
    <3> QED  BY <1>9, <3>1, <3>2
  <2> QED  BY <2>1, <2>2, NothingMoves
<1>10. ASSUME NEW w \in Workers,
              \/ WorkerLeaves(w) \/ WorkerExits(w) \/ WorkerDecidesToWait(w)
              \/ WorkerWaits(w) \/ SpuriousWakeup(w) \/ HandleShort(w) \/ WorkerCrashes(w)
       PROVE  OwnerInv'
  <2>1. UNCHANGED <<net_fd, main_fd, connVars, queueVars>>
        BY <1>10, Zenon DEF WorkerLeaves, WorkerExits, WorkerDecidesToWait, WorkerWaits,
           SpuriousWakeup, HandleShort, WorkerCrashes, mainVars, workerVars
  <2>2. main' \in {main, "aborted"}
        BY <1>10 DEF WorkerLeaves, WorkerExits, WorkerDecidesToWait, WorkerWaits,
           SpuriousWakeup, HandleShort, WorkerCrashes, mainVars, workerVars
  <2>3. pc' \in [Workers -> Places] /\ \A v \in Workers : pc'[v] \in Busy <=> pc[v] \in Busy
    <3>1. CASE WorkerExits(w)
          BY <1>t, <3>1 DEF WorkerExits, At, Waiting, Places, Busy
    <3>2. CASE WorkerLeaves(w) \/ WorkerDecidesToWait(w) \/ WorkerWaits(w) \/ SpuriousWakeup(w)
          BY <1>t, <3>2 DEF WorkerLeaves, WorkerDecidesToWait, WorkerWaits, SpuriousWakeup, At,
             Places, Busy
    <3>3. CASE HandleShort(w) \/ WorkerCrashes(w)
          BY <1>t, <3>3 DEF HandleShort, WorkerCrashes, At, workerVars, Places, Busy
    <3> QED  BY <1>10, <3>1, <3>2, <3>3
  <2> QED  BY <1>t, <2>1, <2>2, <2>3, NothingMoves DEF connVars, queueVars
<1>11. CASE Environment \/ UNCHANGED vars
  <2>1. UNCHANGED <<workerVars, main, main_fd, connVars, queueVars>>
        BY <1>11, Zenon DEF Environment, SigInt, ClientSends, ClientCloses, mainVars, vars
  <2> QED  BY <1>t, <2>1, NothingMoves DEF workerVars, connVars, queueVars
<1> QED  BY <1>1, <1>2, <1>3, <1>4, <1>5, <1>6, <1>7, <1>8, <1>9, <1>10, <1>11, Zenon
         DEF Next, MainStep, WorkerStep, WorkerTakesNothing, WorkerTakesAnything, DequeueDamaged, Terminated

(* The damage to the list is never undone. *)
LEMMA StillIntactBefore == [QueueNext]_queueVars => (intact' => intact)
BY DEF QueueNext, Enqueue, Dequeue, DequeueDamaged, StillIntact, queueVars

(* Until the list is damaged, each open connection is watched by epoll,    *)
(* with the main thread, in one task, with one worker, in the pipe once,   *)
(* or abandoned by the code, and only one of these.                        *)
THEOREM OneOwnerEach == Spec => []OneOwner
<1>1. Spec => [](QueueTypes /\ ListInv)
      BY PoolUsesQueue, QueueInvariant, PTL
<1>2. Init => (intact => OwnerInv)
      BY InitOwnerInv
<1>3. (intact => OwnerInv) /\ MainTypes /\ QueueTypes /\ ListInv /\ [Next]_vars => (intact => OwnerInv)'
      BY OwnerInvKept, PoolStepsAreQueueSteps, StillIntactBefore
<1> QED  BY <1>1, <1>2, <1>3, MainHandsOverClients, OwnerInvImplies, PTL DEF Spec
=============================================================================
