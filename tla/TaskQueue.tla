----------------------------- MODULE TaskQueue ------------------------------
(***************************************************************************)
(* The list of pending requests (server/taskQueue.c), at the level of its  *)
(* pointers: enqueue and dequeue, each executed under pool->mutex.  A task *)
(* is a descriptor and the class of its command: command numbers 5 and 6   *)
(* (puts and gets) are "long", every other one is "short".                 *)
(*                                                                         *)
(* The heap is explicit, because dequeue does not advance queue->head      *)
(* when the node it selects by search is the first one: from then on head  *)
(* designates a node that has been freed (`intact' is false).  What a call *)
(* does next is undefined: free writes into the chunk, which may have been *)
(* merged, split or given to another caller of malloc.  So a damaged list  *)
(* is not followed: the first call after the damage forgets the nodes,     *)
(* nothing reads them any more, enqueue returns, dequeue returns any task  *)
(* or -1 (or does not return: ThreadPool).  The two counters are not in    *)
(* the list and go on counting the calls.                                  *)
(***************************************************************************)
EXTENDS Integers, FiniteSets

CONSTANTS Fd,       \* descriptors of client connections
          Addr,     \* bound: the heap chunks enqueue may obtain
          Null,     \* the null pointer
          Temp,     \* the address of dequeue's local variable `temp'
          MaxSize   \* queue->max_size (3 * num in init_thread_pool)

ASSUME QueueAssumption ==
    /\ MaxSize \in Nat \ {0}
    /\ IsFiniteSet(Addr)
    /\ Null \notin Addr
    /\ Temp \notin Addr
    /\ Null # Temp
    /\ Null \notin Fd

Cmd == {"short", "long"}

VARIABLES head, tail, queue_size, short_command_size,
          heap,    \* the node stored in each chunk
          live,    \* the chunks currently allocated
          intact   \* history: so far head has designated an allocated node
                   \* whenever queue_size was positive

queueVars == <<head, tail, queue_size, short_command_size, heap, live, intact>>

Node == [netfd : Fd \cup {Null}, cmd : Cmd, next : Addr \cup {Null}]

\* What is in a chunk that is not allocated is not followed.
NoNode  == [netfd |-> Null, cmd |-> "short", next |-> Null]
NoNodes == [a \in Addr |-> NoNode]

QueueInit ==
    /\ head = Null
    /\ tail = Null
    /\ queue_size = 0
    /\ short_command_size = 0
    /\ heap = NoNodes
    /\ live = {}
    /\ intact = TRUE

StillIntact == intact /\ (queue_size' > 0 => head' \in live')

\* What is in them is unknown: one value stands for all.
ForgetsNodes == head' = Null /\ tail' = Null /\ heap' = NoNodes /\ live' = {}

(***************************************************************************)
(* The chain that starts at head.                                          *)
(***************************************************************************)

NodeAt[k \in Nat] ==
    IF k = 0 THEN head
    ELSE IF NodeAt[k - 1] \in Addr THEN heap[NodeAt[k - 1]].next ELSE Null

Positions == {k \in 0..(Cardinality(Addr) - 1) : NodeAt[k] \in Addr}

ChainNodes == {NodeAt[k] : k \in Positions}

MinOf(S) == CHOOSE k \in S : \A j \in S : k <= j
MaxOf(S) == CHOOSE k \in S : \A j \in S : k >= j

(***************************************************************************)
(* enqueue: a full queue is left alone (the return value -1).  While the   *)
(* list is intact and not empty, tail is a node of it.                     *)
(***************************************************************************)

Appends(fd, cmd) ==
    \E new \in Addr \ live :
        /\ live' = live \cup {new}
        /\ LET stored == [heap EXCEPT ![new] = [netfd |-> fd, cmd |-> cmd, next |-> Null]]
           IN  heap' = IF queue_size # 0 THEN [stored EXCEPT ![tail].next = new] ELSE stored
        /\ head' = IF queue_size = 0 THEN new ELSE head
        /\ tail' = new

Enqueue(fd, cmd) ==
    \/ /\ queue_size = MaxSize
       /\ UNCHANGED queueVars
    \/ /\ queue_size # MaxSize
       /\ \/ intact /\ Appends(fd, cmd)
          \/ ~intact /\ ForgetsNodes
       /\ queue_size' = queue_size + 1
       /\ short_command_size' = short_command_size + (IF cmd = "long" THEN 0 ELSE 1)
       /\ intact' = StillIntact

(***************************************************************************)
(* dequeue on an intact list, for the thread reserved to short commands    *)
(* (short = TRUE) or for another one: the search, the fallback to the      *)
(* first node for the other threads, the unlinking, and free.              *)
(***************************************************************************)

(* Mutant: the other threads, too, take short commands first. *)
Bug_Matches(short) == {k \in Positions : heap[NodeAt[k]].cmd = "short"}

Matches(short) ==
    {k \in Positions : heap[NodeAt[k]].cmd = IF short THEN "short" ELSE "long"}

(* Mutant: the reserved thread looks at the first task only. *)
Bug_NothingToDequeue(short) ==
    \/ head = Null
    \/ short /\ heap[head].cmd # "short"

NothingToDequeue(short) ==
    \/ head = Null
    \/ short /\ Matches(short) = {}

(* Mutant: the youngest matching task is taken. *)
Bug_TakenPosition(short) == IF Matches(short) # {} THEN MaxOf(Matches(short)) ELSE 0

TakenPosition(short) == IF Matches(short) # {} THEN MinOf(Matches(short)) ELSE 0

Taken(short) == NodeAt[TakenPosition(short)]

(* prev when the search loop ends: the node before the match, `temp' when  *)
(* the match is the first node, the last node when nothing matches.        *)
Prev(short) ==
    IF Matches(short) = {} THEN NodeAt[MaxOf(Positions)]
    ELSE IF TakenPosition(short) = 0 THEN Temp
    ELSE NodeAt[TakenPosition(short) - 1]

(* Mutant: tail still designates the node that is freed. *)
Bug_KeepTail(short) ==
    LET cur == Taken(short)
    IN  /\ intact
        /\ head' = IF Matches(short) = {} THEN heap[cur].next ELSE head
        /\ tail' = tail
        /\ heap' = [a \in Addr |->
                      IF a = cur THEN NoNode
                      ELSE IF a = Prev(short) /\ Matches(short) # {}
                           THEN [heap[a] EXCEPT !.next = heap[cur].next]
                      ELSE heap[a]]
        /\ queue_size' = queue_size - 1
        /\ short_command_size' =
              short_command_size - (IF heap[cur].cmd = "long" THEN 0 ELSE 1)
        /\ live' = live \ {cur}
        /\ intact' = StillIntact

Dequeue(short) ==
    LET cur  == Taken(short)
        prev == Prev(short)
    IN  /\ intact
        /\ head' = IF Matches(short) = {} THEN heap[cur].next ELSE head
        /\ tail' = IF heap[cur].next = Null THEN prev ELSE tail
        /\ heap' = [a \in Addr |->
                      IF a = cur THEN NoNode
                      ELSE IF a = prev /\ Matches(short) # {}
                           THEN [heap[a] EXCEPT !.next = heap[cur].next]
                      ELSE heap[a]]
        /\ queue_size' = queue_size - 1
        /\ short_command_size' =
              short_command_size - (IF heap[cur].cmd = "long" THEN 0 ELSE 1)
        /\ live' = live \ {cur}
        /\ intact' = StillIntact

(***************************************************************************)
(* dequeue on a damaged list.                                              *)
(***************************************************************************)

(* A task of class c is read from wherever the pointers lead (bound: the   *)
(* count of short commands, which such tasks may take anywhere).           *)
DequeueDamaged(c) ==
    /\ ~intact
    /\ queue_size' = queue_size - 1
    /\ short_command_size' = short_command_size - (IF c = "long" THEN 0 ELSE 1)
    /\ short_command_size' \in (-1)..MaxSize
    /\ ForgetsNodes
    /\ UNCHANGED intact

(* -1 is returned where nothing is found; on a damaged list it may be.     *)
MayReturnNothing(short) == ~intact \/ NothingToDequeue(short)

(***************************************************************************)
(* Properties.                                                             *)
(***************************************************************************)

(* Until the list is damaged, its four fields describe one list: it holds  *)
(* exactly the allocated nodes, queue_size counts them, tail is the last   *)
(* of them, and short_command_size counts the short ones.                  *)
ListAgreesWithCounters ==
    intact =>
        /\ queue_size > 0 => ChainNodes = live
        /\ queue_size = Cardinality(live)
        /\ queue_size > 0 => tail = NodeAt[MaxOf(Positions)]
        /\ short_command_size = Cardinality({a \in live : heap[a].cmd = "short"})

=============================================================================
