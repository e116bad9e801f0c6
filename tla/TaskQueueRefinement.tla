------------------------ MODULE TaskQueueRefinement -------------------------
(***************************************************************************)
(* The queue on its own, driven by callers that behave like main.c and     *)
(* thread.c do: any thread may enqueue, and a thread calls dequeue only    *)
(* when the counters tell it there is something for it.  While `intact'    *)
(* holds the list implements the two-class FIFO of TaskFifo, which         *)
(* promises nothing afterwards.                                            *)
(***************************************************************************)
EXTENDS TaskQueue, Sequences, SequencesExt

(* The while condition of the thread function (thread.c).                  *)
NothingForMe(short) == queue_size <= 0 \/ (short /\ short_command_size = 0)

QueueNext ==
    \/ \E fd \in Fd, cmd \in Cmd : Enqueue(fd, cmd)
    \/ \E short \in BOOLEAN :
          /\ ~NothingForMe(short)
          /\ \/ ~NothingToDequeue(short) /\ Dequeue(short)
             \/ \E c \in Cmd : DequeueDamaged(c)
             \/ MayReturnNothing(short) /\ UNCHANGED queueVars

QueueSpec == QueueInit /\ [][QueueNext]_queueVars

(* A thread passes its while condition on the strength of two counters,    *)
(* and dequeue searches the list: until the list is damaged, by whatever   *)
(* calls of the two classes of threads in whatever order, a thread that    *)
(* calls dequeue finds a task it may take.  Otherwise it would get -1 and  *)
(* go round its loop with nothing to wait for (thread.c).                  *)
FindsWhatIsCounted ==
    intact => \A short \in BOOLEAN : ~NothingForMe(short) => ~NothingToDequeue(short)

(* The tasks of the list, in list order. *)
Listed == [i \in 1..Cardinality(Positions) |->
              [netfd |-> heap[NodeAt[i - 1]].netfd, cmd |-> heap[NodeAt[i - 1]].cmd]]

TaskIsLong(t) == t.cmd = "long"

Fifo == INSTANCE TaskFifo
            WITH Tasks  <- [netfd : Fd, cmd : Cmd],
                 IsLong <- TaskIsLong,
                 tasks  <- IF intact /\ queue_size > 0 THEN Listed ELSE <<>>,
                 broken <- ~intact

(* enqueue and dequeue implement the abstract queue: oldest first within   *)
(* a class, long tasks preferred by the other threads, the bound kept,     *)
(* until the oldest of several tasks is taken by search.                   *)
ImplementsFifo == Fifo!Spec

=============================================================================
