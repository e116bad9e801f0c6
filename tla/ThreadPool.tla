----------------------------- MODULE ThreadPool -----------------------------
(***************************************************************************)
(* The work process (server/main.c, thread.c, threadPool.c and the epoll   *)
(* helpers of tcpConnect.c): the main thread's event loop, the pool of     *)
(* worker threads, the task queue between them, the pipe by which a worker *)
(* hands a connection back, the clients at the other end of the            *)
(* connections, and the shutdown that SIGINT starts.                       *)
(*                                                                         *)
(* One action is one critical section of pool->mutex or one system call    *)
(* other threads can observe.  The mutex is held across two actions only   *)
(* by a worker between its test of pool->exit and pthread_cond_wait        *)
(* ("towait"): the main thread sets the flag and broadcasts without the    *)
(* mutex, so it can do both in that gap.                                   *)
(***************************************************************************)
EXTENDS TaskQueue, Sequences, SequencesExt

CONSTANTS
    Workers,      \* pool->thread_id
    ShortThread,  \* short_thread: thread_id[0]
    Stimuli,      \* bound: what the client of each connection may do
    Interrupted   \* bound: whether SIGINT may come

ASSUME WorkersAssumption ==
    /\ IsFiniteSet(Workers)
    /\ ShortThread \in Workers
    /\ Workers # {ShortThread}

ASSUME StimuliAssumption ==
    /\ Stimuli \in [Fd -> SUBSET (Cmd \cup {"partial", "close"})]
    /\ Interrupted \in BOOLEAN

VARIABLES
    pc,        \* where each worker stands
    net_fd,    \* the descriptor each worker serves, Null between two tasks
    cmd,       \* the class of that task
    exit,      \* pool->exit
    main,      \* where the main thread stands, or how the process ended
    main_fd,   \* the client the main thread receives from, Null otherwise
    quit_pipe, \* SIGINT has been written to pipe_fd
    pipe,      \* thread_pipe_fd: descriptors on their way back to epoll
    watched,   \* client descriptors in the epoll set
    open,      \* client descriptors the process has open
    request,   \* per connection: what its client has sent and waits for
    gone,      \* connections whose client has closed its end
    abandoned  \* history: connections of requests that met a full queue, or
               \* of transfers that ended early

workerVars == <<pc, net_fd, cmd>>
clientVars == <<request, gone>>
mainVars   == <<exit, main, main_fd, quit_pipe>>
connVars   == <<pipe, watched, open, abandoned>>
vars == <<workerVars, clientVars, mainVars, connVars, queueVars>>

(* "aborted": killed, or beyond what the model follows (WorkerCrashes). *)
Ended == {"exited", "forced", "aborted", "epoll_error", "accept_error"}
Running == main \notin Ended

Waiting   == {w \in Workers : pc[w] = "waiting"}
MutexFree == \A w \in Workers : pc[w] # "towait"
AllExited == \A w \in Workers : pc[w] = "exited"

Init ==
    /\ QueueInit
    /\ pc = [w \in Workers |-> "lock"]
    /\ net_fd = [w \in Workers |-> Null]
    /\ cmd = [w \in Workers |-> "short"]
    /\ exit = FALSE
    /\ main = "loop"
    /\ main_fd = Null
    /\ quit_pipe = FALSE
    /\ pipe = <<>>
    /\ watched = {}
    /\ open = {}
    /\ request = [fd \in Fd |-> "none"]
    /\ gone = {}
    /\ abandoned = {}

(***************************************************************************)
(* Clients (bound: one request per connection is under way at a time, as   *)
(* client/judgment.c waits for the reply before it reads the next command, *)
(* and nothing is sent on an abandoned connection, which nobody reads).    *)
(***************************************************************************)

(* The whole structure, or only the first segments of it, has arrived. *)
ClientSends(fd, what) ==
    /\ Running
    /\ what \in Stimuli[fd]
    /\ fd \in open \ (gone \cup abandoned)
    /\ \/ request[fd] = "none"
       \/ request[fd] = "partial" /\ what # "partial"
    /\ request' = [request EXCEPT ![fd] = what]
    /\ UNCHANGED <<gone, workerVars, mainVars, connVars, queueVars>>

ClientCloses(fd) ==
    /\ Running
    /\ "close" \in Stimuli[fd]
    /\ fd \in open \ gone
    /\ gone' = gone \cup {fd}
    /\ UNCHANGED <<request, workerVars, mainVars, connVars, queueVars>>

(* handler_int in the parent process writes to pipe_fd. *)
SigInt ==
    /\ Running
    /\ Interrupted
    /\ ~quit_pipe
    /\ quit_pipe' = TRUE
    /\ UNCHANGED <<exit, main, main_fd, workerVars, clientVars, connVars, queueVars>>

(***************************************************************************)
(* The main thread.                                                        *)
(***************************************************************************)

Accept(fd) ==
    /\ main = "loop"
    /\ fd \in Fd \ open
    /\ open' = open \cup {fd}
    /\ watched' = watched \cup {fd}
    /\ request' = [request EXCEPT ![fd] = "none"]
    /\ gone' = gone \ {fd}
    /\ UNCHANGED <<pipe, abandoned, workerVars, mainVars, queueVars>>

(* accept fails when the process is out of descriptors: ERROR_CHECK exits. *)
AcceptFails ==
    /\ main = "loop"
    /\ open = Fd
    /\ main' = "accept_error"
    /\ UNCHANGED <<exit, main_fd, quit_pipe, workerVars, clientVars, connVars, queueVars>>

(* Mutant: remove_node is forgotten, and epoll reports the client again. *)
Bug_MainPick(fd) ==
    /\ main = "loop"
    /\ fd \in watched
    /\ request[fd] # "none" \/ fd \in gone
    /\ main' = "recv"
    /\ main_fd' = fd
    /\ UNCHANGED <<exit, quit_pipe, connVars, workerVars, clientVars, queueVars>>

(* A watched client is readable; remove_node takes it out of the epoll set. *)
MainPick(fd) ==
    /\ main = "loop"
    /\ fd \in watched
    /\ request[fd] # "none" \/ fd \in gone
    /\ watched' = watched \ {fd}
    /\ main' = "recv"
    /\ main_fd' = fd
    /\ UNCHANGED <<exit, quit_pipe, pipe, open, abandoned, workerVars, clientVars, queueVars>>

(* recv with MSG_WAITALL ends with the whole structure, or short when the  *)
(* client closed after a part of it: what is missing stays zero, and a     *)
(* zero command number is a short command.                                 *)
Received(c) ==
    \/ request[main_fd] = c
    \/ request[main_fd] = "partial" /\ main_fd \in gone

(* The result of enqueue is ignored: a full queue drops the request. *)
MainEnqueue ==
    /\ main = "recv"
    /\ MutexFree
    /\ \E c \in Cmd : Received(c) /\ Enqueue(main_fd, c)
    /\ request' = [request EXCEPT ![main_fd] = "pending"]
    /\ main' = "broadcast"
    /\ main_fd' = Null
    /\ abandoned' = abandoned \cup {fd \in {main_fd} : queue_size = MaxSize}
    /\ UNCHANGED <<exit, quit_pipe, gone, pipe, watched, open, workerVars>>

(* enqueue does not test what calloc returned (bound: Addr), and writes    *)
(* through the tail of a damaged list: the process may be killed.          *)
MainCrashes ==
    /\ main = "recv"
    /\ MutexFree
    /\ \E c \in Cmd : Received(c)
    /\ queue_size # MaxSize
    /\ live = Addr \/ ~intact
    /\ main' = "aborted"
    /\ UNCHANGED <<exit, main_fd, quit_pipe, workerVars, clientVars, connVars, queueVars>>

(* recv returned 0. *)
MainCloses ==
    /\ main = "recv"
    /\ main_fd \in gone
    /\ request[main_fd] = "none"
    /\ open' = open \ {main_fd}
    /\ main' = "loop"
    /\ main_fd' = Null
    /\ UNCHANGED <<exit, quit_pipe, pipe, watched, abandoned, workerVars, clientVars, queueVars>>

WakeAll == pc' = [w \in Workers |-> IF w \in Waiting THEN "lock" ELSE pc[w]]

(* pthread_cond_broadcast after the new task. *)
NotifyWorkers ==
    /\ main = "broadcast"
    /\ WakeAll
    /\ main' = "loop"
    /\ UNCHANGED <<exit, main_fd, quit_pipe, net_fd, cmd, clientVars, connVars, queueVars>>

(* A worker has handed a connection back.  epoll_ctl refuses a descriptor  *)
(* that is closed (EBADF) or already in the set (EEXIST), and add_node     *)
(* then ends the process.                                                  *)
MainReadsPipe ==
    /\ main = "loop"
    /\ pipe # <<>>
    /\ pipe' = Tail(pipe)
    /\ IF Head(pipe) \in open \ watched
       THEN watched' = watched \cup {Head(pipe)} /\ UNCHANGED main
       ELSE main' = "epoll_error" /\ UNCHANGED watched
    /\ UNCHANGED <<exit, main_fd, quit_pipe, open, abandoned, workerVars, clientVars, queueVars>>

(* work_process_quit: the flag is set without the mutex ... *)
MainQuits ==
    /\ main = "loop"
    /\ quit_pipe
    /\ exit' = TRUE
    /\ main' = "quit"
    /\ UNCHANGED <<main_fd, quit_pipe, workerVars, clientVars, connVars, queueVars>>

(* ... then the broadcast, alarm(5), and the joins begin. *)
NotifyExit ==
    /\ main = "quit"
    /\ WakeAll
    /\ main' = "join"
    /\ UNCHANGED <<exit, main_fd, quit_pipe, net_fd, cmd, clientVars, connVars, queueVars>>

(* The last join returned; the connection pool is idle then (DbPool). *)
JoinAll ==
    /\ main = "join"
    /\ AllExited
    /\ main' = "exited"
    /\ UNCHANGED <<exit, main_fd, quit_pipe, workerVars, clientVars, connVars, queueVars>>

(* handler_alarm: five seconds have passed. *)
Alarm ==
    /\ main = "join"
    /\ main' = "forced"
    /\ UNCHANGED <<exit, main_fd, quit_pipe, workerVars, clientVars, connVars, queueVars>>

(***************************************************************************)
(* A worker.  "lock" is any place from which it next takes the mutex and   *)
(* tests the while condition: the top of its loop, or a return from        *)
(* pthread_cond_wait.                                                      *)
(***************************************************************************)

At(w, place) == Running /\ pc[w] = place

NothingFor(w) ==
    queue_size <= 0 \/ (w = ShortThread /\ short_command_size = 0)

(* Mutant: the flag is tested although there is a task. *)
Bug_WorkerLeaves(w) ==
    /\ At(w, "lock")
    /\ MutexFree
    /\ exit
    /\ pc' = [pc EXCEPT ![w] = "leaving"]
    /\ UNCHANGED <<net_fd, cmd, mainVars, clientVars, connVars, queueVars>>

WorkerLeaves(w) ==
    /\ At(w, "lock")
    /\ MutexFree
    /\ NothingFor(w)
    /\ exit
    /\ pc' = [pc EXCEPT ![w] = "leaving"]
    /\ UNCHANGED <<net_fd, cmd, mainVars, clientVars, connVars, queueVars>>

(* Mutant: the thread leaves without the signal. *)
Bug_WorkerExits(w) ==
    /\ At(w, "leaving")
    /\ pc' = [pc EXCEPT ![w] = "exited"]
    /\ UNCHANGED <<net_fd, cmd, mainVars, clientVars, connVars, queueVars>>

(* pthread_cond_signal after the unlock, then pthread_exit: one sleeper,   *)
(* if there is any, wakes up to find the flag in its turn.                 *)
WorkerExits(w) ==
    /\ At(w, "leaving")
    /\ \/ Waiting = {} /\ pc' = [pc EXCEPT ![w] = "exited"]
       \/ \E v \in Waiting : pc' = [pc EXCEPT ![w] = "exited", ![v] = "lock"]
    /\ UNCHANGED <<net_fd, cmd, mainVars, clientVars, connVars, queueVars>>

WorkerDecidesToWait(w) ==
    /\ At(w, "lock")
    /\ MutexFree
    /\ NothingFor(w)
    /\ ~exit
    /\ pc' = [pc EXCEPT ![w] = "towait"]
    /\ UNCHANGED <<net_fd, cmd, mainVars, clientVars, connVars, queueVars>>

WorkerWaits(w) ==
    /\ At(w, "towait")
    /\ pc' = [pc EXCEPT ![w] = "waiting"]
    /\ UNCHANGED <<net_fd, cmd, mainVars, clientVars, connVars, queueVars>>

SpuriousWakeup(w) ==
    /\ At(w, "waiting")
    /\ pc' = [pc EXCEPT ![w] = "lock"]
    /\ UNCHANGED <<net_fd, cmd, mainVars, clientVars, connVars, queueVars>>

MayDequeue(w) == At(w, "lock") /\ MutexFree /\ ~NothingFor(w)

WorkerTakes(w) ==
    /\ MayDequeue(w)
    /\ ~NothingToDequeue(w = ShortThread)
    /\ LET node == heap[Taken(w = ShortThread)]
       IN  /\ net_fd' = [net_fd EXCEPT ![w] = node.netfd]
           /\ cmd' = [cmd EXCEPT ![w] = node.cmd]
    /\ Dequeue(w = ShortThread)
    /\ pc' = [pc EXCEPT ![w] = "work"]
    /\ UNCHANGED <<mainVars, clientVars, connVars>>

(* What dequeue finds in a damaged list may be any task, even one of a     *)
(* connection that somebody else has.                                      *)
WorkerTakesAnything(w) ==
    /\ MayDequeue(w)
    /\ \E fd \in Fd, c \in Cmd :
          /\ DequeueDamaged(c)
          /\ net_fd' = [net_fd EXCEPT ![w] = fd]
          /\ cmd' = [cmd EXCEPT ![w] = c]
    /\ pc' = [pc EXCEPT ![w] = "work"]
    /\ UNCHANGED <<mainVars, clientVars, connVars>>

(* dequeue returns -1 and the thread tries again. *)
WorkerTakesNothing(w) ==
    /\ MayDequeue(w)
    /\ MayReturnNothing(w = ShortThread)
    /\ UNCHANGED vars

(* Other outcomes of a damaged list: the process is killed in dequeue,     *)
(* goes round in its loops with the mutex held, or fails anywhere later    *)
(* for what was freed or written there.                                    *)
WorkerCrashes(w) ==
    /\ Running
    /\ ~intact
    /\ main' = "aborted"
    /\ UNCHANGED <<exit, main_fd, quit_pipe, workerVars, clientVars, connVars, queueVars>>

Answered(fd) == request' = [request EXCEPT ![fd] = "none"]

(* A short command is answered; no short handler closes the connection. *)
HandleShort(w) ==
    /\ At(w, "work")
    /\ cmd[w] = "short"
    /\ Answered(net_fd[w])
    /\ pc' = [pc EXCEPT ![w] = "write"]
    /\ UNCHANGED <<gone, net_fd, cmd, mainVars, connVars, queueVars>>

WriteToPipe(w) ==
    /\ At(w, "write")
    /\ pipe' = Append(pipe, net_fd[w])
    /\ net_fd' = [net_fd EXCEPT ![w] = Null]
    /\ pc' = [pc EXCEPT ![w] = "lock"]
    /\ UNCHANGED <<cmd, watched, open, abandoned, mainVars, clientVars, queueVars>>

(* puts and gets close the connection after the transfer; the early        *)
(* returns of recv_file, and a token that does not verify, leave it open.  *)
(* Nothing is written to the pipe for them.                                *)
HandleLong(w) ==
    /\ At(w, "work")
    /\ cmd[w] = "long"
    /\ Answered(net_fd[w])
    /\ \/ open' = open \ {net_fd[w]} /\ UNCHANGED abandoned
       \/ abandoned' = abandoned \cup {net_fd[w]} /\ UNCHANGED open
    /\ net_fd' = [net_fd EXCEPT ![w] = Null]
    /\ cmd' = [cmd EXCEPT ![w] = "short"]
    /\ pc' = [pc EXCEPT ![w] = "lock"]
    /\ UNCHANGED <<gone, pipe, watched, mainVars, queueVars>>

-----------------------------------------------------------------------------

WorkerStep(w) ==
    \/ WorkerLeaves(w)
    \/ WorkerExits(w)
    \/ WorkerDecidesToWait(w)
    \/ WorkerWaits(w)
    \/ SpuriousWakeup(w)
    \/ WorkerTakes(w)
    \/ WorkerTakesAnything(w)
    \/ WorkerTakesNothing(w)
    \/ WorkerCrashes(w)
    \/ HandleShort(w)
    \/ WriteToPipe(w)
    \/ HandleLong(w)

MainStep ==
    \/ \E fd \in Fd : Accept(fd) \/ MainPick(fd)
    \/ AcceptFails
    \/ MainEnqueue
    \/ MainCrashes
    \/ MainCloses
    \/ NotifyWorkers
    \/ MainReadsPipe
    \/ MainQuits
    \/ NotifyExit
    \/ JoinAll
    \/ Alarm

Environment ==
    \/ SigInt
    \/ \E fd \in Fd :
          \/ \E what \in Cmd \cup {"partial"} : ClientSends(fd, what)
          \/ ClientCloses(fd)

Terminated == ~Running /\ UNCHANGED vars

Next ==
    \/ MainStep
    \/ Environment
    \/ \E w \in Workers : WorkerStep(w)
    \/ Terminated

Spec == Init /\ [][Next]_vars

(* The main thread is scheduled again whenever it can go on.  A mutex that *)
(* is free again and again is obtained in the end, hence strong fairness   *)
(* for the actions that lock it.  Nothing is assumed of clients, signals,  *)
(* spurious wake-ups, or handlers that wait for a client.                  *)
MainFairness ==
    /\ SF_vars(MainEnqueue)
    /\ WF_vars(NotifyWorkers)
    /\ WF_vars(NotifyExit)
    /\ WF_vars(JoinAll)

WorkerFairness(w) ==
    /\ SF_vars(WorkerTakes(w))
    /\ SF_vars(WorkerLeaves(w))
    /\ WF_vars(WorkerExits(w))
    /\ WF_vars(WorkerWaits(w))
    /\ WF_vars(HandleShort(w))
    /\ WF_vars(WriteToPipe(w))

FairSpec == Spec /\ MainFairness /\ \A w \in Workers : WorkerFairness(w)

(***************************************************************************)
(* Properties.                                                             *)
(***************************************************************************)

(* Everyone who may read from, write to or close a connection.             *)
Owners(fd) ==
         {<<"epoll", 0>> : x \in watched \cap {fd}}
    \cup {<<"main", 0>>  : x \in {main_fd} \cap {fd}}
    \cup {<<"queue", a>> : a \in {n \in live : heap[n].netfd = fd}}
    \cup {<<"worker", w>> : w \in {v \in Workers : net_fd[v] = fd}}
    \cup {<<"pipe", i>> : i \in {j \in DOMAIN pipe : pipe[j] = fd}}

(* While the queue is intact an open connection is in one place: in the    *)
(* epoll set, with the main thread, in the queue, with a worker or in the  *)
(* pipe.  So two threads never read one socket, a descriptor is not closed *)
(* (and given to a new client) under someone who still uses it, add_node,  *)
(* whose failure ends the process, does not fail, and no client is left    *)
(* without anyone to serve it but those the code abandons: a request that  *)
(* meets a full queue (main.c:110) and a transfer that ends early          *)
(* (thread.c:92).                                                          *)
OneOwner ==
    intact =>
        /\ \A fd \in Fd : Cardinality(Owners(fd)) <= 1
        /\ \A fd \in Fd : fd \in open <=> Owners(fd) # {} \/ fd \in abandoned
        /\ main # "epoll_error"

(* A shutdown lets the workers drain the queue: when all of them have left *)
(* nothing they accepted is still waiting.                                 *)
DrainedOnExit == intact /\ AllExited => queue_size = 0

Queued(fd, c) == \E a \in live : heap[a].netfd = fd /\ heap[a].cmd = c

(* Even when transfers hang for ever in the other threads, and others wait *)
(* in front of it, a queued short command is taken from the queue.         *)
ShortServed ==
    \A fd \in Fd : Queued(fd, "short") ~> (~Queued(fd, "short") \/ ~intact \/ ~Running)

(* No transfer hangs for ever.                                             *)
TransfersEnd == \A w \in Workers : []<>~(pc[w] = "work" /\ cmd[w] = "long")

(* When transfers come to an end a queued one is started, however many     *)
(* short commands arrive before and after it.                              *)
LongServed ==
    TransfersEnd =>
        \A fd \in Fd : Queued(fd, "long") ~> (~Queued(fd, "long") \/ ~intact \/ ~Running)

(* The exit flag is set without the mutex, so the broadcast can miss a     *)
(* worker on its way into pthread_cond_wait.  Each thread that leaves      *)
(* signals once more: no worker sleeps through the shutdown.               *)
ShutdownCompletes == TransfersEnd => exit ~> (AllExited \/ ~intact \/ ~Running)

=============================================================================
