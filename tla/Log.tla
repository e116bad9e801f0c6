-------------------------------- MODULE Log --------------------------------
(***************************************************************************)
(* The log of the server (log.c): every thread writes through descriptors  *)
(* kept in log_fd, one for all levels or one per level, and the first call *)
(* that notices a new date closes the old file and opens the next one.     *)
(* Nothing is locked, and the descriptors come from the same table as the  *)
(* clients' sockets.                                                       *)
(*                                                                         *)
(* What is written, and the few milliseconds in which localtime's static   *)
(* buffer is shared, are left out.                                         *)
(***************************************************************************)
EXTENDS Integers

CONSTANTS
    Threads,        \* the threads of the work process
    Main,           \* the one that starts it
    Levels,         \* the levels logged at, a subset of 0..3
    Info,           \* LOG_LEVEL_INFO, the level of the lines at start-up
    OutputLevel,    \* log_output_level
    MaxFd,          \* the process may have descriptors 0..MaxFd for these uses
    MaxDay,         \* bound: days that begin
    Closed, Socket  \* what a descriptor is open on when it is not a log file

ASSUME LogAssumption ==
    /\ Main \in Threads /\ Info \in Levels /\ Levels \subseteq 0..3
    /\ {OutputLevel, MaxFd} \subseteq Nat /\ MaxDay \in Nat \ {0}
    /\ \A d \in 1..MaxDay, l \in Levels : [day |-> d, level |-> l] \notin {Closed, Socket}

VARIABLES
    isolate,        \* log_isolate, read from the configuration at first use
    today,          \* the calendar
    files,          \* what each descriptor is open on
    log_fd,         \* the descriptors the log uses, -1 where there is none
    curr_date,      \* the date log_fd was opened for, 0 at first
    started,        \* the worker threads run
    pc, level, now, fd,     \* of each thread: place, level, now_date, curr_fd
    raced           \* history: an update met a call on the same descriptor

vars == <<isolate, today, files, log_fd, curr_date, started, pc, level, now, fd, raced>>

NoFd == -1

\* get_curr_fd: the index into log_fd.
Slot(l) == IF isolate THEN l + 1 ELSE 0

File(day, l) == [day |-> day, level |-> IF isolate THEN l ELSE Info]

\* The lowest descriptor not in use, as open and accept take it; -1 for none.
Lowest == LET S == {n \in 0..MaxFd : files[n] = Closed}
          IN  IF S = {} THEN NoFd ELSE CHOOSE n \in S : \A m \in S : n <= m

Init ==
    /\ isolate \in BOOLEAN
    /\ today = 1
    /\ files = [n \in 0..MaxFd |-> Closed]
    /\ log_fd = [i \in 0..4 |-> NoFd]
    /\ curr_date = 0
    /\ started = FALSE
    /\ pc = [t \in Threads |-> "idle"]
    /\ level = [t \in Threads |-> Info]
    /\ now = [t \in Threads |-> 0]
    /\ fd = [t \in Threads |-> NoFd]
    /\ raced = FALSE

Goes(t, from, to) == pc[t] = from /\ pc' = [pc EXCEPT ![t] = to]

\* A descriptor is being replaced while another call is about to use it.
Meeting == \E t, u \in Threads :
              /\ t # u /\ Slot(level[t]) = Slot(level[u]) /\ pc[u] # "idle"
              /\ pc[t] \in {"updates", "closes", "opens", "stores", "dates"}
Noted == raced' = (raced \/ Meeting')

-----------------------------------------------------------------------------
(* One call of print_log, up to its write. *)

\* LOG, output_control and get_now_date.  Before there are workers the main
\* thread has logged that the server starts.
Calls(t, l) ==
    /\ l >= OutputLevel
    /\ started \/ (t = Main /\ l = Info /\ curr_date = 0)
    /\ Goes(t, "idle", "dated")
    /\ level' = [level EXCEPT ![t] = l]
    /\ now' = [now EXCEPT ![t] = today]
    /\ UNCHANGED <<isolate, today, files, log_fd, curr_date, started, fd>>
    /\ Noted

ReadsFd(t) ==
    /\ Goes(t, "dated", "tests")
    /\ fd' = [fd EXCEPT ![t] = log_fd[Slot(level[t])]]
    /\ UNCHANGED <<isolate, today, files, log_fd, curr_date, started, level, now>>
    /\ Noted

\* Without the test of the date.
Bug_Fresh(t) == fd[t] # NoFd

Fresh(t) == fd[t] # NoFd /\ curr_date = now[t]

TestsDate(t) ==
    /\ \/ Fresh(t)  /\ Goes(t, "tests", "writes")
       \/ ~Fresh(t) /\ Goes(t, "tests", "updates")
    /\ UNCHANGED <<isolate, today, files, log_fd, curr_date, started, level, now, fd>>
    /\ Noted

\* update_log_info reads the descriptor again.
ReadsOldFd(t) ==
    /\ LET old == log_fd[Slot(level[t])]
       IN  /\ fd' = [fd EXCEPT ![t] = old]
           /\ Goes(t, "updates", IF old = NoFd THEN "opens" ELSE "closes")
    /\ UNCHANGED <<isolate, today, files, log_fd, curr_date, started, level, now>>
    /\ Noted

\* The old file stays open.
Bug_ClosesOld(t) ==
    /\ Goes(t, "closes", "opens")
    /\ UNCHANGED <<isolate, today, files, log_fd, curr_date, started, level, now, fd>>
    /\ Noted

\* close, whatever the descriptor is open on by now.
ClosesOld(t) ==
    /\ Goes(t, "closes", "opens")
    /\ files' = [files EXCEPT ![fd[t]] = Closed]
    /\ UNCHANGED <<isolate, today, log_fd, curr_date, started, level, now, fd>>
    /\ Noted

Opens(t) ==
    /\ Goes(t, "opens", "stores")
    /\ fd' = [fd EXCEPT ![t] = Lowest]
    /\ files' = IF Lowest = NoFd THEN files
                ELSE [files EXCEPT ![Lowest] = File(now[t], level[t])]
    /\ UNCHANGED <<isolate, today, log_fd, curr_date, started, level, now>>
    /\ Noted

StoresFd(t) ==
    /\ Goes(t, "stores", "dates")
    /\ log_fd' = [log_fd EXCEPT ![Slot(level[t])] = fd[t]]
    /\ UNCHANGED <<isolate, today, files, curr_date, started, level, now, fd>>
    /\ Noted

StoresDate(t) ==
    /\ Goes(t, "dates", "writes")
    /\ curr_date' = now[t]
    /\ UNCHANGED <<isolate, today, files, log_fd, started, level, now, fd>>
    /\ Noted

\* write, and the locals are gone.
Writes(t) ==
    /\ Goes(t, "writes", "idle")
    /\ level' = [level EXCEPT ![t] = Info]
    /\ now' = [now EXCEPT ![t] = 0]
    /\ fd' = [fd EXCEPT ![t] = NoFd]
    /\ UNCHANGED <<isolate, today, files, log_fd, curr_date, started>>
    /\ Noted

-----------------------------------------------------------------------------
(* Around it. *)

\* init_thread_pool, after the first line of the log where INFO is written.
StartsWorkers ==
    /\ ~started /\ pc[Main] = "idle"
    /\ curr_date # 0 \/ Info < OutputLevel
    /\ started' = TRUE
    /\ UNCHANGED <<isolate, today, files, log_fd, curr_date, pc, level, now, fd>>
    /\ Noted

Midnight ==
    /\ today < MaxDay
    /\ today' = today + 1
    /\ UNCHANGED <<isolate, files, log_fd, curr_date, started, pc, level, now, fd>>
    /\ Noted

\* A client connects and takes a descriptor; a socket is closed.
Sockets ==
    /\ started
    /\ \/ /\ Lowest # NoFd
          /\ files' = [files EXCEPT ![Lowest] = Socket]
       \/ \E n \in 0..MaxFd : /\ files[n] = Socket
                              /\ files' = [files EXCEPT ![n] = Closed]
    /\ UNCHANGED <<isolate, today, log_fd, curr_date, started, pc, level, now, fd>>
    /\ Noted

Next ==
    \/ \E t \in Threads :
          \/ \E l \in Levels : Calls(t, l)
          \/ ReadsFd(t) \/ TestsDate(t) \/ ReadsOldFd(t) \/ ClosesOld(t)
          \/ Opens(t) \/ StoresFd(t) \/ StoresDate(t) \/ Writes(t)
    \/ StartsWorkers \/ Midnight \/ Sockets

Spec == Init /\ [][Next]_vars

-----------------------------------------------------------------------------
(* Since the main thread logs before the workers exist, no line of the     *)
(* first day meets an update of the common file; and while no update has   *)
(* met a call on the same descriptor, a line goes to a file of the log:    *)
(* that of its level, and of the date the call read where all levels share *)
(* one.  It never reaches a closed descriptor or a client's socket then,   *)
(* although calls at other levels open, close and date files at any time.  *)
LinesReachTheLog ==
    \A t \in Threads : pc[t] = "writes" =>
        \/ raced /\ (isolate \/ today > 1 \/ Info < OutputLevel)
        \/ fd[t] = NoFd
        \/ \E day \in 1..today :
              /\ files[fd[t]] = File(day, level[t])
              /\ isolate \/ day = now[t]

\* A thread has closed the file of level l and not stored the next one yet.
Updating(l) == \E t \in Threads : pc[t] \in {"opens", "stores"} /\ Slot(level[t]) = Slot(l)

(* As long as no update has met a call on the same descriptor, the open    *)
(* log files are those that log_fd knows, one a level: nothing leaks at    *)
(* midnight, no two levels share a file, and what the log closes is its    *)
(* own.                                                                    *)
FilesAreKnown ==
    ~raced =>
        LET Known(l) == {n \in 0..MaxFd : \/ log_fd[Slot(l)] = n /\ ~Updating(l)
                                          \/ \E t \in Threads : /\ Slot(level[t]) = Slot(l)
                                                                /\ pc[t] = "stores" /\ fd[t] = n}
        IN  /\ \A n \in 0..MaxFd : files[n] \notin {Closed, Socket} =>
                  \E l \in Levels : n \in Known(l) /\ \E day \in 1..today : files[n] = File(day, l)
            /\ \A l \in Levels : \A n \in Known(l) : files[n] \notin {Closed, Socket}
            /\ \A t \in Threads : pc[t] = "closes" => files[fd[t]] \notin {Closed, Socket}
=============================================================================
