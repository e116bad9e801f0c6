----------------------------- MODULE LogProofs ------------------------------
(***************************************************************************)
(* What the descriptors of the log keep for any number of threads, levels, *)
(* descriptors and days, while no update meets a call on the descriptor it *)
(* replaces; and that none does on the first day of a common file.         *)
(***************************************************************************)
EXTENDS Log, NaturalsInduction, WellFoundedInduction, TLAPS

Fds     == 0..MaxFd
Places  == {"idle", "dated", "tests", "updates", "closes", "opens", "stores", "dates", "writes"}
LogFile == [day : 1..today, level : Levels]
IsFile(n) == files[n] \notin {Closed, Socket}

Types ==
    /\ isolate \in BOOLEAN /\ started \in BOOLEAN /\ raced \in BOOLEAN
    /\ today \in 1..MaxDay /\ curr_date \in 0..today
    /\ files \in [Fds -> LogFile \cup {Closed, Socket}]
    /\ log_fd \in [0..4 -> Fds \cup {NoFd}]
    /\ pc \in [Threads -> Places]
    /\ level \in [Threads -> Levels]
    /\ now \in [Threads -> 0..today]
    /\ fd \in [Threads -> Fds \cup {NoFd}]
    /\ \A t \in Threads : pc[t] # "idle" => now[t] \in 1..today

-----------------------------------------------------------------------------
(* Descriptors and files.                                                  *)

(* A log file is neither a closed descriptor nor a socket.                 *)
LEMMA FileIsFile ==
    ASSUME Types, NEW d \in 1..today, NEW l \in Levels
    PROVE  File(d, l) \in LogFile /\ File(d, l) \notin {Closed, Socket}
<1>1. today \in 1..MaxDay /\ MaxDay \in Nat
      BY LogAssumption DEF Types
<1>2. d \in 1..MaxDay
      BY <1>1
<1>3. (IF isolate THEN l ELSE Info) \in Levels
      BY LogAssumption
<1> QED  BY <1>2, <1>3, LogAssumption DEF File, LogFile

(* get_curr_fd indexes log_fd within its bounds.                           *)
LEMMA SlotIsSlot == ASSUME NEW l \in Levels PROVE Slot(l) \in 0..4
<1>1. l \in 0..3
      BY LogAssumption
<1> QED  BY <1>1 DEF Slot

(* A file tells the slot of its level, and the slot the file.              *)
LEMMA SlotsAreLevels ==
    ASSUME NEW l \in Levels, NEW m \in Levels, NEW d, NEW e
    PROVE  /\ Slot(l) = Slot(m) => File(d, l) = File(d, m)
           /\ File(d, l) = File(e, m) => Slot(l) = Slot(m)
<1>1. l \in 0..3 /\ m \in 0..3
      BY LogAssumption
<1>2. Slot(l) = Slot(m) => File(d, l) = File(d, m)
      BY <1>1 DEF Slot, File
<1>3. ASSUME File(d, l) = File(e, m)
      PROVE  Slot(l) = Slot(m)
  <2>1. File(d, l).level = File(e, m).level
        BY <1>3
  <2> QED  BY <1>1, <2>1 DEF Slot, File
<1> QED  BY <1>2, <1>3

(* Non-empty sets of descriptors have a least member,                      *)
LEMMA LeastFd ==
    ASSUME NEW S \in SUBSET Nat, S # {}
    PROVE  \E n \in S : \A m \in S : n <= m
<1>1. PICK n \in S : \A m \in S : <<m, n>> \notin OpToRel(<, Nat)
      BY NatLessThanWellFounded, WFMin
<1>2. \A m \in S : ~(m < n)
      BY <1>1 DEF OpToRel
<1> QED  BY <1>2

(* so open and accept find a free descriptor if there is one.              *)
LEMMA LowestIsFree ==
    ASSUME Types
    PROVE  /\ Lowest = NoFd \/ (Lowest \in Fds /\ files[Lowest] = Closed)
           /\ (\E n \in Fds : files[n] = Closed) => Lowest # NoFd
<1> DEFINE S == {n \in 0..MaxFd : files[n] = Closed}
<1>1. CASE S = {}
      BY <1>1 DEF Lowest, Fds
<1>2. CASE S # {}
  <2>0. S \in SUBSET Nat
        BY LogAssumption
  <2> HIDE DEF S
  <2>1. \E n \in S : \A m \in S : n <= m
        BY <1>2, <2>0, LeastFd
  <2>2. Lowest \in S
        BY <1>2, <2>1 DEF Lowest, S
  <2> QED  BY <2>2, LogAssumption DEF Fds, NoFd, S
<1> QED  BY <1>1, <1>2

-----------------------------------------------------------------------------
(* The variables have their types at the start.                            *)
LEMMA TypesStart == Init => Types
<1> SUFFICES ASSUME Init PROVE Types
    OBVIOUS
<1>1. Info \in Levels /\ MaxDay \in Nat \ {0}
      BY LogAssumption
<1>2. /\ today \in 1..MaxDay /\ curr_date \in 0..today
      BY <1>1 DEF Init
<1>5. isolate \in BOOLEAN /\ started \in BOOLEAN /\ raced \in BOOLEAN
      BY Zenon DEF Init
<1>3. /\ files \in [Fds -> LogFile \cup {Closed, Socket}]
      /\ log_fd \in [0..4 -> Fds \cup {NoFd}]
      BY DEF Init, Fds
<1>4. /\ pc \in [Threads -> Places] /\ level \in [Threads -> Levels]
      /\ now \in [Threads -> 0..today] /\ fd \in [Threads -> Fds \cup {NoFd}]
      BY <1>1 DEF Init, Places
<1> QED  BY <1>2, <1>3, <1>4, <1>5 DEF Init, Types

(* What a step of thread t leaves alone of the other threads.              *)
Only(t) ==
    \A u \in Threads : u # t => /\ pc'[u] = pc[u] /\ level'[u] = level[u]
                               /\ now'[u] = now[u] /\ fd'[u] = fd[u]

(* A step of print_log keeps the types and touches no other thread.        *)
LEMMA ThreadsKeepTypes ==
    ASSUME Types, NEW t \in Threads,
           \/ \E l \in Levels : Calls(t, l)
           \/ ReadsFd(t) \/ TestsDate(t) \/ ReadsOldFd(t) \/ ClosesOld(t)
           \/ Opens(t) \/ StoresFd(t) \/ StoresDate(t) \/ Writes(t)
    PROVE  Types' /\ Only(t) /\ UNCHANGED <<isolate, today, started>>
<1>1. UNCHANGED <<isolate, today, started>>
      BY DEF Calls, ReadsFd, TestsDate, ReadsOldFd, ClosesOld, Opens, StoresFd, StoresDate, Writes
<1>2. raced' \in BOOLEAN
      BY DEF Types, Calls, ReadsFd, TestsDate, ReadsOldFd, ClosesOld, Opens, StoresFd, StoresDate,
             Writes, Noted
<1>3. \E p \in Places : pc' = [pc EXCEPT ![t] = p]
      BY DEF Places, Goes, Calls, ReadsFd, TestsDate, ReadsOldFd, ClosesOld, Opens, StoresFd, StoresDate,
             Writes
<1>4. \E l \in Levels : level' = level \/ level' = [level EXCEPT ![t] = l]
      BY LogAssumption
      DEF Calls, ReadsFd, TestsDate, ReadsOldFd, ClosesOld, Opens, StoresFd, StoresDate, Writes
<1>5. \E f \in Fds \cup {NoFd} : fd' = fd \/ fd' = [fd EXCEPT ![t] = f]
  <2>1. level[t] \in Levels /\ log_fd[Slot(level[t])] \in Fds \cup {NoFd}
        BY SlotIsSlot DEF Types
  <2>2. Lowest \in Fds \cup {NoFd}
        BY LowestIsFree
  <2> QED  BY <2>1, <2>2
           DEF Calls, ReadsFd, TestsDate, ReadsOldFd, ClosesOld, Opens, StoresFd, StoresDate, Writes
<1>6. /\ now' \in [Threads -> 0..today]
      /\ \A u \in Threads : pc'[u] # "idle" => now'[u] \in 1..today
      /\ \A u \in Threads : u # t => now'[u] = now[u]
  <2>1. CASE \E l \in Levels : Calls(t, l)
    <3>1. now' = [now EXCEPT ![t] = today] /\ today \in 1..today
          BY <2>1, LogAssumption DEF Calls, Types
    <3> QED  BY <1>3, <3>1 DEF Types
  <2>2. CASE Writes(t)
        BY <2>2 DEF Writes, Goes, Types
  <2>3. CASE \/ ReadsFd(t) \/ TestsDate(t) \/ ReadsOldFd(t) \/ ClosesOld(t)
             \/ Opens(t) \/ StoresFd(t) \/ StoresDate(t)
    <3>1. now' = now /\ pc[t] # "idle"
          BY <2>3 DEF Goes, ReadsFd, TestsDate, ReadsOldFd, ClosesOld, Opens, StoresFd, StoresDate
    <3> QED  BY <1>3, <3>1 DEF Types
  <2> QED  BY <2>1, <2>2, <2>3
<1>7. files' \in [Fds -> LogFile \cup {Closed, Socket}]
  <2>1. CASE Opens(t)
    <3>1. pc[t] # "idle"
          BY <2>1 DEF Opens, Goes
    <3>2. File(now[t], level[t]) \in LogFile
          BY <3>1, FileIsFile DEF Types
    <3> QED  BY <2>1, <3>2 DEF Opens, Types
  <2>2. CASE ~Opens(t)
        BY <2>2 DEF Types, Calls, ReadsFd, TestsDate, ReadsOldFd, ClosesOld, StoresFd, StoresDate, Writes
  <2> QED  BY <2>1, <2>2
<1>8. log_fd' \in [0..4 -> Fds \cup {NoFd}]
      BY DEF Types, Calls, ReadsFd, TestsDate, ReadsOldFd, ClosesOld, Opens, StoresFd, StoresDate, Writes
<1>9. curr_date' \in 0..today
      BY DEF Types, Calls, ReadsFd, TestsDate, ReadsOldFd, ClosesOld, Opens, StoresFd, StoresDate, Writes
<1>10. /\ pc' \in [Threads -> Places] /\ level' \in [Threads -> Levels]
       /\ fd' \in [Threads -> Fds \cup {NoFd}]
       BY <1>3, <1>4, <1>5 DEF Types
<1>11. Only(t)
       BY <1>3, <1>4, <1>5, <1>6 DEF Only, Types
<1> QED  BY <1>1, <1>2, <1>6, <1>7, <1>8, <1>9, <1>10, <1>11 DEF Types, LogFile

(* So do the start of the workers, midnight and the clients.               *)
LEMMA OthersKeepTypes ==
    ASSUME Types, StartsWorkers \/ Midnight \/ Sockets
    PROVE  Types'
<1>1. CASE StartsWorkers
      BY <1>1 DEF StartsWorkers, Noted, Types, LogFile
<1>2. CASE Midnight
  <2>1. today' \in 1..MaxDay /\ 0..today \subseteq 0..today' /\ 1..today \subseteq 1..today'
        BY <1>2, LogAssumption DEF Midnight, Types
  <2>2. LogFile \subseteq LogFile'
        BY <2>1 DEF LogFile
  <2>3. UNCHANGED <<isolate, files, log_fd, curr_date, started, pc, level, now, fd>> /\ raced' \in BOOLEAN
        BY <1>2 DEF Midnight, Noted, Types
  <2> QED  BY <2>1, <2>2, <2>3 DEF Types
<1>3. CASE Sockets
  <2>1. files' \in [Fds -> LogFile \cup {Closed, Socket}]
        BY <1>3 DEF Sockets, Types
  <2> QED  BY <1>3, <2>1 DEF Sockets, Noted, Types, LogFile
<1> QED  BY <1>1, <1>2, <1>3

-----------------------------------------------------------------------------
(* Until an update meets a call on the same descriptor.                    *)

Replacing(t) == pc[t] \in {"updates", "closes", "opens", "stores", "dates"}
HasFile(n, l) == n \in Fds /\ \E day \in 1..today : files[n] = File(day, l)
Known(n, l) == \/ log_fd[Slot(l)] = n /\ ~Updating(l)
               \/ \E t \in Threads : Slot(level[t]) = Slot(l) /\ pc[t] = "stores" /\ fd[t] = n

(* What the place of a thread says of its descriptor.                      *)
PlaceHolds(t) ==
    /\ pc[t] \in {"tests", "closes", "dates", "writes"} => fd[t] = log_fd[Slot(level[t])]
    /\ pc[t] = "closes" => fd[t] # NoFd
    /\ pc[t] \in {"stores", "dates"} /\ fd[t] # NoFd => files[fd[t]] = File(now[t], level[t])
    /\ pc[t] = "writes" /\ fd[t] # NoFd /\ ~isolate => files[fd[t]] = File(now[t], level[t])

FdsHold == \A l \in Levels :
    ~Updating(l) /\ log_fd[Slot(l)] # NoFd => HasFile(log_fd[Slot(l)], l)

FilesHold == \A n \in Fds : IsFile(n) => \E l \in Levels : Known(n, l)

(* The one date is that of the one file.                                   *)
DateHolds ==
    /\ ~isolate /\ log_fd[0] # NoFd
    /\ \A t \in Threads : pc[t] \notin {"opens", "stores", "dates"}
    => files[log_fd[0]] = File(curr_date, Info)

QuietInv ==
    /\ ~Meeting
    /\ \A t \in Threads : PlaceHolds(t)
    /\ FdsHold /\ FilesHold /\ DateHolds

LogInv == Types /\ (~raced => QuietInv)

(* A thread that replaces a file is alone with it.                         *)
LEMMA ReplacesAlone ==
    ASSUME ~Meeting, NEW t \in Threads, Replacing(t),
           NEW u \in Threads, u # t, Slot(level[t]) = Slot(level[u])
    PROVE  pc[u] = "idle"
BY DEF Meeting, Replacing

(* Every step records whether an update meets another call.                *)
LEMMA AllNoted ==
    ASSUME Next, ~raced', Types
    PROVE  ~raced /\ ~Meeting'
<1>1. raced' = (raced \/ Meeting')
      BY DEF Next, Calls, ReadsFd, TestsDate, ReadsOldFd, ClosesOld, Opens, StoresFd, StoresDate,
             Writes, StartsWorkers, Midnight, Sockets, Noted
<1> QED  BY <1>1

(* A descriptor that is a level's has a file of the log.                   *)
LEMMA FilesAreFiles ==
    ASSUME Types, NEW n, NEW l \in Levels, HasFile(n, l)
    PROVE  n \in Fds /\ IsFile(n)
BY FileIsFile DEF HasFile, IsFile

(* Steps of one thread that leave files, descriptors and dates alone.      *)
LEMMA ReadsKeep ==
    ASSUME Types, Types', QuietInv, ~Meeting', NEW t \in Threads, Only(t),
           UNCHANGED <<isolate, today, files, log_fd, curr_date>>,
           PlaceHolds(t)',
           pc[t] \notin {"opens", "stores", "dates"}, pc'[t] \notin {"stores", "dates"},
           pc'[t] = "opens" => log_fd[Slot(level[t])] = NoFd /\ level'[t] = level[t]
    PROVE  QuietInv'
<1>1. \A l \in Levels : Slot(l)' = Slot(l) /\ \A d : File(d, l)' = File(d, l)
      BY DEF Slot, File
<1>2. \A u \in Threads : level[u] \in Levels /\ level'[u] \in Levels
      BY DEF Types
<1>3. \A u \in Threads : PlaceHolds(u)'
  <2>1. ASSUME NEW u \in Threads, u # t PROVE PlaceHolds(u)'
        BY <1>1, <1>2, <2>1 DEF Only, QuietInv, PlaceHolds
  <2> QED  BY <2>1
<1>4. \A l \in Levels : Updating(l) => Updating(l)'
  <2> SUFFICES ASSUME NEW l \in Levels, NEW u \in Threads,
                      pc[u] \in {"opens", "stores"}, Slot(level[u]) = Slot(l)
               PROVE  pc'[u] \in {"opens", "stores"} /\ (Slot(level[u]) = Slot(l))'
      BY DEF Updating
  <2>1. u # t
        OBVIOUS
  <2> QED  BY <2>1 DEF Only, Slot
<1>5. \A l \in Levels : Updating(l)' => Updating(l) \/ log_fd[Slot(l)] = NoFd
  <2> SUFFICES ASSUME NEW l \in Levels, NEW u \in Threads,
                      pc'[u] \in {"opens", "stores"}, (Slot(level[u]) = Slot(l))'
               PROVE  Updating(l) \/ log_fd[Slot(l)] = NoFd
      BY DEF Updating
  <2>1. CASE u = t
        BY <2>1 DEF Slot
  <2>2. CASE u # t
        BY <2>2 DEF Only, Updating, Slot
  <2> QED  BY <2>1, <2>2
<1>6. FdsHold'
      BY <1>1, <1>4 DEF QuietInv, FdsHold, HasFile, Fds
<1>7. FilesHold'
  <2> SUFFICES ASSUME NEW n \in Fds, IsFile(n)
               PROVE  \E l \in Levels : Known(n, l)'
      BY DEF FilesHold, IsFile
  <2>1. PICK l \in Levels : Known(n, l)
        BY DEF QuietInv, FilesHold
  <2>2. n # NoFd
        BY LogAssumption DEF Fds, NoFd
  <2>3. CASE log_fd[Slot(l)] = n /\ ~Updating(l)
        BY <1>1, <1>5, <2>2, <2>3 DEF Known
  <2>4. CASE \E u \in Threads : Slot(level[u]) = Slot(l) /\ pc[u] = "stores" /\ fd[u] = n
        BY <1>1, <1>2, <2>4 DEF Known, Only
  <2> QED  BY <2>1, <2>3, <2>4 DEF Known
<1>8. DateHolds'
  <2> SUFFICES ASSUME ~isolate, log_fd[0] # NoFd,
                      \A u \in Threads : pc'[u] \notin {"opens", "stores", "dates"}
               PROVE  files[log_fd[0]] = File(curr_date, Info)
      BY DEF DateHolds, File
  <2> QED  BY DEF QuietInv, DateHolds, Only
<1> QED  BY <1>3, <1>6, <1>7, <1>8 DEF QuietInv

(* Calling, reading and testing, and the write, change no file.            *)
LEMMA CallsKeep ==
    ASSUME Types, QuietInv, ~Meeting', NEW t \in Threads,
           \/ \E l \in Levels : Calls(t, l)
           \/ ReadsFd(t) \/ TestsDate(t) \/ ReadsOldFd(t) \/ Writes(t)
    PROVE  QuietInv'
<1>1. Types' /\ Only(t) /\ UNCHANGED <<isolate, today>>
      BY ThreadsKeepTypes
<1>2. UNCHANGED <<files, log_fd, curr_date>>
      BY DEF Calls, ReadsFd, TestsDate, ReadsOldFd, Writes
<1>3. pc[t] \notin {"opens", "stores", "dates"} /\ pc'[t] \notin {"stores", "dates"}
      BY DEF Calls, ReadsFd, TestsDate, ReadsOldFd, Writes, Goes, Types
<1>4. pc'[t] = "opens" => log_fd[Slot(level[t])] = NoFd /\ level'[t] = level[t]
      BY DEF Calls, ReadsFd, TestsDate, ReadsOldFd, Writes, Goes, Types
<1>5. PlaceHolds(t)'
  <2>1. CASE (\E l \in Levels : Calls(t, l)) \/ Writes(t)
    <3>1. pc'[t] \in {"dated", "idle"}
          BY <2>1 DEF Calls, Writes, Goes, Types
    <3> QED  BY <3>1 DEF PlaceHolds
  <2>2. CASE ReadsFd(t)
    <3>1. /\ pc'[t] = "tests" /\ fd'[t] = log_fd[Slot(level[t])] /\ level' = level
          BY <2>2 DEF ReadsFd, Goes, Types
    <3> QED  BY <1>1, <1>2, <3>1 DEF PlaceHolds, Slot
  <2>3. CASE ReadsOldFd(t)
    <3>1. /\ fd'[t] = log_fd[Slot(level[t])] /\ level' = level
          /\ pc'[t] = IF log_fd[Slot(level[t])] = NoFd THEN "opens" ELSE "closes"
          BY <2>3 DEF ReadsOldFd, Goes, Types
    <3> QED  BY <1>1, <1>2, <3>1 DEF PlaceHolds, Slot
  <2>4. CASE TestsDate(t)
    <3>1. /\ UNCHANGED <<level, now, fd>> /\ pc[t] = "tests"
          /\ pc'[t] = "updates" \/ (pc'[t] = "writes" /\ Fresh(t))
          BY <2>4 DEF TestsDate, Goes, Types
    <3>2. fd[t] = log_fd[Slot(level[t])]
          BY <3>1 DEF QuietInv, PlaceHolds
    <3>3. ASSUME Fresh(t), ~isolate
          PROVE  files[fd[t]] = File(now[t], level[t])
      <4>1. \A u \in Threads : ~Replacing(u)
            BY <3>1, <3>3, ReplacesAlone DEF QuietInv, Slot, Replacing
      <4>2. log_fd[0] # NoFd /\ curr_date = now[t] /\ fd[t] = log_fd[0]
            BY <3>2, <3>3 DEF Fresh, Slot
      <4>3. files[log_fd[0]] = File(curr_date, Info)
            BY <3>3, <4>1, <4>2 DEF QuietInv, DateHolds, Replacing
      <4> QED  BY <3>3, <4>2, <4>3 DEF File
    <3> QED  BY <1>1, <1>2, <3>1, <3>2, <3>3 DEF PlaceHolds, Slot, File
  <2> QED  BY <2>1, <2>2, <2>3, <2>4
<1> QED  BY <1>1, <1>2, <1>3, <1>4, <1>5, ReadsKeep

(* What closing or opening a descriptor leaves of the other threads.       *)
LEMMA OthersHold ==
    ASSUME Types, QuietInv, NEW t \in Threads, Only(t), NEW n,
           UNCHANGED <<isolate, today, log_fd>>,
           \A m \in Fds : m # n => files'[m] = files[m],
           NEW u \in Threads, u # t,
           pc[u] \in {"stores", "dates", "writes"} /\ (pc[u] = "writes" => ~isolate)
               /\ fd[u] \in {n, NoFd} => fd[u] = NoFd
    PROVE  PlaceHolds(u)'
<1>1. PlaceHolds(u) /\ pc'[u] = pc[u] /\ level'[u] = level[u] /\ now'[u] = now[u] /\ fd'[u] = fd[u]
      BY DEF QuietInv, Only
<1>2. fd[u] # NoFd => fd[u] \in Fds
      BY DEF Types
<1> QED  BY <1>1, <1>2 DEF PlaceHolds, Slot, File

(* close, of a descriptor that is still the level's own.                   *)
LEMMA ClosesKeep ==
    ASSUME Types, QuietInv, ~Meeting', NEW t \in Threads, ClosesOld(t)
    PROVE  QuietInv'
<1> DEFINE n == fd[t]  s == Slot(level[t])
<1>1. Types' /\ Only(t) /\ UNCHANGED <<isolate, today>>
      BY ThreadsKeepTypes
<1>2. /\ pc[t] = "closes" /\ pc'[t] = "opens" /\ files' = [files EXCEPT ![n] = Closed]
      /\ UNCHANGED <<log_fd, curr_date, level, now, fd>>
      BY DEF ClosesOld, Goes, Types
<1>3. n = log_fd[s] /\ n \in Fds /\ level[t] \in Levels
      BY <1>2 DEF QuietInv, PlaceHolds, Types
<1>4. \A u \in Threads : u # t /\ Slot(level[u]) = s => pc[u] = "idle"
      BY <1>2, ReplacesAlone DEF QuietInv, Replacing
<1>5. ~Updating(level[t])
      BY <1>2, <1>4 DEF Updating
<1>6. HasFile(n, level[t])
  <2>1. n # NoFd
        BY <1>3, LogAssumption DEF Fds, NoFd
  <2> QED  BY <1>3, <1>5, <2>1 DEF QuietInv, FdsHold
<1>7. ASSUME NEW l \in Levels, Slot(l) # s
      PROVE  ~HasFile(n, l)
      BY <1>3, <1>6, <1>7, SlotsAreLevels DEF HasFile
<1>8. /\ files'[n] = Closed /\ \A m \in Fds : m # n => files'[m] = files[m]
      BY <1>2, <1>3 DEF Types
<1>9. ASSUME NEW l \in Levels
      PROVE  Updating(l)' <=> Updating(l) \/ Slot(l) = s
  <2>1. Slot(l)' = Slot(l) /\ \A u \in Threads : Slot(level[u])' = Slot(level[u])
        BY <1>1, <1>2 DEF Slot
  <2>2. \A u \in Threads : pc'[u] \in {"opens", "stores"} <=> pc[u] \in {"opens", "stores"} \/ u = t
        BY <1>1, <1>2 DEF Only
  <2> QED  BY <2>1, <2>2 DEF Updating
<1>10. ASSUME NEW u \in Threads, u # t
       PROVE  PlaceHolds(u)'
  <2>1. ASSUME pc[u] \in {"stores", "dates", "writes"}, pc[u] = "writes" => ~isolate
        PROVE  fd[u] # n
    <3>1. level[u] \in Levels /\ Slot(level[u]) # s
          BY <1>4, <1>10, <2>1 DEF Types
    <3>2. fd[u] # NoFd => files[fd[u]] = File(now[u], level[u]) /\ now[u] \in 1..today
          BY <2>1 DEF QuietInv, PlaceHolds, Types
    <3>3. n # NoFd
          BY <1>3, LogAssumption DEF Fds, NoFd
    <3> QED  BY <1>3, <1>7, <3>1, <3>2, <3>3 DEF HasFile
  <2> QED  BY <1>1, <1>2, <1>8, <1>10, <2>1, OthersHold
<1>11. PlaceHolds(t)'
       BY <1>2 DEF PlaceHolds
<1>12. FdsHold'
  <2> SUFFICES ASSUME NEW l \in Levels, ~Updating(l)', log_fd[Slot(l)] # NoFd
               PROVE  HasFile(log_fd[Slot(l)], l)'
      BY <1>1, <1>2 DEF FdsHold, Slot
  <2>1. Slot(l) # s /\ HasFile(log_fd[Slot(l)], l)
        BY <1>9 DEF QuietInv, FdsHold
  <2>2. log_fd[Slot(l)] # n
        BY <1>7, <2>1
  <2> QED  BY <1>1, <1>2, <1>8, <2>1, <2>2 DEF HasFile, Fds, Slot, File
<1>13. FilesHold'
  <2> SUFFICES ASSUME NEW m \in Fds, IsFile(m)'
               PROVE  \E l \in Levels : Known(m, l)'
      BY DEF FilesHold
  <2>1. m # n /\ IsFile(m)
        BY <1>8 DEF IsFile
  <2>2. PICK l \in Levels : Known(m, l)
        BY <2>1 DEF QuietInv, FilesHold
  <2>3. CASE log_fd[Slot(l)] = m /\ ~Updating(l)
        BY <1>1, <1>2, <1>3, <1>9, <2>1, <2>3 DEF Known, Slot
  <2>4. CASE \E u \in Threads : Slot(level[u]) = Slot(l) /\ pc[u] = "stores" /\ fd[u] = m
        BY <1>1, <1>2, <2>4 DEF Known, Slot, Only
  <2> QED  BY <2>2, <2>3, <2>4 DEF Known
<1>14. DateHolds'
       BY <1>2 DEF DateHolds
<1> QED  BY <1>10, <1>11, <1>12, <1>13, <1>14 DEF QuietInv

(* open, of a descriptor that no level has.                                *)
LEMMA OpensKeep ==
    ASSUME Types, QuietInv, ~Meeting', NEW t \in Threads, Opens(t)
    PROVE  QuietInv'
<1> DEFINE n == Lowest
<1>1. Types' /\ Only(t) /\ UNCHANGED <<isolate, today>>
      BY ThreadsKeepTypes
<1>2. /\ pc[t] = "opens" /\ pc'[t] = "stores" /\ fd'[t] = n
      /\ UNCHANGED <<log_fd, curr_date, level, now>>
      BY DEF Opens, Goes, Types
<1>3. /\ n = NoFd \/ (n \in Fds /\ files[n] = Closed)
      /\ n # NoFd => files'[n] = File(now[t], level[t])
      /\ \A m \in Fds : m # n => files'[m] = files[m]
  <2>1. n = NoFd \/ (n \in Fds /\ files[n] = Closed)
        BY LowestIsFree
  <2> QED  BY <2>1 DEF Opens, Types
<1>4. \A l \in Levels : ~HasFile(n, l)
      BY <1>3, FilesAreFiles, LogAssumption DEF HasFile, IsFile, Fds, NoFd
<1>5. ASSUME NEW l \in Levels
      PROVE  Updating(l)' <=> Updating(l)
  <2>1. Slot(l)' = Slot(l) /\ \A u \in Threads : Slot(level[u])' = Slot(level[u])
        BY <1>1, <1>2 DEF Slot
  <2>2. \A u \in Threads : pc'[u] \in {"opens", "stores"} <=> pc[u] \in {"opens", "stores"}
        BY <1>1, <1>2 DEF Only
  <2> QED  BY <2>1, <2>2 DEF Updating
<1>6. ASSUME NEW u \in Threads, u # t
      PROVE  PlaceHolds(u)'
  <2>1. ASSUME pc[u] \in {"stores", "dates", "writes"}, pc[u] = "writes" => ~isolate,
               fd[u] \in {n, NoFd}, fd[u] # NoFd
        PROVE  FALSE
    <3>1. /\ files[fd[u]] = File(now[u], level[u]) /\ now[u] \in 1..today
          /\ level[u] \in Levels /\ fd[u] \in Fds
          BY <2>1 DEF QuietInv, PlaceHolds, Types
    <3> QED  BY <1>4, <2>1, <3>1 DEF HasFile
  <2> QED  BY <1>1, <1>2, <1>3, <1>6, <2>1, OthersHold
<1>7. PlaceHolds(t)'
      BY <1>1, <1>2, <1>3 DEF PlaceHolds, File
<1>8. FdsHold'
  <2> SUFFICES ASSUME NEW l \in Levels, ~Updating(l)', log_fd[Slot(l)] # NoFd
               PROVE  HasFile(log_fd[Slot(l)], l)'
      BY <1>1, <1>2 DEF FdsHold, Slot
  <2>1. HasFile(log_fd[Slot(l)], l)
        BY <1>5 DEF QuietInv, FdsHold
  <2>2. log_fd[Slot(l)] # n
        BY <1>4, <2>1
  <2> QED  BY <1>1, <1>2, <1>3, <2>1, <2>2 DEF HasFile, Fds, Slot, File
<1>9. FilesHold'
  <2> SUFFICES ASSUME NEW m \in Fds, IsFile(m)'
               PROVE  \E l \in Levels : Known(m, l)'
      BY DEF FilesHold
  <2>1. CASE m = n
        BY <1>1, <1>2, <2>1 DEF Known, Types
  <2>2. CASE m # n
    <3>1. PICK l \in Levels : Known(m, l)
          BY <1>3, <2>2 DEF QuietInv, FilesHold, IsFile
    <3>2. CASE log_fd[Slot(l)] = m /\ ~Updating(l)
          BY <1>1, <1>2, <1>5, <3>2 DEF Known, Slot
    <3>3. CASE \E u \in Threads : Slot(level[u]) = Slot(l) /\ pc[u] = "stores" /\ fd[u] = m
          BY <1>1, <1>2, <3>3 DEF Known, Slot, Only
    <3> QED  BY <3>1, <3>2, <3>3 DEF Known
  <2> QED  BY <2>1, <2>2
<1>10. DateHolds'
       BY <1>2 DEF DateHolds
<1> QED  BY <1>6, <1>7, <1>8, <1>9, <1>10 DEF QuietInv

(* log_fd takes the new descriptor, and knows the file from then on.       *)
LEMMA StoresFdKeeps ==
    ASSUME Types, QuietInv, ~Meeting', NEW t \in Threads, StoresFd(t)
    PROVE  QuietInv'
<1> DEFINE s == Slot(level[t])
<1>1. Types' /\ Only(t) /\ UNCHANGED <<isolate, today>>
      BY ThreadsKeepTypes
<1>2. /\ pc[t] = "stores" /\ pc'[t] = "dates" /\ log_fd' = [log_fd EXCEPT ![s] = fd[t]]
      /\ UNCHANGED <<files, curr_date, level, now, fd>>
      BY DEF StoresFd, Goes, Types
<1>3. level[t] \in Levels /\ s \in 0..4
      BY SlotIsSlot DEF Types
<1>4. \A u \in Threads : u # t /\ Slot(level[u]) = s => pc[u] = "idle"
      BY <1>2, ReplacesAlone DEF QuietInv, Replacing
<1>5. log_fd'[s] = fd[t] /\ \A i \in 0..4 : i # s => log_fd'[i] = log_fd[i]
      BY <1>2, <1>3 DEF Types
<1>6. ASSUME NEW l \in Levels
      PROVE  Updating(l)' <=> Updating(l) /\ Slot(l) # s
  <2>1. Slot(l)' = Slot(l) /\ \A u \in Threads : Slot(level[u])' = Slot(level[u])
        BY <1>1, <1>2 DEF Slot
  <2>2. \A u \in Threads : pc'[u] \in {"opens", "stores"} <=> pc[u] \in {"opens", "stores"} /\ u # t
        BY <1>1, <1>2 DEF Only
  <2> QED  BY <1>4, <2>1, <2>2 DEF Updating
<1>7. ASSUME NEW u \in Threads, u # t
      PROVE  PlaceHolds(u)'
  <2>1. PlaceHolds(u) /\ pc'[u] = pc[u] /\ level[u] \in Levels
        BY <1>1, <1>7 DEF QuietInv, Only, Types
  <2>2. CASE pc[u] = "idle"
        BY <2>1, <2>2 DEF PlaceHolds
  <2>3. CASE pc[u] # "idle"
    <3>1. log_fd'[Slot(level[u])] = log_fd[Slot(level[u])]
          BY <1>4, <1>5, <1>7, <2>1, <2>3, SlotIsSlot
    <3> QED  BY <1>1, <1>2, <2>1, <3>1 DEF PlaceHolds, Slot, File
  <2> QED  BY <2>2, <2>3
<1>8. PlaceHolds(t)'
      BY <1>1, <1>2, <1>5 DEF QuietInv, PlaceHolds, Slot, File
<1>9. FdsHold'
  <2>1. ASSUME NEW l \in Levels, ~Updating(l)', log_fd'[Slot(l)] # NoFd
        PROVE  log_fd'[Slot(l)] \in Fds /\ \E day \in 1..today : files[log_fd'[Slot(l)]] = File(day, l)
    <3>1. CASE Slot(l) = s
      <4>1. log_fd'[Slot(l)] = fd[t] /\ files[fd[t]] = File(now[t], level[t])
            BY <1>2, <1>5, <2>1, <3>1 DEF QuietInv, PlaceHolds
      <4>2. File(now[t], level[t]) = File(now[t], l) /\ now[t] \in 1..today /\ fd[t] \in Fds
            BY <1>2, <1>3, <1>5, <2>1, <3>1, SlotsAreLevels DEF Types
      <4> QED  BY <4>1, <4>2
    <3>2. CASE Slot(l) # s
      <4>1. log_fd'[Slot(l)] = log_fd[Slot(l)] /\ ~Updating(l)
            BY <1>5, <1>6, <2>1, <3>2, SlotIsSlot
      <4> QED  BY <2>1, <4>1 DEF QuietInv, FdsHold, HasFile
    <3> QED  BY <3>1, <3>2
  <2> QED  BY <1>1, <1>2, <2>1 DEF FdsHold, HasFile, Fds, Slot, File
<1>10. FilesHold'
  <2> SUFFICES ASSUME NEW m \in Fds, IsFile(m)
               PROVE  \E l \in Levels : Known(m, l)'
      BY <1>2 DEF FilesHold, IsFile
  <2>1. PICK l \in Levels : Known(m, l)
        BY DEF QuietInv, FilesHold
  <2>2. CASE log_fd[Slot(l)] = m /\ ~Updating(l)
    <3>1. Slot(l) # s
          BY <1>2, <2>2 DEF Updating
    <3>2. log_fd'[Slot(l)] = m /\ ~Updating(l)'
          BY <1>5, <1>6, <2>2, <3>1, SlotIsSlot
    <3> QED  BY <1>1, <3>2 DEF Known, Slot
  <2>3. ASSUME NEW u \in Threads, Slot(level[u]) = Slot(l), pc[u] = "stores", fd[u] = m
        PROVE  Known(m, l)'
    <3>1. CASE u = t
          BY <1>1, <1>5, <1>6, <2>3, <3>1 DEF Known, Slot
    <3>2. CASE u # t
          BY <1>1, <1>2, <2>3, <3>2 DEF Known, Slot, Only
    <3> QED  BY <3>1, <3>2
  <2> QED  BY <2>1, <2>2, <2>3 DEF Known
<1>11. DateHolds'
       BY <1>2 DEF DateHolds
<1> QED  BY <1>7, <1>8, <1>9, <1>10, <1>11 DEF QuietInv

(* The date becomes that of the file that was opened.                      *)
LEMMA StoresDateKeeps ==
    ASSUME Types, QuietInv, ~Meeting', NEW t \in Threads, StoresDate(t)
    PROVE  QuietInv'
<1>1. Types' /\ Only(t) /\ UNCHANGED <<isolate, today>>
      BY ThreadsKeepTypes
<1>2. /\ pc[t] = "dates" /\ pc'[t] = "writes" /\ curr_date' = now[t]
      /\ UNCHANGED <<files, log_fd, level, now, fd>>
      BY DEF StoresDate, Goes, Types
<1>3. PlaceHolds(t)
      BY DEF QuietInv
<1>4. \A u \in Threads : PlaceHolds(u)'
  <2>1. PlaceHolds(t)'
        BY <1>1, <1>2, <1>3 DEF PlaceHolds, Slot, File
  <2>2. ASSUME NEW u \in Threads, u # t PROVE PlaceHolds(u)'
        BY <1>1, <1>2, <2>2 DEF QuietInv, PlaceHolds, Slot, File, Only
  <2> QED  BY <2>1, <2>2
<1>5. ASSUME NEW l \in Levels
      PROVE  Updating(l)' <=> Updating(l)
  <2>1. Slot(l)' = Slot(l) /\ \A u \in Threads : Slot(level[u])' = Slot(level[u])
        BY <1>1, <1>2 DEF Slot
  <2>2. \A u \in Threads : pc'[u] \in {"opens", "stores"} <=> pc[u] \in {"opens", "stores"}
        BY <1>1, <1>2 DEF Only
  <2> QED  BY <2>1, <2>2 DEF Updating
<1>6. FdsHold'
      BY <1>1, <1>2, <1>5 DEF QuietInv, FdsHold, HasFile, Slot, File, Fds
<1>7. ASSUME NEW m, NEW l \in Levels, Known(m, l)
      PROVE  Known(m, l)'
  <2>1. CASE log_fd[Slot(l)] = m /\ ~Updating(l)
        BY <1>1, <1>2, <1>5, <2>1 DEF Known, Slot
  <2>2. CASE \E u \in Threads : Slot(level[u]) = Slot(l) /\ pc[u] = "stores" /\ fd[u] = m
        BY <1>1, <1>2, <2>2 DEF Known, Slot, Only
  <2> QED  BY <1>7, <2>1, <2>2 DEF Known
<1>8. FilesHold'
      BY <1>2, <1>7 DEF QuietInv, FilesHold, IsFile, Fds
<1>9. DateHolds'
      BY <1>1, <1>2, <1>3 DEF DateHolds, PlaceHolds, Slot, File
<1> QED  BY <1>4, <1>6, <1>8, <1>9 DEF QuietInv

(* Clients take and free descriptors that are no files of the log.         *)
LEMMA OutsideKeeps ==
    ASSUME Types, QuietInv, ~Meeting', StartsWorkers \/ Midnight \/ Sockets
    PROVE  QuietInv'
<1>1. UNCHANGED <<isolate, log_fd, curr_date, pc, level, now, fd>> /\ 1..today \subseteq 1..today'
      BY LogAssumption DEF StartsWorkers, Midnight, Sockets, Types
<1>2. \A n \in Fds : \/ files'[n] = files[n]
                     \/ files[n] \in {Closed, Socket} /\ files'[n] \in {Closed, Socket}
  <2>1. CASE Sockets
    <3>1. CASE Lowest # NoFd /\ files' = [files EXCEPT ![Lowest] = Socket]
          BY <3>1, LowestIsFree DEF Types
    <3>2. CASE \E n \in Fds : files[n] = Socket /\ files' = [files EXCEPT ![n] = Closed]
          BY <3>2 DEF Types
    <3> QED  BY <2>1, <3>1, <3>2 DEF Sockets, Fds
  <2>2. CASE StartsWorkers \/ Midnight
        BY <2>2 DEF StartsWorkers, Midnight
  <2> QED  BY <2>1, <2>2
<1>3. ASSUME NEW n \in Fds, NEW l \in Levels, NEW day \in 1..today, files[n] = File(day, l)
      PROVE  files'[n] = File(day, l)
  <2>1. files[n] \notin {Closed, Socket}
        BY <1>3, FileIsFile
  <2> QED  BY <1>2, <1>3, <2>1
<1>4. ASSUME NEW t \in Threads
      PROVE  PlaceHolds(t)'
  <2>1. /\ fd[t] # NoFd => fd[t] \in Fds
        /\ pc[t] # "idle" => now[t] \in 1..today
        /\ level[t] \in Levels
        BY DEF Types
  <2>2. PlaceHolds(t)
        BY DEF QuietInv
  <2>3. fd[t] # NoFd /\ pc[t] # "idle" /\ files[fd[t]] = File(now[t], level[t])
        => files'[fd[t]] = File(now[t], level[t])
        BY <1>3, <2>1
  <2> QED  BY <1>1, <2>2, <2>3 DEF PlaceHolds, Slot, File
<1>5. ASSUME NEW l \in Levels
      PROVE  Updating(l)' <=> Updating(l)
      BY <1>1 DEF Updating, Slot
<1>6. FdsHold'
  <2>1. ASSUME NEW l \in Levels, ~Updating(l), log_fd[Slot(l)] # NoFd
        PROVE  log_fd[Slot(l)] \in Fds /\ \E day \in 1..today' : files'[log_fd[Slot(l)]] = File(day, l)
        BY <1>1, <1>3, <2>1 DEF QuietInv, FdsHold, HasFile
  <2> QED  BY <1>1, <1>5, <2>1 DEF FdsHold, HasFile, Fds, Slot, File
<1>7. FilesHold'
  <2> SUFFICES ASSUME NEW n \in Fds, IsFile(n)'
               PROVE  \E l \in Levels : Known(n, l)'
      BY DEF FilesHold, Fds
  <2>1. IsFile(n)
        BY <1>2 DEF IsFile
  <2>2. PICK l \in Levels : Known(n, l)
        BY <2>1 DEF QuietInv, FilesHold
  <2> QED  BY <1>1, <1>5, <2>2 DEF Known, Slot
<1>8. DateHolds'
  <2>1. ASSUME ~isolate, log_fd[0] # NoFd,
               \A t \in Threads : pc[t] \notin {"opens", "stores", "dates"}
        PROVE  files'[log_fd[0]] = File(curr_date, Info)
    <3>1. files[log_fd[0]] = File(curr_date, Info)
          BY <2>1 DEF QuietInv, DateHolds
    <3>2. Slot(Info) = 0 /\ ~Updating(Info) /\ Info \in Levels
          BY <2>1, LogAssumption DEF Slot, Updating
    <3>3. log_fd[0] \in Fds /\ \E day \in 1..today : files[log_fd[0]] = File(day, Info)
          BY <2>1, <3>2 DEF QuietInv, FdsHold, HasFile
    <3> QED  BY <1>3, <3>1, <3>2, <3>3
  <2> QED  BY <1>1, <2>1 DEF DateHolds, File
<1> QED  BY <1>4, <1>6, <1>7, <1>8 DEF QuietInv

-----------------------------------------------------------------------------
(* The first day of a common file: the main thread opens it alone, and     *)
(* then no thread finds a reason to.                                       *)

Common == ~isolate /\ today = 1 /\ Info >= OutputLevel

Starting ==
    /\ \A t \in Threads : t # Main => pc[t] = "idle"
    /\ \/ /\ curr_date = 0 /\ log_fd[0] = NoFd
          /\ pc[Main] \in {"idle", "dated", "tests", "updates", "opens"}
          /\ pc[Main] = "tests" => fd[Main] = NoFd
          /\ \A n \in Fds : files[n] = Closed
       \/ curr_date = 0 /\ pc[Main] = "stores" /\ fd[Main] # NoFd
       \/ curr_date = 0 /\ pc[Main] = "dates" /\ log_fd[0] # NoFd
       \/ curr_date = 1 /\ pc[Main] \in {"writes", "idle"} /\ log_fd[0] # NoFd

Running ==
    /\ log_fd[0] # NoFd /\ curr_date = 1
    /\ \A t \in Threads : ~Replacing(t) /\ (pc[t] = "tests" => fd[t] = log_fd[0])

FirstDay == Common => ~raced /\ (started => Running) /\ (~started => Starting)

(* Neither at start-up nor while the file is fresh is there an update to   *)
(* meet.                                                                   *)
LEMMA NobodyMeets ==
    ASSUME Running \/ Starting
    PROVE  ~Meeting
<1>1. CASE Running
      BY <1>1 DEF Running, Meeting, Replacing
<1>2. CASE Starting
      BY <1>2 DEF Starting, Meeting
<1> QED  BY <1>1, <1>2

(* The main thread goes through its first call alone.                      *)
LEMMA StartingKeeps ==
    ASSUME Types, Common, Starting, ~started, NEW t \in Threads,
           \/ \E l \in Levels : Calls(t, l)
           \/ ReadsFd(t) \/ TestsDate(t) \/ ReadsOldFd(t) \/ ClosesOld(t)
           \/ Opens(t) \/ StoresFd(t) \/ StoresDate(t) \/ Writes(t)
    PROVE  Starting'
<1>1. Types' /\ Only(t)
      BY ThreadsKeepTypes
<1>2. t = Main
  <2>1. CASE \E l \in Levels : Calls(t, l)
        BY <2>1 DEF Calls
  <2>2. CASE pc[t] # "idle"
        BY <2>2 DEF Starting
  <2> QED  BY <2>1, <2>2
           DEF ReadsFd, TestsDate, ReadsOldFd, ClosesOld, Opens, StoresFd, StoresDate, Writes, Goes
<1>3. \A u \in Threads : u # Main => pc'[u] = "idle"
      BY <1>1, <1>2 DEF Starting, Only
<1>4. Slot(level[Main]) = 0 /\ (pc[Main] # "idle" => now[Main] = 1)
      BY LogAssumption DEF Common, Slot, Types
<1>5. CASE \E l \in Levels : Calls(t, l)
      BY <1>2, <1>3, <1>5 DEF Calls, Goes, Starting, Types, Fds
<1>6. CASE ReadsFd(t)
      BY <1>2, <1>3, <1>4, <1>6 DEF ReadsFd, Goes, Starting, Types, Fds
<1>7. CASE TestsDate(t)
      BY <1>2, <1>3, <1>4, <1>7 DEF TestsDate, Fresh, Goes, Starting, Types, Fds
<1>8. CASE ReadsOldFd(t)
      BY <1>2, <1>3, <1>4, <1>8 DEF ReadsOldFd, Goes, Starting, Types, Fds
<1>9. CASE ClosesOld(t)
      BY <1>2, <1>9 DEF ClosesOld, Goes, Starting
<1>10. CASE Opens(t)
  <2>1. \A n \in Fds : files[n] = Closed
        BY <1>2, <1>10 DEF Opens, Goes, Starting
  <2>2. Lowest # NoFd
        BY <2>1, LowestIsFree, LogAssumption DEF Fds
  <2> QED  BY <1>2, <1>3, <1>10, <2>2 DEF Opens, Goes, Starting, Types
<1>11. CASE StoresFd(t)
      BY <1>2, <1>3, <1>4, <1>11 DEF StoresFd, Goes, Starting, Types
<1>12. CASE StoresDate(t)
      BY <1>2, <1>3, <1>4, <1>12 DEF StoresDate, Goes, Starting, Types
<1>13. CASE Writes(t)
      BY <1>2, <1>3, <1>13 DEF Writes, Goes, Starting, Types
<1> QED  BY <1>5, <1>6, <1>7, <1>8, <1>9, <1>10, <1>11, <1>12, <1>13

(* With the file of today open every call passes the test of the date.     *)
LEMMA RunningKeeps ==
    ASSUME Types, Common, Running, NEW t \in Threads,
           \/ \E l \in Levels : Calls(t, l)
           \/ ReadsFd(t) \/ TestsDate(t) \/ ReadsOldFd(t) \/ ClosesOld(t)
           \/ Opens(t) \/ StoresFd(t) \/ StoresDate(t) \/ Writes(t)
    PROVE  Running'
<1>1. Types' /\ Only(t)
      BY ThreadsKeepTypes
<1>2. ~Replacing(t)
      BY DEF Running
<1>3. UNCHANGED <<log_fd, curr_date>>
      BY <1>2 DEF Replacing, Goes, Calls, ReadsFd, TestsDate, ReadsOldFd, ClosesOld, Opens, StoresFd,
                  StoresDate, Writes
<1>4. ~Replacing(t)' /\ (pc'[t] = "tests" => fd'[t] = log_fd[0])
  <2>1. CASE (\E l \in Levels : Calls(t, l)) \/ Writes(t)
    <3>1. pc'[t] \in {"dated", "idle"}
          BY <2>1 DEF Calls, Writes, Goes, Types
    <3> QED  BY <3>1 DEF Replacing
  <2>2. CASE ReadsFd(t)
        BY <2>2 DEF ReadsFd, Goes, Types, Replacing, Common, Slot
  <2>3. CASE TestsDate(t)
    <3>1. pc[t] = "tests" /\ now[t] = 1
          BY <2>3 DEF TestsDate, Goes, Types, Common
    <3>2. Fresh(t)
          BY <3>1 DEF Fresh, Running
    <3>3. pc'[t] = "writes"
          BY <2>3, <3>2 DEF TestsDate, Goes, Types
    <3> QED  BY <3>3 DEF Replacing
  <2> QED  BY <1>2, <2>1, <2>2, <2>3
           DEF Replacing, Goes, ReadsOldFd, ClosesOld, Opens, StoresFd, StoresDate
<1>5. ASSUME NEW u \in Threads, u # t
      PROVE  ~Replacing(u)' /\ (pc'[u] = "tests" => fd'[u] = log_fd[0])
      BY <1>1, <1>5 DEF Only, Running, Replacing
<1> QED  BY <1>3, <1>4, <1>5 DEF Running

(* Together: on the first day of a common file no update meets a call.     *)
LEMMA FirstDayKeeps ==
    ASSUME Types, FirstDay, Next
    PROVE  FirstDay'
<1> SUFFICES ASSUME Common'
             PROVE  ~raced' /\ (started' => Running') /\ (~started' => Starting')
    BY DEF FirstDay
<1>1. raced' = (raced \/ Meeting')
      BY DEF Next, Calls, ReadsFd, TestsDate, ReadsOldFd, ClosesOld, Opens, StoresFd, StoresDate,
             Writes, StartsWorkers, Midnight, Sockets, Noted
<1>2. Common
  <2>1. isolate' = isolate /\ (today' = today \/ today' = today + 1)
        BY DEF Next, Calls, ReadsFd, TestsDate, ReadsOldFd, ClosesOld, Opens, StoresFd, StoresDate,
               Writes, StartsWorkers, Midnight, Sockets
  <2> QED  BY <2>1 DEF Common, Types
<1>3. (started' => Running') /\ (~started' => Starting')
  <2>1. ASSUME NEW t \in Threads,
               \/ \E l \in Levels : Calls(t, l)
               \/ ReadsFd(t) \/ TestsDate(t) \/ ReadsOldFd(t) \/ ClosesOld(t)
               \/ Opens(t) \/ StoresFd(t) \/ StoresDate(t) \/ Writes(t)
        PROVE  (started' => Running') /\ (~started' => Starting')
    <3>1. started' = started
          BY <2>1, ThreadsKeepTypes
    <3>2. CASE started
          BY <1>2, <2>1, <3>1, <3>2, RunningKeeps DEF FirstDay
    <3>3. CASE ~started
          BY <1>2, <2>1, <3>1, <3>3, StartingKeeps DEF FirstDay
    <3> QED  BY <3>2, <3>3
  <2>2. CASE StartsWorkers
    <3>1. /\ ~started /\ started' = TRUE /\ pc[Main] = "idle" /\ curr_date # 0
          /\ UNCHANGED <<log_fd, curr_date, pc, fd>>
          BY <1>2, <2>2, LogAssumption DEF StartsWorkers, Common
    <3>2. Starting
          BY <1>2, <3>1 DEF FirstDay
    <3>3. Running'
          BY <3>1, <3>2 DEF Starting, Running, Replacing
    <3> QED  BY <3>1, <3>3
  <2>3. CASE Midnight
        BY <1>2, <2>3 DEF Midnight, Common
  <2>4. CASE Sockets
    <3>1. started /\ started' = started /\ UNCHANGED <<log_fd, curr_date, pc, fd>>
          BY <2>4 DEF Sockets
    <3>2. Running
          BY <1>2, <3>1 DEF FirstDay
    <3>3. Running'
          BY <3>1, <3>2 DEF Running, Replacing
    <3> QED  BY <3>1, <3>3
  <2> QED  BY <2>1, <2>2, <2>3, <2>4 DEF Next
<1>4. ~Meeting'
  <2>1. Running' \/ Starting'
        BY <1>3
  <2> QED  BY <2>1, NobodyMeets, PTL
<1>5. ~raced
      BY <1>2 DEF FirstDay
<1> QED  BY <1>1, <1>3, <1>4, <1>5

-----------------------------------------------------------------------------
(* What holds at the start and in every step, together.                    *)

Inv == LogInv /\ FirstDay

(* The invariant holds at the start,                                       *)
LEMMA InvStarts == Init => Inv
<1> SUFFICES ASSUME Init PROVE Inv
    OBVIOUS
<1>1. Types
      BY TypesStart
<1>2. \A t \in Threads : pc[t] = "idle"
      BY DEF Init
<1>3. /\ \A i \in 0..4 : log_fd[i] = NoFd
      /\ \A n \in Fds : files[n] = Closed
      /\ curr_date = 0 /\ ~started /\ ~raced
      BY DEF Init, Fds
<1>4. ~Meeting /\ \A t \in Threads : PlaceHolds(t)
      BY <1>2 DEF Meeting, PlaceHolds
<1>5. FdsHold
      BY <1>3, SlotIsSlot DEF FdsHold
<1>6. FilesHold /\ DateHolds
      BY <1>3 DEF FilesHold, DateHolds, IsFile
<1>7. FirstDay
      BY <1>2, <1>3, LogAssumption DEF FirstDay, Starting
<1> QED  BY <1>1, <1>4, <1>5, <1>6, <1>7 DEF Inv, LogInv, QuietInv

(* every step keeps it,                                                    *)
LEMMA InvKeeps == Inv /\ [Next]_vars => Inv'
<1> SUFFICES ASSUME Inv, [Next]_vars PROVE Inv'
    OBVIOUS
<1>1. CASE Next
  <2>1. Types'
        BY <1>1, ThreadsKeepTypes, OthersKeepTypes DEF Next, Inv, LogInv
  <2>2. ASSUME ~raced'
        PROVE  QuietInv'
    <3>1. Types /\ QuietInv /\ ~Meeting'
          BY <1>1, <2>2, AllNoted DEF Inv, LogInv
    <3>2. CASE StartsWorkers \/ Midnight \/ Sockets
          BY <3>1, <3>2, OutsideKeeps
    <3>3. ASSUME NEW t \in Threads, \E l \in Levels : Calls(t, l)
          PROVE  QuietInv'
          BY <3>1, <3>3, CallsKeep
    <3>4. ASSUME NEW t \in Threads, ReadsFd(t) \/ TestsDate(t) \/ ReadsOldFd(t) \/ Writes(t)
          PROVE  QuietInv'
          BY <3>1, <3>4, CallsKeep
    <3>5. ASSUME NEW t \in Threads, ClosesOld(t) \/ Opens(t) \/ StoresFd(t) \/ StoresDate(t)
          PROVE  QuietInv'
          BY <3>1, <3>5, ClosesKeep, OpensKeep, StoresFdKeeps, StoresDateKeeps
    <3> QED  BY <1>1, <3>2, <3>3, <3>4, <3>5 DEF Next
  <2>3. FirstDay'
        BY <1>1, FirstDayKeeps DEF Inv, LogInv
  <2> QED  BY <2>1, <2>2, <2>3 DEF Inv, LogInv
<1>2. CASE UNCHANGED vars
      BY <1>2 DEF vars, Inv, LogInv, FirstDay, Types, LogFile, QuietInv, Meeting, PlaceHolds, FdsHold,
                  FilesHold, DateHolds, HasFile, Known, Updating, IsFile, Slot, File, Common, Starting,
                  Running, Replacing
<1> QED  BY <1>1, <1>2

(* and it holds throughout: descriptors, files and dates of the log agree  *)
(* until an update meets a call on the descriptor it replaces              *)
(* (update_log_info, log.c:82-118).                                        *)
THEOREM LogInvariance == Spec => []Inv
BY InvStarts, InvKeeps, PTL DEF Spec

(* A descriptor the log knows for a level is open on a file of that level. *)
LEMMA KnownHasFile ==
    ASSUME Types, QuietInv, NEW l \in Levels, NEW n \in Fds, Known(n, l)
    PROVE  HasFile(n, l)
<1>1. CASE log_fd[Slot(l)] = n /\ ~Updating(l)
  <2>1. n # NoFd
        BY LogAssumption DEF Fds, NoFd
  <2> QED  BY <1>1, <2>1 DEF QuietInv, FdsHold
<1>2. ASSUME NEW t \in Threads, Slot(level[t]) = Slot(l), pc[t] = "stores", fd[t] = n
      PROVE  HasFile(n, l)
  <2>1. n # NoFd /\ level[t] \in Levels /\ now[t] \in 1..today
        BY <1>2, LogAssumption DEF Fds, NoFd, Types
  <2>2. files[n] = File(now[t], level[t])
        BY <1>2, <2>1 DEF QuietInv, PlaceHolds
  <2> QED  BY <1>2, <2>1, <2>2, SlotsAreLevels DEF HasFile
<1> QED  BY <1>1, <1>2 DEF Known

(* The descriptor of a call about to use it, whose level nobody updates.   *)
LEMMA OwnFile ==
    ASSUME Types, QuietInv, NEW t \in Threads, pc[t] \in {"closes", "writes"}, fd[t] # NoFd
    PROVE  HasFile(fd[t], level[t])
<1>1. fd[t] = log_fd[Slot(level[t])] /\ level[t] \in Levels
      BY DEF QuietInv, PlaceHolds, Types
<1>2. ~Updating(level[t])
  <2> SUFFICES ASSUME NEW u \in Threads, pc[u] \in {"opens", "stores"}, Slot(level[u]) = Slot(level[t])
               PROVE  FALSE
      BY DEF Updating
  <2>1. u # t /\ Replacing(u)
        BY DEF Replacing
  <2> QED  BY <2>1, ReplacesAlone DEF QuietInv
<1> QED  BY <1>1, <1>2 DEF QuietInv, FdsHold

(* The log loses no descriptor and closes only its own, for any number of  *)
(* threads, levels, descriptors and days, while nothing has raced.         *)
THEOREM NoFileIsLost == Spec => []FilesAreKnown
<1>1. Inv => FilesAreKnown
  <2> SUFFICES ASSUME Inv, ~raced
               PROVE  /\ \A n \in Fds : IsFile(n) =>
                             \E l \in Levels : Known(n, l) /\ \E day \in 1..today : files[n] = File(day, l)
                      /\ \A l \in Levels, n \in Fds : Known(n, l) => IsFile(n)
                      /\ \A t \in Threads : pc[t] = "closes" => IsFile(fd[t])
      BY DEF FilesAreKnown, Known, IsFile, Fds
  <2>1. Types /\ QuietInv
        BY DEF Inv, LogInv
  <2>2. ASSUME NEW n \in Fds, IsFile(n)
        PROVE  \E l \in Levels : Known(n, l) /\ \E day \in 1..today : files[n] = File(day, l)
    <3>1. PICK l \in Levels : Known(n, l)
          BY <2>1, <2>2 DEF QuietInv, FilesHold
    <3> QED  BY <2>1, <3>1, KnownHasFile DEF HasFile
  <2>3. ASSUME NEW l \in Levels, NEW n \in Fds, Known(n, l)
        PROVE  IsFile(n)
        BY <2>1, <2>3, KnownHasFile, FilesAreFiles
  <2>4. ASSUME NEW t \in Threads, pc[t] = "closes"
        PROVE  IsFile(fd[t])
    <3>1. fd[t] # NoFd /\ level[t] \in Levels
          BY <2>1, <2>4 DEF QuietInv, PlaceHolds, Types
    <3>2. HasFile(fd[t], level[t])
          BY <2>1, <2>4, <3>1, OwnFile
    <3> QED  BY <2>1, <3>1, <3>2, FilesAreFiles
  <2> QED  BY <2>2, <2>3, <2>4
<1> QED  BY <1>1, LogInvariance, PTL

(* A line goes to a file of its level and day, on the first day of a       *)
(* common file always and later while nothing has raced.                   *)
THEOREM LinesArrive == Spec => []LinesReachTheLog
<1>1. Inv => LinesReachTheLog
  <2> SUFFICES ASSUME Inv, NEW t \in Threads, pc[t] = "writes", fd[t] # NoFd,
                      ~(raced /\ (isolate \/ today > 1 \/ Info < OutputLevel))
               PROVE  \E day \in 1..today :
                          files[fd[t]] = File(day, level[t]) /\ (isolate \/ day = now[t])
      BY DEF LinesReachTheLog
  <2>1. Types /\ now[t] \in 1..today
        BY DEF Inv, LogInv, Types
  <2>2. ~raced
    <3>1. CASE Common
          BY <3>1 DEF Inv, FirstDay
    <3>2. CASE ~Common
          BY <2>1, <3>2, LogAssumption DEF Common, Types
    <3> QED  BY <3>1, <3>2
  <2>3. QuietInv
        BY <2>2 DEF Inv, LogInv
  <2>4. CASE isolate
        BY <2>1, <2>3, <2>4, OwnFile DEF HasFile
  <2>5. CASE ~isolate
        BY <2>1, <2>3, <2>5 DEF QuietInv, PlaceHolds
  <2> QED  BY <2>4, <2>5
<1> QED  BY <1>1, LogInvariance, PTL
=============================================================================
