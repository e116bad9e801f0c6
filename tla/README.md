# Netdisk: models, checks and proofs

Netdisk is a network drive in C: a server (`src/server`) that keeps users,
directories and file contents, and a command-line client (`src/client`). This
directory holds TLA+ models of both, the TLC runs that check them, and TLAPS
proofs. `PROJECT.json` relates every definition to the lines it models and
lists runs, mutants, findings, hazards and theorems.

## 1. The system

| component | state it keeps | operations |
|---|---|---|
| event loop (`main.c`, `tcpConnect.c`) | the epoll set, the pipes | accept a client, take a client that is readable out of the set, receive one `TransFile` structure, enqueue it, take a connection back from a worker, start the shutdown |
| thread pool (`thread.c`, `threadPool.c`) | mutex, condition variable, exit flag; per thread a task and a token | take a task, run its handler, hand the connection back; leave on shutdown |
| task queue (`taskQueue.c`) | linked list, its length, the number of short commands in it | `enqueue`, `dequeue` (by class of thread) |
| connection pool (`database.c`) | four MySQL connections, `in_use` flags, a counter | `get_connection`, `release_connection`, `destory_database_pool` |
| file tables (`deal_sql.c`) | tables `user`, `file`, `user_file` in the database | register, cd, ls, ll, mkdir, puts, gets, rm as sequences of SQL statements |
| transfers (`file_change.c`, client `pthread.c`) | `data/<hash>` on the server, a local file on the client | upload and download with resumption |
| sessions (`login.c`, `hash.c`, client `login.c`, `register.c`) | JWTs; the key; `token_info` of each worker; `global_token` in the client | register, log in, verify, renew |
| client (`client.c`, `judgment.c`) | the connection, the token, one thread per transfer | read a line, check it, send it, print replies |
| path and string helpers (`tool.c`, `Tools.c`) | none | simplify a path, split arguments and paths, remove spaces |
| log (`log.c`) | descriptors and date of the log files, shared by all threads | write a line; change files at the first line of a day |
| configuration | none | read a value at start-up |
| bcrypt | none | vendored |

How they interact. The parent process forks the work process and passes SIGINT
on through a pipe. The work process's main thread owns the epoll set. When a
client is readable it takes the client out of the set, receives one structure,
appends it to the queue and broadcasts. One of four workers takes it: thread 0
only takes short commands, the others prefer transfers (commands 5 and 6). A
handler borrows database connections one at a time, answers the client, and
for a short command writes the descriptor to a pipe, from which the main
thread puts it back into the epoll set. Transfers run on a connection of their
own, which is not handed back. All threads write through the descriptors of the
log. A typed line is examined twice, by the client and by the worker, with
different rules.

What is hard here: the order of exit flag, broadcast and wait; the queue whose
middle is taken by two classes of threads; who may touch a descriptor;
sequences of SQL statements with nothing held between them; uploads that are
interrupted and resumed, by several clients at once; a connection whose
transaction outlives the request that began it; globals that threads share
without a lock (the token key, the log's descriptors, the client's token); the
end of the server under clients that hold tokens of it; resources that run out
(connections, queue places, descriptors). `PROJECT.json` lists each hazard at
its line.

## 2. Modules

    DbPool ---------- MCDbPool
       |
    Accounts -------- MCAccounts, AccountsProofs (of both)
    TaskQueue ------- TaskQueueRefinement --- MCTaskQueue, TaskQueueProofs
       |                  |
       |              TaskFifo (abstract queue, by INSTANCE)
    ThreadPool ------ MCThreadPool, ThreadPoolProofs
    FileTables ------ MCFileTables, FileTablesProofs
    Transfer -------- MCTransfer, TransferProofs
    Session --------- MCSession, SessionProofs
    Commands -------- MCCommands, CommandsProofs
    Log ------------- MCLog, LogProofs

**DbPool** models `database.c`. A critical section is one action; `waiting` is
the inside of `pthread_cond_wait`, `woken` the state between its return and the
`while` test. A signal wakes one waiter, spurious wake-ups are included, and
newcomers compete with woken threads. The pool is modelled for any sizes. With
those of the code, `MAX_POOL_SIZE` 4 and four workers that hold one connection
at a time, no worker ever waits: what the wait, the signal and `NoLostWakeup`
show matters when one of the two numbers changes.

**Accounts** extends DbPool with what a request does on the connection it got:
statements in transactions. A connection keeps its transaction mode and its open
transaction when it goes back to the pool, and `user_register` goes back with
autocommit off when the account exists. `pending` are the rows of a
connection's open transaction, `view` is what its SELECTs read (InnoDB's
REPEATABLE READ fixes it at the first SELECT of a transaction), `committed` is
what is in the database; a crash at any point leaves `committed`, which is why
there is no action for it. `told`, `refused` and `raced` are history. The
database is external: locks on rows and their time-outs are left out.

**TaskQueue** models `taskQueue.c` at the level of pointers, with an explicit
heap, because `dequeue` leaves `head` on a node it frees when the node found by
search is the first one (section 7). `intact` is a history variable that is
true until that happens. From there the program's behaviour is undefined: `free`
writes into the chunk, which may be merged, split or given to another caller of
`malloc`, and `tail` may lead into a dead stack frame. The model does not follow
such a list: it forgets the nodes, `enqueue` returns, and `dequeue` returns any
task (`DequeueDamaged`) or -1, or the process dies (`WorkerCrashes`,
`MainCrashes` of ThreadPool). Every property of the queue is stated under
`intact`.

**TaskFifo** is what the queue is meant to be: a bounded sequence from which
the thread for short commands takes the oldest short task and other threads the
oldest long one, or the oldest of all. **TaskQueueRefinement** drives the list
with the calls `main.c` and `thread.c` make and maps the list to that sequence.

**ThreadPool** extends TaskQueue with the main thread, the workers, the pipe,
the epoll set, the descriptors and the clients. Its variable `pc` has one value
per place between two critical sections; `towait` is the gap between a worker's
test of `pool->exit` and its wait, during which it holds the mutex: the main
thread sets the flag and broadcasts without the mutex, so it can do both there.
A client may send only a part of a structure, on which `recv(..., MSG_WAITALL)`
blocks the main thread, or close its end. `abandoned` records the connections
that nobody will look at again, so that `OneOwner` accounts for every
connection. From a damaged queue a worker may take anything, also a connection
that somebody else has (`WorkerTakesAnything`).

**FileTables** models `deal_sql.c` with its callers in `file_change.c` and
`file_no_change.c`. Tables are a sequence (ids are positions; rows of `user`
and `file` are never deleted) or a set of rows. Every SELECT is one step, every
insert or transaction is one step, and what a handler keeps in local variables
between statements (`dir`, `file`) is in `task`. Names are atoms and a path is
the sequence of names that `splite_file_name` yields. `query_cd` is translated
as what it is: one pass over the user's entries in the order of their file ids,
written as a recursive function. The schema is not in the repository; the
model assumes auto-increment keys (the code uses `mysql_insert_id`) and nothing
else. SELECTs without an order return any row first. SQL's `like` is a relation
between names and patterns, a parameter. `overlapped` is history: a request
began while another was handled.

**Transfer** models both directions: `puts_File` with `recv_file`, and
`send_file` with `gets_File`. The two receivers are one program, so they are
one set of actions on a file that `to` names, the server's or the client's.
Bytes are positions; a file is its length and the set of positions that hold
bytes of the content. `recv` returns any number of bytes up to a page, `mmap`
refuses an offset that is not a multiple of the page, a page behind the end of
the file is a SIGBUS, and lengths that travel in `data_length` wrap at `Half`.
A client may stop at any point, also inside the structures that announce an
upload, and the server may die between any two steps, its files and tables
surviving. A download may find an older file of any length in `OldLengths`.

**Session** models the tokens. The server keeps no session: a worker unpacks a
request's token into its local `token_info` (`token`), the handler may change
the directory in it, and `send_message` makes the answer's token from it. The
variable outlives the request and starts uninitialised (`Garbage`). A token is
a user, a directory and the key it is signed with; `verify_token` asks the
library for no validation but the signature's, so tokens do not age. The key
is configured, or chosen at the first use by unlocked code: a key read while
another worker writes it is `MixedKey`. The server may end at any point and be
started again; accounts and a configured key remain, a chosen key and what is
under way do not. A client that waits finds its connection closed, and sends
later requests on a connection that leads nowhere (`cut`), since it never
connects anew. In the client the command loop and a transfer thread share
`global_token`; writing it is `Clears` then `Stores` (memset, strcpy), and a
copy taken between the two is `Empty` or `Torn`. A request without a token is
dispatched by its command number, as `check_user_login` does. `refused`,
`overwritten`, `keyraced`, `known` and `cwd` are history that only properties
read.

**Commands** follows a typed line: the client removes spaces, compares prefixes
and counts spaces, and opens the local file of a transfer; the server removes
spaces again, compares words, splits the argument and makes a path and a name
of it. Strings are sequences of characters, so `simplifyPath`, the splitters
and `remove_space` are functions on them, translated from the loops over
characters. What a path means (`Resolve`) is a definition of its own and not
taken from the code. Whether the tables hold a path is left open. The client
accepts every line that begins with a command's word, and the server copies the
first word into an array of `CmdSize` bytes (`char cmd[10]`); a longer one
(`Overruns`) is written behind the array, after which the process may die and
nothing is claimed of what it answers. The user's
name is assumed to be one that a directory can list (`InputIsText`), although
nothing in the registration checks that: for a user named `a/b` or `..` the
properties are false.

**Log** models the descriptors and the date that all threads share in
`print_log` and `update_log_info`: read, test, close, open, store and write are
steps of their own, nothing is locked, and clients' sockets take and free
descriptors of the same table. It covers one common file and one per level
(`isolate`).

## 3. Runs

Passing runs.

| run | instance | what it shows |
|---|---|---|
| `db_pool` | 4 workers, 2 connections, 2 jobs each | no connection with two workers, counter and flags agree, no lost wake-up, `destory_database_pool` finds the pool whole; every job gets its connection |
| `accounts` | 3 workers, 1 request each, 2 connections, 2 accounts | accounts are committed whole or not at all; what was answered is committed and found, unless a refused registration left the connection in a transaction; one account per name unless registrations overlap; every request is served |
| `task_queue` | 2 descriptors, 5 chunks, queue of 5 | up to the damage, list and counters agree, a thread that the counters let pass finds a task it may take, and the list implements TaskFifo |
| `thread_pool` | 2 workers, 2 connections, queue of 2, every stimulus | every connection is in one place, and none is forgotten but those the code abandons; the queue is drained before all leave |
| `thread_pool_live` | 2 workers, 3 connections (one client with commands of both kinds, two with transfers), queue of 2, SIGINT, up to the damage | a queued short command is taken although one transfer hangs in a worker and another waits in front of it; when transfers end, one queued behind short commands is started, and no worker sleeps through the shutdown |
| `file_tables` | 2 workers, 2 users, 1 content, 4 rows, directories below the root | statements interleaved: a forest of directories per user, `query_cd` accepts only chains of entries and finds every directory, removals stay within a user; until two requests overlap, unique names and no orphans |
| `transfer` | 3 sessions, 3 bytes, pages of 2, old local files of 0, 1 and 4 bytes | sessions do not destroy each other's bytes or map behind the end of a file; what no session resumed is complete only when whole, on the server and at the client; every session ends |
| `session` | 2 clients with a transfer thread each, 2 workers, 5 requests, 2 runs of the server | nobody is taken for a user whose password was not given; while tokens verify clients keep their user, and their directory too unless a transfer answered in between; tokens carry the key that will verify them, over a restart when it is configured |
| `commands` | 4 characters, 5 of them behind a command's word, directories of up to 6 | paths are what arguments mean, directory and name are the entry the user named, nobody leaves their root, client and server see the same command and words of a line whose first word fits in an array of 6 (longer ones occur) |
| `log` | 2 threads, 2 levels, 3 descriptors, 2 days, both modes | while no update meets a call on the same descriptor, lines reach files of the log, and no descriptor leaks or is shared |

Runs that find a violation, each of one property that a comment of the code
states (`findings` quotes it).

| run | what happens |
|---|---|
| `session_user` | the refusal of a token carries a token of the client the worker served before |
| `transfer_resume` | after an interruption the resumed upload skips what is missing |

Why the bounds are enough. The code is uniform in threads, descriptors,
connections, names and contents; what decides is how many can meet. Two workers
and a main thread meet in every pair of critical sections, and with two of them
the broadcast of the shutdown already misses the one on its way into its wait; a
queue of five tasks, which `task_queue` drives by itself, has a first, a last
and several nodes between them, of both classes in every order; three
connections in `thread_pool_live` are a transfer that hangs in a worker, another
one that waits, and a short command behind it, or a transfer behind a short
command of a client that keeps sending them; three requests on two connections
are a refused registration, one that inherits its connection, and one that works
meanwhile and waits for a connection; four rows allow two roots and two entries
of one content, or a nested directory; three bytes in pages of two have a whole
first page, a page boundary and a partial last page, and three sessions an
interrupted one, a resumed one and one at the same time; five requests are two
logins, a transfer and two commands, and two runs of the server a token of each;
five characters are two names, `..` with a neighbour on both sides, or two words
with repeated spaces, in a working directory that earlier commands have moved;
three descriptors are a log file per level and a socket.

The names of bounds: `MaxJobs`, `Addr`, `Stimuli` (what each client may do),
`Interrupted` (whether SIGINT may come), `CmdSize` (10 in the code, 6 in the run,
so that words behind it occur), `Commands`, `MaxRequests`,
`MaxRuns`, `MaxUser`, `MaxFile`, `MaxRow`, `MaxDepth`, `MaxTyped`, `MaxPath`,
`MaxFd`, `MaxDay`, `OldLengths`, and `Sessions` as the number of attempts. The
tables' bounds are tested when a request is received, so that they never cut a
request in the middle. After the damage the count of short commands is bounded
(`DequeueDamaged`), and a client does not send on an abandoned connection, which
nobody reads. `thread_pool_live` explores states up to the one in which the queue
is damaged or the process has ended (`Undamaged`, a constraint): its properties
are met there by their premises, and remain so, since neither is ever undone.
`transfer` has `Size < Half`, so lengths that wrap do not occur in it
(section 7). Symmetry is used for safety only. No run switches the
deadlock check off: a system that has stopped has an explicit `Terminated`,
`Finished` or `Quiet` step.

TaskFifo promises nothing after the damage: it has one step, `Break`, for the
take that causes it, and the refinement maps everything later to a stutter.

## 4. Fairness

- *DbPool*: a thread that can take or release a connection does so in the end;
  spurious wake-ups and early exits are not assumed.
- *Accounts*: the same, the database answers statements, and requests keep
  being sent while a worker has jobs left.
- *ThreadPool*: weak fairness for what a thread does on its own (broadcast,
  join, enter the wait, answer, write to the pipe). Strong fairness for actions
  that lock the mutex: another thread's short critical section disables them
  again and again, and a mutex that keeps being released is obtained in the
  end. Nothing is assumed of clients, signals, transfers (`FairSpec`), or of a
  worker that retries after -1. `LongServed` and `ShutdownCompletes` have the
  premise `TransfersEnd`, that no transfer hangs for ever.
- *Transfer*: a worker and a receiver go on, and bytes of an end that has not
  stopped arrive. A client that stays connected and silent would hold its worker
  for ever; the code has no timeout there.

The liveness properties of ThreadPool are stated while `intact` and while the
process runs: a damaged queue and a process that exits promise nothing.

## 5. Proofs

Eight modules hold theorems; each property named here is also checked by a run.

**AccountsProofs** has two parts. The first is about the pool and proves, for
every finite set of workers and every pool size,
`ExclusiveConnections`, `Accounting`, `NoLostWakeup` and `DestroyNeverWaits`.
Assumptions: `Workers` is finite, `MaxPool` is a positive number, `MaxJobs` a
number and `None` no connection. The inductive invariant `IInv` strengthens them
by what relates a worker's place to the connection it holds. `Accounting`
carries the rest: since the counter is the number of free slots, a worker past
`available # 0` finds a free slot (lemma on the least element of a non-empty set
of slots), so it never holds `None` and exclusion is kept; taking and releasing
change the number of free slots by one (lemmas on finite sets). `NoLostWakeup`
is inductive only together with it: a waiter enters its wait at `available = 0`,
a release adds one connection and one woken thread (or there is no waiter), and
a woken or new thread that takes a connection lowers the left side by one. One
lemma per action (`...Preserves`), then `Invariance`, then each property.

The second part first shows that requests with their statements use the pool as
DbPool specifies it (`AccountsSpec => Spec`, every step of Accounts is one of
DbPool or leaves its variables alone), and so inherits its invariants: no two
requests write in one transaction. On top of them `AInv` says what is pending on
each connection: nothing on one that no request uses and no refused registration
left behind (`CleanConnections`), and for a request in the middle of its inserts
the rows its place says (`MidUses`, `PendingAreWhole`, `PendingBy`). From these,
`AccountsAreWhole`, `ToldIsKept` and `LoginFindsAccount` for any number of
workers, connections and accounts. `OneAccountPerName` needs more: `NamesInv`
counts account rows whether committed or pending, and says that a pending one
belongs to a registration under way (`PendingIsRegistered`), and that for a name
not in `raced` there is one such registration at most and, before its insert, no
row (`RegistersAlone`, `NewNameHasNoRow`). So a test that finds no registration
of the name, and reads what is committed, has read every row there is.

**SessionProofs** proves `OnlyKnownUsers`, `KeysAgree`, `KeepsUser` and
`DirectoryIsKept`. A lemma
bounds where a token can come from: what a step puts into a client's or a
worker's hands was in hands before, is empty or torn, or was made by `Replies`
of the worker's `token_info` (`ClientHeld`, `WorkerHeld`). `UserInv` adds to the
types that a worker which is going to answer has a user that was verified or
logged in, or was cleared (`WorkersAreSafe`). `KeyInv` says who may be choosing
the key, and that every held token has a key that will verify it. `KeepInv`
builds on it: until a request was refused, what is under way for a client is its
own (`UserKept`); a torn token never verifies, since `MixedKey` is none of the
keys, and is therefore refused before it does harm. `DirInv` follows a client's
directory once around: from its token to the request, to the worker's
`token_info` before and after the handler, to the answer and back, beside a
transfer that carries an older copy. Assumptions: the constants
of `SessionAssumption`, which say that the users and keys named are different.

**TransferProofs** proves `SessionBytesArrive`, `MapsWithinFile`,
`WholeUnlessResumed` and `DownloadIsWhole` for any number of sessions, any
content, page size and old local files, under `LengthFits`: the length fits the
int it travels in (without it they are false, section 7). All four are stated as
long as no upload was cut in its announcement (`Uncut`); after such a cut a page
can vanish under a receiver (section 7). `TransferInv` rests on one fact: as
long as no upload was cut in its announcement, all sessions past `Extends` know
the same length, so that extending a file never takes a byte away and every page
mapped is there (`LengthInv`). Hence bytes only accumulate (`BytesInv`), and a
session that started at 0 and has reached the end wrote the whole content; a
content that is complete is not touched by later sessions, and a download of it
carries its bytes.

**TaskQueueProofs** proves `ListAgreesWithCounters`, `FindsWhatIsCounted` and that
the pointers implement TaskFifo (`ImplementsFifo`), for any number of chunks, any
bound and any sequence of calls. `ListInv` describes an undamaged list by a
witness: there is a sequence of different nodes, all those allocated, that starts
at `head`, ends at `tail`, and of which each node's `next` is the following one.
One lemma for each way a step changes that sequence (append, drop the first, drop
one from the middle) gives the counters as well as the image of the step in
TaskFifo. `FindsWhatIsCounted` follows: the count of short commands is that of
the short nodes, and all nodes are reached from `head`. Of a damaged list nothing
is proved but types. Induction along the list
is over sets of numbers, since a theorem with an operator parameter cannot be
instantiated. Assumptions: those of
`QueueAssumption`, which say that `Null` is no chunk and no descriptor.

**ThreadPoolProofs** shows that the main thread and the workers call the queue
as its specification says (`PoolUsesQueue`; what `main.c` hands to `enqueue` is
a client's descriptor), so that the three theorems above hold in the work
process, until the damage. `DrainedOnExit` follows from `ExitInv`: a worker
leaves only when it saw `exit` and an empty queue with the mutex held, and the
main thread no longer enqueues by then. `OneOwner` rests on `OwnerInv`, which
divides the open connections: each is watched, in the queue once, in a worker's
hands, in the pipe, with the main thread, or abandoned, and in one of these
only.

**FileTablesProofs** proves all seven safety properties of FileTables, for any
number of workers, users, names and rows. The recursive function of `query_cd` is
unfolded by counting up over the positions of the result set: the set is
enumerated in the order of the file ids (`OrderedLists`), the pass over it exists
(`WalkExists`), and what it has matched so far leads along the path
(`WalkConfirms`; hence `CdFollowsEntries`). When the directories are a forest
numbered downwards, an entry that continues the path always lies behind the one
matched before it, and no other entry is taken for it (`CdFollows`; hence
`CdFindsDirectories`). That they are is `TreeInv`, inductive together with
`TypeOK` and with what a worker remembers between two statements, however
requests overlap: ids only grow, so a directory is entered below an older one,
once. `UniqueNames` and `NoOrphans` are about requests that do not overlap:
`NamesInv` says that then one worker at most is busy and the name it tested is
still free when it inserts, `ParentsInv` on top of it that the directory it found
is still entered, and that one which it is about to remove is still empty.
Assumption, besides types: SQL's NULL is no digest (`NoHashAssumption`), or the
SELECT by digest in `puts` could find a directory.

**LogProofs** proves `FilesAreKnown` and `LinesReachTheLog` for any number of
threads, levels, descriptors and days, with one file for all levels or one for
each. `QuietInv` holds until an update meets a call on the same descriptor: a
level that is not being updated has a descriptor of its file (`FdsHold`), every
open log file is a level's (`FilesHold`), the one date is that of the one file
(`DateHolds`), and a thread's copy of the descriptor is current where it matters
(`PlaceHolds`). `open` takes a free descriptor (lemma on the least element), so
it takes no level's. That a call may not be met on the first day of a common
file is no assumption but `FirstDay`: the main thread opens the file before
there are workers, and after that every call finds it fresh. Assumptions: a log
file is neither a closed descriptor nor a socket, and there is a first day.

**CommandsProofs** proves the four properties of Commands for any name,
directories, characters and length of line. The model's functions are folds over
the characters of a line, so the module first shows, for any step function, that
the folds of the community modules (recursive functions on sets of indices)
exist and go through the indices in order (`FoldOverSets`, `FoldIsRun`,
`FoldOfSeq`), by induction written out with the least-number principle. Then
each helper gets rules for one more character or name. `SimplifyResolves` is the
central result: `simplifyPath`, which copies characters and cuts them off again
at lengths it has stored, computes what the names pushed on a stack mean. Its
loop invariant (`LoopInv`, `Shape`) says that the buffer is the directory
resolved so far followed by the part being read, and the stored lengths are
those of all directories above it. `RemoveTidies` says that `remove_space`
leaves no space at an end and no two in a row (`Clean`), so that the server's
second call changes nothing (`CleanStays`) and the client's count of spaces is
the number of words less one (`CountBlanks`). No two commands begin with the
same two letters (`BeginsOnce`): that is why the client's prefix and the
server's word cannot name different commands. The invariant `IInv` says that the
working directory is the written form of a list of plain names that begins with
the user's (`HomeInv`), and that what is under way is a clean line with the
spaces its command asks for (`SentInv`); `ServedInv` adds the three properties
of what was served. `ServerAgrees` is about lines whose first word fits in the
server's array (`Fits`); every command's own word does, by `CmdSizeAssumption`.
Assumption, in `InputIsText`: the user's name is not empty, has no slash and is
neither `.` nor `..`; the client's directory begins with a slash; no character
typed is a line end.

Only model-checked: liveness (`EveryJobServed`, `RequestsAreServed`,
`ShortServed`, `LongServed`, `ShutdownCompletes`, `SessionsEnd`), out of the
prover's reach. Every safety property and the refinement are proved.

## 6. How the parts compose

Accounts and ThreadPool extend the modules of what they use, the pool and the
queue, and are checked with them. Between the other modules the boundary is an
abstraction stated at its place: for ThreadPool a handler is a short or long
task that answers or not; for Session any idle worker takes any request
(ThreadPool's queue delivers each to one); FileTables takes each statement as
atomic and committed, which Accounts examines; Commands leaves open whether a
path is found, which FileTables examines, and gives FileTables the form of its
paths: `PathsAreResolved` is why a path there is a sequence of plain names.

## 7. Not modelled, and not run

**Not modelled.** bcrypt is vendored; hashes and passwords are values that are
equal when their inputs are. The configuration is input at start-up: the values
that matter (`token_key`, `log_output_isolate`, `log_output_level`) are
parameters or initial choices of Session and Log. SQL text is not built
character by character: quoting, the truncation of a statement at 1024 bytes,
the collation of names and wildcards in a name given to `rm` are left out (the
relation `Like` admits them; the run has none), as are column `quote` (never
changed), deletion times (never set), and failures of single statements, whose
results the code does not look at. Locks on rows and their time-outs are not
modelled, nor is what `localtime` shares between threads. Time is only the
shutdown's alarm. In the client, printing and calls whose failure ends it are
left out.

**Buffers.** The array for a command's first word is the only one whose length is
modelled. The others are taken to be long enough: `cmd[256]`
and `local_path[1024]` of a transfer (client/pthread.c:12, 20), `data`, `token`
and `workpath`, the paths that `get_user_path` and `get_file_name` build, the
client's `command[1024]` (filled by one `read`, without a terminator of its own)
and the buffers of `LOG` and `print_log` (log.c:146), all of 1024 bytes or fewer.
The server's `argument[data_length]` is long enough, since `data_length` is the
length of the line.

**Disagreements that no run reports.** The models contain more of them than the
runs show; each is a guard or an assignment of an action.

Event loop and queue:

- `dequeue` leaves `head` on the node it frees when the node found by search is
  the first (`Dequeue`; taskQueue.c:80), until the queue runs empty. What the
  calls in between do is undefined (`DequeueDamaged`, `WorkerTakesAnything`): the
  thread for short commands may take -1 and go round its loop (thread.c:45), a
  request may be lost or served twice, `enqueue` may write to a freed node or a
  dead stack frame (taskQueue.c:19, 88), the process may die;
- a request that meets a full queue is dropped, and its connection, out of the
  epoll set, is looked at by nobody (`MainEnqueue`; main.c:110);
- a transfer that ends early, or a token that does not verify, leaves its
  connection open and unwatched (`HandleLong`; thread.c:75-92);
- a client that sent part of a structure stops the main thread (main.c:102).

Tables and accounts:

- `rm` removes every entry of the user that leads to the same content, in all
  directories and under all names, and selects it by content too
  (`RemoveFinds`, `RemoveDeletes`; deal_sql.c:358-403);
- `rm` on an illegal path returns `query_cd`'s 0, which its caller takes for
  "removed" (`RemoveCd`; deal_sql.c:348-356);
- a link to a content older than the account makes every path of the user
  illegal: `query_cd` starts from the lowest file id (deal_sql.c:85; `RootFirst`
  is the exception of the two properties);
- `query_cd` accepts the path of a plain file, below which names are then
  entered (`MkdirCd`, `PutsCd`; deal_sql.c:218);
- a listing that fails is dereferenced before it is compared with NULL
  (`ShowDir`, `ShowDetailNames`; file_no_change.c:49);
- two overlapping requests can enter a name twice (deal_sql.c:182-204), and an
  entry made between `rm`'s test and its delete is orphaned
  (deal_sql.c:390-403): `UniqueNames` and `NoOrphans` without `~overlapped`
  show it;
- on a connection that a refused registration left in a transaction, a login of
  a registered user can fail, what is answered as done can be lost, and a name
  can be registered twice (deal_sql.c:36-41; the exceptions `refused` and
  `raced` of Accounts);
- `query_gets` returns -1 and 0 where its comment (deal_sql.c:292-293) says -2
  and -1; its caller uses the values it returns.

Transfers:

- a content whose length is a multiple of 2^32 arrives as one of length 0 and
  the empty file is complete (`file_size`; file_change.c:68): `MCTransferResume.cfg`
  with `Sessions = {s1}`, `Size = 8`, `Half = 4` shows it;
- a client that stops between the digest and the length has the file cut to
  length 0 (`StartsUploadCut`); a sender that announced it before then never
  sends enough, and another receiver maps behind its end: without `Uncut` the
  properties are violated;
- `send_file` takes a client that left for one that holds nothing, because it
  compares the function `recv_file` with 0 (file_change.c:182), and never closes
  its file;
- the client resumes any file of that name by its length
  (client/pthread.c:124-132); `DownloadIsWhole` excepts resumed sessions.

Sessions and client:

- the answer of a transfer that ends early overwrites the client's token with
  an older one, and so undoes a `cd` made since (`Stores`;
  client/pthread.c:100, 121);
- a client whose token is lost and that goes on registers an account named
  `cd` with `cd x`, ends the server with `ls`, and waits for ever with other
  commands (`Registers`, `Crashes`, `SaysNothing`; thread.c:69, login.c:15-20);
- a client whose connection was closed clears its token and keeps using the
  connection (`Clears`; client/judgment.c), and a registration on a closed
  connection is reported as done, by the flag that the client sent itself;
- `mkdir` and `rm` take the name from the raw argument: `mkdir .`, `mkdir ..`
  and `mkdir a/` enter `.`, `..` and the empty name, and `mkdir ../alice` in
  alice's root enters `alice` in it (`EntryToChange`; the premise `Plain`, and the
  length of `meant`, of `EntryIsNamed`);
- the client accepts any line that begins with a command's word, and the server
  copies the first word of the line into `char cmd[10]` without a test of its
  length: `mkdirectory x` and `pwdxxxxxxxx` are written behind the array
  (`Overruns`; thread.c:110, 116, 124), which is undefined; `ServerAgrees` says
  nothing of such lines;
- the client accepts a prefix (`cdx y`), which the server then refuses; for a
  transfer's word the connection is not handed back (`CommandOf`, `Connects`);
- `remove_space` reads in front of its buffer when the line is all spaces, and
  the client's `get_file_name` writes one byte behind its own; several lines
  that arrive in one read are taken as one.

Log:

- in the common mode two threads that update at midnight, with a client that
  connects in between, can leave the log on that client's socket or on a closed
  descriptor, dated today so that nobody opens it anew (`ClosesOld`,
  `StoresFd`; log.c:100; the exception `raced`);
- in the isolated mode the date is shared by all levels, so only the first level
  that logs after midnight changes its file (`TestsDate`; `LinesReachTheLog`
  asks for the date in the common mode only);
- `output_control` calls itself for ever when `log_output_level` is missing.
