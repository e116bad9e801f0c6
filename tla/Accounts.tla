------------------------------ MODULE Accounts ------------------------------
(***************************************************************************)
(* The statements of server/deal_sql.c over the connections of DbPool: in  *)
(* which transactions the rows of accounts and entries are written and     *)
(* read.                                                                   *)
(*                                                                         *)
(* A connection outlives the request that borrowed it, and so does its     *)
(* transaction mode.  user_register switches autocommit off before it      *)
(* looks whether the account exists, and leaves the connection like that   *)
(* when it does (deal_sql.c:34-41): later requests on the connection read  *)
(* the tables as they were and what they write is not committed, until a   *)
(* request that uses a transaction of its own switches autocommit on.      *)
(*                                                                         *)
(* A handler that uses the pool twice (query_cd, then its own statements)  *)
(* is two requests here: it gives the first connection back before it asks *)
(* for the second.  The database is external: InnoDB at its default level, *)
(* REPEATABLE READ, where the first SELECT of a transaction fixes what the *)
(* later ones read.  As in FileTables no unique key is assumed.            *)
(***************************************************************************)
EXTENDS DbPool

CONSTANTS Users,    \* account names that clients register and log in with
          NoTask

(* A row: its table, the account for table "user", and the request that    *)
(* wrote it (a worker and how many requests it had left).                  *)
Tables == {"user", "file", "user_file"}
NoUser == "not an account"
Requests == Workers \X Nat
Row(table, u, r) == [table |-> table, key |-> u, by |-> r]

Ops  == {"register", "login", "mkdir", "link"}
Task == [op : Ops, account : Users]

VARIABLES task,         \* the request of a worker
          at,           \* its next statement
          autocommit,   \* the mode of a connection
          view,         \* what its open transaction reads: {} or {the rows}
          pending,      \* rows written in its open transaction
          committed,    \* rows that are in the database for good
          told,         \* history: rows of the requests that succeeded
          refused,      \* history: connections a refused registration left
                        \* in a transaction
          raced         \* history: accounts for which a registration looked
                        \* while another went on, or on such a connection

database == <<autocommit, view, pending, committed>>
history  == <<told, refused, raced>>
accountVars == <<task, at, database, history>>
allVars == <<vars, accountVars>>

AccountsInit ==
    /\ Init
    /\ task = [w \in Workers |-> NoTask]
    /\ at = [w \in Workers |-> "none"]
    /\ autocommit = [c \in Conns |-> TRUE]
    /\ view = [c \in Conns |-> {}]
    /\ pending = [c \in Conns |-> {}]
    /\ committed = {} /\ told = {} /\ refused = {} /\ raced = {}

Request(w) == <<w, jobs[w]>>
Goto(w, label) == at' = [at EXCEPT ![w] = label]
Stands(w, label) == pc[w] = "using" /\ at[w] = label

-----------------------------------------------------------------------------
(* A request begins in get_connection.                                     *)

GetConnection(w) == WaitForConnection(w) \/ TakeConnection(w)

Begins(w, t) ==
    /\ pc[w] = "idle"
    /\ GetConnection(w)
    /\ task' = [task EXCEPT ![w] = t]
    /\ Goto(w, t.op)
    /\ UNCHANGED <<database, history>>

TriesAgain(w) ==
    /\ pc[w] = "woken"
    /\ GetConnection(w)
    /\ UNCHANGED accountVars

WakesUp(w) == SpuriousWakeup(w) /\ UNCHANGED accountVars

-----------------------------------------------------------------------------
(* Statements on the connection c.                                         *)

\* the rows a SELECT is answered from
Seen(c) == pending[c] \cup
           (IF view[c] = {} THEN committed ELSE CHOOSE rows \in view[c] : TRUE)

\* a SELECT in the mode a: without autocommit it opens the view
Selects(c, a) ==
    view' = [view EXCEPT ![c] = IF a \/ view[c] # {} THEN @ ELSE {committed}]

\* an INSERT outside of an explicit transaction
Inserts(c, row) ==
    IF autocommit[c]
    THEN committed' = committed \cup {row} /\ UNCHANGED pending
    ELSE /\ pending' = [pending EXCEPT ![c] = @ \cup {row}]
         /\ UNCHANGED committed

\* (a plausible slip: autocommit is not switched on again)
Bug_Commits(c) ==
    /\ committed' = committed \cup pending[c]
    /\ pending' = [pending EXCEPT ![c] = {}]
    /\ view' = [view EXCEPT ![c] = {}]
    /\ UNCHANGED <<autocommit, refused>>

\* mysql_commit and mysql_autocommit(connect,1)
Commits(c) ==
    /\ committed' = committed \cup pending[c]
    /\ pending' = [pending EXCEPT ![c] = {}]
    /\ view' = [view EXCEPT ![c] = {}]
    /\ autocommit' = [autocommit EXCEPT ![c] = TRUE]
    /\ refused' = refused \ {c}

-----------------------------------------------------------------------------
(* user_register.                                                          *)

\* (a plausible slip: result_set is compared with NULL instead of its size with 0)
Bug_Exists(c, u) == FALSE

Exists(c, u) == \E r \in Seen(c) : r.table = "user" /\ r.key = u

Registering(u) == {w \in Workers : /\ task[w] = [op |-> "register", account |-> u]
                                   /\ at[w] \in {"user", "file", "entry", "commit"}}

\* (a plausible slip: autocommit is left on)
Bug_RegisterLooks(w) ==
    LET c == held[w]  u == task[w].account IN
    /\ Stands(w, "register")
    /\ Selects(c, FALSE)
    /\ raced' = IF Registering(u) # {} \/ c \in refused THEN raced \cup {u} ELSE raced
    /\ Goto(w, IF Exists(c, u) THEN "refused" ELSE "user")
    /\ refused' = IF Exists(c, u) THEN refused \cup {c} ELSE refused
    /\ UNCHANGED <<vars, task, autocommit, pending, committed, told>>

\* mysql_autocommit(connect,0) and the SELECT.  An account that exists is
\* the early return of lines 36-41.
RegisterLooks(w) ==
    LET c == held[w]  u == task[w].account IN
    /\ Stands(w, "register")
    /\ autocommit' = [autocommit EXCEPT ![c] = FALSE]
    /\ Selects(c, FALSE)
    /\ raced' = IF Registering(u) # {} \/ c \in refused THEN raced \cup {u} ELSE raced
    /\ Goto(w, IF Exists(c, u) THEN "refused" ELSE "user")
    /\ refused' = IF Exists(c, u) THEN refused \cup {c} ELSE refused
    /\ UNCHANGED <<vars, task, pending, committed, told>>

\* the three inserts, one after the other
RegisterInserts(w) ==
    LET Inserting(label, row, next) ==
            /\ Stands(w, label) /\ Inserts(held[w], row) /\ Goto(w, next)
        r == Request(w)
    IN  /\ \/ Inserting("user", Row("user", task[w].account, r), "file")
           \/ Inserting("file", Row("file", NoUser, r), "entry")
           \/ Inserting("entry", Row("user_file", NoUser, r), "commit")
        /\ UNCHANGED <<vars, task, autocommit, view, history>>

RegisterCommits(w) ==
    /\ Stands(w, "commit")
    /\ Commits(held[w])
    /\ Goto(w, "done")
    /\ UNCHANGED <<vars, task, told, raced>>

-----------------------------------------------------------------------------
(* get_user: the SELECT of a login.                                        *)

LoginFails(w) == Stands(w, "login") /\ at'[w] = "failed"

\* (a plausible slip: the login of an unknown account asks again)
Bug_LoginLooks(w) ==
    /\ Stands(w, "login")
    /\ Selects(held[w], autocommit[held[w]])
    /\ Goto(w, IF Exists(held[w], task[w].account) THEN "done" ELSE "login")
    /\ UNCHANGED <<vars, task, autocommit, pending, committed, history>>

LoginLooks(w) ==
    /\ Stands(w, "login")
    /\ Selects(held[w], autocommit[held[w]])
    /\ Goto(w, IF Exists(held[w], task[w].account) THEN "done" ELSE "failed")
    /\ UNCHANGED <<vars, task, autocommit, pending, committed, history>>

-----------------------------------------------------------------------------
(* query_mkdir, and the branch of query_puts for a new content: a SELECT   *)
(* for the name, then two inserts in a transaction.                        *)

\* (a plausible slip: autocommit is switched off before the test, as in
\* user_register)
Bug_MkdirChecks(w) ==
    /\ Stands(w, "mkdir")
    /\ autocommit' = [autocommit EXCEPT ![held[w]] = FALSE]
    /\ Selects(held[w], FALSE)
    /\ Goto(w, "failed") \/ Goto(w, "dir")
    /\ UNCHANGED <<vars, task, pending, committed, history>>

\* the name exists or not: which, is FileTables' subject
MkdirChecks(w) ==
    /\ Stands(w, "mkdir")
    /\ Selects(held[w], autocommit[held[w]])
    /\ Goto(w, "failed") \/ Goto(w, "dir")
    /\ UNCHANGED <<vars, task, autocommit, pending, committed, history>>

\* mysql_autocommit(connect,0) and the first insert
MkdirInsertsFile(w) ==
    /\ Stands(w, "dir")
    /\ autocommit' = [autocommit EXCEPT ![held[w]] = FALSE]
    /\ pending' = [pending EXCEPT ![held[w]] = @ \cup {Row("file", NoUser, Request(w))}]
    /\ Goto(w, "name")
    /\ UNCHANGED <<vars, task, view, committed, history>>

\* the second insert, mysql_commit, mysql_autocommit(connect,1)
MkdirInsertsName(w) ==
    /\ Stands(w, "name")
    /\ Inserts(held[w], Row("user_file", NoUser, Request(w)))
    /\ Goto(w, "commit")
    /\ UNCHANGED <<vars, task, autocommit, view, history>>

-----------------------------------------------------------------------------
(* The branch of query_puts for a known content: one insert without a      *)
(* transaction.  query_update and query_remove write in the same way.      *)

LinkInserts(w) ==
    /\ Stands(w, "link")
    /\ Inserts(held[w], Row("user_file", NoUser, Request(w)))
    /\ Goto(w, "done")
    /\ UNCHANGED <<vars, task, autocommit, view, history>>

-----------------------------------------------------------------------------
(* release_connection; the answer follows.                                 *)

Written(r) == {row \in committed \cup UNION {pending[c] : c \in Conns} : row.by = r}

\* what is told on a connection that is still in a refused registration's
\* transaction is not recorded: it may get lost
Releases(w) ==
    /\ at[w] \in {"done", "failed", "refused"}
    /\ ReleaseConnection(w)
    /\ told' = IF at[w] = "done" /\ held[w] \notin refused
               THEN told \cup Written(Request(w)) ELSE told
    /\ task' = [task EXCEPT ![w] = NoTask]
    /\ Goto(w, "none")
    /\ UNCHANGED <<database, refused, raced>>

Leaves(w) == ExitWorker(w) /\ UNCHANGED accountVars

\* mysql_close ends an open transaction without a commit
Destroys ==
    /\ DestroyPool
    /\ pending' = [c \in Conns |-> {}] /\ view' = [c \in Conns |-> {}]
    /\ UNCHANGED <<task, at, autocommit, committed, history>>

Finished == Terminated /\ UNCHANGED accountVars

-----------------------------------------------------------------------------
Statement(w) ==
    \/ RegisterLooks(w) \/ RegisterInserts(w) \/ RegisterCommits(w)
    \/ LoginLooks(w)
    \/ MkdirChecks(w) \/ MkdirInsertsFile(w) \/ MkdirInsertsName(w)
    \/ LinkInserts(w)

AccountsNext ==
    \/ \E w \in Workers :
          \/ \E t \in Task : Begins(w, t)
          \/ TriesAgain(w) \/ WakesUp(w)
          \/ Statement(w)
          \/ Releases(w) \/ Leaves(w)
    \/ Destroys
    \/ Finished

AccountsSpec == AccountsInit /\ [][AccountsNext]_allVars

\* Threads that can run go on, clients send requests while a worker may
\* still serve some; the database answers.
AccountsFairness ==
    /\ \A w \in Workers :
          /\ WF_allVars(\E t \in Task : Begins(w, t) /\ TakeConnection(w))
          /\ WF_allVars(TriesAgain(w) /\ TakeConnection(w))
          /\ WF_allVars(Statement(w))
          /\ WF_allVars(Releases(w))
          /\ WF_allVars(jobs[w] = 0 /\ Leaves(w))
    /\ WF_allVars(Destroys)

AccountsFairSpec == AccountsSpec /\ AccountsFairness

-----------------------------------------------------------------------------
(* Properties.                                                             *)

\* What a crash at any moment leaves behind is whole: an account is in the
\* database with its root directory and the entry of it, or not at all
\* (deal_sql.c:45-52), whatever state its connection was left in.
AccountsAreWhole ==
    \A r \in committed : r.table = "user" =>
        {Row("file", NoUser, r.by), Row("user_file", NoUser, r.by)} \subseteq committed

\* What a client has been told is kept: the rows of a request that succeeded
\* are committed when it is answered, unless it ran on a connection that a
\* refused registration left in a transaction (deal_sql.c:36-41).
ToldIsKept == told \subseteq committed

\* An account whose registration was answered is found by every later login,
\* with the same exception (deal_sql.c:12-19).
LoginFindsAccount ==
    [][\A w \in Workers :
          LoginFails(w) /\ held[w] \notin refused =>
              \A r \in told : r.table = "user" => r.key # task[w].account]_allVars

\* A name is one account, until two registrations of it overlap between the
\* test and the commit (deal_sql.c:35-52) or one tests on a view that is old.
OneAccountPerName ==
    \A q, r \in committed :
        q.table = "user" /\ r.table = "user" /\ q.key = r.key /\ q.key \notin raced => q = r

\* Every path through the handlers gives its connection back: all requests
\* are served and the pool is taken down in the end.
RequestsAreServed == <>destroyed

=============================================================================
