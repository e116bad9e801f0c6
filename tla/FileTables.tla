----------------------------- MODULE FileTables -----------------------------
(***************************************************************************)
(* The virtual file system that server/deal_sql.c keeps in three tables of *)
(* the database, and the request handlers of server/file_change.c and      *)
(* server/file_no_change.c that work on it.                                *)
(*                                                                         *)
(*   user       one row per account; a row's id is its position here       *)
(*   file       one row per directory and per distinct content; the id is  *)
(*              its position here (rows of this table are never deleted)   *)
(*   user_file  the names: the entry `name' of directory parent_id of a    *)
(*              user leads to file_id.  parent_id is Null in the entry of  *)
(*              the user's root directory                                  *)
(*                                                                         *)
(* A handler issues its statements one by one and nothing holds a lock     *)
(* from one to the next, so every statement, or the inserts of one         *)
(* transaction, is a step of its own; the statements of different workers  *)
(* interleave.  The schema is not in the repository: the tables are taken  *)
(* to have the auto-increment keys that mysql_insert_id relies on and no   *)
(* further constraint.                                                     *)
(***************************************************************************)
EXTENDS Integers, Sequences, FiniteSets

CONSTANTS Workers,      \* the threads of the pool
          Accounts,     \* account names that clients register
          Names,        \* names of files and directories, account names too
          Like,         \* pairs <<name, pattern>> of SQL's `name like pattern'
          Hashes,       \* digests of file contents
          Ops,          \* the requests clients send
          MaxUser, MaxFile, MaxRow, MaxDepth     \* bounds of the model

ASSUME TablesAssumption ==
    /\ Accounts \subseteq Names
    /\ Like \subseteq Names \X Names
    /\ \A n \in Names : <<n, n>> \in Like
    /\ {MaxUser, MaxFile, MaxRow, MaxDepth} \subseteq Nat
    /\ Ops \subseteq {"register", "mkdir", "puts", "gets", "rm", "ls", "ll"}

VARIABLES user, file, user_file,
          last_row,     \* auto-increment counter of user_file
          pc,           \* next statement of a worker
          task,         \* the request it handles and the variables it keeps
          answer,       \* return code of the query_* it called last for it
          crashed,      \* the server process died
          overlapped    \* history: a request began while another was handled

vars == <<user, file, user_file, last_row, pc, task, answer, crashed, overlapped>>
tables == <<user, file, user_file, last_row>>

Null   == 0             \* convert_to_userfile reads a NULL parent_id as 0
NoHash == "no hash"     \* the hash column of a directory is NULL
ASSUME NoHashAssumption == NoHash \notin Hashes

Row(n, u, f, p) == [id |-> last_row + 1, name |-> n, user_id |-> u,
                    file_id |-> f, parent_id |-> p]
RowOf(u)    == {r \in user_file : r.user_id = u}
InDir(d)    == {r \in user_file : r.parent_id = d}
Named(d, n) == {r \in InDir(d) : r.name = n}

-----------------------------------------------------------------------------
(* query_cd: one pass over the user's entries, ordered by file_id.         *)

\* (a plausible slip: "order by file_id desc")
Bug_Before(q, r) == q.file_id > r.file_id \/ (q.file_id = r.file_id /\ q.id < r.id)

Before(q, r) == \/ q.file_id < r.file_id
                \/ q.file_id = r.file_id /\ q.id < r.id

\* select * from user_file where user_id = u order by file_id (entries of
\* one file in the order of their ids)
Ordered(u) ==
    [i \in 1..Cardinality(RowOf(u)) |->
        CHOOSE r \in RowOf(u) :
            Cardinality({q \in RowOf(u) : Before(q, r)}) = i - 1]

\* (a plausible slip: the parent of the entry is not compared)
Bug_Continues(r, path, at, n) ==
    n < Len(path) /\ r.name = path[n + 1]

\* The test that entry r continues a walk which has reached directory at and
\* confirmed n names of path.
Continues(r, path, at, n) ==
    n < Len(path) /\ r.name = path[n + 1] /\ r.parent_id = at

query_cd(path, u) ==
    LET file_set == Ordered(u)
        walk[i \in 0..Len(file_set)] ==
            IF i = 0 THEN [at |-> file_set[1].parent_id, n |-> 0]
            ELSE LET w == walk[i - 1] IN
                 IF Continues(file_set[i], path, w.at, w.n)
                 THEN [at |-> file_set[i].file_id, n |-> w.n + 1]
                 ELSE w
        end == walk[Len(file_set)]
    IN  IF file_set = <<>> THEN -1
        ELSE IF end.n = Len(path) THEN end.at ELSE 0

-----------------------------------------------------------------------------
(* Requests.                                                               *)

\* get_user_path: absolute paths of the user's own tree, and any other name.
Paths(u) == {<<a>> : a \in Accounts}
            \cup {<<user[u]>> \o s :
                     s \in UNION {[1..n -> Names \ Accounts] : n \in 1..MaxDepth}}

NoTask == [op |-> "none", user |-> 0, path |-> <<>>, name |-> "", hash |-> NoHash,
           dir |-> 0, file |-> 0]

\* Bounds: no request is taken that could outgrow the tables.
Inserting == {w \in Workers : task[w].op \in {"register", "mkdir", "puts"}}
Room == /\ Len(file) + Cardinality(Inserting) < MaxFile
        /\ last_row + Cardinality(Inserting) < MaxRow

Init ==
    /\ user = <<>> /\ file = <<>> /\ user_file = {} /\ last_row = 0
    /\ pc = [w \in Workers |-> "idle"]
    /\ task = [w \in Workers |-> NoTask]
    /\ answer = [w \in Workers |-> 0]
    /\ crashed = FALSE
    /\ overlapped = FALSE

At(w, label) == ~crashed /\ pc[w] = label
Goto(w, label) == pc' = [pc EXCEPT ![w] = label]

\* the handler takes the return value and the request is over
Return(w, code) ==
    /\ Goto(w, "idle")
    /\ task' = [task EXCEPT ![w] = NoTask]
    /\ answer' = [answer EXCEPT ![w] = code]

Accepts(w, t) ==
    /\ Goto(w, t.op)
    /\ task' = [task EXCEPT ![w] = t]
    /\ answer' = [answer EXCEPT ![w] = 0]
    /\ overlapped' = (overlapped \/ \E v \in Workers : pc[v] # "idle")
    /\ UNCHANGED <<tables, crashed>>

\* check_user_login with command 0
ReceiveRegister(w, account) ==
    /\ At(w, "idle") /\ "register" \in Ops
    /\ Room
    /\ Len(user) + Cardinality({x \in Workers : task[x].op = "register"}) < MaxUser
    /\ Accepts(w, [NoTask EXCEPT !.op = "register", !.name = account])

\* connect_with_client: a request of a user that is logged in
Receive(w, op, u, path, name, hash) ==
    /\ At(w, "idle") /\ op \in Ops
    /\ op \in {"mkdir", "puts"} => Room
    /\ Accepts(w, [NoTask EXCEPT !.op = op, !.user = u, !.path = path,
                                 !.name = name, !.hash = hash])

-----------------------------------------------------------------------------
(* register: user_register.                                                *)

RegisterLooks(w) ==
    /\ At(w, "register")
    /\ IF \E u \in 1..Len(user) : user[u] = task[w].name
       THEN Return(w, 0)
       ELSE Goto(w, "register_insert") /\ UNCHANGED <<task, answer>>
    /\ UNCHANGED <<tables, crashed, overlapped>>

\* one transaction: the account, its root directory, the entry of the root
RegisterInserts(w) ==
    /\ At(w, "register_insert")
    /\ user' = Append(user, task[w].name)
    /\ file' = Append(file, [type |-> "dir", hash |-> NoHash, complete |-> TRUE])
    /\ user_file' = user_file
           \cup {Row(task[w].name, Len(user) + 1, Len(file) + 1, Null)}
    /\ last_row' = last_row + 1
    /\ Return(w, Len(user) + 1)
    /\ UNCHANGED <<crashed, overlapped>>

-----------------------------------------------------------------------------
(* The call of query_cd every other handler starts with: the directory is  *)
(* kept for the later statements, a failure is answered at once.           *)

Cd(w) == query_cd(task[w].path, task[w].user)

\* (a plausible slip: only the database error is tested)
Bug_LooksUpDirectory(w, op, next, failed, illegal) ==
    /\ At(w, op)
    /\ IF Cd(w) < 0 THEN Return(w, failed)
       ELSE /\ Goto(w, next)
            /\ task' = [task EXCEPT ![w].dir = Cd(w)]
            /\ UNCHANGED answer
    /\ UNCHANGED <<tables, crashed, overlapped>>

\* failed is what the caller returns for -1, illegal for 0
LooksUpDirectory(w, op, next, failed, illegal) ==
    /\ At(w, op)
    /\ \/ Cd(w) < 0 /\ Return(w, failed)
       \/ Cd(w) = 0 /\ Return(w, illegal)
       \/ /\ Cd(w) > 0
          /\ Goto(w, next)
          /\ task' = [task EXCEPT ![w].dir = Cd(w)]
          /\ UNCHANGED answer
    /\ UNCHANGED <<tables, crashed, overlapped>>

-----------------------------------------------------------------------------
(* mkdir: query_mkdir, called by add_dir.                                  *)

MkdirCd(w) == LooksUpDirectory(w, "mkdir", "mkdir_check", -1, 0)

\* (a plausible slip: the name is looked for among the user's root entries)
Bug_MkdirChecks(w) ==
    /\ At(w, "mkdir_check")
    /\ IF Named(Null, task[w].name) # {}
       THEN Return(w, 1)
       ELSE Goto(w, "mkdir_insert") /\ UNCHANGED <<task, answer>>
    /\ UNCHANGED <<tables, crashed, overlapped>>

\* 同名文件 returns 1
MkdirChecks(w) ==
    /\ At(w, "mkdir_check")
    /\ IF Named(task[w].dir, task[w].name) # {}
       THEN Return(w, 1)
       ELSE Goto(w, "mkdir_insert") /\ UNCHANGED <<task, answer>>
    /\ UNCHANGED <<tables, crashed, overlapped>>

\* (a plausible slip: the two ids change places in the argument list)
Bug_MkdirInserts(w) ==
    /\ At(w, "mkdir_insert")
    /\ file' = Append(file, [type |-> "dir", hash |-> NoHash, complete |-> TRUE])
    /\ user_file' = user_file \cup {Row(task[w].name, task[w].user,
                                        task[w].dir, Len(file) + 1)}
    /\ last_row' = last_row + 1
    /\ Return(w, 2)
    /\ UNCHANGED <<user, crashed, overlapped>>

\* one transaction: the directory and its entry
MkdirInserts(w) ==
    /\ At(w, "mkdir_insert")
    /\ file' = Append(file, [type |-> "dir", hash |-> NoHash, complete |-> TRUE])
    /\ user_file' = user_file \cup {Row(task[w].name, task[w].user,
                                        Len(file) + 1, task[w].dir)}
    /\ last_row' = last_row + 1
    /\ Return(w, 2)
    /\ UNCHANGED <<user, crashed, overlapped>>

-----------------------------------------------------------------------------
(* puts: query_puts and, after the transfer, query_update (recv_file).     *)
(* Codes: -2 error, -1 illegal path, 0 name taken, 1 send the content,     *)
(* 2 nothing to send.                                                      *)

PutsCd(w) == LooksUpDirectory(w, "puts", "puts_name", -2, -1)

\* return 1 of query_puts: recv_file goes on to receive the content
ReturnUpload(w) ==
    /\ Goto(w, "upload")
    /\ answer' = [answer EXCEPT ![w] = 1]
    /\ UNCHANGED task

\* an entry of that name, in no particular order, or none
PutsLooksForName(w) ==
    /\ At(w, "puts_name")
    /\ \/ \E r \in Named(task[w].dir, task[w].name) :
             /\ Goto(w, "puts_same")
             /\ task' = [task EXCEPT ![w].file = r.file_id]
       \/ /\ Named(task[w].dir, task[w].name) = {}
          /\ Goto(w, "puts_hash")
          /\ UNCHANGED task
    /\ UNCHANGED <<tables, answer, crashed, overlapped>>

\* the file of that name: a transfer of the same content is resumed
PutsLooksAtSameName(w) ==
    /\ At(w, "puts_same")
    /\ LET same_name_file == file[task[w].file] IN
       CASE same_name_file.hash # task[w].hash -> Return(w, 0)
         [] same_name_file.hash = task[w].hash /\ same_name_file.complete ->
                Return(w, 2)
         [] OTHER -> ReturnUpload(w)
    /\ UNCHANGED <<tables, crashed, overlapped>>

WithHash(h) == {f \in 1..Len(file) : file[f].hash = h}

PutsLooksForHash(w) ==
    /\ At(w, "puts_hash")
    /\ \/ \E f \in WithHash(task[w].hash) :
             /\ Goto(w, IF file[f].complete THEN "puts_link_complete"
                                            ELSE "puts_link")
             /\ task' = [task EXCEPT ![w].file = f]
       \/ /\ WithHash(task[w].hash) = {}
          /\ Goto(w, "puts_insert")
          /\ UNCHANGED task
    /\ UNCHANGED <<tables, answer, crashed, overlapped>>

\* one transaction: the file, not complete, and its entry
PutsInserts(w) ==
    /\ At(w, "puts_insert")
    /\ file' = Append(file, [type |-> "file", hash |-> task[w].hash,
                             complete |-> FALSE])
    /\ user_file' = user_file \cup {Row(task[w].name, task[w].user,
                                        Len(file) + 1, task[w].dir)}
    /\ last_row' = last_row + 1
    /\ ReturnUpload(w)
    /\ UNCHANGED <<user, crashed, overlapped>>

\* the content is known: only the entry is new
PutsLinks(w) ==
    /\ pc[w] \in {"puts_link", "puts_link_complete"} /\ ~crashed
    /\ user_file' = user_file \cup {Row(task[w].name, task[w].user,
                                        task[w].file, task[w].dir)}
    /\ last_row' = last_row + 1
    /\ IF pc[w] = "puts_link_complete" THEN Return(w, 2) ELSE ReturnUpload(w)
    /\ UNCHANGED <<user, file, crashed, overlapped>>

\* recv_file received file_size bytes: query_update
UploadCompletes(w) ==
    /\ At(w, "upload")
    /\ file' = [f \in 1..Len(file) |->
                   IF f \in WithHash(task[w].hash)
                   THEN [file[f] EXCEPT !.complete = TRUE] ELSE file[f]]
    /\ Return(w, 1)
    /\ UNCHANGED <<user, user_file, last_row, crashed, overlapped>>

\* recv_file lost the client, or could not open or map its file
UploadBreaksOff(w) ==
    /\ At(w, "upload")
    /\ Return(w, 1)
    /\ UNCHANGED <<tables, crashed, overlapped>>

-----------------------------------------------------------------------------
(* gets: query_gets, called by send_file.  1 is followed by the transfer.  *)

GetsCd(w) == LooksUpDirectory(w, "gets", "gets_file", -1, 0)

GetsLooks(w) ==
    /\ At(w, "gets_file")
    /\ LET found == {f \in 1..Len(file) :
                        /\ file[f].type = "file"
                        /\ \E r \in Named(task[w].dir, task[w].name) :
                              r.user_id = task[w].user /\ r.file_id = f}
       IN  \/ found = {} /\ Return(w, 0)
           \/ \E f \in found : Return(w, IF file[f].complete THEN 1 ELSE 0)
    /\ UNCHANGED <<tables, crashed, overlapped>>

-----------------------------------------------------------------------------
(* rm: query_remove, called by remove_file.  Codes: 0 removed, 1 no such   *)
(* entry, 2 directory not empty.                                           *)

RemoveCd(w) == LooksUpDirectory(w, "rm", "rm_find", -1, 0)

\* The entries of any user and directory that lead, under a name like the
\* one given, to a file the user has in that directory; the first of them is
\* taken.  The file row is read by its id: type never changes.
RemoveFinds(w) ==
    /\ At(w, "rm_find")
    /\ LET here  == {r.file_id : r \in {q \in InDir(task[w].dir) :
                                           q.user_id = task[w].user}}
           found == {r \in user_file : /\ r.file_id \in here
                                       /\ <<r.name, task[w].name>> \in Like}
       IN  \/ found = {} /\ Return(w, 1)
           \/ \E r \in found :
                 /\ task' = [task EXCEPT ![w].file = r.file_id]
                 /\ Goto(w, IF file[r.file_id].type = "file"
                            THEN "rm_delete" ELSE "rm_children")
                 /\ UNCHANGED answer
    /\ UNCHANGED <<tables, crashed, overlapped>>

\* (a plausible slip: the entries below the directory searched, not below the
\* one to remove, are asked for, and the answer is never "not empty")
Bug_RemoveChecks(w) ==
    /\ At(w, "rm_children")
    /\ IF InDir(task[w].dir) = {}
       THEN Return(w, 2)
       ELSE Goto(w, "rm_delete") /\ UNCHANGED <<task, answer>>
    /\ UNCHANGED <<tables, crashed, overlapped>>

RemoveChecks(w) ==
    /\ At(w, "rm_children")
    /\ IF InDir(task[w].file) # {}
       THEN Return(w, 2)
       ELSE Goto(w, "rm_delete") /\ UNCHANGED <<task, answer>>
    /\ UNCHANGED <<tables, crashed, overlapped>>

\* (a plausible slip: "and user_id = %lu" is missing)
Bug_RemoveDeletes(w) ==
    /\ At(w, "rm_delete")
    /\ user_file' = {r \in user_file : r.file_id # task[w].file}
    /\ Return(w, 0)
    /\ UNCHANGED <<user, file, last_row, crashed, overlapped>>

RemoveDeletes(w) ==
    /\ At(w, "rm_delete")
    /\ user_file' = {r \in user_file : ~ (/\ r.file_id = task[w].file
                                          /\ r.user_id = task[w].user)}
    /\ Return(w, 0)
    /\ UNCHANGED <<user, file, last_row, crashed, overlapped>>

-----------------------------------------------------------------------------
(* ls and ll: query_ls and query_ll, called by show_dir and                *)
(* show_dir_detail.  Reading the listing changes nothing; what matters is  *)
(* whether there is a result set.                                          *)

\* show_dir reads res->data before it compares res with NULL
ShowDir(w) ==
    /\ At(w, "ls")
    /\ crashed' = (Cd(w) <= 0)
    /\ Return(w, 0)
    /\ UNCHANGED <<tables, overlapped>>

\* show_dir_detail: query_ll, whose failure is answered
ShowDetail(w) == LooksUpDirectory(w, "ll", "ll_names", 1, 1)

\* then query_ls, whose failure is answered and its result read all the same
ShowDetailNames(w) ==
    /\ At(w, "ll_names")
    /\ crashed' = (Cd(w) <= 0)
    /\ Return(w, 0)
    /\ UNCHANGED <<tables, overlapped>>

Terminated == crashed /\ UNCHANGED vars

-----------------------------------------------------------------------------
Receives(w) ==
    \/ \E a \in Accounts : ReceiveRegister(w, a)
    \/ \E u \in 1..Len(user) : \E p \in Paths(u) :
          \/ \E op \in {"ls", "ll"} : Receive(w, op, u, p, "", NoHash)
          \/ \E op \in {"mkdir", "gets", "rm"}, n \in Names \ Accounts :
                Receive(w, op, u, p, n, NoHash)
          \/ \E n \in Names \ Accounts, h \in Hashes : Receive(w, "puts", u, p, n, h)

Next ==
    \/ \E w \in Workers :
          \/ Receives(w)
          \/ RegisterLooks(w) \/ RegisterInserts(w)
          \/ MkdirCd(w) \/ MkdirChecks(w) \/ MkdirInserts(w)
          \/ PutsCd(w) \/ PutsLooksForName(w) \/ PutsLooksAtSameName(w)
          \/ PutsLooksForHash(w) \/ PutsInserts(w) \/ PutsLinks(w)
          \/ UploadCompletes(w) \/ UploadBreaksOff(w)
          \/ GetsCd(w) \/ GetsLooks(w)
          \/ RemoveCd(w) \/ RemoveFinds(w) \/ RemoveChecks(w) \/ RemoveDeletes(w)
          \/ ShowDir(w) \/ ShowDetail(w) \/ ShowDetailNames(w)
    \/ Terminated

Spec == Init /\ [][Next]_vars

-----------------------------------------------------------------------------
(* Properties.                                                             *)

FileIds == 1..Len(file)
FileRow == [type : {"dir", "file"}, hash : Hashes \cup {NoHash}, complete : BOOLEAN]
EntryRow == [id : 1..last_row, name : Names, user_id : 1..Len(user),
             file_id : FileIds, parent_id : FileIds \cup {Null}]

\* Labels of the statements that use the directory query_cd returned, and of
\* those that use the file found since.
DirLabels == {"mkdir_check", "mkdir_insert", "puts_name", "puts_hash", "puts_insert",
              "gets_file", "rm_find"}
FileLabels == {"puts_same", "puts_link", "puts_link_complete", "rm_children",
               "rm_delete"}
Labels == {"idle", "register_insert", "upload", "ll_names"} \cup DirLabels
          \cup FileLabels \cup Ops

\* The rows are well formed and keyed, and a statement that uses a directory
\* or file id is only reached with the id of a row, never with the 0 or -1 of
\* a failed look-up.
TypeOK ==
    /\ \A u \in 1..Len(user) : user[u] \in Accounts
    /\ \A f \in FileIds : file[f] \in FileRow
    /\ last_row \in Nat
    /\ user_file \subseteq EntryRow
    /\ \A q, r \in user_file : q.id = r.id => q = r
    /\ DOMAIN pc = Workers /\ DOMAIN task = Workers
    /\ \A w \in Workers : /\ pc[w] \in Labels
                          /\ pc[w] \in DirLabels \cup FileLabels => task[w].dir \in FileIds
                          /\ pc[w] \in FileLabels => task[w].file \in FileIds
    /\ crashed \in BOOLEAN

IsDir(d) == d \in FileIds /\ file[d].type = "dir"

\* However the statements of different requests interleave, the directories
\* of a user are a forest of their own: a directory has at most one entry,
\* below a directory created before it, and every entry in a directory is of
\* the user the directory belongs to.  The single pass of query_cd in the
\* order of the ids (deal_sql.c:70-103) rests on this.
DirectoriesFormATree ==
    /\ \A q, r \in user_file : q.file_id = r.file_id /\ IsDir(r.file_id) => q = r
    /\ \A r \in user_file : IsDir(r.file_id) => r.parent_id < r.file_id
    /\ \A q, r \in user_file : IsDir(r.file_id) /\ q.parent_id = r.file_id
                                   => q.user_id = r.user_id

\* A request only ever takes away entries of the user it came from, although
\* query_remove looks for its target among the entries of all users
\* (deal_sql.c:359-361) and files are shared between users by their hash.
RemovalsStayWithinUser ==
    [][\A r \in user_file : r \notin user_file' =>
          \E w \in Workers : pc[w] # pc'[w] /\ task[w].user = r.user_id]_vars

\* The entries e[1], e[2], ... lead from the user's root along path to f.
Leads(u, path, e, f) ==
    /\ e[1].parent_id = Null
    /\ e[Len(path)].file_id = f
    /\ \A i \in 1..Len(path) : e[i].name = path[i]
    /\ \A i \in 1..(Len(path) - 1) : e[i + 1].parent_id = e[i].file_id

Chains(u, path) == [1..Len(path) -> RowOf(u)]

\* The root of u has the lowest file id of the user's entries: the pass of
\* query_cd begins with it.
RootFirst(u) == \E root \in RowOf(u) :
    root.parent_id = Null /\ \A r \in RowOf(u) : root.file_id <= r.file_id

\* A path that query_cd accepts leads, entry by entry, to what it returns
\* (deal_sql.c:87-103), whatever has been inserted and removed by then.
CdFollowsEntries ==
    \A u \in 1..Len(user) : \A path \in Paths(u) :
        LET f == query_cd(path, u) IN
        f > 0 /\ RootFirst(u) => \E e \in Chains(u, path) : Leads(u, path, e, f)

NamesDiffer ==
    \A q, r \in user_file :
        q.parent_id = r.parent_id /\ q.name = r.name /\ q.parent_id # Null => q = r

\* The single pass of query_cd finds every directory there is
\* (deal_sql.c:87-113), as long as names in a directory differ.
CdFindsDirectories ==
    NamesDiffer => \A u \in 1..Len(user) : RootFirst(u) =>
        \A path \in Paths(u) : \A e \in Chains(u, path) :
            LET d == e[Len(path)].file_id IN
            /\ Leads(u, path, e, d)
            /\ \A i \in 1..Len(path) : IsDir(e[i].file_id)
            => query_cd(path, u) = d

\* No two entries of one directory have the same name: "查询当前目录下是否已有
\* 同名文件或文件夹，如果有则创建失败" (deal_sql.c:181), until two requests
\* overlap.
UniqueNames == ~overlapped => NamesDiffer

\* A directory is removed only when it is empty (deal_sql.c:389-403), so what
\* is in a directory can be reached through the entry of the directory, until
\* two requests overlap.
NoOrphans ==
    ~overlapped => \A r \in user_file : IsDir(r.parent_id) =>
        \E q \in user_file : q.file_id = r.parent_id /\ q.user_id = r.user_id

=============================================================================
