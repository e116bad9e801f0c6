------------------------------ MODULE Session -------------------------------
(***************************************************************************)
(* Who a client is.  The server keeps no session: user and working         *)
(* directory travel in a token (hash.c), which a request carries and an    *)
(* answer renews.  A worker unpacks it into a local variable that outlives *)
(* the request (thread.c).  In the client the token is the global          *)
(* global_token, which the command loop (judgment.c) and the threads of    *)
(* transfers (pthread.c) read and write without a lock.                    *)
(*                                                                         *)
(* The queue between the two sides is ThreadPool's; here any idle worker   *)
(* takes any request.  Answers in several parts are one answer: all parts  *)
(* carry the same user and directory.  A client tries its own account      *)
(* only, with the right password or a wrong one.                           *)
(*                                                                         *)
(* The server may end at any point and be started again: accounts remain,  *)
(* a key that is not configured and what is under way do not.              *)
(***************************************************************************)
EXTENDS Integers, FiniteSets

CONSTANTS Workers,
          Clients,      \* and their accounts
          Dirs,         \* working directories, the same for each account
          Home,         \* the one a login starts in
          MaxRuns,      \* bound: how often the server is started
          Commands,     \* bound: what clients do,
          MaxRequests,  \* and how many requests they make in all
          \* users that are no account of a client:
          Nobody,       \* user_id 0
          Garbage,      \* what a stack word holds before it is assigned
          CdUser,       \* the account whose name is "cd"
          \* keys other than the random ones of a worker:
          DefaultKey, ConfigKey,
          MixedKey      \* read while another thread writes it

ASSUME SessionAssumption ==
    /\ Home \in Dirs
    /\ MaxRuns \in Nat \ {0} /\ MaxRequests \in Nat
    /\ Commands \subseteq {"register", "cd", "ls", "mkdir", "puts"}
    /\ Nobody \notin Clients /\ Garbage \notin Clients \cup {Nobody}
    /\ CdUser \notin Clients \cup {Nobody, Garbage}
    /\ DefaultKey \notin {ConfigKey, MixedKey}
    /\ \A w \in Workers, r \in 1..MaxRuns : <<w, r>> # DefaultKey

VARIABLES
    \* server
    configured,   \* config.conf has a token_key
    run,          \* which run of the server this is
    token_key,    \* the global of hash.c
    pc,           \* of each worker
    job,          \* the request it handles
    token,        \* its token_info
    registered,   \* accounts in table user
    crashed,      \* the process has ended
    \* connections and clients
    mail,         \* per connection: the message under way, or its end
    cut,          \* clients whose command connection led to an earlier run
    global_token,
    loop,         \* where the command loop of a client stands
    transfer,     \* where its transfer thread stands
    requests,     \* made so far
    \* history
    known,        \* accounts whose password was set or matched
    cwd,          \* the directory of a client's last cd that succeeded
    refused,      \* a request was handled whose token was missing or failed
    overwritten,  \* clients whose transfer thread wrote global_token
    keyraced      \* two workers chose token_key at the same time

serverVars  == <<configured, run, token_key, pc, job, token, registered, crashed>>
clientVars  == <<mail, cut, global_token, loop, transfer, requests>>
historyVars == <<known, cwd, refused, overwritten, keyraced>>
vars == <<serverVars, clientVars, historyVars>>

Ends == {"loop", "transfer"}   \* a client has a connection for each

Users == Clients \cup {Nobody, Garbage, CdUser}
Keys  == (Workers \X (1..MaxRuns)) \cup {DefaultKey, ConfigKey, MixedKey}
Token == [user : Users, dir : Dirs, key : Keys]

\* The empty string, and a string only a part of which was there to be read.
Empty == [user |-> Nobody, dir |-> Home, key |-> DefaultKey]
Torn  == [user |-> Garbage, dir |-> Home, key |-> MixedKey]

\* A token_info: what is kept of a token that was unpacked.
Info == [user : Users, dir : Dirs]
Zero == [user |-> Nobody, dir |-> Home]

NoMail == [state |-> "none", cmd |-> "", dir |-> Home, token |-> Empty, flag |-> FALSE]
Request(cmd, dir, t) ==
    [state |-> "request", cmd |-> cmd, dir |-> dir, token |-> t, flag |-> FALSE]
\* recv returns 0 and leaves the structure as it was, all zeros
Closed == [NoMail EXCEPT !.state = "closed"]
NoJob == [client |-> Nobody, end |-> "loop", cmd |-> "", dir |-> Home,
          token |-> Empty, flag |-> FALSE]

Init ==
    /\ configured \in BOOLEAN
    /\ run = 1
    /\ token_key = DefaultKey
    /\ pc = [w \in Workers |-> "idle"]
    /\ job = [w \in Workers |-> NoJob]
    \* the worker's variable is not initialised
    /\ token \in [Workers -> {Zero, [user |-> Garbage, dir |-> Home]}]
    \* bound: one account is still to be made
    /\ registered \in {Clients \ {c} : c \in Clients}
    /\ crashed = FALSE
    /\ mail = [c \in Clients |-> [e \in Ends |-> NoMail]]
    /\ cut = {}
    /\ global_token = [c \in Clients |-> Empty]
    /\ loop = [c \in Clients |-> "prompt"]
    /\ transfer = [c \in Clients |-> "none"]
    /\ requests = 0
    /\ known = {}
    /\ cwd = [c \in Clients |-> Home]
    /\ refused = FALSE
    /\ overwritten = {}
    /\ keyraced = FALSE

-----------------------------------------------------------------------------
(* A client.                                                               *)

\* What is sent on a connection of an earlier run is answered by its end.
Puts(c, e, m) ==
    mail' = [mail EXCEPT ![c][e] =
                IF m.state = "request" /\ (crashed \/ (e = "loop" /\ c \in cut))
                THEN Closed ELSE m]

Waits(c, e) ==
    IF e = "transfer" THEN transfer[c] = "sent" ELSE loop[c] \in {"login", "register", "sent"}
Answered(c, e) == mail[c][e].state \in {"reply", "closed"}

\* strcpy(..., global_token) finds the string the other thread is replacing
\* empty or in part.
TokenRead(c) ==
    IF loop[c] = "store" \/ transfer[c] = "store" THEN {Empty, Torn}
    ELSE {global_token[c]}

Asks(c, e, m) ==
    /\ requests < MaxRequests
    /\ requests' = requests + 1
    /\ Puts(c, e, m)
    /\ UNCHANGED cut

\* login and register_client send no token
Enters(c, cmd) ==
    /\ loop[c] = "prompt"
    /\ loop' = [loop EXCEPT ![c] = cmd]
    /\ Asks(c, "loop", Request(cmd, Home, Empty))
    /\ UNCHANGED <<global_token, transfer, serverVars, historyVars>>

\* only login keeps the token, and only of an answer that succeeded
Entered(c) ==
    /\ loop[c] \in {"login", "register"}
    /\ Answered(c, "loop")
    /\ IF loop[c] = "login" /\ mail[c]["loop"].flag
       THEN /\ global_token' = [global_token EXCEPT ![c] = mail[c]["loop"].token]
            /\ loop' = [loop EXCEPT ![c] = "ready"]
       ELSE /\ loop' = [loop EXCEPT ![c] = "prompt"]
            /\ UNCHANGED global_token
    /\ Puts(c, "loop", NoMail)
    /\ UNCHANGED <<cut, transfer, requests, serverVars, historyVars>>

\* execute_command, a short command
Sends(c, cmd, d) ==
    /\ loop[c] = "ready"
    /\ loop' = [loop EXCEPT ![c] = "sent"]
    /\ \E t \in TokenRead(c) : Asks(c, "loop", Request(cmd, d, t))
    /\ UNCHANGED <<global_token, transfer, serverVars, historyVars>>

\* execute_command, a transfer (bound: one at a time)
StartsTransfer(c) ==
    /\ loop[c] = "ready"
    /\ transfer[c] = "none"
    /\ transfer' = [transfer EXCEPT ![c] = "start"]
    /\ UNCHANGED <<mail, cut, global_token, loop, requests, serverVars, historyVars>>

\* transfile reads the token again once its own connection is there
TransferSends(c) ==
    /\ transfer[c] = "start"
    /\ transfer' = [transfer EXCEPT ![c] = "sent"]
    /\ \E t \in TokenRead(c) : Asks(c, "transfer", Request("puts", Home, t))
    /\ UNCHANGED <<global_token, loop, serverVars, historyVars>>

\* the transfer goes ahead, and its answer is not stored
TransferGoesAhead(c) ==
    /\ transfer[c] = "sent"
    /\ mail[c]["transfer"].state = "reply" /\ mail[c]["transfer"].flag
    /\ transfer' = [transfer EXCEPT ![c] = "none"]
    /\ Puts(c, "transfer", NoMail)
    /\ UNCHANGED <<cut, global_token, loop, requests, serverVars, historyVars>>

\* memset(global_token, 0, ...)
Clears(c, e) ==
    /\ Answered(c, e)
    /\ \/ e = "loop" /\ loop[c] = "sent"
          /\ loop' = [loop EXCEPT ![c] = "store"] /\ UNCHANGED transfer
       \/ e = "transfer" /\ transfer[c] = "sent" /\ ~mail[c][e].flag
          /\ transfer' = [transfer EXCEPT ![c] = "store"] /\ UNCHANGED loop
    /\ global_token' = [global_token EXCEPT ![c] = Empty]
    /\ UNCHANGED <<mail, cut, requests, serverVars, historyVars>>

\* strcpy(global_token, ...); of two at a time the last one wins.  After an
\* answer whose flag is set command_printf waits for another one.
Stores(c, e) ==
    /\ \/ e = "loop" /\ loop[c] = "store"
          /\ loop' = [loop EXCEPT ![c] = IF mail[c][e].flag THEN "sent" ELSE "ready"]
          /\ UNCHANGED <<transfer, overwritten>>
       \/ e = "transfer" /\ transfer[c] = "store"
          /\ transfer' = [transfer EXCEPT ![c] = "none"]
          /\ overwritten' = overwritten \cup {c}
          /\ UNCHANGED loop
    /\ global_token' = [global_token EXCEPT ![c] = mail[c][e].token]
    /\ Puts(c, e, NoMail)
    /\ UNCHANGED <<cut, requests, serverVars, known, cwd, refused, keyraced>>

-----------------------------------------------------------------------------
(* get_token_key.  The strings compared and copied are shared by all       *)
(* workers; no lock is held.                                               *)

\* (a plausible slip: the key is chosen again in every call)
Bug_NeedsKey == TRUE

NeedsKey == token_key = DefaultKey

NewKey(w) == IF configured THEN ConfigKey ELSE <<w, run>>

Writers == {v \in Workers : pc[v] \in {"deal_write", "reply_write"}}

\* The keys that worker w may go on with.
KeysRead(w) ==
    (IF NeedsKey THEN {} ELSE {token_key})
    \cup {k \in {MixedKey} : Writers \ {w} # {}}

\* The key is the default one: another is read or made up ...
ChoosesKey(w) ==
    /\ ~crashed
    /\ \/ pc[w] = "deal" /\ job[w].token # Empty
       \/ pc[w] = "reply" /\ token[w].user # Nobody
    /\ NeedsKey
    /\ pc' = [pc EXCEPT ![w] = IF @ = "deal" THEN "deal_write" ELSE "reply_write"]
    /\ keyraced' = (keyraced \/ Writers # {})
    /\ UNCHANGED <<configured, run, token_key, job, token, registered, crashed, clientVars,
                   known, cwd, refused, overwritten>>

\* ... and written.
WritesKey(w) ==
    /\ ~crashed
    /\ w \in Writers
    /\ token_key' = NewKey(w)
    /\ pc' = [pc EXCEPT ![w] = IF @ = "deal_write" THEN "deal_key" ELSE "reply_key"]
    /\ UNCHANGED <<configured, run, job, token, registered, crashed, clientVars, historyVars>>

\* With the key at hand: the call has returned.
HasKey(w, place, k) ==
    \/ pc[w] = place /\ k \in KeysRead(w)
    \/ /\ pc[w] = (IF place = "deal" THEN "deal_key" ELSE "reply_key")
       /\ k \in {token_key} \cup {x \in {MixedKey} : Writers # {}}

-----------------------------------------------------------------------------
(* A worker.                                                               *)

At(w, label) == ~crashed /\ pc[w] = label

Takes(w, c, e) ==
    /\ At(w, "idle")
    /\ mail[c][e].state = "request"
    /\ job' = [job EXCEPT ![w] = [client |-> c, end |-> e, cmd |-> mail[c][e].cmd,
                                  dir |-> mail[c][e].dir, token |-> mail[c][e].token,
                                  flag |-> FALSE]]
    /\ pc' = [pc EXCEPT ![w] = "deal"]
    /\ Puts(c, e, NoMail)
    /\ UNCHANGED <<configured, run, token_key, token, registered, crashed, cut,
                   global_token, loop, transfer, requests, historyVars>>

\* The handler has filled the token_info and calls send_message.
Answers(w, info, flag) ==
    /\ token' = [token EXCEPT ![w] = info]
    /\ job' = [job EXCEPT ![w].flag = flag]
    /\ pc' = [pc EXCEPT ![w] = "reply"]
    /\ UNCHANGED <<configured, run, token_key, crashed, clientVars, overwritten, keyraced>>

(* check_user_login: no token came with the request.  Its command number   *)
(* decides, and that of cd is that of a registration.                      *)

WithoutToken(w, cmds) ==
    /\ At(w, "deal")
    /\ job[w].token = Empty
    /\ job[w].cmd \in cmds
    /\ refused' = (refused \/ job[w].cmd \notin {"login", "register"})

Account(w) == IF job[w].cmd = "cd" THEN CdUser ELSE job[w].client

Registers(w) ==
    /\ WithoutToken(w, {"register", "cd"})
    /\ Account(w) \notin registered
    /\ registered' = registered \cup {Account(w)}
    /\ known' = known \cup {Account(w)}
    /\ Answers(w, [user |-> Account(w), dir |-> Home], TRUE)
    /\ UNCHANGED cwd

RegisterFails(w) ==
    /\ WithoutToken(w, {"register", "cd"})
    /\ Account(w) \in registered
    /\ Answers(w, Zero, FALSE)
    /\ UNCHANGED <<registered, known, cwd>>

LoginMatches(w) ==
    /\ WithoutToken(w, {"login"})
    /\ job[w].client \in registered
    /\ known' = known \cup {job[w].client}
    /\ Answers(w, [user |-> job[w].client, dir |-> Home], TRUE)
    /\ UNCHANGED <<registered, cwd>>

\* (a plausible slip: the user is noted before the password is compared, and
\* not cleared)
Bug_LoginFails(w) ==
    /\ WithoutToken(w, {"login"})
    /\ Answers(w, [user |-> job[w].client, dir |-> Home], FALSE)
    /\ UNCHANGED <<registered, known, cwd>>

\* no such user, or another password
LoginFails(w) ==
    /\ WithoutToken(w, {"login"})
    /\ Answers(w, Zero, FALSE)
    /\ UNCHANGED <<registered, known, cwd>>

\* the number is neither 0 nor 1: nothing is done and nothing sent
SaysNothing(w) ==
    /\ WithoutToken(w, {"mkdir", "puts"})
    /\ pc' = [pc EXCEPT ![w] = "idle"]
    /\ job' = [job EXCEPT ![w] = NoJob]
    /\ UNCHANGED <<configured, run, token_key, token, registered, crashed, clientVars,
                   known, cwd, overwritten, keyraced>>

\* The process is gone.  The answers it sent can still be read; whoever
\* waits for another one finds the connection closed.
ServerDies ==
    /\ crashed' = TRUE
    /\ mail' = [c \in Clients |-> [e \in Ends |->
                  IF Answered(c, e) \/ ~Waits(c, e) THEN mail[c][e] ELSE Closed]]
    /\ cut' = Clients
    /\ pc' = [w \in Workers |-> "idle"]
    /\ job' = [w \in Workers |-> NoJob]
    /\ UNCHANGED <<configured, run, token_key, token, registered, global_token, loop,
                   transfer, requests, known, cwd, overwritten, keyraced>>

\* "ls" has no second part: splite_argument returned NULL
Crashes(w) == WithoutToken(w, {"ls"}) /\ ServerDies

(* verify_token.  Only the signature counts: verify_token asks the library *)
(* for no other validation.                                                *)

Verifies(t, k) == t.key = k /\ k # MixedKey

\* (a plausible slip: the claim "sub" is not looked for)
Bug_Carried(w) == [user |-> token[w].user, dir |-> job[w].token.dir]

Carried(w) == [user |-> job[w].token.user, dir |-> job[w].token.dir]

\* The token verifies under the key the worker read, and the handler runs.
Verified(w) ==
    /\ ~crashed
    /\ job[w].token # Empty
    /\ \E k \in Keys : HasKey(w, "deal", k) /\ Verifies(job[w].token, k)

\* (a plausible slip: the new directory is not put into the token)
Bug_ChangesDir(w) ==
    /\ Verified(w)
    /\ job[w].cmd = "cd"
    /\ cwd' = [cwd EXCEPT ![job[w].client] = job[w].dir]
    /\ Answers(w, Carried(w), FALSE)
    /\ UNCHANGED <<registered, known, refused>>

\* change_dir, of a path that query_cd finds
ChangesDir(w) ==
    /\ Verified(w)
    /\ job[w].cmd = "cd"
    /\ cwd' = [cwd EXCEPT ![job[w].client] = job[w].dir]
    /\ Answers(w, [Carried(w) EXCEPT !.dir = job[w].dir], FALSE)
    /\ UNCHANGED <<registered, known, refused>>

\* any handler that leaves the directory alone, or a transfer that ends early
Handles(w) ==
    /\ Verified(w)
    /\ Answers(w, Carried(w), FALSE)
    /\ UNCHANGED <<registered, known, cwd, refused>>

\* recv_file and send_file answer with a structure of their own, no token
ServesTransfer(w) ==
    /\ Verified(w)
    /\ job[w].cmd = "puts"
    /\ token' = [token EXCEPT ![w] = Carried(w)]
    /\ Puts(job[w].client, job[w].end, [NoMail EXCEPT !.state = "reply", !.flag = TRUE])
    /\ pc' = [pc EXCEPT ![w] = "idle"]
    /\ job' = [job EXCEPT ![w] = NoJob]
    /\ UNCHANGED <<configured, run, token_key, registered, crashed, cut, global_token,
                   loop, transfer, requests, historyVars>>

\* The token does not verify: the worker's variable keeps what it had.
Refuses(w) ==
    /\ ~crashed
    /\ job[w].token # Empty
    /\ \E k \in Keys : HasKey(w, "deal", k) /\ ~Verifies(job[w].token, k)
    /\ refused' = TRUE
    /\ Answers(w, token[w], FALSE)
    /\ UNCHANGED <<registered, known, cwd>>

\* send_message: a token is generated for any user_id but 0
Replies(w) ==
    /\ ~crashed
    /\ LET info == token[w]
           send(t) == Puts(job[w].client, job[w].end,
                           [NoMail EXCEPT !.state = "reply", !.token = t,
                                          !.flag = job[w].flag])
       IN  \/ /\ pc[w] = "reply" /\ info.user = Nobody
              /\ send(Empty)
           \/ /\ info.user # Nobody
              /\ \E k \in Keys : /\ HasKey(w, "reply", k)
                                 /\ send([user |-> info.user, dir |-> info.dir, key |-> k])
    /\ pc' = [pc EXCEPT ![w] = "idle"]
    /\ job' = [job EXCEPT ![w] = NoJob]
    /\ UNCHANGED <<configured, run, token_key, token, registered, crashed, cut,
                   global_token, loop, transfer, requests, historyVars>>

-----------------------------------------------------------------------------
(* The server ends for another reason, on SIGINT or a signal, and is      *)
(* started again.  A client's commands stay on the connection it had.       *)

ServerEnds == ~crashed /\ run < MaxRuns /\ ServerDies /\ UNCHANGED refused

Restarts ==
    /\ crashed /\ run < MaxRuns
    /\ crashed' = FALSE
    /\ run' = run + 1
    /\ token_key' = DefaultKey
    /\ token' \in [Workers -> {Zero, [user |-> Garbage, dir |-> Home]}]
    /\ UNCHANGED <<configured, pc, job, registered, clientVars, historyVars>>

-----------------------------------------------------------------------------
Client(c) ==
    \/ \E cmd \in {"login"} \cup (Commands \cap {"register"}) : Enters(c, cmd)
    \/ Entered(c)
    \/ \E cmd \in Commands \cap {"ls", "mkdir"} : Sends(c, cmd, Home)
    \/ "cd" \in Commands /\ \E d \in Dirs : Sends(c, "cd", d)
    \/ "puts" \in Commands /\ StartsTransfer(c)
    \/ TransferSends(c) \/ TransferGoesAhead(c)
    \/ \E e \in Ends : Clears(c, e) \/ Stores(c, e)

Worker(w) ==
    \/ \E c \in Clients, e \in Ends : Takes(w, c, e)
    \/ ChoosesKey(w) \/ WritesKey(w)
    \/ Registers(w) \/ RegisterFails(w) \/ LoginMatches(w) \/ LoginFails(w)
    \/ SaysNothing(w) \/ Crashes(w)
    \/ ChangesDir(w) \/ Handles(w) \/ ServesTransfer(w) \/ Refuses(w)
    \/ Replies(w)

\* Clients need not send anything more, and nobody has to start the server.
Quiet ==
    /\ crashed \/ \A w \in Workers : pc[w] = "idle"
    /\ UNCHANGED vars

Next ==
    \/ \E c \in Clients : Client(c)
    \/ \E w \in Workers : Worker(w)
    \/ ServerEnds \/ Restarts
    \/ Quiet

Spec == Init /\ [][Next]_vars

-----------------------------------------------------------------------------
(* Properties.                                                             *)

\* The tokens in anyone's hands, requests and answers under way included.
Held == {global_token[c] : c \in Clients}
        \cup {mail[c][e].token : c \in Clients, e \in Ends}
        \cup {job[w].token : w \in Workers}

\* Whatever goes wrong with a token, nobody is ever taken for a user whose
\* password was not given before: check_user_login clears the worker's
\* token_info when a login fails (login.c:31-70), so that what an answer to a
\* later request is made from was verified or logged in.
OnlyKnownUsers == \A t \in Held : t.user \in known \cup {Nobody, Garbage}

\* As long as every request brought a token that verified, a client stays the
\* user it logged in as, although workers serve clients in any order and keep
\* the last one's token_info (thread.c:12-97).
KeepsUser ==
    refused \/ \A c \in Clients : global_token[c].user \in {c, Nobody}

\* All tokens are signed with the key that they will be verified with, but
\* for those signed while it was being written: with a configured key always,
\* through any number of restarts, and with a random one in the run of the
\* server that made it, unless two workers chose it at once (hash.c:250-270).
KeysAgree ==
    \A t \in Held \ {Empty} :
        \/ t.key = MixedKey
        \/ configured /\ t.key = ConfigKey
        \/ ~configured /\ (keyraced \/ t.key = token_key \/ t.key[2] < run)

\* A client that is not waiting for an answer is in the directory of its last
\* cd that succeeded (file_no_change.c:29-33), unless a transfer answered in
\* between: its token is older.  (A client whose server has ended has none.)
DirectoryIsKept ==
    refused \/ \A c \in Clients \ (overwritten \cup cut) :
        loop[c] = "ready" /\ transfer[c] # "store" => global_token[c].dir = cwd[c]

\* "请重新登录" (thread.c:81): a client whose token fails has to log in again, and
\* until then is nobody, or the user it was, never another client.
NeverAnotherUser ==
    \A c \in Clients : global_token[c].user \notin Clients \ {c}
=============================================================================
