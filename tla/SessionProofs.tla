--------------------------- MODULE SessionProofs ----------------------------
(***************************************************************************)
(* Who a client can be taken for, with which keys tokens are signed, and   *)
(* in which directory a client is, for every number of clients, workers,   *)
(* requests and restarts.                                                  *)
(*                                                                         *)
(* Four invariants, each on top of Types: UserInv, KeyInv, KeepInv, DirInv.*)
(* What they share is where tokens come from (ClientHeld, WorkerHeld).     *)
(***************************************************************************)
EXTENDS Session, TLAPS

Cmds   == {"", "login", "register", "cd", "ls", "mkdir", "puts"}
Mail   == [state : {"none", "request", "reply", "closed"}, cmd : Cmds, dir : Dirs,
           token : Token, flag : BOOLEAN]
Job    == [client : Clients \cup {Nobody}, end : Ends, cmd : Cmds, dir : Dirs,
           token : Token, flag : BOOLEAN]
Places == {"idle", "deal", "deal_write", "deal_key", "reply", "reply_write", "reply_key"}

SessionTypeOK ==
    /\ configured \in BOOLEAN
    /\ run \in 1..MaxRuns
    /\ token_key \in Keys
    /\ pc \in [Workers -> Places]
    /\ job \in [Workers -> Job]
    /\ token \in [Workers -> Info]
    /\ known \in SUBSET Users
    /\ mail \in [Clients -> [Ends -> Mail]]
    /\ global_token \in [Clients -> Token]
    /\ loop \in [Clients -> {"prompt", "login", "register", "ready", "sent", "store"}]
    /\ transfer \in [Clients -> {"none", "start", "sent", "store"}]
    /\ refused \in BOOLEAN /\ keyraced \in BOOLEAN

(* A worker at work has a client's request.                                *)
JobsAreClients == \A w \in Workers : pc[w] # "idle" => job[w].client \in Clients

Types   == SessionTypeOK /\ JobsAreClients

-----------------------------------------------------------------------------
(* Facts about the constants of the module.                                *)

(* The tokens and messages that mean nothing, and what they are made of.   *)
LEMMA Atoms ==
    /\ Empty \in Token /\ Torn \in Token
    /\ Empty.user = Nobody /\ Torn.user = Garbage /\ Torn.key = MixedKey
    /\ NoMail \in Mail /\ NoMail.token = Empty /\ NoMail.state = "none"
    /\ Closed \in Mail /\ Closed.token = Empty /\ Closed.state = "closed"
    /\ NoJob \in Job /\ NoJob.token = Empty
    /\ Zero \in Info /\ Zero.user = Nobody
    /\ [user |-> Garbage, dir |-> Home] \in Info
BY SessionAssumption
   DEF Empty, Torn, NoMail, Closed, NoJob, Zero, Mail, Job, Info, Token, Users, Keys, Cmds, Ends

(* A request carries the token it is sent with.                            *)
LEMMA RequestType ==
    ASSUME NEW cmd \in Cmds, NEW d \in Dirs, NEW t \in Token
    PROVE  /\ Request(cmd, d, t) \in Mail
           /\ Request(cmd, d, t).token = t /\ Request(cmd, d, t).state = "request"
BY DEF Request, Mail

(* What a connection holds after something was put on it.                  *)
LEMMA PutsType ==
    ASSUME SessionTypeOK, NEW c \in Clients, NEW e \in Ends, NEW m \in Mail, Puts(c, e, m)
    PROVE  /\ mail' \in [Clients -> [Ends -> Mail]]
           /\ \A d \in Clients : \A f \in Ends :
                 <<d, f>> # <<c, e>> => mail'[d][f] = mail[d][f]
           /\ mail'[c][e] = m \/ mail'[c][e] = Closed
           /\ m.state # "request" => mail'[c][e] = m
BY Atoms DEF SessionTypeOK, Puts

(* The tokens a client may find in global_token.                           *)
LEMMA TokenReadType ==
    ASSUME SessionTypeOK, NEW c \in Clients, NEW t \in TokenRead(c)
    PROVE  t \in Token /\ (t = Empty \/ t = Torn \/ t = global_token[c])
BY Atoms DEF SessionTypeOK, TokenRead

-----------------------------------------------------------------------------
(* Types are kept, one lemma per kind of step.                             *)

(* What a client does keeps the types.                                     *)
LEMMA ClientTypes ==
    ASSUME Types, NEW c \in Clients, Client(c)
    PROVE  Types'
<1> USE DEF Types, SessionTypeOK, JobsAreClients, serverVars, historyVars
<1>1. ASSUME NEW cmd \in {"login", "register"}, Enters(c, cmd)
      PROVE  Types'
  <2>1. Request(cmd, Home, Empty) \in Mail
        BY Atoms, RequestType, SessionAssumption DEF Cmds
  <2>2. mail' \in [Clients -> [Ends -> Mail]]
        BY <1>1, <2>1, PutsType DEF Enters, Asks, Ends
  <2> QED  BY <1>1, <2>2 DEF Enters
<1>2. CASE Entered(c)
  <2>1. mail' \in [Clients -> [Ends -> Mail]]
        BY <1>2, Atoms, PutsType DEF Entered, Ends
  <2>2. mail[c]["loop"].token \in Token
        BY DEF Ends, Mail
  <2> QED  BY <1>2, <2>1, <2>2 DEF Entered
<1>3. ASSUME NEW cmd \in {"ls", "mkdir", "cd"}, NEW d \in Dirs, Sends(c, cmd, d)
      PROVE  Types'
  <2>1. PICK t \in TokenRead(c) : Asks(c, "loop", Request(cmd, d, t))
        BY <1>3 DEF Sends
  <2>2. Request(cmd, d, t) \in Mail
        BY TokenReadType, Atoms, RequestType DEF Cmds
  <2>3. mail' \in [Clients -> [Ends -> Mail]]
        BY <2>1, <2>2, PutsType DEF Asks, Ends
  <2> QED  BY <1>3, <2>3 DEF Sends
<1>4. CASE StartsTransfer(c)
      BY <1>4 DEF StartsTransfer
<1>5. CASE TransferSends(c)
  <2>1. PICK t \in TokenRead(c) : Asks(c, "transfer", Request("puts", Home, t))
        BY <1>5 DEF TransferSends
  <2>2. Request("puts", Home, t) \in Mail
        BY TokenReadType, Atoms, RequestType, SessionAssumption DEF Cmds
  <2>3. mail' \in [Clients -> [Ends -> Mail]]
        BY <2>1, <2>2, PutsType DEF Asks, Ends
  <2> QED  BY <1>5, <2>3 DEF TransferSends
<1>6. CASE TransferGoesAhead(c)
  <2>1. mail' \in [Clients -> [Ends -> Mail]]
        BY <1>6, Atoms, PutsType DEF TransferGoesAhead, Ends
  <2> QED  BY <1>6, <2>1 DEF TransferGoesAhead
<1>7. ASSUME NEW e \in Ends, Clears(c, e)
      PROVE  Types'
      BY <1>7, Atoms DEF Clears
<1>8. ASSUME NEW e \in Ends, Stores(c, e)
      PROVE  Types'
  <2>1. mail' \in [Clients -> [Ends -> Mail]]
        BY <1>8, Atoms, PutsType DEF Stores
  <2>2. mail[c][e].token \in Token
        BY DEF Mail
  <2> QED  BY <1>8, <2>1, <2>2 DEF Stores
<1> QED  BY <1>1, <1>2, <1>3, <1>4, <1>5, <1>6, <1>7, <1>8, SessionAssumption DEF Client

(* A request names a user.                                                 *)
LEMMA AccountIsUser ==
    ASSUME Types, NEW w \in Workers, pc[w] # "idle"
    PROVE  Account(w) \in Users
BY DEF Types, JobsAreClients, Account, Users

(* A handler that calls send_message leaves a worker with a token_info.    *)
LEMMA AnswersTypes ==
    ASSUME Types, NEW w \in Workers, NEW info \in Info, NEW flag \in BOOLEAN,
           pc[w] # "idle", Answers(w, info, flag),
           known' \in SUBSET Users, refused' \in BOOLEAN
    PROVE  Types'
<1>1. job[w].client \in Clients
      BY DEF Types, JobsAreClients
<1>2. job' \in [Workers -> Job]
      BY DEF Answers, Types, SessionTypeOK, Job
<1> QED  BY <1>1, <1>2 DEF Answers, Types, SessionTypeOK, JobsAreClients, Places, clientVars, Job

(* What a worker does keeps the types.                                     *)
LEMMA WorkerTypes ==
    ASSUME Types, NEW w \in Workers, Worker(w)
    PROVE  Types'
<1> USE DEF Types, SessionTypeOK, JobsAreClients, Places, clientVars, historyVars
<1>a. job[w] \in Job /\ job[w].token \in Token /\ job[w].dir \in Dirs /\ token[w] \in Info
      BY DEF Job
<1>b. Carried(w) \in Info /\ [Carried(w) EXCEPT !.dir = job[w].dir] \in Info
      BY <1>a DEF Carried, Info, Token
<1>c. ASSUME pc'[w] = "idle", pc' = [pc EXCEPT ![w] = "idle"], job' = [job EXCEPT ![w] = NoJob]
      PROVE  job' \in [Workers -> Job] /\ JobsAreClients'
      BY <1>c, Atoms
<1>1. ASSUME NEW c \in Clients, NEW e \in Ends, Takes(w, c, e)
      PROVE  Types'
  <2>1. mail' \in [Clients -> [Ends -> Mail]]
        BY <1>1, Atoms, PutsType DEF Takes
  <2>2. mail[c][e] \in Mail
        OBVIOUS
  <2>3. job' \in [Workers -> Job]
        BY <1>1, <2>2 DEF Takes, Job, Mail
  <2>4. JobsAreClients'
        BY <1>1 DEF Takes
  <2> QED  BY <1>1, <2>1, <2>3, <2>4 DEF Takes
<1>2. CASE ChoosesKey(w)
      BY <1>2 DEF ChoosesKey
<1>3. CASE WritesKey(w)
  <2>1. NewKey(w) \in Keys
        BY DEF NewKey, Keys
  <2>2. pc[w] # "idle"
        BY <1>3 DEF WritesKey, Writers
  <2> QED  BY <1>3, <2>1, <2>2 DEF WritesKey
<1>4. CASE Registers(w)
      BY <1>4, AnswersTypes, AccountIsUser, SessionAssumption
      DEF Registers, WithoutToken, At, Info
<1>5. CASE RegisterFails(w)
      BY <1>5, AnswersTypes, Atoms DEF RegisterFails, WithoutToken, At
<1>6. CASE LoginMatches(w)
  <2>1. job[w].client \in Clients /\ pc[w] # "idle"
        BY <1>6 DEF LoginMatches, WithoutToken, At
  <2>2. [user |-> job[w].client, dir |-> Home] \in Info
        BY <2>1, SessionAssumption DEF Info, Users
  <2> QED  BY <1>6, <2>1, <2>2, AnswersTypes DEF LoginMatches, WithoutToken, Users
<1>7. CASE LoginFails(w)
      BY <1>7, AnswersTypes, Atoms DEF LoginFails, WithoutToken, At
<1>8. CASE SaysNothing(w)
      BY <1>8, <1>c DEF SaysNothing, WithoutToken
<1>9. CASE Crashes(w)
  <2>1. mail' \in [Clients -> [Ends -> Mail]]
        BY <1>9, Atoms DEF Crashes, ServerDies
  <2> QED  BY <1>9, <2>1, Atoms DEF Crashes, ServerDies, WithoutToken
<1>v. ASSUME Verified(w)
      PROVE  pc[w] # "idle"
      BY <1>v DEF Verified, HasKey
<1>10. CASE ChangesDir(w)
      BY <1>10, <1>b, <1>v, AnswersTypes DEF ChangesDir
<1>11. CASE Handles(w)
      BY <1>11, <1>b, <1>v, AnswersTypes DEF Handles
<1>12. CASE ServesTransfer(w)
  <2>1. [NoMail EXCEPT !.state = "reply", !.flag = TRUE] \in Mail
        BY Atoms DEF Mail
  <2>2. job[w].client \in Clients /\ job[w].end \in Ends
        BY <1>12, <1>a, <1>v DEF ServesTransfer, Job
  <2>3. mail' \in [Clients -> [Ends -> Mail]]
        BY <1>12, <2>1, <2>2, PutsType DEF ServesTransfer
  <2> QED  BY <1>12, <1>b, <1>c, <2>3 DEF ServesTransfer
<1>13. CASE Refuses(w)
      BY <1>13, <1>a, AnswersTypes DEF Refuses, HasKey
<1>14. CASE Replies(w)
  <2>1. pc[w] # "idle"
        BY <1>14 DEF Replies, HasKey
  <2>2. job[w].client \in Clients /\ job[w].end \in Ends /\ job[w].flag \in BOOLEAN
        BY <2>1, <1>a DEF Job
  <2>3. PICK t \in Token :
           Puts(job[w].client, job[w].end,
                [NoMail EXCEPT !.state = "reply", !.token = t, !.flag = job[w].flag])
        BY <1>14, <1>a, Atoms DEF Replies, Info, Token
  <2>4. [NoMail EXCEPT !.state = "reply", !.token = t, !.flag = job[w].flag] \in Mail
        BY <2>2, Atoms DEF Mail
  <2>5. mail' \in [Clients -> [Ends -> Mail]]
        BY <2>2, <2>3, <2>4, PutsType
  <2> QED  BY <1>14, <1>c, <2>5 DEF Replies
<1> QED  BY <1>1, <1>2, <1>3, <1>4, <1>5, <1>6, <1>7, <1>8, <1>9, <1>10, <1>11, <1>12,
            <1>13, <1>14 DEF Worker

(* So does every step.                                                     *)
LEMMA TypesKept ==
    ASSUME Types, [Next]_vars
    PROVE  Types'
<1>1. ASSUME ServerEnds
      PROVE  Types'
  <2>1. mail' \in [Clients -> [Ends -> Mail]]
        BY <1>1, Atoms DEF ServerEnds, ServerDies, Types, SessionTypeOK
  <2> QED  BY <1>1, <2>1, Atoms
           DEF ServerEnds, ServerDies, Types, SessionTypeOK, JobsAreClients, Places
<1>2. ASSUME Restarts
      PROVE  Types'
  <2>1. run' \in 1..MaxRuns
        BY <1>2, SessionAssumption DEF Restarts, Types, SessionTypeOK
  <2>2. token' \in [Workers -> Info]
        BY <1>2, Atoms DEF Restarts
  <2>3. token_key' \in Keys
        BY <1>2 DEF Restarts, Keys
  <2> QED  BY <1>2, <2>1, <2>2, <2>3
           DEF Restarts, Types, SessionTypeOK, JobsAreClients, clientVars, historyVars
<1>3. ASSUME UNCHANGED vars
      PROVE  Types'
      BY <1>3 DEF vars, serverVars, clientVars, historyVars, Types, SessionTypeOK, JobsAreClients
<1> QED  BY <1>1, <1>2, <1>3, ClientTypes, WorkerTypes DEF Next, Quiet

(* The variables have their types at the start.                            *)
LEMMA InitTypes ==
    ASSUME Init
    PROVE  Types
<1>1. token \in [Workers -> Info]
      BY Atoms DEF Init
<1>2. token_key \in Keys /\ run \in 1..MaxRuns
      BY SessionAssumption DEF Init, Keys
<1>3. mail \in [Clients -> [Ends -> Mail]] /\ global_token \in [Clients -> Token]
      BY Atoms DEF Init
<1> QED  BY <1>1, <1>2, <1>3, Atoms DEF Init, Types, SessionTypeOK, JobsAreClients, Places

-----------------------------------------------------------------------------
(* Where tokens come from: a step of a client hands on those that there    *)
(* are, or reads one that is not there in full; only a worker that answers *)
(* makes a new one.                                                        *)

(* A message brings its own token under way and no other.                  *)
LEMMA PutsHeld ==
    ASSUME Types, NEW c \in Clients, NEW e \in Ends, NEW m \in Mail, Puts(c, e, m)
    PROVE  \A d \in Clients : \A f \in Ends : mail'[d][f].token \in Held \cup {m.token, Empty}
BY PutsType, Atoms DEF Types, Held

(* Everything held is a token.                                             *)
LEMMA HeldType ==
    ASSUME Types
    PROVE  /\ \A c \in Clients : global_token[c] \in Held
           /\ \A c \in Clients : \A e \in Ends : mail[c][e].token \in Held
           /\ \A w \in Workers : job[w].token \in Held
           /\ Held \subseteq Token
BY DEF Types, SessionTypeOK, Held, Mail, Job

(* A client only passes tokens on, or reads a torn one.                    *)
LEMMA ClientHeld ==
    ASSUME Types, NEW c \in Clients, Client(c)
    PROVE  Held' \subseteq Held \cup {Empty, Torn}
<1> DEFINE All == Held \cup {Empty, Torn}
<1>h. ASSUME \A d \in Clients : global_token'[d] \in All,
             \A d \in Clients : \A f \in Ends : mail'[d][f].token \in All,
             \A v \in Workers : job'[v].token \in All
      PROVE  Held' \subseteq All
      BY <1>h DEF Held
<1>a. Types /\ SessionTypeOK
      BY DEF Types
<1>j. ASSUME UNCHANGED job
      PROVE  \A w \in Workers : job'[w].token \in All
      BY <1>h, <1>j, HeldType
<1>g. ASSUME UNCHANGED global_token
      PROVE  \A d \in Clients : global_token'[d] \in All
      BY <1>g, HeldType
<1>m. ASSUME UNCHANGED mail
      PROVE  \A d \in Clients : \A f \in Ends : mail'[d][f].token \in All
      BY <1>m, HeldType
<1>t. ASSUME NEW t \in TokenRead(c)
      PROVE  t \in Token /\ t \in All
      BY <1>a, TokenReadType, Atoms, HeldType
<1> USE DEF serverVars
<1>1. ASSUME NEW cmd \in {"login", "register"}, Enters(c, cmd)
      PROVE  Held' \subseteq All
  <2>1. Request(cmd, Home, Empty) \in Mail /\ Request(cmd, Home, Empty).token = Empty
        BY Atoms, RequestType, SessionAssumption DEF Cmds, Request
  <2>2. \A d \in Clients : \A f \in Ends : mail'[d][f].token \in All
        BY <1>1, <2>1, PutsHeld DEF Enters, Asks, Ends
  <2> QED  BY <1>1, <1>h, <1>j, <1>g, <2>2 DEF Enters
<1>2. CASE Entered(c)
  <2>1. \A d \in Clients : \A f \in Ends : mail'[d][f].token \in All
        BY <1>2, PutsHeld, Atoms DEF Entered, Ends
  <2>2. \A d \in Clients : global_token'[d] \in All
        BY <1>2, <1>a, HeldType DEF Entered, Ends, SessionTypeOK
  <2> QED  BY <1>2, <1>h, <1>j, <2>1, <2>2 DEF Entered
<1>3. ASSUME NEW cmd \in {"ls", "mkdir", "cd"}, NEW d \in Dirs, Sends(c, cmd, d)
      PROVE  Held' \subseteq All
  <2>1. PICK t \in TokenRead(c) : Asks(c, "loop", Request(cmd, d, t))
        BY <1>3 DEF Sends
  <2>2. Request(cmd, d, t) \in Mail /\ Request(cmd, d, t).token = t
        BY <1>t, RequestType DEF Cmds, Request
  <2>3. \A b \in Clients : \A f \in Ends : mail'[b][f].token \in All
        BY <2>1, <2>2, <1>t, PutsHeld DEF Asks, Ends
  <2> QED  BY <1>3, <1>h, <1>j, <1>g, <2>3 DEF Sends
<1>4. CASE StartsTransfer(c)
      BY <1>4, <1>h, <1>j, <1>g, <1>m DEF StartsTransfer
<1>5. CASE TransferSends(c)
  <2>1. PICK t \in TokenRead(c) : Asks(c, "transfer", Request("puts", Home, t))
        BY <1>5 DEF TransferSends
  <2>2. /\ Request("puts", Home, t) \in Mail
        /\ Request("puts", Home, t).token = t
        BY <1>t, RequestType, SessionAssumption DEF Cmds, Request
  <2>3. \A b \in Clients : \A f \in Ends : mail'[b][f].token \in All
        BY <2>1, <2>2, <1>t, PutsHeld DEF Asks, Ends
  <2> QED  BY <1>5, <1>h, <1>j, <1>g, <2>3 DEF TransferSends
<1>6. CASE TransferGoesAhead(c)
  <2>1. \A b \in Clients : \A f \in Ends : mail'[b][f].token \in All
        BY <1>6, PutsHeld, Atoms DEF TransferGoesAhead, Ends
  <2> QED  BY <1>6, <1>h, <1>j, <1>g, <2>1 DEF TransferGoesAhead
<1>7. ASSUME NEW e \in Ends, Clears(c, e)
      PROVE  Held' \subseteq All
  <2>1. \A d \in Clients : global_token'[d] \in All
        BY <1>7, <1>a, HeldType DEF Clears, SessionTypeOK
  <2> QED  BY <1>7, <1>h, <1>j, <1>m, <2>1 DEF Clears
<1>8. ASSUME NEW e \in Ends, Stores(c, e)
      PROVE  Held' \subseteq All
  <2>1. \A d \in Clients : \A f \in Ends : mail'[d][f].token \in All
        BY <1>8, PutsHeld, Atoms DEF Stores
  <2>2. \A d \in Clients : global_token'[d] \in All
        BY <1>8, <1>a, HeldType DEF Stores, SessionTypeOK
  <2> QED  BY <1>8, <1>h, <1>j, <2>1, <2>2 DEF Stores
<1> QED  BY <1>1, <1>2, <1>3, <1>4, <1>5, <1>6, <1>7, <1>8, SessionAssumption DEF Client

(* The tokens that worker w may make in an answer.                         *)
Made(w) == {t \in Token : /\ Replies(w)
                          /\ t.user = token[w].user /\ t.user # Nobody
                          /\ HasKey(w, "reply", t.key)}

(* The end of the server brings no token into anyone's hands.              *)
LEMMA EndHeld ==
    ASSUME Types, ServerDies
    PROVE  Held' \subseteq Held \cup {Empty}
BY Atoms, HeldType DEF ServerDies, Held

(* A worker passes tokens on, or makes one from its token_info.            *)
LEMMA WorkerHeld ==
    ASSUME Types, NEW w \in Workers, Worker(w)
    PROVE  Held' \subseteq Held \cup {Empty} \cup Made(w)
<1> DEFINE All == Held \cup {Empty} \cup Made(w)
<1>h. ASSUME \A d \in Clients : global_token'[d] \in All,
             \A d \in Clients : \A f \in Ends : mail'[d][f].token \in All,
             \A v \in Workers : job'[v].token \in All
      PROVE  Held' \subseteq All
      BY <1>h DEF Held
<1>a. Types /\ SessionTypeOK /\ job[w] \in Job
      BY DEF Types, SessionTypeOK
<1>b. ASSUME UNCHANGED clientVars, \A v \in Workers : job'[v].token \in All
      PROVE  Held' \subseteq All
      BY <1>b, <1>h, HeldType DEF clientVars
<1>c. ASSUME NEW info, NEW flag, Answers(w, info, flag)
      PROVE  Held' \subseteq All
  <2>1. \A v \in Workers : job'[v].token = job[v].token
        BY <1>a, <1>c DEF Answers, SessionTypeOK
  <2> QED  BY <1>b, <1>c, <2>1, HeldType DEF Answers
<1>j. ASSUME job' = [job EXCEPT ![w] = NoJob]
      PROVE  \A v \in Workers : job'[v].token \in All
      BY <1>j, <1>a, Atoms, HeldType DEF SessionTypeOK
<1>1. ASSUME NEW c \in Clients, NEW e \in Ends, Takes(w, c, e)
      PROVE  Held' \subseteq All
  <2>1. \A d \in Clients : \A f \in Ends : mail'[d][f].token \in All
        BY <1>1, PutsHeld, Atoms DEF Takes
  <2>2. \A v \in Workers : job'[v].token \in All
        BY <1>1, <1>a, HeldType DEF Takes, SessionTypeOK
  <2> QED  BY <1>1, <1>h, <2>1, <2>2, HeldType DEF Takes
<1>2. CASE ChoosesKey(w) \/ WritesKey(w)
      BY <1>2, <1>b, HeldType DEF ChoosesKey, WritesKey
<1>3. CASE \/ Registers(w) \/ RegisterFails(w) \/ LoginMatches(w) \/ LoginFails(w)
           \/ ChangesDir(w) \/ Handles(w) \/ Refuses(w)
      BY <1>3, <1>c
      DEF Registers, RegisterFails, LoginMatches, LoginFails, ChangesDir, Handles, Refuses
<1>4. CASE SaysNothing(w)
      BY <1>4, <1>b, <1>j DEF SaysNothing
<1>5. CASE Crashes(w)
      BY <1>5, EndHeld DEF Crashes
<1>w. ASSUME pc[w] # "idle"
      PROVE  job[w].client \in Clients /\ job[w].end \in Ends /\ job[w].flag \in BOOLEAN
      BY <1>w, <1>a DEF Types, JobsAreClients, Job
<1>6. CASE ServesTransfer(w)
  <2> DEFINE m == [NoMail EXCEPT !.state = "reply", !.flag = TRUE]
  <2>1. m \in Mail /\ m.token = Empty
        BY Atoms DEF Mail
  <2>2. pc[w] # "idle" /\ Puts(job[w].client, job[w].end, m)
        BY <1>6 DEF ServesTransfer, Verified, HasKey
  <2> HIDE DEF m, All
  <2>3. \A d \in Clients : \A f \in Ends :
           mail'[d][f].token \in Held \cup {m.token, Empty}
        BY <1>w, <2>1, <2>2, PutsHeld
  <2>4. \A d \in Clients : \A f \in Ends : mail'[d][f].token \in All
        BY <2>1, <2>3 DEF All
  <2> QED  BY <1>6, <1>h, <1>j, <2>4, HeldType DEF ServesTransfer, All
<1>7. CASE Replies(w)
  <2> DEFINE m(t) == [NoMail EXCEPT !.state = "reply", !.token = t, !.flag = job[w].flag]
  <2>1. pc[w] # "idle" /\ token[w] \in Info
        BY <1>7, <1>a DEF Replies, HasKey, SessionTypeOK
  <2>2. PICK t \in Token : t \in All /\ Puts(job[w].client, job[w].end, m(t))
    <3>1. CASE Puts(job[w].client, job[w].end, m(Empty))
          BY <3>1, Atoms
    <3>2. ASSUME NEW k \in Keys, token[w].user # Nobody, HasKey(w, "reply", k),
                 Puts(job[w].client, job[w].end,
                      m([user |-> token[w].user, dir |-> token[w].dir, key |-> k]))
          PROVE  \E t \in Token : t \in All /\ Puts(job[w].client, job[w].end, m(t))
      <4> DEFINE u == [user |-> token[w].user, dir |-> token[w].dir, key |-> k]
      <4>1. u \in Token /\ u.user = token[w].user /\ u.key = k
            BY <2>1 DEF Token, Info
      <4>2. u \in All
            BY <1>7, <3>2, <4>1 DEF Made
      <4> QED  BY <3>2, <4>1, <4>2
    <3> QED  BY <1>7, <3>1, <3>2 DEF Replies
  <2>3. m(t) \in Mail /\ m(t).token = t
        BY <2>1, <1>w, Atoms DEF Mail
  <2>4. \A d \in Clients : \A f \in Ends : mail'[d][f].token \in All
        BY <2>1, <1>w, <2>2, <2>3, PutsHeld
  <2> QED  BY <1>7, <1>h, <1>j, <2>4, HeldType DEF Replies
<1> QED  BY <1>1, <1>2, <1>3, <1>4, <1>5, <1>6, <1>7 DEF Worker

(* At the start there are no tokens.                                       *)
LEMMA InitHeld ==
    ASSUME Init
    PROVE  \A t \in Held : t = Empty
BY Atoms DEF Init, Held

(* Types of all variables, in every reachable state.                       *)
THEOREM SessionTypeSafety == Spec => []SessionTypeOK
<1>1. Init => Types
      BY InitTypes
<1>2. Types /\ [Next]_vars => Types'
      BY TypesKept
<1>3. Types => SessionTypeOK
      BY DEF Types
<1> QED  BY <1>1, <1>2, <1>3, PTL DEF Spec

-----------------------------------------------------------------------------
(* Nobody is taken for a user whose password was not given.  The tokens    *)
(* alone are not inductive: an answer is made from what a worker keeps of  *)
(* the last token it unpacked, so that has to be of a known user too.      *)

Known == known \cup {Nobody, Garbage}
WorkersAreSafe == \A w \in Workers : token[w].user \in Known
UserInv == Types /\ WorkersAreSafe /\ OnlyKnownUsers

(* A worker that will answer has verified its user, logged it in, or       *)
(* cleared it.                                                             *)
LEMMA HandlersKeepWorkersSafe ==
    ASSUME UserInv, NEW w \in Workers, Worker(w)
    PROVE  WorkersAreSafe' /\ known \subseteq known'
<1>a. /\ SessionTypeOK /\ JobsAreClients
      /\ job[w] \in Job /\ token[w].user \in Known /\ job[w].token.user \in Known
      BY HeldType DEF UserInv, Types, SessionTypeOK, WorkersAreSafe, OnlyKnownUsers, Known
<1>c. ASSUME UNCHANGED <<token, known>>
      PROVE  WorkersAreSafe'
      BY <1>c DEF UserInv, WorkersAreSafe, Known
<1>h. ASSUME NEW info \in Info, known \subseteq known', info.user \in Known',
             token' = [token EXCEPT ![w] = info]
      PROVE  WorkersAreSafe'
      BY <1>h, <1>a DEF UserInv, WorkersAreSafe, SessionTypeOK, Known
<1>n. Nobody \in Known'
      BY DEF Known
<1>1. CASE \/ \E c \in Clients, e \in Ends : Takes(w, c, e)
           \/ ChoosesKey(w) \/ WritesKey(w) \/ SaysNothing(w) \/ Crashes(w) \/ Replies(w)
      BY <1>1, <1>c
      DEF Takes, ChoosesKey, WritesKey, SaysNothing, Crashes, ServerDies, Replies,
          historyVars
<1>2. CASE Registers(w)
  <2>1. Account(w) \in Users
        BY <1>2, <1>a, AccountIsUser DEF Registers, WithoutToken, At, UserInv
  <2>2. [user |-> Account(w), dir |-> Home] \in Info /\ Account(w) \in Known'
        BY <1>2, <2>1, SessionAssumption DEF Registers, Info, Known
  <2> QED  BY <1>2, <1>h, <2>2 DEF Registers, Answers
<1>3. CASE RegisterFails(w) \/ LoginFails(w)
      BY <1>3, <1>h, <1>n, Atoms DEF RegisterFails, LoginFails, Answers
<1>4. CASE LoginMatches(w)
  <2>1. job[w].client \in Clients
        BY <1>4, <1>a DEF LoginMatches, WithoutToken, At, JobsAreClients
  <2>2. [user |-> job[w].client, dir |-> Home] \in Info /\ job[w].client \in Known'
        BY <1>4, <2>1, SessionAssumption DEF LoginMatches, Info, Users, Known
  <2> QED  BY <1>4, <1>h, <2>2 DEF LoginMatches, Answers
<1>b. /\ Carried(w) \in Info /\ [Carried(w) EXCEPT !.dir = job[w].dir] \in Info
      /\ Carried(w).user \in Known /\ [Carried(w) EXCEPT !.dir = job[w].dir].user \in Known
      BY <1>a DEF Carried, Info, Token, Job
<1>5. CASE ChangesDir(w) \/ Handles(w)
      BY <1>5, <1>b, <1>h DEF ChangesDir, Handles, Answers, Known
<1>6. CASE ServesTransfer(w)
      BY <1>6, <1>b, <1>h DEF ServesTransfer, historyVars, Known
<1>7. CASE Refuses(w)
      BY <1>7, <1>a, <1>h DEF Refuses, Answers, Known, SessionTypeOK
<1> QED  BY <1>1, <1>2, <1>3, <1>4, <1>5, <1>6, <1>7
         DEF Worker, Takes, ChoosesKey, WritesKey, Registers, RegisterFails, LoginMatches,
             LoginFails, SaysNothing, Crashes, ServerDies, ChangesDir, Handles,
             ServesTransfer, Refuses, Replies, historyVars

(* Every step keeps the users of tokens known.                             *)
LEMMA UserInvKept ==
    ASSUME UserInv, [Next]_vars
    PROVE  UserInv'
<1>0. Types /\ Types' /\ Empty.user \in Known /\ Torn.user \in Known
      BY TypesKept, Atoms DEF UserInv, Known
<1>1. ASSUME NEW c \in Clients, Client(c)
      PROVE  UserInv'
  <2>1. UNCHANGED <<token, known>>
        BY <1>1
        DEF Client, Enters, Entered, Sends, StartsTransfer, TransferSends,
            TransferGoesAhead, Clears, Stores, serverVars, historyVars
  <2>2. Held' \subseteq Held \cup {Empty, Torn}
        BY <1>0, <1>1, ClientHeld
  <2> QED  BY <1>0, <2>1, <2>2 DEF UserInv, WorkersAreSafe, OnlyKnownUsers, Known
<1>2. ASSUME NEW w \in Workers, Worker(w)
      PROVE  UserInv'
  <2>1. WorkersAreSafe' /\ known \subseteq known'
        BY <1>2, HandlersKeepWorkersSafe
  <2>2. Held' \subseteq Held \cup {Empty} \cup Made(w)
        BY <1>0, <1>2, WorkerHeld
  <2>3. \A t \in Made(w) : t.user \in Known
        BY DEF Made, UserInv, WorkersAreSafe
  <2> QED  BY <1>0, <2>1, <2>2, <2>3 DEF UserInv, OnlyKnownUsers, Known
<1>3. CASE ServerEnds
  <2>1. Held' \subseteq Held \cup {Empty} /\ UNCHANGED <<token, known>>
        BY <1>0, <1>3, EndHeld DEF ServerEnds, ServerDies
  <2> QED  BY <1>0, <2>1 DEF UserInv, WorkersAreSafe, OnlyKnownUsers, Known
<1>4. CASE Restarts
  <2>1. \A w \in Workers : token'[w].user \in Known
        BY <1>0, <1>4, Atoms DEF Restarts, Known
  <2>2. Held' = Held /\ Known' = Known
        BY <1>4 DEF Restarts, clientVars, historyVars, Held, Known
  <2> QED  BY <1>0, <2>1, <2>2 DEF UserInv, WorkersAreSafe, OnlyKnownUsers, Known
<1>5. CASE UNCHANGED vars
      BY <1>0, <1>5
      DEF vars, serverVars, clientVars, historyVars, UserInv, WorkersAreSafe,
          OnlyKnownUsers, Held, Known
<1> QED  BY <1>1, <1>2, <1>3, <1>4, <1>5 DEF Next, Quiet

(* Whatever becomes of tokens, no client is taken for a user whose         *)
(* password was not given (login.c:31-70, thread.c:12-97).                 *)
THEOREM NobodyIsImpersonated == Spec => []OnlyKnownUsers
<1>1. Init => UserInv
  <2> SUFFICES ASSUME Init
               PROVE  UserInv
      OBVIOUS
  <2>1. \A w \in Workers : token[w].user \in Known
        BY Atoms DEF Init, Known
  <2> QED  BY <2>1, InitHeld, InitTypes, Atoms
           DEF UserInv, WorkersAreSafe, OnlyKnownUsers, Known
<1>2. UserInv /\ [Next]_vars => UserInv'
      BY UserInvKept
<1>3. UserInv => OnlyKnownUsers
      BY DEF UserInv
<1> QED  BY <1>1, <1>2, <1>3, PTL DEF Spec

-----------------------------------------------------------------------------
(* Which keys tokens are signed with.  token_key is chosen once in a run,  *)
(* unless two workers find it default at the same time.                    *)

KeyOK(t) ==
    \/ t = Empty
    \/ t.key = MixedKey
    \/ configured /\ t.key = ConfigKey
    \/ /\ ~configured
       /\ \/ keyraced
          \/ t.key = token_key /\ token_key # DefaultKey
          \/ \E w \in Workers, r \in 1..MaxRuns : r < run /\ t.key = <<w, r>>

KeyIsChosenOnce ==
    /\ token_key \in {DefaultKey} \cup (IF configured THEN {ConfigKey} ELSE Workers \X {run})
    /\ ~keyraced => \A w \in Writers : token_key = DefaultKey /\ Writers = {w}
    /\ \A w \in Workers : pc[w] \in {"deal_key", "reply_key"} => token_key # DefaultKey
    /\ crashed => \A w \in Workers : pc[w] = "idle"

KeyInv == Types /\ KeyIsChosenOnce /\ \A t \in Held : KeyOK(t)

(* A worker signs with a key that was chosen.                              *)
LEMMA KeyAtHand ==
    ASSUME KeyInv, NEW w \in Workers, NEW k \in Keys, HasKey(w, "reply", k)
    PROVE  k = MixedKey \/ (k = token_key /\ token_key # DefaultKey)
BY DEF HasKey, KeysRead, NeedsKey, KeyInv, KeyIsChosenOnce

(* What a worker signs has a key that will verify it.                      *)
LEMMA MadeKeyOK ==
    ASSUME KeyInv, NEW w \in Workers
    PROVE  \A t \in Made(w) : KeyOK(t)
BY KeyAtHand DEF Made, Token, KeyOK, KeyInv, KeyIsChosenOnce

(* Steps other than those of get_token_key and of the process leave the    *)
(* choice alone; a worker that leaves "idle", "deal" or "reply" only does  *)
(* it with a key.                                                          *)
LEMMA ChoiceKept ==
    ASSUME KeyInv, Types', UNCHANGED <<configured, run, token_key, keyraced>>,
           \A v \in Workers : pc'[v] = pc[v] \/ pc'[v] \in {"idle", "deal", "reply"},
           crashed' => \A v \in Workers : pc'[v] = "idle"
    PROVE  KeyIsChosenOnce' /\ \A t \in Held : KeyOK(t)'
<1>1. Writers' \subseteq Writers
      BY DEF Writers
<1>2. KeyIsChosenOnce'
      BY <1>1 DEF KeyInv, KeyIsChosenOnce
<1>3. \A t \in Held : KeyOK(t)'
      BY DEF KeyInv, KeyOK
<1> QED  BY <1>2, <1>3

(* A worker begins to choose the key (get_token_key),                      *)
LEMMA ChoosesKeepsKeyInv ==
    ASSUME KeyInv, Types', NEW w \in Workers, ChoosesKey(w)
    PROVE  KeyIsChosenOnce' /\ \A t \in Held : KeyOK(t)'
<1>a. KeyIsChosenOnce /\ SessionTypeOK
      BY DEF KeyInv, Types
<1>1. Writers' = Writers \cup {w} /\ token_key = DefaultKey
      BY <1>a DEF ChoosesKey, NeedsKey, Writers, SessionTypeOK
<1>2. \A v \in Workers : pc'[v] \in {"deal_key", "reply_key"} => pc[v] = pc'[v]
      BY <1>a DEF ChoosesKey, SessionTypeOK
<1>3. ~keyraced' => ~keyraced /\ Writers = {}
      BY DEF ChoosesKey
<1>4. UNCHANGED <<configured, run, token_key, crashed>> /\ ~crashed
      BY DEF ChoosesKey
<1>5. KeyIsChosenOnce'
      BY <1>a, <1>1, <1>2, <1>3, <1>4 DEF KeyIsChosenOnce
<1>6. keyraced => keyraced'
      BY DEF ChoosesKey
<1>7. \A t \in Held : KeyOK(t)'
      BY <1>4, <1>6 DEF KeyInv, KeyOK
<1> QED  BY <1>5, <1>7

(* and writes it.                                                          *)
LEMMA WritesKeepsKeyInv ==
    ASSUME KeyInv, Types', NEW w \in Workers, WritesKey(w)
    PROVE  KeyIsChosenOnce' /\ \A t \in Held : KeyOK(t)'
<1>a. KeyIsChosenOnce /\ SessionTypeOK /\ w \in Writers
      BY DEF KeyInv, Types, WritesKey
<1>b. /\ UNCHANGED <<configured, run, keyraced, crashed>> /\ ~crashed
      /\ token_key' = NewKey(w)
      BY DEF WritesKey, historyVars
<1>1. Writers' = Writers \ {w}
      BY <1>a DEF WritesKey, Writers, SessionTypeOK
<1>2. NewKey(w) # DefaultKey
      BY <1>a, SessionAssumption DEF NewKey, SessionTypeOK
<1>3. KeyIsChosenOnce'
  <2>1. token_key' \in {DefaultKey}
                       \cup (IF configured' THEN {ConfigKey} ELSE Workers \X {run'})
        BY <1>b DEF NewKey
  <2>2. ~keyraced' => Writers' = {}
        BY <1>a, <1>b, <1>1 DEF KeyIsChosenOnce
  <2> QED  BY <1>b, <1>2, <2>1, <2>2 DEF KeyIsChosenOnce
<1>4. ~keyraced => token_key = DefaultKey
      BY <1>a DEF KeyIsChosenOnce
<1>5. \A t \in Held : KeyOK(t)'
      BY <1>4, <1>b DEF KeyInv, KeyOK
<1> QED  BY <1>3, <1>5

(* Every step keeps the keys of tokens good, until two workers choose one. *)
LEMMA KeyInvKept ==
    ASSUME KeyInv, [Next]_vars
    PROVE  KeyInv'
<1>a. Types /\ Types' /\ KeyIsChosenOnce /\ SessionTypeOK
      BY TypesKept DEF KeyInv, Types
<1>b. KeyOK(Empty)' /\ KeyOK(Torn)'
      BY Atoms DEF KeyOK, Empty
<1>c. ASSUME ServerDies
      PROVE  KeyInv'
  <2>1. KeyIsChosenOnce' /\ \A t \in Held : KeyOK(t)'
        BY <1>a, <1>c, ChoiceKept DEF ServerDies, KeyInv
  <2> QED  BY <1>a, <1>b, <1>c, <2>1, EndHeld DEF KeyInv
<1>1. ASSUME NEW c \in Clients, Client(c)
      PROVE  KeyInv'
  <2>1. UNCHANGED <<configured, run, token_key, keyraced, pc, crashed>>
        BY <1>1
        DEF Client, Enters, Entered, Sends, StartsTransfer, TransferSends,
            TransferGoesAhead, Clears, Stores, serverVars, historyVars
  <2>2. KeyIsChosenOnce' /\ \A t \in Held : KeyOK(t)'
        BY <1>a, <2>1, ChoiceKept DEF KeyIsChosenOnce
  <2> QED  BY <1>a, <1>b, <1>1, <2>2, ClientHeld DEF KeyInv
<1>2. ASSUME NEW w \in Workers, Worker(w)
      PROVE  KeyInv'
  <2>1. CASE Crashes(w)
        BY <1>c, <2>1 DEF Crashes
  <2>2. ASSUME KeyIsChosenOnce' /\ \A t \in Held : KeyOK(t)', Made(w) = {}
        PROVE  KeyInv'
        BY <1>a, <1>b, <1>2, <2>2, WorkerHeld DEF KeyInv
  <2>n. ASSUME Made(w) # {}
        PROVE  Replies(w)
        BY <2>n DEF Made
  <2>3. CASE ChoosesKey(w)
    <3>1. ~Replies(w)
          BY <1>a, <2>3 DEF ChoosesKey, Replies, SessionTypeOK
    <3> QED  BY <1>a, <2>2, <2>3, <2>n, <3>1, ChoosesKeepsKeyInv
  <2>4. CASE WritesKey(w)
    <3>1. ~Replies(w)
          BY <1>a, <2>4 DEF WritesKey, Replies, SessionTypeOK
    <3> QED  BY <1>a, <2>2, <2>4, <2>n, <3>1, WritesKeepsKeyInv
  <2>5. CASE \/ \E c \in Clients, e \in Ends : Takes(w, c, e)
             \/ Registers(w) \/ RegisterFails(w) \/ LoginMatches(w) \/ LoginFails(w)
             \/ SaysNothing(w) \/ ChangesDir(w) \/ Handles(w) \/ ServesTransfer(w)
             \/ Refuses(w) \/ Replies(w)
    <3>a. UNCHANGED <<configured, run, token_key, keyraced, crashed>> /\ ~crashed
          BY <2>5
          DEF Takes, Registers, RegisterFails, LoginMatches, LoginFails, SaysNothing,
              ChangesDir, Handles, ServesTransfer, Refuses, Replies, Answers,
              WithoutToken, Verified, At, historyVars
    <3>b. \/ pc' = [pc EXCEPT ![w] = "idle"]
          \/ pc' = [pc EXCEPT ![w] = "deal"]
          \/ pc' = [pc EXCEPT ![w] = "reply"]
          BY <2>5
          DEF Takes, Registers, RegisterFails, LoginMatches, LoginFails, SaysNothing,
              ChangesDir, Handles, ServesTransfer, Refuses, Replies, Answers
    <3>1. \A v \in Workers : pc'[v] = pc[v] \/ pc'[v] \in {"idle", "deal", "reply"}
          BY <1>a, <3>b DEF SessionTypeOK
    <3>2. KeyIsChosenOnce' /\ \A t \in Held : KeyOK(t)'
          BY <1>a, <3>a, <3>1, ChoiceKept
    <3>3. \A t \in Made(w) : KeyOK(t)'
          BY <3>a, MadeKeyOK DEF KeyOK
    <3> QED  BY <1>a, <1>b, <1>2, <3>2, <3>3, WorkerHeld DEF KeyInv
  <2> QED  BY <1>2, <2>1, <2>3, <2>4, <2>5 DEF Worker
<1>3. CASE ServerEnds
      BY <1>c, <1>3 DEF ServerEnds
<1>4. CASE Restarts
  <2>1. Held' = Held /\ run' = run + 1 /\ token_key' = DefaultKey
        BY <1>4 DEF Restarts, clientVars, Held
  <2>2. UNCHANGED <<configured, keyraced, pc>> /\ ~crashed'
        BY <1>4 DEF Restarts, historyVars
  <2>3. Writers' = {} /\ \A w \in Workers : pc'[w] = "idle"
        BY <1>a, <1>4, <2>2 DEF Restarts, KeyIsChosenOnce, Writers
  <2>4. KeyIsChosenOnce'
        BY <2>1, <2>2, <2>3 DEF KeyIsChosenOnce
  <2>5. ASSUME NEW t \in Held
        PROVE  KeyOK(t)'
    <3>1. run \in 1..MaxRuns /\ MaxRuns \in Nat
          BY <1>a, SessionAssumption DEF SessionTypeOK
    <3>2. ASSUME ~configured, token_key # DefaultKey
          PROVE  \E w \in Workers, r \in 1..MaxRuns : r < run' /\ token_key = <<w, r>>
          BY <1>a, <2>1, <3>1, <3>2 DEF KeyIsChosenOnce
    <3>3. ASSUME NEW r \in 1..MaxRuns, r < run
          PROVE  r < run'
          BY <2>1, <3>1, <3>3
    <3>4. KeyOK(t)
          BY DEF KeyInv
    <3> QED  BY <2>2, <3>2, <3>3, <3>4 DEF KeyOK
  <2> QED  BY <1>a, <2>1, <2>4, <2>5 DEF KeyInv
<1>5. CASE UNCHANGED vars
  <2>1. Held' = Held /\ Writers' = Writers
        BY <1>5 DEF vars, serverVars, clientVars, Held, Writers
  <2> QED  BY <1>a, <1>5, <2>1
           DEF vars, serverVars, historyVars, KeyInv, KeyIsChosenOnce, KeyOK
<1> QED  BY <1>1, <1>2, <1>3, <1>4, <1>5 DEF Next, Quiet

(* Tokens are signed with the key they will be verified with, as long as   *)
(* no two workers chose it at the same time: a configured key through all  *)
(* restarts, a random one in the run that made it (hash.c:250-270).        *)
THEOREM SignedWithOneKey == Spec => []KeysAgree
<1>1. Init => KeyInv
  <2> SUFFICES ASSUME Init
               PROVE  KeyInv
      OBVIOUS
  <2> QED  BY InitHeld, InitTypes DEF Init, KeyInv, KeyOK, KeyIsChosenOnce, Writers
<1>2. KeyInv /\ [Next]_vars => KeyInv'
      BY KeyInvKept
<1>3. KeyInv => KeysAgree
      BY DEF KeyInv, KeyOK, KeysAgree
<1> QED  BY <1>1, <1>2, <1>3, PTL DEF Spec

-----------------------------------------------------------------------------
(* Which user a client is.  Until a token is refused, every token is of    *)
(* the client in whose place it is; a string read in part may be under way *)
(* in a request, and is refused when it arrives.                           *)

Answering == {"reply", "reply_write", "reply_key"}

UserKept ==
    /\ \A c \in Clients : global_token[c].user \in {c, Nobody}
    /\ \A c \in Clients : \A e \in Ends :
          \/ mail[c][e].token.user \in {c, Nobody}
          \/ mail[c][e].state = "request" /\ mail[c][e].token = Torn
    /\ \A w \in Workers : pc[w] # "idle" =>
          job[w].token.user \in {job[w].client, Nobody} \/ job[w].token = Torn
    /\ \A w \in Workers : pc[w] \in Answering => token[w].user \in {job[w].client, Nobody}

(* What a client is about to store is an answer.                           *)
StoresAnswers ==
    \A c \in Clients :
        /\ loop[c] = "store" => Answered(c, "loop")
        /\ transfer[c] = "store" => Answered(c, "transfer")

KeepInv == KeyInv /\ StoresAnswers /\ (refused \/ UserKept)

(* A message that is put where a client does not store an answer, or is an *)
(* answer itself, and whose token is the client's.                         *)
LEMMA PutsKeeps ==
    ASSUME KeepInv, NEW c \in Clients, NEW e \in Ends, NEW m \in Mail, Puts(c, e, m),
           \/ refused
           \/ m.token.user \in {c, Nobody}
           \/ m.state = "request" /\ m.token = Torn
    PROVE  /\ refused \/ \A d \in Clients : \A f \in Ends :
                 \/ mail'[d][f].token.user \in {d, Nobody}
                 \/ mail'[d][f].state = "request" /\ mail'[d][f].token = Torn
           /\ \A d \in Clients : \A f \in Ends :
                 <<d, f>> # <<c, e>> => mail'[d][f].state = mail[d][f].state
           /\ m.state = "reply" => mail'[c][e].state = "reply"
<1>1. /\ \A d \in Clients : \A f \in Ends : <<d, f>> # <<c, e>> => mail'[d][f] = mail[d][f]
      /\ mail'[c][e] = m \/ mail'[c][e] = Closed
      /\ m.state # "request" => mail'[c][e] = m
      BY PutsType DEF KeepInv, KeyInv, Types
<1> QED  BY <1>1, Atoms DEF KeepInv, UserKept

(* A client that was not refused has its own user under way.               *)
LEMMA ClientKeepsUser ==
    ASSUME KeepInv, NEW c \in Clients, Client(c)
    PROVE  StoresAnswers' /\ (refused' \/ UserKept')
<1>a. Types /\ SessionTypeOK /\ StoresAnswers
      BY DEF KeepInv, KeyInv, Types
<1> USE DEF serverVars, historyVars
<1>s. UNCHANGED <<pc, job, token, refused>>
      BY DEF Client, Enters, Entered, Sends, StartsTransfer, TransferSends,
             TransferGoesAhead, Clears, Stores
<1>k. ASSUME refused \/ \A d \in Clients : global_token'[d].user \in {d, Nobody},
             refused \/ \A d \in Clients : \A f \in Ends :
                 \/ mail'[d][f].token.user \in {d, Nobody}
                 \/ mail'[d][f].state = "request" /\ mail'[d][f].token = Torn
      PROVE  refused' \/ UserKept'
      BY <1>s, <1>k DEF KeepInv, UserKept
<1>g. refused \/ \A d \in Clients : global_token[d].user \in {d, Nobody}
      BY DEF KeepInv, UserKept
<1>p. ASSUME NEW m \in Mail, Puts(c, "loop", m),
             refused \/ m.token.user \in {c, Nobody} \/ (m.state = "request" /\ m.token = Torn),
             loop'[c] # "store", \A d \in Clients : d # c => loop'[d] = loop[d],
             UNCHANGED transfer
      PROVE  StoresAnswers'
  <2>1. \A d \in Clients : \A f \in Ends :
           <<d, f>> # <<c, "loop">> => mail'[d][f].state = mail[d][f].state
        BY <1>p, PutsKeeps DEF Ends
  <2> QED  BY <1>a, <1>p, <2>1 DEF StoresAnswers, Answered, Ends
<1>q. ASSUME NEW m \in Mail, Puts(c, "transfer", m),
             refused \/ m.token.user \in {c, Nobody} \/ (m.state = "request" /\ m.token = Torn),
             transfer'[c] # "store", \A d \in Clients : d # c => transfer'[d] = transfer[d],
             UNCHANGED loop
      PROVE  StoresAnswers'
  <2>1. \A d \in Clients : \A f \in Ends :
           <<d, f>> # <<c, "transfer">> => mail'[d][f].state = mail[d][f].state
        BY <1>q, PutsKeeps DEF Ends
  <2> QED  BY <1>a, <1>q, <2>1 DEF StoresAnswers, Answered, Ends
<1>t. ASSUME NEW t \in TokenRead(c)
      PROVE  t \in Token /\ (refused \/ t.user \in {c, Nobody} \/ t = Torn)
      BY <1>a, <1>g, TokenReadType, Atoms
<1>r. ASSUME NEW e \in Ends, Answered(c, e)
      PROVE  refused \/ mail[c][e].token.user \in {c, Nobody}
      BY <1>r DEF Answered, KeepInv, UserKept
<1>1. ASSUME NEW cmd \in {"login", "register"}, Enters(c, cmd)
      PROVE  StoresAnswers' /\ (refused' \/ UserKept')
  <2> DEFINE m == Request(cmd, Home, Empty)
  <2>1. m \in Mail /\ m.token.user = Nobody
        BY Atoms, RequestType, SessionAssumption DEF Cmds, Request
  <2>2. Puts(c, "loop", m) /\ "loop" \in Ends
        BY <1>1 DEF Enters, Asks, Ends
  <2> HIDE DEF m
  <2>3. StoresAnswers'
        BY <1>1, <1>a, <2>1, <2>2, <1>p
        DEF Enters, SessionTypeOK
  <2> QED  BY <1>1, <1>g, <1>k, <2>1, <2>2, <2>3, PutsKeeps DEF Enters
<1>2. CASE Entered(c)
  <2>1. Puts(c, "loop", NoMail) /\ "loop" \in Ends /\ Answered(c, "loop")
        BY <1>2 DEF Entered, Ends
  <2>2. StoresAnswers'
        BY <1>2, <1>a, <2>1, <1>p, Atoms
        DEF Entered, SessionTypeOK
  <2>3. refused \/ \A d \in Clients : global_token'[d].user \in {d, Nobody}
        BY <1>2, <1>a, <1>g, <1>r, <2>1 DEF Entered, SessionTypeOK
  <2> QED  BY <1>k, <2>1, <2>2, <2>3, PutsKeeps, Atoms
<1>3. ASSUME NEW cmd \in {"ls", "mkdir", "cd"}, NEW d \in Dirs, Sends(c, cmd, d)
      PROVE  StoresAnswers' /\ (refused' \/ UserKept')
  <2>1. PICK t \in TokenRead(c) : Asks(c, "loop", Request(cmd, d, t))
        BY <1>3 DEF Sends
  <2> DEFINE m == Request(cmd, d, t)
  <2>2. m \in Mail /\ m.token = t /\ m.state = "request"
        BY <1>t, RequestType DEF Cmds, Request
  <2>3. Puts(c, "loop", m) /\ "loop" \in Ends
        BY <2>1 DEF Asks, Ends
  <2> HIDE DEF m
  <2>4. StoresAnswers'
        BY <1>3, <1>a, <1>t, <2>2, <2>3, <1>p
        DEF Sends, SessionTypeOK
  <2> QED  BY <1>3, <1>g, <1>k, <1>t, <2>2, <2>3, <2>4, PutsKeeps DEF Sends
<1>4. CASE StartsTransfer(c)
  <2>1. StoresAnswers'
        BY <1>4, <1>a DEF StartsTransfer, StoresAnswers, Answered, SessionTypeOK
  <2> QED  BY <1>4, <1>s, <2>1 DEF StartsTransfer, KeepInv, UserKept
<1>5. CASE TransferSends(c)
  <2>1. PICK t \in TokenRead(c) : Asks(c, "transfer", Request("puts", Home, t))
        BY <1>5 DEF TransferSends
  <2> DEFINE m == Request("puts", Home, t)
  <2>2. m \in Mail /\ m.token = t /\ m.state = "request"
        BY <1>t, RequestType, SessionAssumption DEF Cmds, Request
  <2>3. Puts(c, "transfer", m) /\ "transfer" \in Ends
        BY <2>1 DEF Asks, Ends
  <2> HIDE DEF m
  <2>4. StoresAnswers'
        BY <1>5, <1>a, <1>t, <2>2, <2>3, <1>q
        DEF TransferSends, SessionTypeOK
  <2> QED  BY <1>5, <1>g, <1>k, <1>t, <2>2, <2>3, <2>4, PutsKeeps DEF TransferSends
<1>6. CASE TransferGoesAhead(c)
  <2>1. Puts(c, "transfer", NoMail) /\ "transfer" \in Ends
        BY <1>6 DEF TransferGoesAhead, Ends
  <2>2. StoresAnswers'
        BY <1>6, <1>a, <2>1, <1>q, Atoms
        DEF TransferGoesAhead, SessionTypeOK
  <2> QED  BY <1>6, <1>g, <1>k, <2>1, <2>2, PutsKeeps, Atoms DEF TransferGoesAhead
<1>7. ASSUME NEW e \in Ends, Clears(c, e)
      PROVE  StoresAnswers' /\ (refused' \/ UserKept')
  <2>1. StoresAnswers'
        BY <1>7, <1>a DEF Clears, StoresAnswers, Answered, SessionTypeOK
  <2>2. \A d \in Clients : global_token'[d].user \in {global_token[d].user, Nobody}
        BY <1>7, <1>a, Atoms DEF Clears, SessionTypeOK
  <2> QED  BY <1>7, <1>s, <2>1, <2>2 DEF Clears, KeepInv, UserKept
<1>8. ASSUME NEW e \in Ends, Stores(c, e)
      PROVE  StoresAnswers' /\ (refused' \/ UserKept')
  <2>1. Puts(c, e, NoMail) /\ Answered(c, e)
        BY <1>8, <1>a DEF Stores, StoresAnswers
  <2>2. StoresAnswers'
        BY <1>8, <1>a, <2>1, <1>p, <1>q, Atoms
        DEF Stores, SessionTypeOK
  <2>3. refused \/ \A d \in Clients : global_token'[d].user \in {d, Nobody}
        BY <1>8, <1>a, <1>g, <1>r, <2>1 DEF Stores, SessionTypeOK
  <2> QED  BY <1>k, <2>1, <2>2, <2>3, PutsKeeps, Atoms
<1> QED  BY <1>1, <1>2, <1>3, <1>4, <1>5, <1>6, <1>7, <1>8, SessionAssumption DEF Client

(* What was answered can still be read when the server ends.               *)
LEMMA EndKeepsAnswers ==
    ASSUME StoresAnswers, ServerDies
    PROVE  StoresAnswers'
<1>1. \A c \in Clients : \A e \in Ends : Answered(c, e) => mail'[c][e] = mail[c][e]
      BY DEF ServerDies
<1>2. \A c \in Clients : \A e \in Ends : Answered(c, e) => Answered(c, e)'
      BY <1>1 DEF Answered
<1>3. UNCHANGED <<loop, transfer>> /\ "loop" \in Ends /\ "transfer" \in Ends
      BY DEF ServerDies, Ends
<1> QED  BY <1>2, <1>3 DEF StoresAnswers

(* A worker that is about to answer has its client's user at hand.         *)
LEMMA AnswersKeepUser ==
    ASSUME KeepInv, NEW w \in Workers, NEW info \in Info, NEW flag \in BOOLEAN,
           Answers(w, info, flag), pc[w] # "idle",
           refused' \/ (~refused /\ info.user \in {job[w].client, Nobody})
    PROVE  StoresAnswers' /\ (refused' \/ UserKept')
<1>a. SessionTypeOK
      BY DEF KeepInv, KeyInv, Types
<1>1. StoresAnswers'
      BY DEF Answers, clientVars, KeepInv, StoresAnswers, Answered
<1>2. \A v \in Workers : /\ job'[v].token = job[v].token /\ job'[v].client = job[v].client
                         /\ v # w => pc'[v] = pc[v] /\ token'[v] = token[v]
      BY <1>a DEF Answers, SessionTypeOK
<1>3. token'[w] = info
      BY <1>a DEF Answers, SessionTypeOK
<1>4. ASSUME ~refused'
      PROVE  UserKept'
      BY <1>2, <1>3, <1>4 DEF Answers, clientVars, KeepInv, UserKept
<1> QED  BY <1>1, <1>4

(* A worker answers a client with the user of its request.                 *)
LEMMA WorkerKeepsUser ==
    ASSUME KeepInv, NEW w \in Workers, Worker(w)
    PROVE  StoresAnswers' /\ (refused' \/ UserKept')
<1>a. /\ Types /\ SessionTypeOK /\ StoresAnswers /\ JobsAreClients
      /\ job[w] \in Job /\ token[w] \in Info
      BY DEF KeepInv, KeyInv, Types, SessionTypeOK
<1>w. ASSUME pc[w] # "idle"
      PROVE  /\ job[w].client \in Clients /\ job[w].end \in Ends /\ job[w].flag \in BOOLEAN
             /\ \/ refused
                \/ job[w].token.user \in {job[w].client, Nobody}
                \/ job[w].token = Torn
      BY <1>w, <1>a DEF JobsAreClients, Job, KeepInv, UserKept
<1>m. refused => refused'
      BY DEF Worker, Takes, ChoosesKey, WritesKey, Registers, RegisterFails, LoginMatches,
             LoginFails, SaysNothing, Crashes, ServerDies, ChangesDir, Handles,
             ServesTransfer, Refuses, Replies, WithoutToken, historyVars
<1>c. ASSUME UNCHANGED <<clientVars, job, token, refused>>,
             \A v \in Workers :
                /\ pc'[v] # "idle" => pc[v] # "idle"
                /\ pc'[v] \in Answering => pc[v] \in Answering
      PROVE  StoresAnswers' /\ (refused' \/ UserKept')
      BY <1>c DEF clientVars, KeepInv, StoresAnswers, Answered, UserKept
<1>1. ASSUME NEW c \in Clients, NEW e \in Ends, Takes(w, c, e)
      PROVE  StoresAnswers' /\ (refused' \/ UserKept')
  <2>1. Puts(c, e, NoMail) /\ mail[c][e].state = "request"
        BY <1>1 DEF Takes
  <2>2. StoresAnswers'
        BY <1>1, <1>a, <2>1, PutsKeeps, Atoms DEF Takes, StoresAnswers, Answered, Ends
  <2>3. \A v \in Workers : v # w => /\ job'[v] = job[v] /\ pc'[v] = pc[v]
        BY <1>1, <1>a DEF Takes, SessionTypeOK
  <2>4. /\ job'[w].client = c /\ job'[w].token = mail[c][e].token
        /\ pc'[w] = "deal" /\ UNCHANGED <<token, refused, global_token>>
        BY <1>1, <1>a DEF Takes, SessionTypeOK, historyVars
  <2>5. refused \/ \A d \in Clients : \A f \in Ends :
            \/ mail'[d][f].token.user \in {d, Nobody}
            \/ mail'[d][f].state = "request" /\ mail'[d][f].token = Torn
        BY <2>1, PutsKeeps, Atoms
  <2> QED  BY <2>2, <2>3, <2>4, <2>5 DEF KeepInv, UserKept, Answering
<1>2. CASE ChoosesKey(w)
      BY <1>2, <1>a, <1>c DEF ChoosesKey, SessionTypeOK, Answering
<1>3. CASE WritesKey(w)
      BY <1>3, <1>a, <1>c DEF WritesKey, Writers, historyVars, SessionTypeOK, Answering
<1>4. CASE Registers(w)
  <2>1. pc[w] # "idle" /\ [user |-> Account(w), dir |-> Home] \in Info
        BY <1>4, <1>a, AccountIsUser, SessionAssumption DEF Registers, WithoutToken, At, Info
  <2>2. refused' \/ (~refused /\ Account(w) = job[w].client)
        BY <1>4 DEF Registers, WithoutToken, Account
  <2> QED  BY <1>4, <2>1, <2>2, AnswersKeepUser DEF Registers
<1>5. CASE RegisterFails(w) \/ LoginFails(w)
  <2>1. pc[w] # "idle"
        BY <1>5 DEF RegisterFails, LoginFails, WithoutToken, At
  <2> QED  BY <1>5, <1>m, <2>1, Atoms, AnswersKeepUser DEF RegisterFails, LoginFails
<1>6. CASE LoginMatches(w)
  <2>1. pc[w] # "idle"
        BY <1>6 DEF LoginMatches, WithoutToken, At
  <2>2. [user |-> job[w].client, dir |-> Home] \in Info
        BY <1>w, <2>1, SessionAssumption DEF Info, Users
  <2> QED  BY <1>6, <1>m, <2>1, <2>2, AnswersKeepUser DEF LoginMatches
<1>v. ASSUME Verified(w)
      PROVE  /\ pc[w] # "idle"
             /\ Carried(w) \in Info /\ [Carried(w) EXCEPT !.dir = job[w].dir] \in Info
             /\ [Carried(w) EXCEPT !.dir = job[w].dir].user = Carried(w).user
             /\ refused \/ Carried(w).user \in {job[w].client, Nobody}
  <2>1. pc[w] # "idle"
        BY <1>v DEF Verified, HasKey
  <2>2. job[w].token # Torn
        BY <1>v, Atoms DEF Verified, Verifies
  <2>3. Carried(w) \in Info /\ Carried(w).user = job[w].token.user
        BY <1>a DEF Carried, Info, Token, Job
  <2>4. [Carried(w) EXCEPT !.dir = job[w].dir] \in Info
        BY <1>a, <2>3 DEF Info, Job
  <2>5. [Carried(w) EXCEPT !.dir = job[w].dir].user = Carried(w).user
        BY <2>3 DEF Info
  <2> QED  BY <1>w, <2>1, <2>2, <2>3, <2>4, <2>5
<1>7. CASE SaysNothing(w)
  <2>1. \A v \in Workers : v # w => job'[v] = job[v] /\ pc'[v] = pc[v]
        BY <1>7, <1>a DEF SaysNothing, SessionTypeOK
  <2>2. pc'[w] = "idle" /\ UNCHANGED <<clientVars, token>>
        BY <1>7, <1>a DEF SaysNothing, SessionTypeOK
  <2> QED  BY <1>m, <2>1, <2>2
           DEF clientVars, KeepInv, StoresAnswers, Answered, UserKept, Answering
<1>8. CASE Crashes(w)
      BY <1>8, <1>a, EndKeepsAnswers DEF Crashes, WithoutToken
<1>9. CASE ChangesDir(w)
      BY <1>9, <1>m, <1>v, AnswersKeepUser DEF ChangesDir
<1>10. CASE Handles(w)
      BY <1>10, <1>m, <1>v, AnswersKeepUser DEF Handles
<1>11. CASE Refuses(w)
  <2>1. pc[w] # "idle"
        BY <1>11 DEF Refuses, HasKey
  <2> QED  BY <1>11, <1>a, <2>1, AnswersKeepUser DEF Refuses
(* A worker that puts an answer and forgets the request.                   *)
<1>d. ASSUME NEW m \in Mail, pc[w] # "idle", Puts(job[w].client, job[w].end, m),
             m.state = "reply", refused \/ m.token.user \in {job[w].client, Nobody},
             pc' = [pc EXCEPT ![w] = "idle"], job' = [job EXCEPT ![w] = NoJob],
             UNCHANGED <<loop, transfer, global_token>>,
             \A v \in Workers : v # w => token'[v] = token[v]
      PROVE  StoresAnswers' /\ (refused' \/ UserKept')
  <2>1. StoresAnswers'
        BY <1>d, <1>w, <1>a, PutsKeeps DEF StoresAnswers, Answered, Ends
  <2>2. refused \/ \A d \in Clients : \A f \in Ends :
            \/ mail'[d][f].token.user \in {d, Nobody}
            \/ mail'[d][f].state = "request" /\ mail'[d][f].token = Torn
        BY <1>d, <1>w, PutsKeeps
  <2>3. /\ \A v \in Workers : v # w => job'[v] = job[v] /\ pc'[v] = pc[v]
        /\ pc'[w] = "idle"
        BY <1>d, <1>a DEF SessionTypeOK
  <2> QED  BY <1>d, <1>m, <2>1, <2>2, <2>3 DEF KeepInv, UserKept, Answering
<1>12. CASE ServesTransfer(w)
  <2> DEFINE m == [NoMail EXCEPT !.state = "reply", !.flag = TRUE]
  <2>1. m \in Mail /\ m.token = Empty /\ m.state = "reply"
        BY Atoms DEF Mail
  <2>2. Verified(w) /\ Puts(job[w].client, job[w].end, m)
        BY <1>12 DEF ServesTransfer
  <2> HIDE DEF m
  <2>3. \A v \in Workers : v # w => token'[v] = token[v]
        BY <1>12, <1>a DEF ServesTransfer, SessionTypeOK
  <2> QED  BY <1>12, <1>d, <1>v, <2>1, <2>2, <2>3, Atoms DEF ServesTransfer
<1>13. CASE Replies(w)
  <2> DEFINE m(t) == [NoMail EXCEPT !.state = "reply", !.token = t, !.flag = job[w].flag]
  <2>1. pc[w] \in Answering
        BY <1>13 DEF Replies, HasKey, Answering
  <2>2. refused \/ token[w].user \in {job[w].client, Nobody}
        BY <2>1 DEF KeepInv, UserKept
  <2>3. PICK t \in Token : /\ t.user = token[w].user
                           /\ Puts(job[w].client, job[w].end, m(t))
    <3>1. CASE pc[w] = "reply" /\ token[w].user = Nobody
               /\ Puts(job[w].client, job[w].end, m(Empty))
          BY <3>1, Atoms
    <3>2. ASSUME NEW k \in Keys,
                 Puts(job[w].client, job[w].end,
                      m([user |-> token[w].user, dir |-> token[w].dir, key |-> k]))
          PROVE  \E t \in Token : /\ t.user = token[w].user
                                  /\ Puts(job[w].client, job[w].end, m(t))
      <4> DEFINE u == [user |-> token[w].user, dir |-> token[w].dir, key |-> k]
      <4>1. u \in Token /\ u.user = token[w].user
            BY <1>a DEF Token, Info
      <4> QED  BY <3>2, <4>1
    <3> QED  BY <1>13, <3>1, <3>2 DEF Replies
  <2>4. pc[w] # "idle"
        BY <2>1 DEF Answering
  <2>5. m(t) \in Mail /\ m(t).token = t /\ m(t).state = "reply"
        BY <2>4, <1>w, Atoms DEF Mail
  <2> HIDE DEF m
  <2> QED  BY <1>13, <1>d, <2>2, <2>3, <2>4, <2>5 DEF Replies
<1> QED  BY <1>1, <1>2, <1>3, <1>4, <1>5, <1>6, <1>7, <1>8, <1>9, <1>10, <1>11, <1>12,
            <1>13 DEF Worker

(* Every step keeps a client's user its own.                               *)
LEMMA KeepInvKept ==
    ASSUME KeepInv, [Next]_vars
    PROVE  KeepInv'
<1>0. KeyInv' /\ (crashed => \A w \in Workers : pc[w] = "idle")
      BY KeyInvKept DEF KeepInv, KeyInv, KeyIsChosenOnce
<1>1. CASE ServerEnds
  <2>1. StoresAnswers'
        BY <1>1, EndKeepsAnswers DEF ServerEnds, KeepInv
  <2>2. \A d \in Clients : \A f \in Ends : mail'[d][f] \in {mail[d][f], Closed}
        BY <1>1 DEF ServerEnds, ServerDies
  <2>3. \A w \in Workers : pc'[w] = "idle"
        BY <1>1 DEF ServerEnds, ServerDies
  <2> QED  BY <1>0, <1>1, <2>1, <2>2, <2>3, Atoms
           DEF ServerEnds, ServerDies, KeepInv, UserKept, Answering
<1>2. CASE Restarts
      BY <1>0, <1>2
      DEF Restarts, clientVars, historyVars, KeepInv, StoresAnswers, Answered, UserKept,
          Answering
<1>3. CASE UNCHANGED vars
      BY <1>0, <1>3
      DEF vars, serverVars, clientVars, historyVars, KeepInv, StoresAnswers, Answered,
          UserKept
<1> QED  BY <1>0, <1>1, <1>2, <1>3, ClientKeepsUser, WorkerKeepsUser DEF Next, Quiet, KeepInv

(* As long as no token was missing or refused, a client is the user it     *)
(* logged in as, whoever the worker served before (thread.c:12-97).        *)
THEOREM ClientsKeepTheirUser == Spec => []KeepsUser
<1>1. Init => KeepInv
  <2> SUFFICES ASSUME Init
               PROVE  KeepInv
      OBVIOUS
  <2>1. KeyInv
        BY InitHeld, InitTypes DEF Init, KeyInv, KeyOK, KeyIsChosenOnce, Writers
  <2>2. UserKept /\ StoresAnswers
        BY Atoms DEF Init, UserKept, StoresAnswers, Answering
  <2> QED  BY <2>1, <2>2 DEF KeepInv
<1>2. KeepInv /\ [Next]_vars => KeepInv'
      BY KeepInvKept
<1>3. KeepInv => KeepsUser
      BY DEF KeepInv, UserKept, KeepsUser
<1> QED  BY <1>1, <1>2, <1>3, PTL DEF Spec

-----------------------------------------------------------------------------
(* Which directory a client is in.  Between a command and its answer the   *)
(* directory is on its way: in the request, in the worker's token_info, in *)
(* the answer.  It is one message or one worker at a time, so there is one *)
(* directory, and cd changes it where it then is.                          *)

(* Clients whose directory is kept: no token failed, no transfer has       *)
(* stored or is storing an answer, and the server is the one it knows.     *)
Kept == {c \in Clients : /\ ~refused /\ c \notin overwritten \cup cut
                         /\ transfer[c] # "store"}

(* What a client in the command loop has asked for.                        *)
Asked(c) == IF loop[c] = "sent" THEN {"ls", "mkdir", "cd"} ELSE {"login", "register"}
AsksNow(c) == loop[c] \in {"login", "register", "sent"}

(* The workers that have its command.                                      *)
Under(c) == {w \in Workers : /\ pc[w] # "idle"
                             /\ job[w].client = c /\ job[w].end = "loop"}

LoopFits(c) ==
    /\ loop[c] \in {"prompt", "login", "register"} => cwd[c] = Home
    /\ loop[c] = "ready" => global_token[c].dir = cwd[c]
    /\ loop[c] = "store" => mail[c]["loop"].state = "reply"

MailFits(c) ==
    LET m == mail[c]["loop"] IN
    /\ m.state = "request" => AsksNow(c) /\ m.cmd \in Asked(c) /\ m.token.dir = cwd[c]
    /\ m.state = "reply" => /\ AsksNow(c) \/ loop[c] = "store"
                            /\ m.token.dir = cwd[c]
                            /\ loop[c] \in {"sent", "store"} => ~m.flag
    /\ m.state # "closed"

JobFits(c) ==
    \A w \in Under(c) :
        /\ Under(c) = {w}
        /\ mail[c]["loop"].state = "none" /\ AsksNow(c) /\ job[w].cmd \in Asked(c)
        /\ pc[w] \notin Answering => job[w].token.dir = cwd[c]
        /\ pc[w] \in Answering =>
              /\ token[w].dir = cwd[c]
              /\ loop[c] = "sent" => ~job[w].flag /\ token[w].user # Nobody

(* A transfer asks for nothing else, so that it changes no directory.      *)
TransfersOnly ==
    /\ \A c \in Clients : mail[c]["transfer"].state = "request" =>
          mail[c]["transfer"].cmd = "puts"
    /\ \A w \in Workers : pc[w] # "idle" /\ job[w].end = "transfer" => job[w].cmd = "puts"

(* A token without a user is none.                                         *)
NobodysToken == \A t \in Held : t.user = Nobody => t = Empty

Fits(c) == LoopFits(c) /\ MailFits(c) /\ JobFits(c)

DirInv == /\ cwd \in [Clients -> Dirs]
          /\ TransfersOnly /\ NobodysToken
          /\ crashed => cut = Clients
          /\ \A c \in Kept : Fits(c)

(* A step that leaves a client's loop, its message and its worker alone    *)
(* leaves its directory where it is.                                       *)
LEMMA FitsAside ==
    ASSUME NEW c \in Clients, Fits(c),
           loop'[c] = loop[c], mail'[c]["loop"] = mail[c]["loop"], cwd'[c] = cwd[c],
           loop[c] = "ready" => global_token'[c] = global_token[c],
           Under(c)' = Under(c),
           \A w \in Under(c) : /\ job'[w] = job[w] /\ token'[w] = token[w]
                               /\ pc'[w] \in Answering <=> pc[w] \in Answering
    PROVE  Fits(c)'
<1>1. LoopFits(c)'
      BY DEF Fits, LoopFits
<1>2. MailFits(c)'
      BY DEF Fits, MailFits, Asked, AsksNow
<1>3. JobFits(c)'
      BY DEF Fits, JobFits, Asked, AsksNow
<1> QED  BY <1>1, <1>2, <1>3 DEF Fits

(* A client that waits for nothing has nothing under way, and one whose    *)
(* answer is there has no worker at it.                                    *)
LEMMA NothingUnder ==
    ASSUME Types, NEW c \in Clients, Fits(c),
           ~AsksNow(c) \/ mail[c]["loop"].state # "none"
    PROVE  Under(c) = {}
BY DEF Fits, JobFits

(* What a client does keeps the directory of every client.                 *)
LEMMA ClientKeepsDir ==
    ASSUME Types, DirInv, NEW c \in Clients, Client(c)
    PROVE  \A d \in Kept' : Fits(d)'
<1> USE DEF serverVars, historyVars
<1>a. SessionTypeOK /\ "loop" \in Ends /\ "transfer" \in Ends
      BY DEF Types, Ends
<1>s. UNCHANGED <<pc, job, token, refused, cut, cwd, crashed>>
      BY DEF Client, Enters, Asks, Entered, Sends, StartsTransfer, TransferSends,
             TransferGoesAhead, Clears, Stores
<1>u. \A d : Under(d)' = Under(d)
      BY <1>s DEF Under
<1>o. \A d \in Clients \ {c} :
         /\ loop'[d] = loop[d] /\ transfer'[d] = transfer[d]
         /\ global_token'[d] = global_token[d] /\ mail'[d] = mail[d]
      BY <1>a DEF SessionTypeOK, Client, Enters, Asks, Entered, Sends, StartsTransfer,
                  TransferSends, TransferGoesAhead, Clears, Stores, Puts
<1>w. overwritten \subseteq overwritten' /\ (transfer[c] = "store" => c \notin Kept')
      BY <1>a DEF SessionTypeOK, Client, Enters, Asks, Entered, Sends, StartsTransfer,
                  TransferSends, TransferGoesAhead, Clears, Stores, Kept
<1>k. Kept' \subseteq Kept
      BY <1>s, <1>o, <1>w DEF Kept
<1>2. \A d \in Kept' \ {c} : Fits(d)'
  <2> SUFFICES ASSUME NEW d \in Kept', d # c
               PROVE  Fits(d)'
      OBVIOUS
  <2>1. d \in Clients /\ Fits(d)
        BY <1>k DEF DirInv, Kept
  <2> QED  BY <1>s, <1>u, <1>o, <2>1, FitsAside
<1>3. ASSUME c \in Kept'
      PROVE  Fits(c)'
  <2>a. /\ Fits(c) /\ LoopFits(c) /\ MailFits(c) /\ JobFits(c)
        /\ c \notin cut /\ ~crashed /\ transfer[c] # "store" /\ c \in Kept
        BY <1>k, <1>3 DEF DirInv, Fits, Kept
  <2>p. ASSUME NEW m, Puts(c, "loop", m)
        PROVE  mail'[c]["loop"] = m
        BY <1>a, <2>a, <2>p DEF Puts, SessionTypeOK
  <2>n. ASSUME Under(c) = {}, LoopFits(c)', MailFits(c)'
        PROVE  Fits(c)'
        BY <1>u, <2>n DEF Fits, JobFits
  <2>m. NoMail.state = "none"
        BY Atoms
  <2>q. ASSUME ~AsksNow(c), loop[c] # "store"
        PROVE  Under(c) = {}
        BY <2>a, <2>q, NothingUnder
  <2>r. ASSUME Answered(c, "loop")
        PROVE  Under(c) = {} /\ mail[c]["loop"].state = "reply"
        BY <2>a, <2>r, NothingUnder DEF Answered, MailFits
  <2>1. ASSUME NEW cmd \in {"login", "register"}, Enters(c, cmd)
        PROVE  Fits(c)'
    <3>1. loop[c] = "prompt" /\ loop'[c] = cmd /\ Puts(c, "loop", Request(cmd, Home, Empty))
          BY <1>a, <2>1 DEF Enters, Asks, SessionTypeOK
    <3>2. mail'[c]["loop"] = Request(cmd, Home, Empty)
          BY <2>p, <3>1
    <3>3. Under(c) = {} /\ cwd[c] = Home
          BY <2>a, <2>q, <3>1 DEF LoopFits, AsksNow
    <3>4. Empty.dir = Home
          BY DEF Empty
    <3>5. LoopFits(c)' /\ MailFits(c)'
          BY <1>s, <3>1, <3>2, <3>3, <3>4 DEF LoopFits, MailFits, Request, Asked, AsksNow
    <3> QED  BY <2>n, <3>3, <3>5
  <2>2. CASE Entered(c)
    <3>1. /\ loop[c] \in {"login", "register"} /\ Answered(c, "loop")
          /\ mail'[c]["loop"] = NoMail
          /\ \/ loop'[c] = "prompt"
             \/ loop'[c] = "ready" /\ global_token'[c] = mail[c]["loop"].token
          BY <1>a, <2>p, <2>2 DEF Entered, SessionTypeOK
    <3>2. /\ Under(c) = {} /\ cwd[c] = Home /\ mail[c]["loop"].token.dir = cwd[c]
          BY <2>a, <2>r, <3>1 DEF LoopFits, MailFits
    <3>3. LoopFits(c)' /\ MailFits(c)'
          BY <1>s, <2>m, <3>1, <3>2 DEF LoopFits, MailFits
    <3> QED  BY <2>n, <3>2, <3>3
  <2>3. ASSUME NEW cmd \in {"ls", "mkdir", "cd"}, NEW d \in Dirs, Sends(c, cmd, d)
        PROVE  Fits(c)'
    <3>1. /\ loop[c] = "ready" /\ loop'[c] = "sent"
          /\ \E t \in TokenRead(c) : Puts(c, "loop", Request(cmd, d, t))
          BY <1>a, <2>3 DEF Sends, Asks, SessionTypeOK
    <3>2. mail'[c]["loop"] = Request(cmd, d, global_token[c])
          BY <2>a, <2>p, <3>1 DEF TokenRead
    <3>3. Under(c) = {} /\ global_token[c].dir = cwd[c]
          BY <2>a, <2>q, <3>1 DEF LoopFits, AsksNow
    <3>4. LoopFits(c)' /\ MailFits(c)'
          BY <1>s, <3>1, <3>2, <3>3 DEF LoopFits, MailFits, Request, Asked, AsksNow
    <3> QED  BY <2>n, <3>3, <3>4
  <2>4. CASE StartsTransfer(c) \/ TransferSends(c) \/ TransferGoesAhead(c)
    <3>1. /\ UNCHANGED <<loop, global_token>>
          /\ mail'[c]["loop"] = mail[c]["loop"]
          BY <1>a, <2>4 DEF StartsTransfer, TransferSends, TransferGoesAhead, Asks, Puts,
                            SessionTypeOK
    <3> QED  BY <1>s, <1>u, <2>a, <3>1, FitsAside
  <2>5. ASSUME NEW e \in Ends, Clears(c, e)
        PROVE  Fits(c)'
    <3>1. e = "loop"
          BY <1>a, <1>3, <2>5 DEF Clears, Kept, Ends, SessionTypeOK
    <3>2. /\ loop[c] = "sent" /\ loop'[c] = "store" /\ Answered(c, "loop")
          /\ mail' = mail
          BY <1>a, <2>5, <3>1 DEF Clears, SessionTypeOK
    <3>3. LoopFits(c)' /\ MailFits(c)'
          BY <1>s, <2>a, <2>r, <3>2 DEF LoopFits, MailFits, AsksNow
    <3> QED  BY <2>n, <2>r, <3>2, <3>3
  <2>6. ASSUME NEW e \in Ends, Stores(c, e)
        PROVE  Fits(c)'
    <3>1. e = "loop"
          BY <1>a, <1>3, <2>6 DEF Stores, Kept, Ends
    <3>2. /\ loop[c] = "store" /\ mail'[c]["loop"] = NoMail
          /\ loop'[c] = IF mail[c]["loop"].flag THEN "sent" ELSE "ready"
          /\ global_token'[c] = mail[c]["loop"].token
          BY <1>a, <2>p, <2>6, <3>1 DEF Stores, SessionTypeOK
    <3>3. /\ mail[c]["loop"].state = "reply" /\ ~mail[c]["loop"].flag
          /\ mail[c]["loop"].token.dir = cwd[c] /\ Under(c) = {}
          BY <2>a, <2>r, <3>2 DEF LoopFits, MailFits, Answered
    <3>4. LoopFits(c)' /\ MailFits(c)'
          BY <1>s, <2>m, <3>2, <3>3 DEF LoopFits, MailFits
    <3> QED  BY <2>n, <3>3, <3>4
  <2> QED  BY <2>1, <2>2, <2>3, <2>4, <2>5, <2>6, SessionAssumption DEF Client
<1> QED  BY <1>2, <1>3

(* A worker that is about to answer a client has its directory.            *)
LEMMA AnswersKeepDir ==
    ASSUME Types, DirInv, NEW w \in Workers, NEW info \in Info, NEW flag \in BOOLEAN,
           Answers(w, info, flag), pc[w] # "idle", pc[w] \notin Answering,
           Kept' \subseteq Kept,
           \A d \in Clients : (d = job[w].client /\ job[w].end = "loop") \/ cwd'[d] = cwd[d],
           job[w].end = "loop" /\ job[w].client \in Kept' =>
              LET c == job[w].client IN
              /\ info.dir = cwd'[c]
              /\ loop[c] = "sent" => ~flag /\ info.user # Nobody
              /\ loop[c] = "sent" \/ cwd'[c] = cwd[c]
    PROVE  \A d \in Kept' : Fits(d)'
<1> SUFFICES ASSUME NEW d \in Kept'
             PROVE  Fits(d)'
    OBVIOUS
<1>a. SessionTypeOK /\ d \in Clients /\ Fits(d)
      BY DEF Types, DirInv, Kept
<1>1. /\ \A v \in Workers : job'[v].client = job[v].client /\ job'[v].end = job[v].end
      /\ \A v \in Workers \ {w} : pc'[v] = pc[v] /\ job'[v] = job[v] /\ token'[v] = token[v]
      /\ pc'[w] = "reply" /\ token'[w] = info /\ job'[w].flag = flag /\ job'[w].cmd = job[w].cmd
      /\ UNCHANGED <<mail, loop, global_token>>
      BY <1>a DEF Answers, SessionTypeOK, Job, clientVars
<1>2. Under(d)' = Under(d)
      BY <1>1 DEF Under
<1>3. CASE w \notin Under(d)
  <2>1. cwd'[d] = cwd[d]
        BY <1>a, <1>3 DEF Under
  <2> QED  BY <1>a, <1>1, <1>2, <1>3, <2>1, FitsAside DEF Under
<1>4. CASE w \in Under(d)
  <2>1. /\ d = job[w].client /\ job[w].end = "loop" /\ Under(d) = {w}
        /\ mail[d]["loop"].state = "none" /\ AsksNow(d) /\ job[w].cmd \in Asked(d)
        BY <1>a, <1>4 DEF Under, Fits, JobFits
  <2>2. /\ info.dir = cwd'[d]
        /\ loop[d] = "sent" => ~flag /\ info.user # Nobody
        /\ loop[d] = "sent" \/ cwd'[d] = cwd[d]
        BY <2>1
  <2>3. LoopFits(d)'
        BY <1>a, <1>1, <2>1, <2>2 DEF Fits, LoopFits, AsksNow
  <2>4. MailFits(d)'
        BY <1>1, <2>1 DEF MailFits
  <2>5. JobFits(d)'
        BY <1>1, <1>2, <2>1, <2>2 DEF JobFits, AsksNow, Asked, Answering
  <2> QED  BY <2>3, <2>4, <2>5 DEF Fits
<1> QED  BY <1>3, <1>4

(* What a worker does keeps it.                                            *)
LEMMA WorkerKeepsDir ==
    ASSUME Types, DirInv, NEW w \in Workers, Worker(w)
    PROVE  \A d \in Kept' : Fits(d)'
<1>a. /\ SessionTypeOK /\ "loop" \in Ends /\ "transfer" \in Ends
      /\ job[w] \in Job /\ token[w] \in Info
      BY DEF Types, SessionTypeOK, Ends
<1>k. Kept' \subseteq Kept
  <2>1. refused => refused'
        BY DEF Worker, Takes, ChoosesKey, WritesKey, Registers, RegisterFails, LoginMatches,
               LoginFails, SaysNothing, Crashes, ServerDies, ChangesDir, Handles,
               ServesTransfer, Refuses, Replies, WithoutToken, historyVars
  <2>2. UNCHANGED <<overwritten, transfer>> /\ (cut' = cut \/ cut' = Clients)
        BY DEF Worker, Takes, ChoosesKey, WritesKey, Registers, RegisterFails, LoginMatches,
               LoginFails, SaysNothing, Crashes, ServerDies, ChangesDir, Handles,
               ServesTransfer, Refuses, Replies, Answers, clientVars, historyVars
  <2> QED  BY <2>1, <2>2 DEF Kept
<1>f. \A d \in Kept' : d \in Clients /\ Fits(d) /\ LoopFits(d) /\ MailFits(d) /\ JobFits(d)
      BY <1>k DEF DirInv, Kept, Fits
<1>r. ~refused' \/ Kept' = {}
      BY DEF Kept
<1>j. ASSUME pc[w] # "idle"
      PROVE  job[w].client \in Clients /\ job[w].end \in Ends /\ job[w].flag \in BOOLEAN
      BY <1>a, <1>j DEF Types, JobsAreClients, Job
(* the worker's client, when it is one whose directory is kept             *)
<1>c. ASSUME pc[w] # "idle", job[w].end = "loop", job[w].client \in Kept'
      PROVE  /\ w \in Under(job[w].client) /\ Under(job[w].client) = {w}
             /\ AsksNow(job[w].client) /\ job[w].cmd \in Asked(job[w].client)
             /\ pc[w] \notin Answering => job[w].token.dir = cwd[job[w].client]
             /\ pc[w] \in Answering =>
                   /\ token[w].dir = cwd[job[w].client]
                   /\ loop[job[w].client] = "sent" => ~job[w].flag /\ token[w].user # Nobody
             /\ loop[job[w].client] # "sent" => cwd[job[w].client] = Home
      BY <1>c, <1>f DEF Under, JobFits, LoopFits, AsksNow
(* steps that only move the worker on                                      *)
<1>m. ASSUME UNCHANGED <<clientVars, job, token, cwd>>,
             \A v \in Workers : /\ pc'[v] # "idle" <=> pc[v] # "idle"
                                /\ pc'[v] \in Answering <=> pc[v] \in Answering
      PROVE  \A d \in Kept' : Fits(d)'
  <2>1. \A d : Under(d)' = Under(d)
    <3>1. \A v \in Workers : (pc'[v] # "idle") <=> (pc[v] # "idle")
          BY <1>m
    <3>2. job' = job
          BY <1>m
    <3> QED  BY <3>1, <3>2 DEF Under
  <2>2. UNCHANGED <<mail, loop, global_token, cwd, job, token>>
        BY <1>m DEF clientVars
  <2>3. \A d : \A v \in Under(d) : (pc'[v] \in Answering) <=> (pc[v] \in Answering)
        BY <1>m DEF Under
  <2> QED  BY <1>f, <2>1, <2>2, <2>3, FitsAside
(* steps after which the worker has no request                             *)
<1>e. ASSUME pc' = [pc EXCEPT ![w] = "idle"], job' = [job EXCEPT ![w] = NoJob]
      PROVE  /\ \A d : Under(d)' = Under(d) \ {w}
             /\ \A v \in Workers \ {w} : pc'[v] = pc[v] /\ job'[v] = job[v]
      BY <1>a, <1>e DEF Under, SessionTypeOK
<1>1. ASSUME NEW c \in Clients, NEW e \in Ends, Takes(w, c, e)
      PROVE  \A d \in Kept' : Fits(d)'
  <2> SUFFICES ASSUME NEW d \in Kept'
               PROVE  Fits(d)'
      OBVIOUS
  <2>1. /\ pc[w] = "idle" /\ pc'[w] = "deal" /\ mail[c][e].state = "request"
        /\ job'[w].client = c /\ job'[w].end = e /\ job'[w].cmd = mail[c][e].cmd
        /\ job'[w].token = mail[c][e].token /\ Puts(c, e, NoMail)
        /\ \A v \in Workers \ {w} : job'[v] = job[v] /\ pc'[v] = pc[v]
        /\ UNCHANGED <<token, global_token, loop, cwd>>
        BY <1>1, <1>a DEF Takes, At, SessionTypeOK, historyVars
  <2>2. CASE d = c /\ e = "loop"
    <3>1. Under(d) = {} /\ mail[d]["loop"].state = "request" /\ AsksNow(d)
          BY <1>f, <2>1, <2>2, NothingUnder DEF MailFits
    <3>2. Under(d)' = {w}
          BY <2>1, <2>2, <3>1 DEF Under
    <3>3. mail'[d]["loop"] = NoMail /\ NoMail.state = "none"
          BY <1>a, <2>1, <2>2, PutsType, Atoms
    <3>4. LoopFits(d)' /\ MailFits(d)'
          BY <1>f, <2>1, <3>1, <3>3 DEF LoopFits, MailFits, AsksNow
    <3>5. JobFits(d)'
          BY <1>f, <2>1, <2>2, <3>1, <3>2, <3>3 DEF JobFits, MailFits, AsksNow, Asked, Answering
    <3> QED  BY <3>4, <3>5 DEF Fits
  <2>3. CASE ~(d = c /\ e = "loop")
    <3>1. Under(d)' = Under(d) /\ w \notin Under(d)
          BY <2>1, <2>3 DEF Under
    <3>2. mail'[d]["loop"] = mail[d]["loop"]
          BY <1>a, <1>f, <2>1, <2>3, PutsType, Atoms
    <3> QED  BY <1>f, <2>1, <3>1, <3>2, FitsAside DEF Under
  <2> QED  BY <2>2, <2>3
<1>2. CASE ChoosesKey(w)
  <2>1. \A v \in Workers : /\ pc'[v] # "idle" <=> pc[v] # "idle"
                           /\ pc'[v] \in Answering <=> pc[v] \in Answering
        BY <1>2, <1>a DEF ChoosesKey, SessionTypeOK, Answering
  <2> QED  BY <1>2, <1>m, <2>1 DEF ChoosesKey
<1>3. CASE WritesKey(w)
  <2>1. \A v \in Workers : /\ pc'[v] # "idle" <=> pc[v] # "idle"
                           /\ pc'[v] \in Answering <=> pc[v] \in Answering
        BY <1>3, <1>a DEF WritesKey, Writers, SessionTypeOK, Answering
  <2> QED  BY <1>3, <1>m, <2>1 DEF WritesKey, historyVars
(* check_user_login: an answer to a login or a registration                *)
<1>l. ASSUME NEW cmds, WithoutToken(w, cmds)
      PROVE  /\ pc[w] # "idle" /\ pc[w] \notin Answering
             /\ job[w].end = "loop" /\ job[w].client \in Kept' =>
                   loop[job[w].client] # "sent" /\ cwd[job[w].client] = Home
  <2>1. pc[w] # "idle" /\ pc[w] \notin Answering
        BY <1>l DEF WithoutToken, At, Answering
  <2>2. job[w].cmd \in {"login", "register"} \/ refused'
        BY <1>l DEF WithoutToken
  <2> QED  BY <1>c, <1>r, <2>1, <2>2 DEF Asked
<1>4. CASE Registers(w)
  <2>1. [user |-> Account(w), dir |-> Home] \in Info
        BY <1>4, AccountIsUser, SessionAssumption DEF Registers, WithoutToken, At, Info
  <2> QED  BY <1>4, <1>k, <1>l, <2>1, AnswersKeepDir DEF Registers
<1>5. CASE RegisterFails(w) \/ LoginFails(w)
  <2>1. Zero.dir = Home
        BY DEF Zero
  <2> QED  BY <1>5, <1>k, <1>l, <2>1, Atoms, AnswersKeepDir DEF RegisterFails, LoginFails
<1>6. CASE LoginMatches(w)
  <2>1. [user |-> job[w].client, dir |-> Home] \in Info
        BY <1>6, <1>j, <1>l, SessionAssumption DEF LoginMatches, Info, Users
  <2> QED  BY <1>6, <1>k, <1>l, <2>1, AnswersKeepDir DEF LoginMatches
<1>7. CASE SaysNothing(w) \/ Crashes(w) \/ Refuses(w)
  <2>1. refused'
        BY <1>7 DEF SaysNothing, Crashes, Refuses, WithoutToken
  <2> QED  BY <1>r, <2>1
(* verify_token                                                            *)
<1>v. ASSUME Verified(w)
      PROVE  /\ pc[w] # "idle" /\ pc[w] \notin Answering
             /\ Carried(w) \in Info /\ Carried(w).user # Nobody
             /\ Carried(w).dir = job[w].token.dir
             /\ [Carried(w) EXCEPT !.dir = job[w].dir] \in Info
             /\ [Carried(w) EXCEPT !.dir = job[w].dir].user = Carried(w).user
             /\ [Carried(w) EXCEPT !.dir = job[w].dir].dir = job[w].dir
  <2>1. pc[w] # "idle" /\ pc[w] \notin Answering /\ job[w].token # Empty
        BY <1>v DEF Verified, HasKey, Answering
  <2>2. job[w].token \in Token /\ job[w].dir \in Dirs
        BY <1>a DEF Job
  <2>3. job[w].token.user # Nobody
        BY <2>1, HeldType DEF DirInv, NobodysToken
  <2>4. Carried(w) \in Info /\ Carried(w).user = job[w].token.user
        /\ Carried(w).dir = job[w].token.dir
        BY <2>2 DEF Carried, Info, Token
  <2> QED  BY <2>1, <2>2, <2>3, <2>4 DEF Info
<1>8. CASE ChangesDir(w)
  <2> DEFINE c == job[w].client
             info == [Carried(w) EXCEPT !.dir = job[w].dir]
  <2>1. /\ Verified(w) /\ Answers(w, info, FALSE) /\ job[w].cmd = "cd"
        /\ cwd' = [cwd EXCEPT ![c] = job[w].dir]
        BY <1>8 DEF ChangesDir
  <2>2. job[w].end = "loop" /\ c \in Clients
        BY <1>j, <1>v, <2>1 DEF DirInv, TransfersOnly, Ends
  <2>3. ASSUME c \in Kept'
        PROVE  loop[c] = "sent"
        BY <1>c, <1>v, <2>1, <2>2, <2>3 DEF Asked, AsksNow
  <2>4. \A d \in Clients : d = c \/ cwd'[d] = cwd[d]
        BY <2>1
  <2>5. cwd'[c] = job[w].dir
        BY <2>1, <2>2 DEF DirInv
  <2>6. info \in Info /\ info.dir = job[w].dir /\ info.user # Nobody /\ pc[w] # "idle"
        /\ pc[w] \notin Answering
        BY <1>v, <2>1
  <2> HIDE DEF info
  <2> QED  BY <1>k, <2>1, <2>2, <2>3, <2>4, <2>5, <2>6, AnswersKeepDir
<1>9. CASE Handles(w)
  <2>1. Verified(w) /\ Answers(w, Carried(w), FALSE) /\ UNCHANGED cwd
        BY <1>9 DEF Handles
  <2> QED  BY <1>c, <1>k, <1>v, <2>1, AnswersKeepDir
<1>10. CASE ServesTransfer(w)
  <2>1. /\ Verified(w) /\ job[w].cmd = "puts"
        /\ Puts(job[w].client, job[w].end, [NoMail EXCEPT !.state = "reply", !.flag = TRUE])
        /\ pc' = [pc EXCEPT ![w] = "idle"] /\ job' = [job EXCEPT ![w] = NoJob]
        /\ UNCHANGED <<loop, global_token, cwd>>
        /\ \A v \in Workers \ {w} : token'[v] = token[v]
        BY <1>10, <1>a DEF ServesTransfer, historyVars, SessionTypeOK
  <2>2. [NoMail EXCEPT !.state = "reply", !.flag = TRUE] \in Mail
        BY Atoms DEF Mail
  <2> SUFFICES ASSUME NEW d \in Kept'
               PROVE  Fits(d)'
      OBVIOUS
  <2>3. ~(job[w].client = d /\ job[w].end = "loop")
        BY <1>c, <1>v, <2>1 DEF Asked
  <2>4. mail'[d]["loop"] = mail[d]["loop"]
        BY <1>a, <1>f, <1>j, <1>v, <2>1, <2>2, <2>3, PutsType
  <2>5. Under(d)' = Under(d) /\ w \notin Under(d)
        BY <1>e, <2>1, <2>3 DEF Under
  <2> QED  BY <1>e, <1>f, <2>1, <2>4, <2>5, FitsAside DEF Under
<1>11. CASE Replies(w)
  <2> DEFINE m(t) == [NoMail EXCEPT !.state = "reply", !.token = t, !.flag = job[w].flag]
             u(k) == [user |-> token[w].user, dir |-> token[w].dir, key |-> k]
  <2>1. /\ pc[w] # "idle" /\ pc[w] \in Answering
        /\ pc' = [pc EXCEPT ![w] = "idle"] /\ job' = [job EXCEPT ![w] = NoJob]
        /\ UNCHANGED <<loop, global_token, cwd, token>>
        BY <1>11 DEF Replies, HasKey, Answering, historyVars
  <2>2. PICK t \in Token : /\ Puts(job[w].client, job[w].end, m(t))
                           /\ t.dir = token[w].dir \/ (token[w].user = Nobody /\ t = Empty)
    <3>1. CASE token[w].user = Nobody /\ Puts(job[w].client, job[w].end, m(Empty))
          BY <3>1, Atoms
    <3>2. ASSUME NEW k \in Keys, Puts(job[w].client, job[w].end, m(u(k)))
          PROVE  \E t \in Token : /\ Puts(job[w].client, job[w].end, m(t))
                                  /\ t.dir = token[w].dir
      <4>1. u(k) \in Token /\ u(k).dir = token[w].dir
            BY <1>a DEF Token, Info
      <4> QED  BY <3>2, <4>1
    <3> QED  BY <1>11, <3>1, <3>2 DEF Replies
  <2>3. m(t) \in Mail /\ m(t).token = t /\ m(t).state = "reply" /\ m(t).flag = job[w].flag
        BY <1>j, <2>1, Atoms DEF Mail
  <2> HIDE DEF m
  <2> SUFFICES ASSUME NEW d \in Kept'
               PROVE  Fits(d)'
      OBVIOUS
  <2>4. CASE job[w].client = d /\ job[w].end = "loop"
    <3>1. Under(d)' = {} /\ mail'[d]["loop"] = m(t)
          BY <1>a, <1>c, <1>e, <1>f, <2>1, <2>2, <2>3, <2>4, PutsType
    <3>2. t.dir = cwd[d]
          BY <1>c, <2>1, <2>2, <2>4 DEF Empty
    <3>3. LoopFits(d)' /\ MailFits(d)'
          BY <1>c, <1>f, <2>1, <2>3, <2>4, <3>1, <3>2 DEF LoopFits, MailFits, AsksNow
    <3> QED  BY <3>1, <3>3 DEF Fits, JobFits
  <2>5. CASE ~(job[w].client = d /\ job[w].end = "loop")
    <3>1. mail'[d]["loop"] = mail[d]["loop"]
          BY <1>a, <1>f, <1>j, <2>1, <2>2, <2>3, <2>5, PutsType
    <3>2. Under(d)' = Under(d) /\ w \notin Under(d)
          BY <1>e, <2>1, <2>5 DEF Under
    <3> QED  BY <1>e, <1>f, <2>1, <3>1, <3>2, FitsAside DEF Under
  <2> QED  BY <2>4, <2>5
<1> QED  BY <1>1, <1>2, <1>3, <1>4, <1>5, <1>6, <1>7, <1>8, <1>9, <1>10, <1>11 DEF Worker

(* A transfer connection carries requests for transfers only.              *)
LEMMA TransfersOnlyKept ==
    ASSUME Types, TransfersOnly, [Next]_vars
    PROVE  TransfersOnly'
<1>a. SessionTypeOK /\ "transfer" \in Ends /\ "loop" \in Ends
      BY DEF Types, Ends
<1>p. ASSUME NEW c \in Clients, NEW e \in Ends, NEW m \in Mail, Puts(c, e, m),
             e = "transfer" /\ m.state = "request" => m.cmd = "puts"
      PROVE  \A d \in Clients : mail'[d]["transfer"].state = "request" =>
                mail'[d]["transfer"].cmd = "puts"
      BY <1>a, <1>p, PutsType, Atoms DEF TransfersOnly
<1>n. NoMail \in Mail /\ NoMail.state = "none" /\ Closed.state = "closed"
      BY Atoms
<1>e. ASSUME \A w \in Workers : pc'[w] # "idle" => /\ pc[w] # "idle"
                                                   /\ job'[w].end = job[w].end
                                                   /\ job'[w].cmd = job[w].cmd
      PROVE  \A w \in Workers : pc'[w] # "idle" /\ job'[w].end = "transfer" =>
                job'[w].cmd = "puts"
      BY <1>e DEF TransfersOnly
<1>d. ASSUME ServerDies
      PROVE  TransfersOnly'
  <2>1. \A c \in Clients : mail'[c]["transfer"] \in {mail[c]["transfer"], Closed}
        BY <1>a, <1>d DEF ServerDies
  <2>2. \A w \in Workers : pc'[w] = "idle"
        BY <1>d DEF ServerDies
  <2> QED  BY <1>n, <2>1, <2>2 DEF TransfersOnly
<1>1. ASSUME NEW c \in Clients, Client(c)
      PROVE  TransfersOnly'
  <2>1. UNCHANGED <<pc, job>>
        BY <1>1 DEF Client, Enters, Entered, Sends, StartsTransfer, TransferSends,
                    TransferGoesAhead, Clears, Stores, serverVars
  <2>2. \A d \in Clients : mail'[d]["transfer"].state = "request" =>
           mail'[d]["transfer"].cmd = "puts"
    <3>1. CASE \E cmd \in {"login", "register"} : Enters(c, cmd)
      <4>1. PICK cmd \in {"login", "register"} : Puts(c, "loop", Request(cmd, Home, Empty))
            BY <3>1 DEF Enters, Asks
      <4>2. Request(cmd, Home, Empty) \in Mail
            BY RequestType, Atoms, SessionAssumption DEF Cmds
      <4> QED  BY <1>a, <1>p, <4>1, <4>2
    <3>2. CASE \E cmd \in {"ls", "mkdir", "cd"}, d \in Dirs : Sends(c, cmd, d)
      <4>1. PICK cmd \in {"ls", "mkdir", "cd"}, d \in Dirs, t \in TokenRead(c) :
               Puts(c, "loop", Request(cmd, d, t))
            BY <3>2 DEF Sends, Asks
      <4>2. Request(cmd, d, t) \in Mail
            BY <1>a, TokenReadType, RequestType DEF Cmds
      <4> QED  BY <1>a, <1>p, <4>1, <4>2
    <3>3. CASE TransferSends(c)
      <4>1. PICK t \in TokenRead(c) : Puts(c, "transfer", Request("puts", Home, t))
            BY <3>3 DEF TransferSends, Asks
      <4>2. Request("puts", Home, t) \in Mail /\ Request("puts", Home, t).cmd = "puts"
            BY <1>a, TokenReadType, RequestType, SessionAssumption DEF Cmds, Request
      <4> QED  BY <1>a, <1>p, <4>1, <4>2
    <3>4. CASE \/ Entered(c) \/ TransferGoesAhead(c)
               \/ \E e \in Ends : Stores(c, e)
      <4>1. PICK e \in Ends : Puts(c, e, NoMail)
            BY <1>a, <3>4 DEF Entered, TransferGoesAhead, Stores
      <4> QED  BY <1>n, <1>p, <4>1
    <3>5. CASE StartsTransfer(c) \/ \E e \in Ends : Clears(c, e)
          BY <3>5 DEF StartsTransfer, Clears, TransfersOnly
    <3> QED  BY <1>1, <3>1, <3>2, <3>3, <3>4, <3>5, SessionAssumption DEF Client
  <2> QED  BY <1>e, <2>1, <2>2 DEF TransfersOnly
<1>2. ASSUME NEW w \in Workers, Worker(w)
      PROVE  TransfersOnly'
  <2>0. job[w] \in Job
        BY <1>a DEF SessionTypeOK
  <2>j. pc[w] # "idle" => job[w].client \in Clients /\ job[w].end \in Ends
                          /\ job[w].flag \in BOOLEAN
        BY <2>0 DEF Types, JobsAreClients, Job
  <2>1. ASSUME NEW c \in Clients, NEW e \in Ends, Takes(w, c, e)
        PROVE  TransfersOnly'
    <3>1. /\ job'[w].end = e /\ job'[w].cmd = mail[c][e].cmd /\ mail[c][e].state = "request"
          /\ Puts(c, e, NoMail)
          /\ \A v \in Workers \ {w} : job'[v] = job[v] /\ pc'[v] = pc[v]
          BY <1>a, <2>1 DEF Takes, SessionTypeOK
    <3>2. \A d \in Clients : mail'[d]["transfer"].state = "request" =>
             mail'[d]["transfer"].cmd = "puts"
          BY <1>n, <1>p, <3>1
    <3> QED  BY <3>1, <3>2 DEF TransfersOnly
  <2>2. CASE Crashes(w)
        BY <1>d, <2>2 DEF Crashes
  <2>3. CASE \/ Registers(w) \/ RegisterFails(w) \/ LoginMatches(w) \/ LoginFails(w)
             \/ ChangesDir(w) \/ Handles(w) \/ Refuses(w)
    <3>1. PICK info, flag : Answers(w, info, flag) /\ pc[w] # "idle"
          BY <2>3 DEF Registers, RegisterFails, LoginMatches, LoginFails, ChangesDir, Handles,
                      Refuses, WithoutToken, At, Verified, HasKey
    <3>2. /\ UNCHANGED mail
          /\ \A v \in Workers : pc'[v] # "idle" =>
                pc[v] # "idle" /\ job'[v].end = job[v].end /\ job'[v].cmd = job[v].cmd
          BY <1>a, <3>1 DEF Answers, clientVars, SessionTypeOK, Job
    <3> QED  BY <1>e, <3>2 DEF TransfersOnly
  <2>4. CASE ChoosesKey(w) \/ WritesKey(w) \/ SaysNothing(w)
    <3>1. /\ UNCHANGED mail
          /\ \A v \in Workers : pc'[v] # "idle" => pc[v] # "idle" /\ job'[v] = job[v]
          BY <1>a, <2>4 DEF ChoosesKey, WritesKey, Writers, SaysNothing, clientVars, SessionTypeOK
    <3> QED  BY <1>e, <3>1 DEF TransfersOnly
  <2>5. CASE ServesTransfer(w) \/ Replies(w)
    <3>1. /\ pc[w] # "idle"
          /\ \A v \in Workers : pc'[v] # "idle" => pc[v] # "idle" /\ job'[v] = job[v]
          BY <1>a, <2>5 DEF ServesTransfer, Replies, Verified, HasKey, SessionTypeOK
    <3>2. PICK m \in Mail : Puts(job[w].client, job[w].end, m) /\ m.state = "reply"
      <4>1. CASE ServesTransfer(w)
        <5>1. [NoMail EXCEPT !.state = "reply", !.flag = TRUE] \in Mail
              /\ [NoMail EXCEPT !.state = "reply", !.flag = TRUE].state = "reply"
              BY <1>n DEF Mail
        <5> QED  BY <4>1, <5>1 DEF ServesTransfer
      <4>2. CASE Replies(w)
        <5> DEFINE m(t) == [NoMail EXCEPT !.state = "reply", !.token = t, !.flag = job[w].flag]
        <5>1. ASSUME NEW t \in Token
              PROVE  m(t) \in Mail /\ m(t).state = "reply"
              BY <1>n, <2>j, <3>1 DEF Mail
        <5>2. PICK t \in Token : Puts(job[w].client, job[w].end, m(t))
          <6>1. ASSUME NEW k \in Keys
                PROVE  [user |-> token[w].user, dir |-> token[w].dir, key |-> k] \in Token
                BY <1>a DEF SessionTypeOK, Token, Info
          <6> QED  BY <4>2, <6>1, Atoms DEF Replies
        <5> QED  BY <5>1, <5>2
      <4> QED  BY <2>5, <4>1, <4>2
    <3>3. \A d \in Clients : mail'[d]["transfer"].state = "request" =>
             mail'[d]["transfer"].cmd = "puts"
          BY <1>p, <2>j, <3>1, <3>2
    <3> QED  BY <1>e, <3>1, <3>3 DEF TransfersOnly
  <2> QED  BY <1>2, <2>1, <2>2, <2>3, <2>4, <2>5 DEF Worker
<1>3. CASE ServerEnds
      BY <1>d, <1>3 DEF ServerEnds
<1>4. CASE Restarts \/ UNCHANGED vars
      BY <1>4 DEF Restarts, clientVars, serverVars, vars, TransfersOnly
<1> QED  BY <1>1, <1>2, <1>3, <1>4 DEF Next, Quiet

(* Every step keeps directories.                                           *)
LEMMA DirInvKept ==
    ASSUME Types, DirInv, [Next]_vars
    PROVE  DirInv'
<1>1. TransfersOnly'
      BY TransfersOnlyKept DEF DirInv
<1>0. cwd' \in [Clients -> Dirs]
  <2>1. ASSUME NEW w \in Workers, ChangesDir(w)
        PROVE  cwd' \in [Clients -> Dirs]
    <3>1. job[w].dir \in Dirs
          BY DEF Types, SessionTypeOK, Job
    <3> QED  BY <2>1, <3>1 DEF ChangesDir, DirInv
  <2>2. ASSUME NEW w \in Workers, Worker(w), ~ChangesDir(w)
        PROVE  UNCHANGED cwd
        BY <2>2 DEF Worker, Takes, ChoosesKey, WritesKey, Registers, RegisterFails,
                    LoginMatches, LoginFails, SaysNothing, Crashes, ServerDies, Handles,
                    ServesTransfer, Refuses, Replies, historyVars
  <2>3. ASSUME NEW c \in Clients, Client(c)
        PROVE  UNCHANGED cwd
        BY <2>3 DEF Client, Enters, Asks, Entered, Sends, StartsTransfer, TransferSends,
                    TransferGoesAhead, Clears, Stores, historyVars
  <2>4. ServerEnds \/ Restarts \/ UNCHANGED vars => UNCHANGED cwd
        BY DEF ServerEnds, ServerDies, Restarts, historyVars, vars
  <2> QED  BY <2>1, <2>2, <2>3, <2>4 DEF Next, Quiet, DirInv
<1>2. NobodysToken'
  <2>0. Torn.user # Nobody
        BY SessionAssumption, Atoms
  <2>1. ASSUME NEW c \in Clients, Client(c)
        PROVE  NobodysToken'
        BY <2>0, <2>1, ClientHeld DEF DirInv, NobodysToken
  <2>2. ASSUME NEW w \in Workers, Worker(w)
        PROVE  NobodysToken'
        BY <2>2, WorkerHeld DEF DirInv, NobodysToken, Made
  <2>3. CASE ServerEnds
        BY <2>3, EndHeld DEF ServerEnds, DirInv, NobodysToken
  <2>4. CASE Restarts \/ UNCHANGED vars
    <3>1. Held' = Held
          BY <2>4 DEF Restarts, clientVars, serverVars, vars, Held
    <3> QED  BY <3>1 DEF DirInv, NobodysToken
  <2> QED  BY <2>1, <2>2, <2>3, <2>4 DEF Next, Quiet
<1>3. (crashed => cut = Clients)' /\ (ServerEnds \/ Restarts => cut' = Clients)
  <2>1. ASSUME NEW c \in Clients, Client(c)
        PROVE  UNCHANGED <<crashed, cut>>
        BY <2>1 DEF Client, Enters, Asks, Entered, Sends, StartsTransfer, TransferSends,
                    TransferGoesAhead, Clears, Stores, serverVars
  <2>2. ASSUME NEW w \in Workers, Worker(w)
        PROVE  UNCHANGED <<crashed, cut>> \/ cut' = Clients
        BY <2>2 DEF Worker, Takes, ChoosesKey, WritesKey, Registers, RegisterFails,
                    LoginMatches, LoginFails, SaysNothing, Crashes, ServerDies, ChangesDir,
                    Handles, ServesTransfer, Refuses, Replies, Answers, clientVars
  <2>3. ServerEnds \/ Restarts => cut' = Clients
        BY DEF ServerEnds, ServerDies, Restarts, clientVars, DirInv
  <2>4. UNCHANGED vars => UNCHANGED <<crashed, cut>>
        BY DEF vars, serverVars, clientVars
  <2> QED  BY <2>1, <2>2, <2>3, <2>4 DEF Next, Quiet, DirInv
<1>4. \A d \in Kept' : Fits(d)'
  <2>1. CASE ServerEnds \/ Restarts
        BY <1>3, <2>1 DEF Kept
  <2>2. CASE UNCHANGED vars
    <3>1. /\ Kept' = Kept /\ \A d : Under(d)' = Under(d)
          /\ UNCHANGED <<loop, mail, cwd, global_token, pc, job, token>>
          BY <2>2 DEF vars, serverVars, clientVars, historyVars, Kept, Under
    <3> QED  BY <3>1, FitsAside DEF DirInv, Kept
  <2> QED  BY <2>1, <2>2, ClientKeepsDir, WorkerKeepsDir DEF Next, Quiet
<1> QED  BY <1>0, <1>1, <1>2, <1>3, <1>4 DEF DirInv

(* A client that waits for no answer is in the directory of its last cd    *)
(* that succeeded, as long as no token failed, no transfer stored an       *)
(* answer, and its server still runs (file_no_change.c:29-33).             *)
THEOREM ClientsKeepTheirDirectory == Spec => []DirectoryIsKept
<1>1. Init => Types /\ DirInv
  <2> SUFFICES ASSUME Init
               PROVE  Types /\ DirInv
      OBVIOUS
  <2>1. /\ \A c \in Clients : \A e \in Ends : mail[c][e].state = "none"
        /\ \A c : Under(c) = {} /\ "loop" \in Ends /\ "transfer" \in Ends
        BY Atoms DEF Init, Under, Ends
  <2>2. TransfersOnly /\ NobodysToken
        BY <2>1, InitHeld DEF Init, TransfersOnly, NobodysToken
  <2>3. \A c \in Clients : Fits(c)
        BY <2>1 DEF Init, Fits, LoopFits, MailFits, JobFits
  <2>4. cwd \in [Clients -> Dirs]
        BY SessionAssumption DEF Init
  <2> QED  BY <2>2, <2>3, <2>4, InitTypes DEF Init, DirInv, Kept
<1>2. Types /\ DirInv /\ [Next]_vars => (Types /\ DirInv)'
      BY TypesKept, DirInvKept
<1>3. DirInv => DirectoryIsKept
      BY DEF DirInv, Kept, Fits, LoopFits, DirectoryIsKept
<1> QED  BY <1>1, <1>2, <1>3, PTL DEF Spec
=============================================================================
