------------------------------ MODULE Commands ------------------------------
(***************************************************************************)
(* From a typed line to what a handler works on: the client's check of the *)
(* line (client/judgment.c, Tools.c, pthread.c), the server's second look  *)
(* at it (thread.c) and the paths and names it makes of the argument       *)
(* (tool.c, file_change.c, file_no_change.c).                              *)
(*                                                                         *)
(* A string is a sequence of one-character strings.  What the tables hold  *)
(* is FileTables' business: whether query_cd finds a path is left open     *)
(* here, except that a path it finds starts at the user's root directory.  *)
(***************************************************************************)
EXTENDS Naturals, Sequences, FiniteSets, SequencesExt

CONSTANTS
    Account,        \* the user's name, also that of their root directory
    LocalDir,       \* the directory the client runs in
    Chars,          \* what is typed behind the command's word
    MaxTyped,       \* bound: how many of them
    MaxPath,        \* bound: length of a working directory
    CmdSize,        \* the server's array for the first word: char cmd[10]
    None

VARIABLES
    workpath,       \* token_info.workpath, carried by the user's token
    line,           \* what was typed
    sent,           \* the structure under way to the server, or None
    served          \* what the server made of it, or None

vars == <<workpath, line, sent, served>>

order == << <<"c", "d">>, <<"l", "s">>, <<"l", "l">>, <<"p", "w", "d">>,
            <<"m", "k", "d", "i", "r">>, <<"p", "u", "t", "s">>,
            <<"g", "e", "t", "s">>, <<"r", "m">> >>

cd == 1
mkdir == 5
puts == 6
gets == 7
rm == 8

(***************************************************************************)
(* What the strings are made of.  The user's name is one a directory can   *)
(* list: not empty, no slash, neither `.' nor `..' (nothing checks that    *)
(* when the user registers); getcwd gives a path from the root; what is    *)
(* typed ends where the line ends.                                         *)
(***************************************************************************)
InputIsText ==
    /\ Account \in Seq(Range(Account))
    /\ \A i \in 1..Len(Account) : Account[i] # "/"
    /\ Account \notin {<<>>, <<".">>, <<".", ".">>}
    /\ LocalDir \in Seq(Range(LocalDir)) /\ LocalDir # <<>> /\ LocalDir[1] = "/"
    /\ "\n" \notin Chars

ASSUME InputAssumption == InputIsText

(* The array has room for every command and the zero behind it. *)
ASSUME CmdSizeAssumption ==
    CmdSize \in Nat /\ \A i \in DOMAIN order : Len(order[i]) < CmdSize

-----------------------------------------------------------------------------
(* Strings. *)

\* The place of the last slash of s, 0 where there is none.
LastSlash(s) == LET S == {i \in 1..Len(s) : s[i] = "/"} \cup {0}
                IN  CHOOSE i \in S : \A j \in S : j <= i

\* The loop runs from the front: the first slash but one is found.
Bug_Cut(path) ==
    LET S == {i \in 2..Len(path) : path[i] = "/"}
    IN  IF S = {} THEN path
        ELSE SubSeq(path, 1, (CHOOSE i \in S : \A j \in S : i <= j) - 1)

\* A path without its last name; a slash at the first place is not looked at.
Cut(path) == IF LastSlash(path) <= 1 THEN path ELSE SubSeq(path, 1, LastSlash(path) - 1)

\* The end of s behind its last slash.
get_file_name(s) == SubSeq(s, LastSlash(s) + 1, Len(s))

\* The client's version puts a slash in front.
slash_file_name(s) == <<"/">> \o get_file_name(s)

\* Spaces at both ends, repeated ones and line ends go.
Dropped(s, i) ==
    \/ s[i] = " " /\ (i = 1 \/ s[i - 1] = " ")
    \/ s[i] = "\n"

remove_space(s) ==
    LET kept == FoldLeftDomain(LAMBDA t, i : IF Dropped(s, i) THEN t ELSE Append(t, s[i]),
                               <<>>, s)
    IN  IF kept # <<>> /\ Last(kept) = " " THEN Front(kept) ELSE kept

\* The two parts of s around its first run of spaces; no parts where there is none.
splite_argument(s) ==
    LET S == {i \in 1..Len(s) : s[i] = " "}
    IN  IF S = {} THEN <<>>
        ELSE LET first == CHOOSE i \in S : \A j \in S : i <= j
                 rest  == CHOOSE i \in first..Len(s) + 1 :
                            /\ (i = Len(s) + 1 \/ s[i] # " ")
                            /\ \A j \in first..i - 1 : s[j] = " "
             IN  <<SubSeq(s, 1, first - 1), SubSeq(s, rest, Len(s))>>

\* The command's word and its argument, empty where there is none.
FirstWord(s) == IF splite_argument(s) = <<>> THEN s ELSE splite_argument(s)[1]
TheRest(s)   == IF splite_argument(s) = <<>> THEN <<>> ELSE splite_argument(s)[2]

\* The parts of s between the separators, empty ones included.
Split(s, separator) ==
    FoldLeft(LAMBDA parts, c : IF c = separator THEN Append(parts, <<>>)
                               ELSE [parts EXCEPT ![Len(parts)] = Append(@, c)],
             << <<>> >>, s)

\* The names of a path; what stands at its first place is taken for a slash.
splite_file_name(path) == Split(Tail(path), "/")

(***************************************************************************)
(* simplifyPath copies the path to `name' and, at each slash, looks at the *)
(* part since the last one.  list[] holds where in `name' a slash stands;  *)
(* `marks' holds the lengths that cut `name' just behind those slashes.    *)
(***************************************************************************)
\* The step back is forgotten: `..' does what `.' does.
Bug_Popped(marks) == marks

Popped(marks) == IF Len(marks) <= 1 THEN <<1>> ELSE Front(marks)

Closed(s, part) ==
    CASE part = <<>>         -> s
      [] part = <<".">>      -> [s EXCEPT !.name = SubSeq(@, 1, Last(s.marks))]
      [] part = <<".", ".">> -> [s EXCEPT !.marks = Popped(@),
                                          !.name = SubSeq(@, 1, Last(Popped(s.marks)))]
      [] OTHER               -> [s EXCEPT !.name = Append(@, "/"),
                                          !.marks = Append(@, Len(s.name) + 1)]

simplifyPath(path) ==
    LET Step(s, i) ==
          IF i <= Len(path) /\ path[i] # "/"
          THEN [s EXCEPT !.name = Append(@, path[i])]
          ELSE [Closed(s, SubSeq(path, s.slash + 1, i - 1)) EXCEPT !.slash = i]
        end == FoldLeft(Step, [name |-> <<"/">>, marks |-> <<1>>, slash |-> 1],
                        [i \in 1..Len(path) |-> i + 1])
    IN  IF Len(end.name) = 1 THEN end.name ELSE Front(end.name)

\* The client has a copy of the function.
ClientSimplifyPath(path) == simplifyPath(path)
ClientRemoveSpace(s)     == remove_space(s)

get_user_path(argument) ==
    CASE argument = <<>>      -> workpath
      [] argument # <<>> /\ argument[1] = "/" ->
            simplifyPath(<<"/">> \o splite_file_name(workpath)[1] \o argument)
      [] OTHER -> simplifyPath(workpath \o <<"/">> \o argument)

-----------------------------------------------------------------------------
(* The client. *)

\* The spaces of a line, counted without a look at where they stand.
Spaces(s) == Cardinality({n \in 1..Len(s) : s[n] = " "})

\* The first command that the line begins with (strncmp), 0 for none.
CommandOf(s) ==
    LET S == {i \in DOMAIN order : IsPrefix(order[i], s)}
    IN  IF S = {} THEN 0 ELSE CHOOSE i \in S : \A j \in S : i <= j

\* `puts' is let through with one word behind it.
Bug_SpacesFit(i, n) ==
    \/ i \in {cd, mkdir, rm} /\ n = 1
    \/ i \in {2, 3} /\ n <= 1
    \/ i = puts /\ n \in {1, 2}
    \/ i = gets /\ n = 2
    \/ i = 4 /\ n = 0

SpacesFit(i, n) ==
    \/ i \in {cd, mkdir, rm} /\ n = 1
    \/ i \in {2, 3} /\ n <= 1              \* ls, ll
    \/ i \in {puts, gets} /\ n = 2
    \/ i = 4 /\ n = 0                      \* pwd

\* The file a transfer reads or writes.  The words of the line come from
\* strtok; an absolute path is taken as it is.
LocalFile(i, words) ==
    LET path == IF i = puts THEN words[2] ELSE words[3] \o slash_file_name(words[2])
        last == IF i = puts THEN words[2] ELSE words[3]
    IN  IF last[1] = "/" THEN path
        ELSE ClientSimplifyPath(LocalDir \o <<"/">> \o path)

Init ==
    /\ workpath = <<"/">> \o Account
    /\ line = <<>>
    /\ sent = None
    /\ served = None

\* The user types a line: the word of a command, then any characters.
Types ==
    /\ sent = None
    /\ served' = None
    /\ \/ /\ line = <<>>
          /\ \E i \in DOMAIN order : line' = order[i]
       \/ /\ line # <<>> /\ Len(line) < Len(order[CommandOf(line)]) + MaxTyped
          /\ \E c \in Chars : line' = Append(line, c)
    /\ UNCHANGED <<workpath, sent>>

\* execute_command, and transfile for a transfer whose local file opens.
Executes ==
    /\ line # <<>> /\ sent = None
    /\ LET command == ClientRemoveSpace(Append(line, "\n"))
           i       == CommandOf(command)
           spaces  == Spaces(command)
       IN  IF i = 0 \/ ~SpacesFit(i, spaces)
           THEN sent' = None                       \* "illegal command"
           ELSE IF i \in {puts, gets}
           THEN \/ sent' = [no |-> i, data |-> command,
                            file |-> LocalFile(i, Split(command, " "))]
                \/ sent' = None                    \* open fails
           ELSE sent' = [no |-> i, data |-> command, file |-> None]
    /\ line' = <<>>
    /\ UNCHANGED <<workpath, served>>

-----------------------------------------------------------------------------
(* The server. *)

\* remove_file and add_dir: the directory from the resolved path, the name
\* from what the user typed.
EntryToChange(argument) == [dir |-> Cut(get_user_path(argument)), name |-> get_file_name(argument)]

\* send_file, with the name taken from what the user typed.
Bug_EntryToGet(argument) ==
    LET temp == splite_argument(argument)
    IN  [dir |-> Cut(get_user_path(temp[1])), name |-> get_file_name(temp[1])]

\* send_file: both from the resolved path.
EntryToGet(argument) ==
    LET path == get_user_path(splite_argument(argument)[1])
    IN  [dir |-> Cut(path), name |-> get_file_name(path)]

\* recv_file: the name of the local file, in the directory of the second word.
EntryToPut(argument) ==
    LET res == splite_argument(argument)
    IN  [dir |-> get_user_path(res[2]), name |-> get_file_name(res[1])]

\* What the handler asks the tables for: a path, or an entry of a directory.
Target(i, argument) ==
    CASE i \in {mkdir, rm} -> EntryToChange(argument)
      [] i = gets          -> EntryToGet(argument)
      [] i = puts          -> EntryToPut(argument)
      [] i \in {1, 2, 3}   -> [path |-> get_user_path(argument)]
      [] OTHER             -> [path |-> workpath]                    \* pwd

\* query_cd may find a path that begins with the name of the user's root, if the
\* user has linked no content older than their account (see FileTables).
QueryCdMayFind(path) == splite_file_name(path)[1] = Account

\* A path that is not found is answered with 0, which is let through.
Bug_ChangesDir(path) ==
    \/ Len(path) <= MaxPath /\ workpath' = path
    \/ UNCHANGED workpath

\* change_dir: the path becomes the working directory when the tables have it.
ChangesDir(path) ==
    \/ QueryCdMayFind(path) /\ Len(path) <= MaxPath /\ workpath' = path
    \/ UNCHANGED workpath

\* strcpy has room in cmd for the word and the zero behind it.
Fits(word) == Len(word) < CmdSize

\* connect_with_client: the handler is chosen by the first word, not by the
\* number in the structure.  A handler that splits an argument of one word
\* ends the process.
Connects ==
    /\ sent # None
    /\ LET data  == remove_space(sent.data)
           cmd   == FirstWord(data)
           arg   == TheRest(data)
           i     == IF \E n \in DOMAIN order : order[n] = cmd
                    THEN CHOOSE n \in DOMAIN order : order[n] = cmd ELSE 0
           dies  == i \in {puts, gets} /\ splite_argument(arg) = <<>>
       IN  /\ Fits(cmd)
           /\ served' = [request |-> sent, handler |-> i, argument |-> arg,
                         from |-> workpath, died |-> dies,
                         target |-> IF i = 0 \/ dies THEN None ELSE Target(i, arg)]
           /\ IF i = cd THEN ChangesDir(get_user_path(arg)) ELSE UNCHANGED workpath
    /\ sent' = None
    /\ UNCHANGED line

\* connect_with_client with a longer first word, which the client's test of a
\* prefix lets through: strcpy writes behind the array, and what that does is
\* not followed.  The process dies, or it goes on and no command is equal to
\* the word.
Overruns ==
    /\ sent # None
    /\ ~Fits(FirstWord(remove_space(sent.data)))
    /\ \E dies \in BOOLEAN :
          served' = [request |-> sent, handler |-> 0, argument |-> <<>>,
                     from |-> workpath, died |-> dies, target |-> None]
    /\ sent' = None
    /\ UNCHANGED <<workpath, line>>

Next == Types \/ Executes \/ Connects \/ Overruns

Spec == Init /\ [][Next]_vars

-----------------------------------------------------------------------------
(* What a path means: names pushed on a stack, `..' taking one off. *)

Resolve(names) ==
    FoldLeft(LAMBDA stack, n : CASE n \in {<<>>, <<".">>} -> stack
                                 [] n = <<".", ".">> -> IF stack = <<>> THEN stack ELSE Front(stack)
                                 [] OTHER -> Append(stack, n),
             <<>>, names)

Written(names) == IF names = <<>> THEN <<"/">>
                  ELSE FoldLeft(LAMBDA p, n : p \o <<"/">> \o n, <<>>, names)

\* An argument that begins with a slash counts from the user's root.
Meant(from, argument) ==
    IF argument # <<>> /\ argument[1] = "/"
    THEN Resolve(<<Account>> \o Split(argument, "/"))
    ELSE Resolve(Split(from, "/") \o Split(argument, "/"))

\* The last name is one that a directory can list.
Plain(argument) == get_file_name(argument) \notin {<<>>, <<".">>, <<".", ".">>}

Handled(S) == served # None /\ served.handler \in S /\ ~served.died
Args == Split(served.argument, " ")

-----------------------------------------------------------------------------
(* simplifyPath and get_user_path, one loop over characters with an array  *)
(* of slashes, give the path the argument means, written without empty     *)
(* names, `.', `..' or a slash at the end: that is the form in which       *)
(* query_cd can compare its names with the tables.                         *)
PathsAreResolved ==
    /\ Handled({1, 2, 3}) => served.target.path = Written(Meant(served.from, served.argument))
    /\ Handled({puts})    => served.target.dir = Written(Meant(served.from, Args[2]))

(* The directory and the name that mkdir, rm and gets hand to the tables,  *)
(* worked out apart from each other (one from the simplified path, one for *)
(* mkdir and rm from the raw argument), together are the entry the user    *)
(* named: always for gets, for mkdir and rm when the argument ends in a    *)
(* plain name; below the level of users' roots.                            *)
EntryIsNamed ==
    \A i \in {mkdir, rm, gets} :
        Handled({i}) /\ (i = gets \/ Plain(Args[1])) =>
            LET meant == Meant(served.from, Args[1])
            IN  Len(meant) >= 2 =>
                  Append(splite_file_name(served.target.dir), served.target.name) = meant

(* However many `..' a user goes up, the working directory their next      *)
(* token carries is a simplified path at or below their root: get_user_path*)
(* would climb out of it, the test behind query_cd does not let it.        *)
WorkpathStaysHome ==
    LET names == Split(Tail(workpath), "/")
    IN  names[1] = Account /\ workpath = Written(Resolve(names))

(* The client counts spaces and compares a prefix, the server compares a   *)
(* word: a handler that runs is the one the structure's number promised    *)
(* (the number decides on the queue and on handing the connection back),   *)
(* with the words the client saw, both of them for puts and gets, so that  *)
(* no handler splits an argument of one word; and the local file and the   *)
(* entry of a transfer have one name.  Of a line whose first word does not *)
(* fit in cmd[10] (`mkdirectory x') nothing is said.                       *)
ServerAgrees ==
    served # None /\ Fits(FirstWord(served.request.data)) =>
        /\ ~served.died
        /\ served.handler \in {0, served.request.no}
        /\ served.handler # 0 =>
             <<order[served.handler]>> \o (IF served.argument = <<>> THEN <<>> ELSE Args)
                = Split(served.request.data, " ")
        /\ served.handler \in {puts, gets} /\ Plain(Args[1]) =>
             get_file_name(served.request.file) = served.target.name
=============================================================================
