------------------------------ MODULE Transfer ------------------------------
(***************************************************************************)
(* Moving one content between a client and the server.  In an upload       *)
(* puts_File (client/pthread.c) sends it and recv_file                     *)
(* (server/file_change.c) receives it into data/<hash>, the one file the   *)
(* server keeps for that content; in a download send_file sends that file  *)
(* and gets_File receives it into a local one.                             *)
(*                                                                         *)
(* The two receivers are the same program: measure the file there is, ask  *)
(* for what follows its last whole page, extend the file, map and copy     *)
(* what arrives.  A session is one run of a pair.  Sessions are retried,   *)
(* and several may run at the same time on the same files: query_puts      *)
(* answers 1 to everyone as long as the content is not complete, and a     *)
(* client has one thread per transfer.                                     *)
(*                                                                         *)
(* Contents are equal when their hashes are, so what is kept of a file is  *)
(* its length and which of its bytes are those of the content.             *)
(***************************************************************************)
EXTENDS Integers, FiniteSets

CONSTANTS Sessions,     \* the runs of a pair
          Size,         \* length of the content on the client that uploads it
          Page,         \* page size, also the length of the receivers' buffer
          Half,         \* half the number of values of the int that carries a length
          OldLengths    \* lengths a local file of that name may already have

ASSUME TransferAssumption ==
    /\ Size \in Nat /\ Page \in Nat \ {0} /\ Half \in Nat \ {0}
    /\ OldLengths \subseteq Nat

VARIABLES length,       \* of each file
          received,     \* the bytes of it that are the content's
          complete,     \* the content's column in table file
          to,           \* the file a session writes
          pc,           \* of the receiver
          size,         \* file_size, as it was told
          resume,       \* the offset it starts from
          offset,       \* the offset it has reached
          left,         \* bytes that will still arrive
          worker,       \* where send_file stands, in a download
          connected     \* the other end is there

files == <<length, received, complete>>
receiver == <<pc, size, resume, offset>>
vars == <<files, to, receiver, left, worker, connected>>

Files == {"server", "local"}
Bytes == 0..(Size - 1)

\* A length that went through TransFile.data_length.
ToInt(n) == ((n + Half) % (2 * Half)) - Half

file_size == ToInt(Size)

\* The offset from which a file of that length is resumed.
ResumeAt(len) == (len \div Page) * Page

\* What sendfile sends of len bytes after the sender was told to start at n.
ToSend(len, n) == IF n \in 0..len THEN len - n ELSE 0

Init ==
    /\ length \in {[f \in Files |-> IF f = "local" THEN n ELSE 0] : n \in OldLengths}
    /\ received = [f \in Files |-> {}]
    /\ complete = FALSE
    /\ to = [s \in Sessions |-> "none"]
    /\ pc = [s \in Sessions |-> "new"]
    /\ size = [s \in Sessions |-> 0]
    /\ resume = [s \in Sessions |-> 0]
    /\ offset = [s \in Sessions |-> 0]
    /\ left = [s \in Sessions |-> 0]
    /\ worker = [s \in Sessions |-> "none"]
    /\ connected = [s \in Sessions |-> FALSE]

At(s, label) == pc[s] = label
Goto(s, label) == pc' = [pc EXCEPT ![s] = label]

Uploads(s) == to[s] = "server"

-----------------------------------------------------------------------------
(* The start of a session, up to the length the receiver is told.          *)

\* The worker has the digest and the length; query_puts answers 2 if the
\* content is there and complete, 1 otherwise.
StartsUpload(s) ==
    /\ At(s, "new")
    /\ to' = [to EXCEPT ![s] = "server"]
    /\ size' = [size EXCEPT ![s] = file_size]
    /\ Goto(s, IF complete THEN "done" ELSE "open")
    /\ connected' = [connected EXCEPT ![s] = TRUE]
    /\ UNCHANGED <<files, resume, offset, left, worker>>

\* The client stopped between the two: recv, whose result is not looked at,
\* left a length of 0.  (Without the digest it is no session of this content.)
StartsUploadCut(s) ==
    /\ At(s, "new")
    /\ to' = [to EXCEPT ![s] = "server"]
    /\ Goto(s, IF complete THEN "done" ELSE "open")
    /\ UNCHANGED <<files, size, resume, offset, left, worker, connected>>

\* (a plausible slip: whether the content is complete is not asked)
Bug_StartsDownload(s) ==
    /\ At(s, "new")
    /\ to' = [to EXCEPT ![s] = "local"]
    /\ Goto(s, "announce")
    /\ connected' = [connected EXCEPT ![s] = TRUE]
    /\ UNCHANGED <<files, size, resume, offset, left, worker>>

\* query_gets
StartsDownload(s) ==
    /\ At(s, "new")
    /\ to' = [to EXCEPT ![s] = "local"]
    /\ Goto(s, IF complete THEN "announce" ELSE "done")
    /\ connected' = [connected EXCEPT ![s] = TRUE]
    /\ UNCHANGED <<files, size, resume, offset, left, worker>>

\* the worker opens the file, measures it and tells the client
Announces(s) ==
    /\ At(s, "announce")
    /\ size' = [size EXCEPT ![s] = ToInt(length["server"])]
    /\ worker' = [worker EXCEPT ![s] = "size"]
    /\ Goto(s, "open")
    /\ UNCHANGED <<files, to, resume, offset, left, connected>>

-----------------------------------------------------------------------------
(* The receiver: recv_file, or gets_File.                                  *)

\* (a plausible slip: the file is opened with O_TRUNC)
Bug_Opens(s) ==
    /\ At(s, "open")
    /\ resume' = [resume EXCEPT ![s] = 0]
    /\ offset' = [offset EXCEPT ![s] = 0]
    /\ left' = [left EXCEPT ![s] = IF Uploads(s) /\ connected[s] THEN Size ELSE 0]
    /\ Goto(s, "extend")
    /\ length' = [length EXCEPT ![to[s]] = 0]
    /\ received' = [received EXCEPT ![to[s]] = {}]
    /\ UNCHANGED <<complete, to, size, worker, connected>>

\* the file is measured, and the sender told where to start; puts_File then
\* sends, of send_file see WorkerSends
Opens(s) ==
    /\ At(s, "open")
    /\ LET start == ResumeAt(length[to[s]])
       IN  /\ resume' = [resume EXCEPT ![s] = start]
           /\ offset' = [offset EXCEPT ![s] = start]
           /\ left' = [left EXCEPT ![s] = IF Uploads(s) /\ connected[s]
                                          THEN ToSend(Size, ToInt(start)) ELSE 0]
    /\ Goto(s, "extend")
    /\ UNCHANGED <<files, to, size, worker, connected>>

\* (a plausible slip: the file ends where the session starts)
Bug_Extends(s) ==
    /\ At(s, "extend")
    /\ length' = [length EXCEPT ![to[s]] = resume[s]]
    /\ received' = [received EXCEPT ![to[s]] = @ \cap 0..(length'[to[s]] - 1)]
    /\ Goto(s, "receive")
    /\ UNCHANGED <<complete, to, size, resume, offset, left, worker, connected>>

\* ftruncate, which refuses a negative length
Extends(s) ==
    /\ At(s, "extend")
    /\ length' = [length EXCEPT ![to[s]] = IF size[s] >= 0 THEN size[s] ELSE @]
    /\ received' = [received EXCEPT ![to[s]] = @ \cap 0..(length'[to[s]] - 1)]
    /\ Goto(s, "receive")
    /\ UNCHANGED <<complete, to, size, resume, offset, left, worker, connected>>

\* the bytes one turn of the loop maps and copies
Chunk(s, n) == offset[s]..(offset[s] + n - 1)

\* those of the content among the bytes a session receives
Good(s) == IF Uploads(s) THEN Bytes ELSE received["server"]

InLoop(s) == At(s, "receive") /\ offset[s] < size[s]

\* recv returned n bytes, mmap accepted the offset, a multiple of Page, and
\* the page mapped is one of the file; what is behind its end is lost
Receives(s, n) ==
    /\ InLoop(s)
    /\ n <= left[s] /\ offset[s] % Page = 0 /\ offset[s] < length[to[s]]
    /\ LET count == IF offset[s] + n > size[s] THEN size[s] - offset[s] ELSE n
           here  == Chunk(s, count) \cap 0..(length[to[s]] - 1)
       IN  /\ received' = [received EXCEPT ![to[s]] = (@ \ here) \cup (here \cap Good(s))]
           /\ offset' = [offset EXCEPT ![s] = @ + count]
    /\ left' = [left EXCEPT ![s] = @ - n]
    /\ UNCHANGED <<length, complete, to, pc, size, resume, worker, connected>>

\* recv returned bytes, but the offset is not one that mmap takes
MapFails(s) ==
    /\ InLoop(s) /\ left[s] > 0 /\ offset[s] % Page # 0
    /\ Goto(s, "close")
    /\ UNCHANGED <<files, to, size, resume, offset, left, worker, connected>>

\* (a plausible slip: recv_num < 0, the end of the connection is not seen)
Bug_Disconnected(s) ==
    /\ InLoop(s) /\ left[s] = 0 /\ ~connected[s]
    /\ UNCHANGED vars

\* recv returned 0 or less
Disconnected(s) ==
    /\ InLoop(s) /\ left[s] = 0 /\ ~connected[s]
    /\ Goto(s, "close")
    /\ UNCHANGED <<files, to, size, resume, offset, left, worker, connected>>

LoopEnds(s) ==
    /\ At(s, "receive") /\ offset[s] >= size[s]
    /\ Goto(s, "close")
    /\ UNCHANGED <<files, to, size, resume, offset, left, worker, connected>>

\* (a plausible slip: the file is marked whatever made the loop end)
Bug_Closes(s) ==
    /\ At(s, "close")
    /\ complete' = (complete \/ Uploads(s))
    /\ connected' = [connected EXCEPT ![s] = FALSE]
    /\ Goto(s, "done")
    /\ UNCHANGED <<length, received, to, size, resume, offset, left, worker>>

\* The connection is closed; with all bytes in, recv_file calls query_update.
Closes(s) ==
    /\ At(s, "close")
    /\ complete' = (complete \/ (Uploads(s) /\ offset[s] = size[s]))
    /\ connected' = [connected EXCEPT ![s] = FALSE]
    /\ Goto(s, "done")
    /\ UNCHANGED <<length, received, to, size, resume, offset, left, worker>>

Receiver(s) ==
    \/ Opens(s) \/ Extends(s)
    \/ \E n \in 1..Page : Receives(s, n)
    \/ MapFails(s) \/ Disconnected(s) \/ LoopEnds(s) \/ Closes(s)

-----------------------------------------------------------------------------
(* send_file, once it has announced the length.                            *)

\* The client's structure is in; of a client that left the worker goes on as
\* if it held 0 bytes (recv_file <= 0 compares a function), to no effect.
WorkerSends(s) ==
    /\ worker[s] = "size" /\ pc[s] # "open"
    /\ left' = [left EXCEPT ![s] = IF connected[s]
                                   THEN ToSend(length["server"], ToInt(resume[s])) ELSE 0]
    /\ worker' = [worker EXCEPT ![s] = "ack"]
    /\ UNCHANGED <<files, to, receiver, connected>>

\* the client's last structure, or its end
WorkerCloses(s) ==
    /\ worker[s] = "ack" /\ pc[s] = "done"
    /\ worker' = [worker EXCEPT ![s] = "none"]
    /\ UNCHANGED <<files, to, receiver, left, connected>>

-----------------------------------------------------------------------------
(* What ends a session early.                                              *)

\* The client is gone, and what it sent was received before or is lost.
ClientStops(s) ==
    /\ pc[s] \notin {"new", "done"} /\ connected[s]
    /\ connected' = [connected EXCEPT ![s] = FALSE]
    /\ left' = [left EXCEPT ![s] = 0]
    /\ pc' = IF Uploads(s) \/ At(s, "announce") THEN pc ELSE [pc EXCEPT ![s] = "done"]
    /\ UNCHANGED <<files, to, size, resume, offset, worker>>

\* The server process dies: the files and the tables remain.  A client that
\* has been told the length goes on until it finds the connection closed.
ServerDies ==
    /\ pc' = [s \in Sessions |->
                 IF At(s, "new") \/ (~Uploads(s) /\ pc[s] \notin {"announce", "open"})
                 THEN pc[s] ELSE "done"]
    /\ connected' = [s \in Sessions |-> FALSE]
    /\ left' = [s \in Sessions |-> 0]
    /\ worker' = [s \in Sessions |-> "none"]
    /\ UNCHANGED <<files, to, size, resume, offset>>

ServerCrashes ==
    /\ \E s \in Sessions : pc[s] \notin {"new", "done"} \/ worker[s] # "none"
    /\ ServerDies

\* The page mapped lies behind the end of a file that was cut short since:
\* memcpy raises SIGBUS in the process that receives.
BusError(s) ==
    /\ InLoop(s) /\ left[s] > 0
    /\ offset[s] % Page = 0 /\ offset[s] >= length[to[s]]
    /\ IF Uploads(s) THEN ServerDies
       ELSE /\ Goto(s, "done")
            /\ connected' = [connected EXCEPT ![s] = FALSE]
            /\ left' = [left EXCEPT ![s] = 0]
            /\ UNCHANGED <<files, to, size, resume, offset, worker>>

Finished ==
    /\ \A s \in Sessions : pc[s] = "done" /\ worker[s] = "none"
    /\ UNCHANGED vars

Worker(s) == Announces(s) \/ WorkerSends(s) \/ WorkerCloses(s)

Next ==
    \/ \E s \in Sessions :
          \/ StartsUpload(s) \/ StartsUploadCut(s) \/ StartsDownload(s)
          \/ Receiver(s) \/ BusError(s) \/ Worker(s) \/ ClientStops(s)
    \/ ServerCrashes
    \/ Finished

Spec == Init /\ [][Next]_vars

\* A thread keeps running, and the bytes of a client that does not stop keep
\* arriving; nobody has to start a session.
FairSpec == Spec /\ \A s \in Sessions : WF_vars(Receiver(s) \/ BusError(s) \/ Worker(s))

-----------------------------------------------------------------------------
\* History: no session was cut in the structure that announces it, and none
\* that wrote file f began behind its beginning.
Uncut == \A s \in Sessions : Uploads(s) => size[s] = file_size
Unresumed(f) == \A s \in Sessions : to[s] = f => resume[s] = 0

Whole(f) == length[f] = Size /\ received[f] = Bytes

\* The bytes a session has received since it began are in the file, at their
\* places: from the offset it started at up to the one it has reached
\* (file_change.c:87-104, pthread.c:136-153), also when other sessions measure,
\* extend and write the same file in between.  This is said as long as no upload
\* was cut in its announcement (Uncut), and of a download when the file it was
\* sent is the content.
SessionBytesArrive ==
    \A s \in Sessions :
        /\ Uncut /\ pc[s] \in {"receive", "close"}
        /\ Uploads(s) \/ Unresumed("server")
        => resume[s]..(offset[s] - 1) \subseteq received[to[s]]

\* As long as no upload was cut in its announcement (Uncut), a page is mapped
\* only where the file still has one (file_change.c:95-100): no other session
\* makes the file shorter while one writes it.
MapsWithinFile ==
    \A s \in Sessions : Uncut /\ InLoop(s) => offset[s] < length[to[s]]

\* A content is marked complete only when every byte is in it, as long as all
\* uploads began at its beginning and none was cut in its announcement (Uncut): none of them may mark it for bytes another
\* one broke off before (file_change.c:105-112).
WholeUnlessResumed == complete /\ Uncut /\ Unresumed("server") => Whole("server")

\* A download that got through leaves the client the whole content, whatever
\* the client had under that name and whatever else it downloads to it, as
\* long as no session resumed or was cut in its announcement
\* (pthread.c:124-154).
DownloadIsWhole ==
    \A s \in Sessions :
        /\ Uncut /\ Unresumed("server") /\ Unresumed("local")
        /\ to[s] = "local" /\ pc[s] = "close" /\ offset[s] = size[s]
        => Whole("local")

\* The same of every upload.  "如果是0则代表里面没有数据" (file_change.c:76):
\* the offset a session is given is that of the data already there.
CompleteIsWhole == complete /\ Uncut => Whole("server")

\* Every session that was begun ends on both sides, with the other end gone or
\* all bytes in: no loop waits for bytes that will not come
\* (file_change.c:89-92, 180-196; pthread.c:140-143), unless a length cut off
\* has emptied the file of a sender that announced it.
Over(s) == pc[s] \in {"new", "done"} /\ worker[s] = "none"
SessionsEnd == \A s \in Sessions : []<>(Over(s) \/ ~Uncut)
=============================================================================
