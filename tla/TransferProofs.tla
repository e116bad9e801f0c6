--------------------------- MODULE TransferProofs ---------------------------
(***************************************************************************)
(* What any number of concurrent sessions on one content keep, for every   *)
(* length of the content that fits the int it travels in, every page size  *)
(* and every file a client may have under that name.                       *)
(***************************************************************************)
EXTENDS Transfer, TLAPS

(* The length of the content arrives as it is.                             *)
LengthFits == Size < Half

(* A number below the modulus is its own remainder.                        *)
LEMMA SmallMod ==
    ASSUME NEW a \in Nat, NEW m \in Nat \ {0}, a < m
    PROVE  a % m = a
OBVIOUS

(* The length that arrives is an integer;                                  *)
LEMMA ToIntIsInt == ASSUME NEW n \in Nat PROVE ToInt(n) \in Int
BY TransferAssumption DEF ToInt

(* if it fits, it is the length that was sent.                             *)
LEMMA SizeArrives == LengthFits => file_size = Size /\ ToInt(Size) = Size
<1> SUFFICES ASSUME LengthFits PROVE file_size = Size /\ ToInt(Size) = Size
    OBVIOUS
<1>1. Size + Half \in Nat /\ 2 * Half \in Nat \ {0} /\ Size + Half < 2 * Half
      BY TransferAssumption DEF LengthFits
<1>2. (Size + Half) % (2 * Half) = Size + Half
      BY <1>1, SmallMod
<1> QED  BY <1>2, TransferAssumption DEF file_size, ToInt

(* A transfer resumes at a position of the file.                           *)
LEMMA ResumeIsNat == ASSUME NEW n \in Nat PROVE ResumeAt(n) \in Nat
<1>1. n \div Page \in Nat
      BY TransferAssumption
<1> QED  BY <1>1, TransferAssumption DEF ResumeAt

(* What is left to send is a number of bytes.                              *)
LEMMA ToSendIsNat ==
    ASSUME NEW len \in Nat, NEW n \in Int
    PROVE  ToSend(len, n) \in Nat
BY DEF ToSend

-----------------------------------------------------------------------------
(* The inductive invariant.                                                *)

Places == {"new", "announce", "open", "extend", "receive", "close", "done"}

Types ==
    /\ length \in [Files -> Nat]
    /\ received \in [Files -> SUBSET Bytes]
    /\ complete \in BOOLEAN
    /\ to \in [Sessions -> Files \cup {"none"}]
    /\ pc \in [Sessions -> Places]
    /\ size \in [Sessions -> Int]
    /\ resume \in [Sessions -> Nat]
    /\ offset \in [Sessions -> Nat]
    /\ left \in [Sessions -> Nat]
    /\ worker \in [Sessions -> {"none", "size", "ack"}]
    /\ connected \in [Sessions -> BOOLEAN]

Writing(s) == pc[s] \in {"receive", "close"}

(* What the place of a session says of it.                                 *)
PlaceInv(s) ==
    /\ pc[s] = "new" <=> to[s] = "none"
    /\ pc[s] \in {"new", "announce", "open"} => resume[s] = 0
    /\ pc[s] = "announce" => to[s] = "local"
    /\ to[s] = "local" /\ pc[s] # "done" => complete
    /\ pc[s] = "extend" => offset[s] = resume[s]
    /\ Writing(s) => /\ resume[s] <= offset[s]
                     /\ offset[s] = resume[s] \/ offset[s] <= size[s]

(* All who write a file agree on its length.                               *)
LengthInv ==
    /\ complete => length["server"] = Size
    /\ \A s \in Sessions :
          /\ to[s] = "local" /\ pc[s] \notin {"announce", "done"} => size[s] = Size
          /\ Writing(s) => length[to[s]] = Size

BytesInv ==
    /\ complete /\ Unresumed("server") => received["server"] = Bytes
    /\ \A s \in Sessions :
          Writing(s) /\ (Uploads(s) \/ Unresumed("server"))
          => resume[s]..(offset[s] - 1) \subseteq received[to[s]]

TransferInv ==
    /\ Types
    /\ \A s \in Sessions : PlaceInv(s)
    /\ Uncut => LengthInv /\ BytesInv

(* At the start nothing is stored beyond the old local files.              *)
LEMMA Starts == LengthFits /\ Init => TransferInv
<1> SUFFICES ASSUME LengthFits, Init PROVE TransferInv
    OBVIOUS
<1>1. Types
  <2>1. length \in [Files -> Nat]
    <3>1. PICK n \in OldLengths : length = [f \in Files |-> IF f = "local" THEN n ELSE 0]
          BY DEF Init
    <3> QED  BY <3>1, TransferAssumption
  <2>2. received \in [Files -> SUBSET Bytes]
        BY DEF Init
  <2>3. to \in [Sessions -> Files \cup {"none"}] /\ pc \in [Sessions -> Places]
        BY DEF Init, Places
  <2>4. /\ size \in [Sessions -> Int] /\ resume \in [Sessions -> Nat]
        /\ offset \in [Sessions -> Nat] /\ left \in [Sessions -> Nat]
        BY DEF Init
  <2>5. worker \in [Sessions -> {"none", "size", "ack"}] /\ connected \in [Sessions -> BOOLEAN]
        BY DEF Init
  <2> QED  BY <2>1, <2>2, <2>3, <2>4, <2>5 DEF Init, Types
<1>2. \A s \in Sessions : PlaceInv(s)
      BY DEF Init, PlaceInv, Writing
<1>3. LengthInv /\ BytesInv
      BY DEF Init, LengthInv, BytesInv, Writing
<1> QED  BY <1>1, <1>2, <1>3 DEF TransferInv

-----------------------------------------------------------------------------
(* Steps that change no file and no offset: a session goes on to close, or *)
(* is over.                                                                *)
LEMMA MovesKeep ==
    ASSUME TransferInv, Types', UNCHANGED <<files, to, size, resume, offset>>,
           \A s \in Sessions : \/ pc'[s] = pc[s]
                               \/ pc[s] # "new" /\ pc'[s] = "done"
                               \/ pc[s] = "receive" /\ pc'[s] = "close"
    PROVE  TransferInv'
<1>1. \A s \in Sessions : PlaceInv(s)'
      BY DEF TransferInv, PlaceInv, Writing, files
<1>2. ASSUME Uncut'
      PROVE  LengthInv' /\ BytesInv'
  <2>1. Uncut
        BY <1>2 DEF Uncut, Uploads
  <2>2. \A s \in Sessions : Writing(s)' => Writing(s)
        BY DEF Writing
  <2>3. LengthInv'
        BY <2>1, <2>2 DEF TransferInv, PlaceInv, LengthInv, files
  <2>4. Unresumed("server")' <=> Unresumed("server")
        BY DEF Unresumed
  <2>5. BytesInv'
        BY <2>1, <2>2, <2>4 DEF TransferInv, BytesInv, files, Uploads
  <2> QED  BY <2>3, <2>5
<1> QED  BY <1>1, <1>2 DEF TransferInv

(* Sessions end without writing.                                           *)
LEMMA EndsKeep ==
    ASSUME TransferInv, NEW s \in Sessions,
           \/ MapFails(s) \/ Disconnected(s) \/ LoopEnds(s) \/ BusError(s)
           \/ WorkerSends(s) \/ WorkerCloses(s) \/ ClientStops(s) \/ ServerCrashes
    PROVE  TransferInv'
<1>1. UNCHANGED <<files, to, size, resume, offset>>
      BY DEF MapFails, Disconnected, LoopEnds, BusError, WorkerSends, WorkerCloses, ClientStops,
             ServerCrashes, ServerDies, receiver
<1>2. \A v \in Sessions : \/ pc'[v] = pc[v]
                          \/ pc[v] # "new" /\ pc'[v] = "done"
                          \/ pc[v] = "receive" /\ pc'[v] = "close"
      BY DEF TransferInv, Types, MapFails, Disconnected, LoopEnds, BusError, WorkerSends, WorkerCloses,
             ClientStops, ServerCrashes, ServerDies, receiver, At, Goto, InLoop
<1>3. Types'
  <2>1. ToSend(length["server"], ToInt(resume[s])) \in Nat
        BY ToSendIsNat, ToIntIsInt DEF TransferInv, Types, Files
  <2>2. connected' \in [Sessions -> BOOLEAN]
    <3>1. \/ connected' = connected
          \/ connected' = [connected EXCEPT ![s] = FALSE]
          \/ connected' = [v \in Sessions |-> FALSE]
          BY DEF MapFails, Disconnected, LoopEnds, BusError, WorkerSends, WorkerCloses, ClientStops,
                 ServerCrashes, ServerDies
    <3> QED  BY <3>1 DEF TransferInv, Types
  <2>4. pc' \in [Sessions -> Places]
    <3>1. DOMAIN pc' = Sessions
          BY DEF TransferInv, Types, MapFails, Disconnected, LoopEnds, BusError, WorkerSends,
                 WorkerCloses, ClientStops, ServerCrashes, ServerDies, receiver, Goto
    <3>2. \A v \in Sessions : pc'[v] \in Places
          BY <1>2 DEF TransferInv, Types, Places
    <3>3. pc' = [v \in Sessions |-> pc'[v]]
          BY DEF TransferInv, Types, MapFails, Disconnected, LoopEnds, BusError, WorkerSends,
                 WorkerCloses, ClientStops, ServerCrashes, ServerDies, receiver, Goto
    <3> QED  BY <3>1, <3>2, <3>3
  <2>3. left' \in [Sessions -> Nat] /\ worker' \in [Sessions -> {"none", "size", "ack"}]
        BY <2>1 DEF TransferInv, Types, MapFails, Disconnected, LoopEnds, BusError, WorkerSends,
               WorkerCloses, ClientStops, ServerCrashes, ServerDies
  <2> QED  BY <1>1, <2>2, <2>3, <2>4 DEF TransferInv, Types, files
<1> QED  BY <1>1, <1>2, <1>3, MovesKeep

(* A session begins.                                                       *)
LEMMA BeginningKeeps ==
    ASSUME LengthFits, TransferInv, NEW s \in Sessions,
           StartsUpload(s) \/ StartsUploadCut(s) \/ StartsDownload(s)
    PROVE  TransferInv'
<1>1. /\ pc[s] = "new" /\ to[s] = "none" /\ resume[s] = 0
      /\ UNCHANGED <<files, resume, offset, left, worker>>
      BY DEF StartsUpload, StartsUploadCut, StartsDownload, At, TransferInv, PlaceInv
<1>2. \/ to' = [to EXCEPT ![s] = "server"] /\ pc' \in {[pc EXCEPT ![s] = l] : l \in {"done", "open"}}
      \/ /\ to' = [to EXCEPT ![s] = "local"] /\ complete /\ pc' = [pc EXCEPT ![s] = "announce"]
      \/ /\ to' = [to EXCEPT ![s] = "local"] /\ ~complete /\ pc' = [pc EXCEPT ![s] = "done"]
      BY DEF StartsUpload, StartsUploadCut, StartsDownload, Goto
<1>3. Types'
  <2>1. file_size \in Int
        BY SizeArrives, TransferAssumption
  <2>2. size' \in [Sessions -> Int] /\ connected' \in [Sessions -> BOOLEAN]
        BY <2>1 DEF StartsUpload, StartsUploadCut, StartsDownload, TransferInv, Types
  <2>3. to' \in [Sessions -> Files \cup {"none"}] /\ pc' \in [Sessions -> Places]
        BY <1>2 DEF TransferInv, Types, Files, Places
  <2> QED  BY <1>1, <2>2, <2>3 DEF TransferInv, Types, files
<1>4. /\ pc'[s] \in {"done", "open", "announce"} /\ to'[s] \in Files
      /\ pc'[s] = "announce" => to'[s] = "local" /\ complete
      /\ to'[s] = "local" => pc'[s] \in {"announce", "done"}
      /\ \A v \in Sessions : v # s => pc'[v] = pc[v] /\ to'[v] = to[v] /\ size'[v] = size[v]
      BY <1>2 DEF TransferInv, Types, Files, StartsUpload, StartsUploadCut, StartsDownload
<1>5. \A v \in Sessions : PlaceInv(v)'
      BY <1>1, <1>4 DEF TransferInv, PlaceInv, Writing, Files, files
<1>6. ASSUME Uncut'
      PROVE  LengthInv' /\ BytesInv'
  <2>1. Uncut
        BY <1>1, <1>4, <1>6 DEF Uncut, Uploads
  <2>2. \A v \in Sessions : Writing(v)' => Writing(v) /\ v # s
        BY <1>4 DEF Writing
  <2>3. LengthInv'
        BY <1>1, <1>4, <2>1, <2>2 DEF TransferInv, LengthInv, files
  <2>4. Unresumed("server")' <=> Unresumed("server")
        BY <1>1, <1>4 DEF Unresumed
  <2>5. BytesInv'
        BY <1>1, <1>4, <2>1, <2>2, <2>4 DEF TransferInv, BytesInv, files, Uploads
  <2> QED  BY <2>3, <2>5
<1> QED  BY <1>3, <1>5, <1>6 DEF TransferInv

(* The receiver is told the length.                                        *)
LEMMA AnnouncesKeeps ==
    ASSUME LengthFits, TransferInv, NEW s \in Sessions, Announces(s)
    PROVE  TransferInv'
<1>1. /\ pc[s] = "announce" /\ to[s] = "local" /\ complete /\ resume[s] = 0
      /\ UNCHANGED <<files, to, resume, offset, left, connected>>
      BY DEF Announces, At, TransferInv, PlaceInv
<1>2. Types'
  <2>1. ToInt(length["server"]) \in Int
        BY ToIntIsInt DEF TransferInv, Types, Files
  <2> QED  BY <1>1, <2>1 DEF Announces, Goto, TransferInv, Types, Places, files
<1>3. /\ pc'[s] = "open" /\ size'[s] = ToInt(length["server"])
      /\ \A v \in Sessions : v # s => pc'[v] = pc[v] /\ size'[v] = size[v]
      BY DEF Announces, Goto, TransferInv, Types
<1>4. \A v \in Sessions : PlaceInv(v)'
      BY <1>1, <1>3 DEF TransferInv, PlaceInv, Writing, files
<1>5. ASSUME Uncut'
      PROVE  LengthInv' /\ BytesInv'
  <2>1. Uncut
        BY <1>1, <1>3, <1>5 DEF Uncut, Uploads
  <2>2. \A v \in Sessions : Writing(v)' => Writing(v)
        BY <1>3 DEF Writing
  <2>3. size'[s] = Size
        BY <1>1, <1>3, <2>1, SizeArrives DEF TransferInv, LengthInv
  <2>4. LengthInv'
        BY <1>1, <1>3, <2>1, <2>2, <2>3 DEF TransferInv, LengthInv, files
  <2>5. Unresumed("server")' <=> Unresumed("server")
        BY <1>1 DEF Unresumed
  <2>6. BytesInv'
        BY <1>1, <2>1, <2>2, <2>5 DEF TransferInv, BytesInv, files, Uploads
  <2> QED  BY <2>4, <2>6
<1> QED  BY <1>2, <1>4, <1>5 DEF TransferInv

(* The file is measured: where it starts is where it stands.               *)
LEMMA OpensKeeps ==
    ASSUME TransferInv, NEW s \in Sessions, Opens(s)
    PROVE  TransferInv'
<1> DEFINE start == ResumeAt(length[to[s]])
<1>1. pc[s] = "open" /\ resume[s] = 0 /\ UNCHANGED <<files, to, size, worker, connected>>
      BY DEF Opens, At, TransferInv, PlaceInv
<1>2. start \in Nat
  <2>1. to[s] \in Files
        BY <1>1 DEF TransferInv, PlaceInv, Types
  <2> QED  BY <2>1, ResumeIsNat DEF TransferInv, Types
<1>3. /\ pc' = [pc EXCEPT ![s] = "extend"]
      /\ resume' = [resume EXCEPT ![s] = start] /\ offset' = [offset EXCEPT ![s] = start]
      BY DEF Opens, Goto
<1>4. Types'
  <2>1. ToSend(Size, ToInt(start)) \in Nat
        BY <1>2, ToSendIsNat, ToIntIsInt, TransferAssumption
  <2>2. left' \in [Sessions -> Nat]
        BY <2>1 DEF Opens, TransferInv, Types
  <2> QED  BY <1>1, <1>2, <1>3, <2>2 DEF TransferInv, Types, Places, files
<1>5. /\ pc'[s] = "extend" /\ resume'[s] = offset'[s]
      /\ \A v \in Sessions : v # s => /\ pc'[v] = pc[v]
                                      /\ resume'[v] = resume[v] /\ offset'[v] = offset[v]
      BY <1>3 DEF TransferInv, Types
<1>6. \A v \in Sessions : PlaceInv(v)'
      BY <1>1, <1>5 DEF TransferInv, PlaceInv, Writing, files
<1>7. ASSUME Uncut'
      PROVE  LengthInv' /\ BytesInv'
  <2>1. Uncut
        BY <1>1, <1>7 DEF Uncut, Uploads
  <2>2. \A v \in Sessions : Writing(v)' => Writing(v) /\ v # s
        BY <1>5 DEF Writing
  <2>3. LengthInv'
        BY <1>1, <1>5, <2>1, <2>2 DEF TransferInv, LengthInv, files
  <2>4. Unresumed("server")' => Unresumed("server")
        BY <1>1, <1>5 DEF Unresumed
  <2>5. BytesInv'
        BY <1>1, <1>5, <2>1, <2>2, <2>4 DEF TransferInv, BytesInv, files, Uploads
  <2> QED  BY <2>3, <2>5
<1> QED  BY <1>4, <1>6, <1>7 DEF TransferInv

(* A session that was told the length knows it right.                      *)
LEMMA SizeIsKnown ==
    ASSUME LengthFits, TransferInv, Uncut, NEW s \in Sessions,
           pc[s] \in {"extend", "receive", "close"}
    PROVE  to[s] \in Files /\ size[s] = Size
<1>1. to[s] \in Files
      BY DEF TransferInv, PlaceInv, Types
<1>2. to[s] = "server" => size[s] = Size
      BY SizeArrives DEF Uncut, Uploads
<1>3. to[s] = "local" => size[s] = Size
      BY DEF TransferInv, LengthInv
<1> QED  BY <1>1, <1>2, <1>3 DEF Files

(* The file gets the length of the content, and loses no byte of it.       *)
LEMMA ExtendsKeeps ==
    ASSUME LengthFits, TransferInv, NEW s \in Sessions, Extends(s)
    PROVE  TransferInv'
<1>1. /\ pc[s] = "extend" /\ pc' = [pc EXCEPT ![s] = "receive"] /\ to[s] \in Files
      /\ UNCHANGED <<complete, to, size, resume, offset, left, worker, connected>>
      BY DEF Extends, At, Goto, TransferInv, PlaceInv, Types
<1>2. Types'
  <2>1. length' \in [Files -> Nat]
        BY <1>1 DEF Extends, TransferInv, Types
  <2>2. received' \in [Files -> SUBSET Bytes]
        BY <1>1 DEF Extends, TransferInv, Types
  <2> QED  BY <1>1, <2>1, <2>2 DEF TransferInv, Types, Places
<1>3. pc'[s] = "receive" /\ \A v \in Sessions : v # s => pc'[v] = pc[v]
      BY <1>1 DEF TransferInv, Types
<1>4. \A v \in Sessions : PlaceInv(v)'
  <2>1. resume[s] <= offset[s]
        BY <1>1 DEF TransferInv, PlaceInv, Types
  <2> QED  BY <1>1, <1>3, <2>1 DEF TransferInv, PlaceInv, Writing
<1>5. ASSUME Uncut'
      PROVE  LengthInv' /\ BytesInv'
  <2>1. Uncut
        BY <1>1, <1>5 DEF Uncut, Uploads
  <2>2. size[s] = Size
        BY <1>1, <2>1, SizeIsKnown
  <2>3. length' = [length EXCEPT ![to[s]] = Size] /\ length'[to[s]] = Size
        BY <1>1, <2>2, TransferAssumption DEF Extends, TransferInv, Types
  <2>4. received' = received
    <3>1. received[to[s]] \cap 0..(length'[to[s]] - 1) = received[to[s]]
          BY <1>1, <2>3 DEF TransferInv, Types, Bytes
    <3> QED  BY <1>1, <3>1 DEF Extends, TransferInv, Types
  <2>5. LengthInv'
        BY <1>1, <1>3, <2>1, <2>3, SizeIsKnown DEF TransferInv, LengthInv, Types, Files, Writing
  <2>6. Unresumed("server")' <=> Unresumed("server")
        BY <1>1 DEF Unresumed
  <2>7. BytesInv'
    <3>1. resume[s]..(offset[s] - 1) \subseteq received[to[s]]
          BY <1>1 DEF TransferInv, PlaceInv, Types
    <3>2. \A v \in Sessions : Writing(v)' => Writing(v) \/ v = s
          BY <1>3 DEF Writing
    <3> QED  BY <1>1, <2>1, <2>4, <2>6, <3>1, <3>2 DEF TransferInv, BytesInv, Uploads
  <2> QED  BY <2>5, <2>7
<1> QED  BY <1>2, <1>4, <1>5 DEF TransferInv

(* Bytes arrive: they are the content's, and those that were stay.         *)
LEMMA ReceivesKeeps ==
    ASSUME LengthFits, TransferInv, NEW s \in Sessions, NEW n \in 1..Page, Receives(s, n)
    PROVE  TransferInv'
<1> DEFINE count == IF offset[s] + n > size[s] THEN size[s] - offset[s] ELSE n
           here  == Chunk(s, count) \cap 0..(length[to[s]] - 1)
<1>1. /\ pc[s] = "receive" /\ to[s] \in Files /\ offset[s] < size[s] /\ n <= left[s]
      /\ UNCHANGED <<length, complete, to, pc, size, resume, worker, connected>>
      BY DEF Receives, InLoop, At, TransferInv, PlaceInv, Types
<1>2. /\ received' = [received EXCEPT ![to[s]] = (@ \ here) \cup (here \cap Good(s))]
      /\ offset' = [offset EXCEPT ![s] = @ + count]
      BY DEF Receives
<1>3. /\ size[s] \in Int /\ offset[s] \in Nat /\ left[s] \in Nat
      /\ n \in Nat /\ resume[s] \in Nat /\ resume[s] <= offset[s]
      BY <1>1, TransferAssumption DEF TransferInv, Types, PlaceInv, Writing
<1>4. count \in Nat /\ offset[s] + count <= size[s]
      BY <1>1, <1>3
<1>5. Types'
  <2>1. Good(s) \subseteq Bytes
        BY DEF Good, TransferInv, Types, Files
  <2>2. received' \in [Files -> SUBSET Bytes]
        BY <1>1, <1>2, <2>1 DEF TransferInv, Types
  <2>3. offset' \in [Sessions -> Nat]
        BY <1>2, <1>3, <1>4 DEF TransferInv, Types
  <2>4. left' \in [Sessions -> Nat]
        BY <1>1, <1>3 DEF Receives, TransferInv, Types
  <2> QED  BY <1>1, <2>2, <2>3, <2>4 DEF TransferInv, Types
<1>6. offset'[s] = offset[s] + count /\ \A v \in Sessions : v # s => offset'[v] = offset[v]
      BY <1>2 DEF TransferInv, Types
<1>7. \A v \in Sessions : PlaceInv(v)'
  <2>1. PlaceInv(s)'
        BY <1>1, <1>3, <1>4, <1>6 DEF TransferInv, PlaceInv, Writing
  <2>2. ASSUME NEW v \in Sessions, v # s PROVE PlaceInv(v)'
        BY <1>1, <1>6, <2>2 DEF TransferInv, PlaceInv, Writing
  <2> QED  BY <2>1, <2>2
<1>8. ASSUME Uncut'
      PROVE  LengthInv' /\ BytesInv'
  <2>1. Uncut
        BY <1>1, <1>8 DEF Uncut, Uploads
  <2>2. size[s] = Size /\ length[to[s]] = Size
        BY <1>1, <2>1, SizeIsKnown DEF TransferInv, LengthInv, Writing
  <2>3. LengthInv'
        BY <1>1, <2>1 DEF TransferInv, LengthInv, Writing
  <2>4. Unresumed("server")' <=> Unresumed("server")
        BY <1>1 DEF Unresumed
  <2>5. here = Chunk(s, count) /\ here \subseteq Bytes
        BY <1>3, <1>4, <2>2, TransferAssumption DEF Chunk, Bytes
  <2>6. Uploads(s) \/ Unresumed("server") => Good(s) = Bytes
    <3>1. to[s] = "local" => complete
          BY <1>1 DEF TransferInv, PlaceInv
    <3> QED  BY <1>1, <2>1, <3>1 DEF TransferInv, BytesInv, Good, Files, Uploads
  <2>7. Uploads(s) \/ Unresumed("server") =>
            /\ received'[to[s]] = received[to[s]] \cup here
            /\ \A f \in Files : received[f] \subseteq received'[f]
        BY <1>1, <1>2, <2>5, <2>6 DEF TransferInv, Types
  <2>8. ~Uploads(s) => received'["server"] = received["server"]
        BY <1>1, <1>2 DEF TransferInv, Types, Files, Uploads
  <2>9. complete /\ Unresumed("server") => received'["server"] = Bytes
    <3>1. received'["server"] \subseteq Bytes
          BY <1>5 DEF Types, Files
    <3> QED  BY <2>1, <2>7, <3>1 DEF TransferInv, BytesInv, Files
  <2>10. ASSUME NEW v \in Sessions, Writing(v), Uploads(v) \/ Unresumed("server")
         PROVE  resume[v]..(offset'[v] - 1) \subseteq received'[to[v]]
    <3>1. resume[v]..(offset[v] - 1) \subseteq received[to[v]] /\ to[v] \in Files
          BY <2>1, <2>10, SizeIsKnown DEF TransferInv, BytesInv, Writing
    <3>2. CASE v = s
      <4>1. resume[s]..(offset'[s] - 1) \subseteq (resume[s]..(offset[s] - 1)) \cup Chunk(s, count)
            BY <1>3, <1>4, <1>6 DEF Chunk
      <4> QED  BY <2>5, <2>7, <2>10, <3>1, <3>2, <4>1
    <3>3. CASE v # s /\ (Uploads(s) \/ Unresumed("server"))
          BY <1>6, <2>7, <3>1, <3>3
    <3>4. CASE v # s /\ ~Uploads(s) /\ ~Unresumed("server")
          BY <1>6, <2>8, <2>10, <3>1, <3>4 DEF Uploads
    <3> QED  BY <3>2, <3>3, <3>4
  <2>11. BytesInv'
         BY <1>1, <2>4, <2>9, <2>10 DEF BytesInv, Writing, Uploads
  <2> QED  BY <2>3, <2>11
<1> QED  BY <1>5, <1>7, <1>8 DEF TransferInv

(* A session that has all bytes marks the content: it wrote each of them.  *)
LEMMA ClosesKeeps ==
    ASSUME LengthFits, TransferInv, NEW s \in Sessions, Closes(s)
    PROVE  TransferInv'
<1>1. /\ pc[s] = "close" /\ pc' = [pc EXCEPT ![s] = "done"]
      /\ complete' = (complete \/ (Uploads(s) /\ offset[s] = size[s]))
      /\ UNCHANGED <<length, received, to, size, resume, offset, left, worker>>
      BY DEF Closes, At, Goto
<1>2. Types'
  <2>1. connected' \in [Sessions -> BOOLEAN] /\ complete' \in BOOLEAN
        BY DEF Closes, TransferInv, Types
  <2> QED  BY <1>1, <2>1 DEF TransferInv, Types, Places
<1>3. pc'[s] = "done" /\ \A v \in Sessions : v # s => pc'[v] = pc[v]
      BY <1>1 DEF TransferInv, Types
<1>4. \A v \in Sessions : PlaceInv(v)'
  <2>1. complete => complete'
        BY <1>1 DEF TransferInv, Types
  <2>2. PlaceInv(s)'
        BY <1>1, <1>3, <2>1 DEF TransferInv, PlaceInv, Writing
  <2>3. ASSUME NEW v \in Sessions, v # s PROVE PlaceInv(v)'
    <3>1. PlaceInv(v) /\ pc'[v] = pc[v]
          BY <1>3, <2>3 DEF TransferInv
    <3> QED  BY <1>1, <2>1, <3>1 DEF PlaceInv, Writing
  <2> QED  BY <2>2, <2>3
<1>5. ASSUME Uncut'
      PROVE  LengthInv' /\ BytesInv'
  <2>1. Uncut
        BY <1>1, <1>5 DEF Uncut, Uploads
  <2>2. size[s] = Size /\ length[to[s]] = Size
        BY <1>1, <2>1, SizeIsKnown DEF TransferInv, LengthInv, Writing
  <2>3. \A v \in Sessions : Writing(v)' => Writing(v) /\ v # s
        BY <1>3 DEF Writing
  <2>4. LengthInv'
        BY <1>1, <1>3, <2>1, <2>2, <2>3 DEF TransferInv, LengthInv, Uploads
  <2>5. Unresumed("server")' <=> Unresumed("server")
        BY <1>1 DEF Unresumed
  <2>6. ASSUME Uploads(s), offset[s] = size[s], Unresumed("server")
        PROVE  received["server"] = Bytes
    <3>1. resume[s] = 0 /\ resume[s]..(offset[s] - 1) \subseteq received["server"]
          BY <1>1, <2>1, <2>6 DEF TransferInv, BytesInv, Writing, Uploads, Unresumed
    <3> QED  BY <2>2, <2>6, <3>1 DEF TransferInv, Types, Files, Bytes
  <2>7. BytesInv'
        BY <1>1, <2>1, <2>3, <2>5, <2>6 DEF TransferInv, BytesInv, Uploads
  <2> QED  BY <2>4, <2>7
<1> QED  BY <1>2, <1>4, <1>5 DEF TransferInv

(* Every step keeps it.                                                    *)
LEMMA TransferInvKept == LengthFits /\ TransferInv /\ [Next]_vars => TransferInv'
<1> SUFFICES ASSUME LengthFits, TransferInv, [Next]_vars PROVE TransferInv'
    OBVIOUS
<1>1. CASE UNCHANGED vars
  <2>1. Types'
        BY <1>1 DEF vars, files, receiver, TransferInv, Types
  <2> QED  BY <1>1, <2>1, MovesKeep DEF vars, receiver
<1>2. CASE Finished
      BY <1>1, <1>2 DEF Finished
<1>3. ASSUME NEW s \in Sessions,
             \/ StartsUpload(s) \/ StartsUploadCut(s) \/ StartsDownload(s)
             \/ Receiver(s) \/ BusError(s) \/ Worker(s) \/ ClientStops(s)
      PROVE  TransferInv'
  <2>1. CASE Receiver(s)
        BY <2>1, OpensKeeps, ExtendsKeeps, ReceivesKeeps, ClosesKeeps, EndsKeep DEF Receiver
  <2>2. CASE Worker(s)
        BY <2>2, AnnouncesKeeps, EndsKeep DEF Worker
  <2> QED  BY <1>3, <2>1, <2>2, BeginningKeeps, EndsKeep
<1>4. CASE ServerCrashes
  <2>1. PICK s \in Sessions : pc[s] \notin {"new", "done"} \/ worker[s] # "none"
        BY <1>4 DEF ServerCrashes
  <2> QED  BY <1>4, <2>1, EndsKeep
<1> QED  BY <1>1, <1>2, <1>3, <1>4 DEF Next

(* Announced lengths, file sizes, bytes stored and bytes under way agree   *)
(* in every reachable state (recv_file, file_change.c:10-113, and          *)
(* gets_File, client/pthread.c:114-157).                                   *)
THEOREM TransferInvariance == ASSUME LengthFits PROVE Spec => []TransferInv
BY Starts, TransferInvKept, LengthFits, PTL DEF Spec

-----------------------------------------------------------------------------
(* For every number of sessions that measure, extend and write the same    *)
(* file at once, the bytes a session has received are in it, at their      *)
(* places (file_change.c:87-104, pthread.c:136-153), as long as no upload  *)
(* was cut in its announcement (Uncut).                                    *)
THEOREM BytesStay == ASSUME LengthFits PROVE Spec => []SessionBytesArrive
<1>1. TransferInv => SessionBytesArrive
      BY DEF TransferInv, BytesInv, SessionBytesArrive, Writing
<1> QED  BY <1>1, TransferInvariance, LengthFits, PTL

(* As long as no upload was cut in its announcement (Uncut), no session    *)
(* maps a page behind the end of the file (file_change.c:95-100): all that *)
(* write it have set the same length.  After such a cut a page can vanish. *)
THEOREM PagesAreThere == ASSUME LengthFits PROVE Spec => []MapsWithinFile
<1>1. TransferInv => MapsWithinFile
  <2> SUFFICES ASSUME TransferInv, NEW s \in Sessions, Uncut, InLoop(s)
               PROVE  offset[s] < length[to[s]]
      BY DEF MapsWithinFile
  <2>1. Writing(s) /\ offset[s] < size[s]
        BY DEF InLoop, At, Writing
  <2> QED  BY <2>1, SizeIsKnown, LengthFits DEF TransferInv, LengthInv, Writing
<1> QED  BY <1>1, TransferInvariance, LengthFits, PTL

(* A content is marked complete only when it is whole, if no upload was    *)
(* resumed or cut in its announcement (file_change.c:105-112).             *)
THEOREM CompleteContentIsWhole == ASSUME LengthFits PROVE Spec => []WholeUnlessResumed
<1>1. TransferInv => WholeUnlessResumed
      BY DEF TransferInv, LengthInv, BytesInv, WholeUnlessResumed, Whole
<1> QED  BY <1>1, TransferInvariance, LengthFits, PTL

(* A download that got through is the content, whatever file the client    *)
(* had under that name, if no session was resumed and no upload cut in its *)
(* announcement (pthread.c:124-154).                                       *)
THEOREM DownloadsAreWhole == ASSUME LengthFits PROVE Spec => []DownloadIsWhole
<1>1. TransferInv => DownloadIsWhole
  <2> SUFFICES ASSUME TransferInv, NEW s \in Sessions,
                      Uncut, Unresumed("server"), Unresumed("local"),
                      to[s] = "local", pc[s] = "close", offset[s] = size[s]
               PROVE  Whole("local")
      BY DEF DownloadIsWhole
  <2>1. size[s] = Size /\ length["local"] = Size
        BY SizeIsKnown, LengthFits DEF TransferInv, LengthInv, Writing
  <2>2. resume[s] = 0 /\ resume[s]..(offset[s] - 1) \subseteq received["local"]
        BY DEF TransferInv, BytesInv, Writing, Unresumed
  <2>3. received["local"] \subseteq Bytes
        BY DEF TransferInv, Types, Files
  <2> QED  BY <2>1, <2>2, <2>3 DEF Whole, Bytes
<1> QED  BY <1>1, TransferInvariance, LengthFits, PTL
=============================================================================
