---------------------------- MODULE BridgeProofs ----------------------------
(* The bridge keeps its handles straight, and no snapshot and no command      *)
(* passes another one on its way but where the code lets it, through every    *)
(* lost session, restart and overlap of a push and a pop.                     *)
EXTENDS Bridge, TLAPS

Ends == {"none", "open", "closed"}

-----------------------------------------------------------------------------
(* Types and handles *)

PipeType ==
    pipe \in [Sessions -> [srv : Ends, cli : Ends, up : Seq(Nat), down : Seq(Nat)]]

BridgeType ==
    /\ sent \in 0 .. MaxSnap
    /\ game \in 1 .. MaxGame
    /\ polling \in Nat
    /\ applied \in Nat
    /\ loop \in {"get", "put"}
    /\ decided \in Nat
    /\ taken \in [Sessions -> Nat]

Types == PipeType /\ ServerTypeOK /\ ClientTypeOK /\ BridgeType

\* What a queue holds as waiting waits, and is in it once.
Waits(q, at) ==
    /\ \A i \in 1 .. Len(q) : at[q[i]] = "wait"
    /\ \A i, j \in 1 .. Len(q) : q[i] = q[j] => i = j

\* The server has one instance open, that of the session it is in; nothing was
\* done yet with the instances that it will make.
ServerHandles ==
    /\ Waits(putters, reader)
    /\ Waits(getters, writer)
    /\ srv \in {"accept", "serve"} => sess # 0
    /\ \A s \in Sessions :
         /\ pipe[s].srv = "none" <=> s > sess
         /\ pipe[s].srv = "open" <=> s = sess /\ srv \in {"accept", "serve"}
         /\ s > sess => pipe[s].cli = "none" /\ pipe[s].up = << >>
         /\ s = sess /\ srv = "serve" => pipe[s].cli # "none"
         /\ s > sess \/ (s = sess /\ srv = "accept") => reader[s] = "off" /\ writer[s] = "off"

\* The thread has a handle, to a client end that is open, from CreateFile to
\* CloseHandle; before that nothing goes through the instance.
ClientHandles ==
    /\ handle # 0 <=> status = 2
    /\ handle # 0 <=> pt \in {"flush", "copy", "body", "peek", "close"}
    /\ \A s \in Sessions :
         /\ pipe[s].cli = "open" <=> handle = s
         /\ pipe[s].cli = "none" => pipe[s].up = << >> /\ pipe[s].down = << >>

Handles == Types /\ ServerHandles /\ ClientHandles

-----------------------------------------------------------------------------
(* What an operation on the pipe changes *)

\* Only the server's end of one instance changes.
LEMMA SrvChanges ==
    ASSUME PipeType, NEW s \in Sessions, NEW e \in Ends,
           pipe' = [pipe EXCEPT ![s].srv = e]
    PROVE  /\ PipeType'
           /\ \A t \in Sessions :
                /\ pipe'[t].srv = IF t = s THEN e ELSE pipe[t].srv
                /\ pipe'[t].cli = pipe[t].cli
                /\ pipe'[t].up = pipe[t].up /\ pipe'[t].down = pipe[t].down
BY DEF PipeType

\* Only its client end changes.
LEMMA CliChanges ==
    ASSUME PipeType, NEW s \in Sessions, NEW e \in Ends,
           pipe' = [pipe EXCEPT ![s].cli = e]
    PROVE  /\ PipeType'
           /\ \A t \in Sessions :
                /\ pipe'[t].srv = pipe[t].srv
                /\ pipe'[t].cli = IF t = s THEN e ELSE pipe[t].cli
                /\ pipe'[t].up = pipe[t].up /\ pipe'[t].down = pipe[t].down
BY DEF PipeType

\* Only its stream to the server changes.
LEMMA UpChanges ==
    ASSUME PipeType, NEW s \in Sessions, NEW q \in Seq(Nat),
           pipe' = [pipe EXCEPT ![s].up = q]
    PROVE  /\ PipeType'
           /\ \A t \in Sessions :
                /\ pipe'[t].srv = pipe[t].srv /\ pipe'[t].cli = pipe[t].cli
                /\ pipe'[t].up = IF t = s THEN q ELSE pipe[t].up
                /\ pipe'[t].down = pipe[t].down
BY DEF PipeType

\* Only its stream to the game changes.
LEMMA DownChanges ==
    ASSUME PipeType, NEW s \in Sessions, NEW q \in Seq(Nat),
           pipe' = [pipe EXCEPT ![s].down = q]
    PROVE  /\ PipeType'
           /\ \A t \in Sessions :
                /\ pipe'[t].srv = pipe[t].srv /\ pipe'[t].cli = pipe[t].cli
                /\ pipe'[t].up = pipe[t].up
                /\ pipe'[t].down = IF t = s THEN q ELSE pipe[t].down
BY DEF PipeType

\* The four fields of an instance.
LEMMA PipeAt ==
    ASSUME PipeType, NEW s \in Sessions
    PROVE  /\ pipe[s].srv \in Ends /\ pipe[s].cli \in Ends
           /\ pipe[s].up \in Seq(Nat) /\ pipe[s].down \in Seq(Nat)
BY DEF PipeType

\* What is left of a queue is shorter.
LEMMA TailType ==
    ASSUME NEW T, NEW q \in Seq(T), q # << >>
    PROVE  /\ Head(q) \in T /\ Tail(q) \in Seq(T) /\ Len(Tail(q)) = Len(q) - 1
           /\ Len(q) \in Nat \ {0} /\ Head(q) = q[1]
           /\ \A i \in 1 .. Len(q) : q[i] \in T
           /\ \A i \in 1 .. Len(Tail(q)) : Tail(q)[i] = q[i + 1]
OBVIOUS

Entries == [sess : Sessions, id : Nat]

\* What is left of snapshot_queue.
LEMMA SnapQTail ==
    ASSUME ServerTypeOK, snapQ # << >>
    PROVE  /\ Head(snapQ) \in Entries /\ Tail(snapQ) \in Seq(Entries)
           /\ Len(Tail(snapQ)) <= QCap /\ Len(Tail(snapQ)) = Len(snapQ) - 1
           /\ Len(snapQ) \in Nat \ {0} /\ Head(snapQ) = snapQ[1]
           /\ \A i \in 1 .. Len(snapQ) : snapQ[i] \in Entries
           /\ \A i \in 1 .. Len(Tail(snapQ)) : Tail(snapQ)[i] = snapQ[i + 1]
<1>1. snapQ \in Seq(Entries) /\ Len(snapQ) <= QCap
  BY DEF ServerTypeOK, Entries
<1> QED  BY <1>1, QCapAssumption, TailType

\* A task that waits and is not touched goes on waiting.
LEMMA WaitsOn ==
    ASSUME NEW q \in Seq(Sessions), NEW at, NEW at2, Waits(q, at),
           \A t \in Sessions : at[t] = "wait" => at2[t] = "wait"
    PROVE  Waits(q, at2)
BY DEF Waits

\* A task that begins to wait is the last in the queue.
LEMMA WaitsMore ==
    ASSUME NEW q \in Seq(Sessions), NEW T, NEW at \in [Sessions -> T], NEW s \in Sessions,
           Waits(q, at), at[s] # "wait"
    PROVE  Waits(Append(q, s), [at EXCEPT ![s] = "wait"])
<1> DEFINE r == Append(q, s)
<1>1. /\ Len(r) = Len(q) + 1 /\ Len(q) \in Nat /\ r[Len(q) + 1] = s
      /\ \A i \in 1 .. Len(q) : r[i] = q[i] /\ q[i] \in Sessions
  OBVIOUS
<1> HIDE DEF r
<1>2. \A i \in 1 .. Len(q) : q[i] # s
  BY DEF Waits
<1>3. \A i \in 1 .. Len(r) : i \in 1 .. Len(q) \/ i = Len(q) + 1
  BY <1>1
<1>4. \A i \in 1 .. Len(r) : [at EXCEPT ![s] = "wait"][r[i]] = "wait"
  BY <1>1, <1>2, <1>3 DEF Waits
<1>5. ASSUME NEW i \in 1 .. Len(r), NEW j \in 1 .. Len(r), r[i] = r[j]
      PROVE  i = j
  <2>1. CASE i \in 1 .. Len(q) /\ j \in 1 .. Len(q)
    <3>1. q[i] = q[j]
      BY <1>1, <1>5, <2>1
    <3> QED  BY <2>1, <3>1 DEF Waits
  <2>2. CASE i \notin 1 .. Len(q) \/ j \notin 1 .. Len(q)
    <3>1. i = Len(q) + 1 \/ j = Len(q) + 1
      BY <1>3, <2>2
    <3> QED  BY <1>1, <1>2, <1>3, <1>5, <3>1
  <2> QED  BY <2>1, <2>2
<1> QED  BY <1>4, <1>5 DEF Waits, r

\* The first in the queue is woken.
LEMMA WaitsLess ==
    ASSUME NEW q \in Seq(Sessions), NEW T, NEW at \in [Sessions -> T], NEW e,
           Waits(q, at), q # << >>
    PROVE  /\ Head(q) \in Sessions /\ at[Head(q)] = "wait"
           /\ Waits(Tail(q), [at EXCEPT ![Head(q)] = e])
<1> DEFINE r == Tail(q)
<1>1. /\ Head(q) = q[1] /\ q[1] \in Sessions /\ Len(q) \in Nat /\ 1 \in 1 .. Len(q)
      /\ \A i \in 1 .. Len(r) : r[i] = q[i + 1] /\ i + 1 \in 1 .. Len(q) /\ i + 1 # 1
      /\ \A i \in 1 .. Len(q) : q[i] \in Sessions
  OBVIOUS
<1> HIDE DEF r
<1>2. \A i \in 1 .. Len(r) : r[i] # Head(q) /\ r[i] \in Sessions
  BY <1>1 DEF Waits
<1>3. \A i \in 1 .. Len(r) : [at EXCEPT ![Head(q)] = e][r[i]] = "wait"
  BY <1>1, <1>2 DEF Waits
<1>4. \A i, j \in 1 .. Len(r) : r[i] = r[j] => i = j
  <2> SUFFICES ASSUME NEW i \in 1 .. Len(r), NEW j \in 1 .. Len(r), r[i] = r[j]
               PROVE  i = j
    OBVIOUS
  <2>1. q[i + 1] = q[j + 1] /\ i + 1 \in 1 .. Len(q) /\ j + 1 \in 1 .. Len(q)
    BY <1>1
  <2>2. i + 1 = j + 1
    BY <2>1 DEF Waits
  <2> QED  BY <2>2
<1>5. at[Head(q)] = "wait"
  BY <1>1 DEF Waits
<1> QED  BY <1>1, <1>3, <1>4, <1>5 DEF Waits, r

-----------------------------------------------------------------------------
(* Types *)

\* Every step of the server keeps the types.
LEMMA ServerStepTypes ==
    ASSUME PipeType, ServerTypeOK, ServerHandles, Server
    PROVE  PipeType' /\ ServerTypeOK'
<1> USE MaxSessionAssumption, QCapAssumption
<1>1. CASE CreatePipe
  <2>1. sess + 1 \in Sessions
    BY <1>1 DEF CreatePipe, ServerTypeOK, Sessions
  <2>2. PipeType'
    BY <1>1, <2>1, SrvChanges DEF CreatePipe, CreateInstance, Ends
  <2> QED  BY <1>1, <2>1, <2>2 DEF CreatePipe, ServerTypeOK, taskVars, Sessions
<1>2. CASE Accept
  <2>1. sess \in Sessions
    BY <1>2 DEF Accept, ServerTypeOK, ServerHandles, Sessions
  <2>2. PipeType'
    BY <1>2 DEF Accept, PipeType
  <2> QED  BY <1>2, <2>1, <2>2 DEF Accept, ServerTypeOK
<1>3. CASE AcceptFails \/ EndSession
  <2>1. sess \in Sessions
    BY <1>3 DEF AcceptFails, EndSession, ServerTypeOK, ServerHandles, Sessions
  <2>2. PipeType'
    BY <1>3, <2>1, SrvChanges DEF AcceptFails, EndSession, ServerClose, Ends
  <2> QED  BY <1>3, <2>2 DEF AcceptFails, EndSession, ServerTypeOK, taskVars
<1>4. CASE Wake
  BY <1>4 DEF Wake, PipeType, ServerTypeOK, taskVars
<1>5. ASSUME NEW s \in Sessions, ReaderStep(s)
      PROVE  PipeType' /\ ServerTypeOK'
  <2>1. CASE ReadLength(s)
    <3>1. pipe[s].up \in Seq(Nat) /\ pipe[s].up # << >>
      BY <2>1, PipeAt DEF ReadLength, ServerCanRead
    <3>2. Tail(pipe[s].up) \in Seq(Nat) /\ pipe' = [pipe EXCEPT ![s].up = Tail(pipe[s].up)]
      BY <2>1, <3>1 DEF ReadLength, ServerTake
    <3>3. PipeType'
      BY <3>2, UpChanges
    <3> QED  BY <2>1, <3>3 DEF ReadLength, ServerTypeOK
  <2>2. CASE ReadEOF(s) \/ ReadBodyFails(s)
    BY <2>2 DEF ReadEOF, ReadBodyFails, PipeType, ServerTypeOK
  <2>3. CASE ReadBody(s)
    <3>1. pipe[s].up \in Seq(Nat) /\ pipe[s].up # << >>
      BY <2>3, PipeAt DEF ReadBody, ServerCanRead
    <3>2. Tail(pipe[s].up) \in Seq(Nat) /\ pipe' = [pipe EXCEPT ![s].up = Tail(pipe[s].up)]
      BY <2>3, <3>1 DEF ReadBody, ServerTake
    <3>3. PipeType'
      BY <3>2, UpChanges
    <3>4. Head(pipe[s].up) \in Nat
      BY <3>1
    <3> QED  BY <2>3, <3>3, <3>4 DEF ReadBody, ServerTypeOK
  <2>4. CASE PutSnapshot(s)
    <3>1. [sess |-> s, id |-> rmsg[s]] \in [sess : Sessions, id : Nat]
      BY DEF ServerTypeOK
    <3> QED  BY <2>4, <3>1 DEF PutSnapshot, PipeType, ServerTypeOK
  <2>5. CASE WaitForRoom(s)
    BY <2>5 DEF WaitForRoom, PipeType, ServerTypeOK
  <2> QED  BY <1>5, <2>1, <2>2, <2>3, <2>4, <2>5 DEF ReaderStep
<1>6. ASSUME NEW s \in Sessions, WriterStep(s)
      PROVE  PipeType' /\ ServerTypeOK'
  <2>1. wmsg[s] \in Nat
    BY DEF ServerTypeOK
  <2>2. CASE GetCommand(s)
    <3>1. Head(cmdQ) \in Nat /\ Tail(cmdQ) \in Seq(Nat) /\ Len(Tail(cmdQ)) <= QCap
      BY <2>2, TailType DEF GetCommand, ServerTypeOK
    <3>2. wmsg' \in [Sessions -> Nat]
          /\ writer' \in [Sessions -> {"off", "get", "wait", "write", "raised"}]
      BY <2>2, <3>1 DEF GetCommand, ServerTypeOK
    <3> QED  BY <2>2, <3>1, <3>2 DEF GetCommand, PipeType, ServerTypeOK
  <2>3. CASE WriteCommand(s)
    <3>1. Append(pipe[s].down, wmsg[s]) \in Seq(Nat)
      BY <2>1, PipeAt
    <3>2. PipeType'
      BY <2>3, <3>1, DownChanges DEF WriteCommand, ServerWrite
    <3> QED  BY <2>1, <2>3, <3>2 DEF WriteCommand, ServerTypeOK
  <2>4. CASE WriteFails(s)
    BY <2>1, <2>4 DEF WriteFails, PipeType, ServerTypeOK
  <2>5. CASE WaitForCommand(s)
    BY <2>5 DEF WaitForCommand, PipeType, ServerTypeOK
  <2> QED  BY <1>6, <2>2, <2>3, <2>4, <2>5 DEF WriterStep, WriteEnds
<1> QED  BY <1>1, <1>2, <1>3, <1>4, <1>5, <1>6 DEF Server, MainStep

\* The number of a copy is a number.
LEMMA CopyType ==
    ASSUME NEW k \in Nat, NEW last \in Nat
    PROVE  CopyOf(k, last) \in Nat
BY DEF CopyOf

\* Every step of PipeThread keeps the types.
LEMMA ThreadStepTypes ==
    ASSUME PipeType, ClientTypeOK, ClientHandles, ThreadStep
    PROVE  PipeType' /\ ClientTypeOK'
<1> USE MaxSessionAssumption
<1>1. handle # 0 => handle \in Sessions
  BY DEF ClientTypeOK, Sessions
<1>2. LengthPart \in Nat
  BY DEF LengthPart
<1>3. CASE Connect
  <2>1. PICK s \in Sessions : ClientOpen(s) /\ handle' = s
    BY <1>3 DEF Connect
  <2>2. PipeType'
    BY <2>1, CliChanges DEF ClientOpen, Ends
  <2> QED  BY <1>3, <2>1, <2>2 DEF Connect, ClientTypeOK, Sessions
<1>4. CASE NothingToFlush \/ Reconnect
  BY <1>4 DEF NothingToFlush, Reconnect, PipeType, ClientTypeOK
<1>5. CASE Claim
  BY <1>5, CopyType DEF Claim, PipeType, ClientTypeOK
<1>6. CASE FlushLength
  <2>1. handle \in Sessions /\ Append(pipe[handle].up, LengthPart) \in Seq(Nat)
    BY <1>1, <1>2, <1>6, PipeAt DEF FlushLength, ClientHandles
  <2>2. PipeType'
    BY <1>6, <2>1, UpChanges DEF FlushLength, ClientWrite, PipeType
  <2>3. scratch' \in Nat
    BY <1>6, CopyType DEF FlushLength, Copied, ClientTypeOK
  <2> QED  BY <1>6, <2>2, <2>3 DEF FlushLength, ClientTypeOK
<1>7. CASE FlushBody
  <2>1. handle \in Sessions /\ Append(pipe[handle].up, scratch) \in Seq(Nat)
    BY <1>1, <1>7, PipeAt DEF FlushBody, ClientHandles, ClientTypeOK
  <2>2. PipeType'
    BY <1>7, <2>1, UpChanges DEF FlushBody, ClientWrite, PipeType
  <2> QED  BY <1>7, <2>2 DEF FlushBody, ClientTypeOK
<1>8. CASE Peek
  <2>1. handle \in Sessions
    BY <1>1, <1>8 DEF Peek, ClientHandles
  <2>2. CASE pipe[handle].down # << >>
    <3>1. Tail(pipe[handle].down) \in Seq(Nat) /\ Head(pipe[handle].down) \in Nat
      BY <2>1, <2>2, PipeAt
    <3>2. PipeType'
      BY <1>8, <2>1, <2>2, <3>1, DownChanges DEF Peek, ClientTake
    <3> QED  BY <1>8, <2>2, <3>1, <3>2 DEF Peek, ClientTypeOK
  <2>3. CASE pipe[handle].down = << >>
    BY <1>8, <2>3 DEF Peek, PipeType, ClientTypeOK
  <2> QED  BY <2>2, <2>3
<1>9. CASE Disconnect
  <2>1. handle \in Sessions
    BY <1>1, <1>9 DEF Disconnect, ClientHandles
  <2>2. PipeType'
    BY <1>9, <2>1, CliChanges DEF Disconnect, ClientClose, Ends
  <2> QED  BY <1>9, <2>2 DEF Disconnect, ClientTypeOK
<1> QED  BY <1>3, <1>4, <1>5, <1>6, <1>7, <1>8, <1>9 DEF ThreadStep

\* What the game and the loop do of their own.
Other == SendSnapshot \/ PollClaim \/ PollCopy \/ Exit \/ Start \/ LoopStep

\* Every step of Lua, the loop and the game's process keeps the types.
LEMMA OtherStepTypes ==
    ASSUME Types, ServerHandles, Other
    PROVE  Types'
<1> USE MaxSessionAssumption, MaxSnapAssumption, MaxGameAssumption
<1>1. PipeType /\ ServerTypeOK /\ ClientTypeOK /\ BridgeType
  BY DEF Types
<1>2. CASE SendSnapshot
  BY <1>1, <1>2
  DEF SendSnapshot, Types, PipeType, ServerTypeOK, serverVars, taskVars, ClientTypeOK,
      BridgeType, loopVars
<1>3. CASE PollClaim
  BY <1>1, <1>3
  DEF PollClaim, Types, PipeType, ServerTypeOK, serverVars, taskVars, ClientTypeOK,
      BridgeType, loopVars
<1>4. CASE PollCopy
  <2>1. applied' \in Nat
    BY <1>1, <1>4, CopyType DEF PollCopy, ClientTypeOK, BridgeType
  <2> QED  BY <1>1, <1>4, <2>1
           DEF PollCopy, Types, PipeType, ServerTypeOK, serverVars, taskVars, ClientTypeOK,
               clientVars, BridgeType, loopVars
<1>5. CASE Exit
  <2>1. PipeType'
    <3>1. CASE handle = 0
      BY <1>1, <1>5, <3>1 DEF Exit, GameExit, PipeType
    <3>2. CASE handle # 0
      <4>1. handle \in Sessions
        BY <1>1, <3>2 DEF ClientTypeOK, Sessions
      <4> QED  BY <1>1, <1>5, <3>2, <4>1, CliChanges DEF Exit, GameExit, ClientClose, Ends
    <3> QED  BY <3>1, <3>2
  <2> QED  BY <1>1, <1>5, <2>1
           DEF Exit, GameExit, Types, ServerTypeOK, serverVars, taskVars, ClientTypeOK,
               BridgeType, loopVars
<1>6. CASE Start
  BY <1>1, <1>6
  DEF Start, GameStart, Types, PipeType, ServerTypeOK, serverVars, taskVars, ClientTypeOK,
      BridgeType, loopVars
<1>7. CASE TakeSnapshot
  <2>1. /\ Head(snapQ) \in [sess : Sessions, id : Nat]
        /\ Tail(snapQ) \in Seq([sess : Sessions, id : Nat]) /\ Len(Tail(snapQ)) <= QCap
    BY <1>1, <1>7, SnapQTail DEF TakeSnapshot, Entries
  <2>2. /\ putters' \in Seq(Sessions)
        /\ reader' \in [Sessions -> {"off", "length", "body", "put", "wait", "done", "raised"}]
    <3>1. putters # << >> => Head(putters) \in Sessions /\ Tail(putters) \in Seq(Sessions)
      BY <1>1 DEF ServerTypeOK
    <3> QED  BY <1>1, <1>7, <3>1 DEF TakeSnapshot, WakePutter, ServerTypeOK
  <2>3. BridgeType'
    BY <1>1, <1>7, <2>1 DEF TakeSnapshot, BridgeType, luaVars
  <2> QED  BY <1>1, <1>7, <2>1, <2>2, <2>3
           DEF TakeSnapshot, Types, PipeType, ServerTypeOK, ClientTypeOK, clientVars
<1>8. CASE PutCommand
  <2>1. Append(cmdQ, decided) \in Seq(Nat) /\ Len(Append(cmdQ, decided)) <= QCap
    BY <1>1, <1>8, QCapAssumption DEF PutCommand, ServerTypeOK, BridgeType
  <2>2. getters' \in Seq(Sessions) /\ writer' \in [Sessions -> {"off", "get", "wait", "write", "raised"}]
    <3>1. getters # << >> => Head(getters) \in Sessions /\ Tail(getters) \in Seq(Sessions)
      BY <1>1 DEF ServerTypeOK
    <3> QED  BY <1>1, <1>8, <3>1 DEF PutCommand, WakeGetter, ServerTypeOK
  <2> QED  BY <1>1, <1>8, <2>1, <2>2
           DEF PutCommand, Types, PipeType, ServerTypeOK, ClientTypeOK, clientVars, BridgeType,
               luaVars
<1> QED  BY <1>2, <1>3, <1>4, <1>5, <1>6, <1>7, <1>8 DEF Other, LoopStep

-----------------------------------------------------------------------------
(* Handles *)

\* The server's tasks may outlive a session, the instance does not.
LEMMA ServerStepHandles ==
    ASSUME Handles, Server, UNCHANGED <<clientVars, bridgeVars>>
    PROVE  Handles'
<1> USE MaxSessionAssumption
<1>1. PipeType /\ ServerTypeOK /\ ClientTypeOK /\ BridgeType /\ ServerHandles /\ ClientHandles
  BY DEF Handles, Types
<1>2. PipeType' /\ ServerTypeOK'
  BY <1>1, ServerStepTypes
<1>3. Types'
  BY <1>1, <1>2 DEF Types, ClientTypeOK, BridgeType, clientVars, bridgeVars, loopVars
<1>4. /\ handle' = handle /\ status' = status /\ pt' = pt
      /\ sess \in Sessions \cup {0} /\ Sessions \subseteq Nat
  BY <1>1 DEF clientVars, ServerTypeOK, Sessions
<1>5. CASE CreatePipe
  <2>1. sess' = sess + 1 /\ sess + 1 \in Sessions
    BY <1>1, <1>5 DEF CreatePipe, ServerTypeOK, Sessions
  <2>2. \A t \in Sessions :
          /\ pipe'[t].srv = IF t = sess + 1 THEN "open" ELSE pipe[t].srv
          /\ pipe'[t].cli = pipe[t].cli
          /\ pipe'[t].up = pipe[t].up /\ pipe'[t].down = pipe[t].down
    BY <1>1, <1>5, <2>1, SrvChanges DEF CreatePipe, CreateInstance, Ends
  <2>3. ServerHandles'
    <3>1. /\ sess' = sess + 1 /\ sess' # 0 /\ srv = "create" /\ srv' = "accept"
          /\ UNCHANGED <<reader, writer, putters, getters>>
      BY <1>1, <1>5, <2>1 DEF CreatePipe, taskVars, ServerTypeOK
    <3> SUFFICES ASSUME NEW s \in Sessions
                 PROVE  /\ pipe'[s].srv = "none" <=> s > sess'
                        /\ pipe'[s].srv = "open" <=> s = sess'
                        /\ s > sess' => pipe'[s].cli = "none" /\ pipe'[s].up = << >>
                        /\ s > sess' \/ s = sess' => reader'[s] = "off" /\ writer'[s] = "off"
      BY <1>1, <3>1 DEF ServerHandles, Waits
    <3>2. s \in Nat /\ sess \in Nat /\ (s > sess <=> s > sess' \/ s = sess')
      BY <1>4, <2>1
    <3>3. /\ pipe[s].srv = "none" <=> s > sess
          /\ pipe[s].srv # "open"
          /\ s > sess => /\ pipe[s].cli = "none" /\ pipe[s].up = << >>
                         /\ reader[s] = "off" /\ writer[s] = "off"
      BY <1>1, <3>1 DEF ServerHandles
    <3>4. CASE s = sess'
      BY <2>1, <2>2, <3>1, <3>2, <3>3, <3>4
    <3>5. CASE s # sess'
      BY <2>1, <2>2, <3>1, <3>2, <3>3, <3>5
    <3> QED  BY <3>4, <3>5
  <2>4. ClientHandles'
    BY <1>1, <1>4, <2>2 DEF ClientHandles
  <2> QED  BY <1>3, <2>3, <2>4 DEF Handles
<1>6. CASE Accept \/ Wake
  <2>1. UNCHANGED <<pipe, putters, getters, sess>>
    BY <1>6 DEF Accept, Wake, taskVars
  <2>2. Waits(putters, reader)' /\ Waits(getters, writer)'
    <3>1. \A t \in Sessions : /\ reader[t] = "wait" => reader'[t] = "wait"
                              /\ writer[t] = "wait" => writer'[t] = "wait"
      BY <1>1, <1>4, <1>6 DEF Accept, Wake, ServerHandles, taskVars, ServerTypeOK
    <3>2. putters \in Seq(Sessions) /\ getters \in Seq(Sessions)
          /\ Waits(putters, reader) /\ Waits(getters, writer)
      BY <1>1 DEF ServerTypeOK, ServerHandles
    <3>3. Waits(putters, reader') /\ Waits(getters, writer')
      BY <3>1, <3>2, WaitsOn
    <3> QED  BY <2>1, <3>3 DEF Waits
  <2>3. ServerHandles'
    <3>1. CASE Accept
      BY <1>1, <1>4, <2>1, <2>2, <3>1 DEF Accept, ServerHandles, ServerTypeOK
    <3>2. CASE Wake
      BY <1>1, <1>4, <2>1, <2>2, <3>2 DEF Wake, ServerHandles, taskVars
    <3> QED  BY <1>6, <3>1, <3>2
  <2>4. ClientHandles'
    BY <1>1, <1>4, <2>1 DEF ClientHandles
  <2> QED  BY <1>3, <2>3, <2>4 DEF Handles
<1>7. CASE AcceptFails \/ EndSession
  <2>1. sess' = sess /\ sess \in Sessions
    BY <1>1, <1>4, <1>7 DEF AcceptFails, EndSession, ServerHandles
  <2>2. \A t \in Sessions :
          /\ pipe'[t].srv = IF t = sess THEN "closed" ELSE pipe[t].srv
          /\ pipe'[t].cli = pipe[t].cli
          /\ pipe'[t].up = pipe[t].up /\ pipe'[t].down = pipe[t].down
    BY <1>1, <1>7, <2>1, SrvChanges DEF AcceptFails, EndSession, ServerClose, Ends
  <2>3. ServerHandles'
    <3>1. /\ srv \in {"accept", "serve"} /\ srv' = "sleep"
          /\ UNCHANGED <<reader, writer, putters, getters>>
      BY <1>7 DEF AcceptFails, EndSession, taskVars
    <3>2. Waits(putters, reader)' /\ Waits(getters, writer)'
      BY <1>1, <3>1 DEF ServerHandles, Waits
    <3>3. ASSUME NEW s \in Sessions
          PROVE  /\ pipe'[s].srv = "none" <=> s > sess
                 /\ pipe'[s].srv # "open"
                 /\ s > sess => pipe'[s].cli = "none" /\ pipe'[s].up = << >>
                 /\ s > sess => reader'[s] = "off" /\ writer'[s] = "off"
      BY <1>1, <1>4, <2>1, <2>2, <3>1 DEF ServerHandles
    <3> QED  BY <2>1, <3>1, <3>2, <3>3 DEF ServerHandles
  <2>4. ClientHandles'
    BY <1>1, <1>4, <2>2 DEF ClientHandles
  <2> QED  BY <1>3, <2>3, <2>4 DEF Handles
<1>8. ASSUME NEW s \in Sessions, ReaderStep(s) \/ WriterStep(s)
      PROVE  Handles'
  <2> DEFINE ReaderMoves == ReadLength(s) \/ ReadEOF(s) \/ ReadBody(s) \/ ReadBodyFails(s) \/ PutSnapshot(s)
             WriterMoves == GetCommand(s) \/ WriteCommand(s) \/ WriteFails(s)
  <2>1. UNCHANGED <<srv, sess>> 
        /\ \A t \in Sessions \ {s} : reader'[t] = reader[t] /\ writer'[t] = writer[t]
    BY <1>1, <1>8 DEF ReaderStep, ReadLength, ReadEOF, ReadBody, ReadBodyFails, PutSnapshot,
                     WaitForRoom, WriterStep, WriteEnds, GetCommand, WaitForCommand,
                     WriteCommand, WriteFails, ServerTypeOK
  <2>2. (reader[s] = "off" => reader'[s] = "off") /\ (writer[s] = "off" => writer'[s] = "off")
    BY <1>1, <1>8 DEF ReaderStep, ReadLength, ReadEOF, ReadBody, ReadBodyFails, PutSnapshot,
                     WaitForRoom, WriterStep, WriteEnds, GetCommand, WaitForCommand,
                     WriteCommand, WriteFails, ServerTypeOK
  <2>3. \/ UNCHANGED pipe
        \/ pipe[s].up # << >> /\ pipe' = [pipe EXCEPT ![s].up = Tail(pipe[s].up)]
        \/ pipe[s].cli = "open"
             /\ pipe' = [pipe EXCEPT ![s].down = Append(pipe[s].down, wmsg[s])]
    BY <1>1, <1>8 DEF ReaderStep, ReadLength, ReadEOF, ReadBody, ReadBodyFails, PutSnapshot,
         WaitForRoom, WriterStep, WriteEnds, GetCommand, WaitForCommand, WriteCommand,
         WriteFails, PipeType, ServerTake, ServerCanRead, ServerWrite, ServerCanWrite
  <2>4. \A t \in Sessions :
          /\ pipe'[t].srv = pipe[t].srv /\ pipe'[t].cli = pipe[t].cli
          /\ pipe[t].cli = "none" => pipe'[t].up = pipe[t].up /\ pipe'[t].down = pipe[t].down
    <3>1. CASE UNCHANGED pipe
      BY <3>1
    <3>2. CASE pipe[s].up # << >> /\ pipe' = [pipe EXCEPT ![s].up = Tail(pipe[s].up)]
      <4>1. Tail(pipe[s].up) \in Seq(Nat)
        BY <1>1, <3>2, PipeAt
      <4> QED  BY <1>1, <3>2, <4>1, UpChanges DEF ClientHandles
    <3>3. CASE /\ pipe[s].cli = "open"
               /\ pipe' = [pipe EXCEPT ![s].down = Append(pipe[s].down, wmsg[s])]
      <4>1. Append(pipe[s].down, wmsg[s]) \in Seq(Nat)
        BY <1>1, PipeAt DEF ServerTypeOK
      <4> QED  BY <1>1, <3>3, <4>1, DownChanges
    <3> QED  BY <2>3, <3>1, <3>2, <3>3
  <2>5. Waits(putters, reader)' /\ Waits(getters, writer)'
    <3>1. /\ putters \in Seq(Sessions) /\ getters \in Seq(Sessions)
          /\ Waits(putters, reader) /\ Waits(getters, writer)
          /\ reader \in [Sessions -> {"off", "length", "body", "put", "wait", "done", "raised"}]
          /\ writer \in [Sessions -> {"off", "get", "wait", "write", "raised"}]
      BY <1>1 DEF ServerTypeOK, ServerHandles
    <3>2. CASE WaitForRoom(s)
      <4>1. /\ putters' = Append(putters, s) /\ reader' = [reader EXCEPT ![s] = "wait"]
            /\ reader[s] # "wait" /\ UNCHANGED <<getters, writer>>
        BY <3>2 DEF WaitForRoom
      <4>2. Waits(Append(putters, s), [reader EXCEPT ![s] = "wait"])
        BY <3>1, <4>1, WaitsMore
      <4> QED  BY <3>1, <4>1, <4>2 DEF Waits
    <3>3. CASE WaitForCommand(s)
      <4>1. /\ getters' = Append(getters, s) /\ writer' = [writer EXCEPT ![s] = "wait"]
            /\ writer[s] # "wait" /\ UNCHANGED <<putters, reader>>
        BY <3>3 DEF WaitForCommand
      <4>2. Waits(Append(getters, s), [writer EXCEPT ![s] = "wait"])
        BY <3>1, <4>1, WaitsMore
      <4> QED  BY <3>1, <4>1, <4>2 DEF Waits
    <3>4. CASE ReaderMoves \/ WriterMoves
      <4>1. /\ UNCHANGED <<putters, getters>>
            /\ \A t \in Sessions : /\ reader[t] = "wait" => reader'[t] = "wait"
                                   /\ writer[t] = "wait" => writer'[t] = "wait"
        BY <2>1, <3>1, <3>4 DEF ReadLength, ReadEOF, ReadBody, ReadBodyFails, PutSnapshot,
                                GetCommand, WriteCommand, WriteFails
      <4>2. Waits(putters, reader') /\ Waits(getters, writer')
        BY <3>1, <4>1, WaitsOn
      <4> QED  BY <4>1, <4>2 DEF Waits
    <3> QED  BY <1>8, <3>2, <3>3, <3>4 DEF ReaderStep, WriterStep, WriteEnds
  <2>6. ServerHandles'
    BY <1>1, <2>1, <2>2, <2>4, <2>5 DEF ServerHandles
  <2>7. ClientHandles'
    BY <1>1, <1>4, <2>4 DEF ClientHandles
  <2> QED  BY <1>3, <2>6, <2>7 DEF Handles
<1> QED  BY <1>5, <1>6, <1>7, <1>8 DEF Server, MainStep

\* PipeThread closes its handle before it connects again.
LEMMA ThreadStepHandles ==
    ASSUME Handles, ThreadStep, UNCHANGED <<serverVars, bridgeVars>>
    PROVE  Handles'
<1>1. PipeType /\ ServerTypeOK /\ ClientTypeOK /\ BridgeType /\ ServerHandles /\ ClientHandles
  BY DEF Handles, Types
<1>2. PipeType' /\ ClientTypeOK'
  BY <1>1, ThreadStepTypes
<1>3. Types'
  BY <1>1, <1>2 DEF Types, ServerTypeOK, BridgeType, serverVars, taskVars, bridgeVars, loopVars
<1>4. /\ UNCHANGED <<srv, sess, reader, writer>>
      /\ Sessions \subseteq Nat /\ 0 \notin Sessions /\ sess \in Nat
      /\ handle # 0 => handle \in Sessions
      /\ Waits(putters, reader)' /\ Waits(getters, writer)'
  BY <1>1, MaxSessionAssumption
  DEF serverVars, taskVars, ServerTypeOK, ClientTypeOK, Sessions, ServerHandles, Waits
<1>5. CASE Connect
  <2>1. PICK s \in Sessions : Listening(s) /\ ClientOpen(s) /\ handle' = s
    BY <1>5 DEF Connect
  <2>2. \A t \in Sessions :
          /\ pipe'[t].srv = pipe[t].srv
          /\ pipe'[t].cli = IF t = s THEN "open" ELSE pipe[t].cli
          /\ pipe'[t].up = pipe[t].up /\ pipe'[t].down = pipe[t].down
    BY <1>1, <2>1, CliChanges DEF ClientOpen, Ends
  <2>3. handle = 0 /\ pt' = "flush" /\ status' = 2 /\ s <= sess
    BY <1>1, <1>4, <1>5, <2>1 DEF Connect, ClientHandles, ServerHandles, Listening
  <2>4. ServerHandles'
    <3>1. ASSUME NEW t \in Sessions
          PROVE  /\ pipe'[t].srv = pipe[t].srv /\ pipe'[t].up = pipe[t].up
                 /\ t > sess => pipe'[t].cli = "none"
                 /\ pipe[t].cli # "none" => pipe'[t].cli # "none"
      <4>1. /\ t \in Nat /\ s \in Nat /\ sess \in Nat
            /\ t > sess => pipe[t].cli = "none"
        BY <1>1, <1>4 DEF ServerHandles
      <4>2. pipe'[t].cli = IF t = s THEN "open" ELSE pipe[t].cli
        BY <2>2
      <4>3. t > sess => t # s
        BY <2>3, <4>1
      <4> QED  BY <2>2, <4>1, <4>2, <4>3
    <3> QED  BY <1>1, <1>4, <3>1 DEF ServerHandles
  <2>5. ClientHandles'
    BY <1>1, <1>4, <2>1, <2>2, <2>3 DEF ClientHandles
  <2> QED  BY <1>3, <2>4, <2>5 DEF Handles
<1>6. CASE NothingToFlush \/ Claim \/ Reconnect
  <2>1. UNCHANGED pipe
    BY <1>6 DEF NothingToFlush, Claim, Reconnect
  <2>2. ServerHandles'
    BY <1>1, <1>4, <2>1 DEF ServerHandles
  <2>3. ClientHandles'
    BY <1>1, <1>6, <2>1 DEF ClientHandles, NothingToFlush, Claim, Reconnect
  <2> QED  BY <1>3, <2>2, <2>3 DEF Handles
<1>7. CASE FlushLength \/ FlushBody
  <2>1. handle \in Sessions /\ pipe[handle].cli = "open" /\ handle' = handle /\ status' = status
    BY <1>1, <1>4, <1>7 DEF FlushLength, FlushBody, ClientHandles
  <2>2. pt' \in {"body", "peek", "close"}
    BY <1>7 DEF FlushLength, FlushBody
  <2>3. \/ UNCHANGED pipe
        \/ \E p \in Nat : pipe' = [pipe EXCEPT ![handle].up = Append(pipe[handle].up, p)]
    <3>1. LengthPart \in Nat /\ scratch \in Nat
      BY <1>1 DEF LengthPart, ClientTypeOK
    <3> QED  BY <1>7, <2>1, <3>1 DEF FlushLength, FlushBody, ClientWrite
  <2>4. \A t \in Sessions :
          /\ pipe'[t].srv = pipe[t].srv /\ pipe'[t].cli = pipe[t].cli
          /\ t # handle => pipe'[t].up = pipe[t].up
          /\ pipe'[t].down = pipe[t].down
    <3>1. CASE UNCHANGED pipe
      BY <3>1
    <3>2. ASSUME NEW p \in Nat, pipe' = [pipe EXCEPT ![handle].up = Append(pipe[handle].up, p)]
          PROVE  \A t \in Sessions :
                   /\ pipe'[t].srv = pipe[t].srv /\ pipe'[t].cli = pipe[t].cli
                   /\ t # handle => pipe'[t].up = pipe[t].up
                   /\ pipe'[t].down = pipe[t].down
      <4>1. Append(pipe[handle].up, p) \in Seq(Nat)
        BY <1>1, <2>1, PipeAt
      <4> QED  BY <1>1, <2>1, <3>2, <4>1, UpChanges
    <3> QED  BY <2>3, <3>1, <3>2
  <2>5. ServerHandles'
    <3>1. \A t \in Sessions : t > sess => pipe[t].cli = "none" /\ pipe[t].up = << >>
      BY <1>1 DEF ServerHandles
    <3>2. ~(handle > sess)
      BY <2>1, <3>1
    <3>3. \A t \in Sessions : t > sess => pipe'[t].up = << >>
      BY <2>4, <3>1, <3>2
    <3> QED  BY <1>1, <1>4, <2>4, <3>3 DEF ServerHandles
  <2>6. ClientHandles'
    BY <1>1, <1>4, <2>1, <2>2, <2>4 DEF ClientHandles
  <2> QED  BY <1>3, <2>5, <2>6 DEF Handles
<1>8. CASE Peek
  <2>1. handle \in Sessions /\ pipe[handle].cli = "open" /\ handle' = handle /\ status' = status
    BY <1>1, <1>4, <1>8 DEF Peek, ClientHandles
  <2>2. \A t \in Sessions :
          /\ pipe'[t].srv = pipe[t].srv /\ pipe'[t].cli = pipe[t].cli
          /\ pipe'[t].up = pipe[t].up
          /\ t # handle => pipe'[t].down = pipe[t].down
    <3>1. CASE pipe[handle].down # << >>
      <4>1. Tail(pipe[handle].down) \in Seq(Nat)
        BY <1>1, <2>1, <3>1, PipeAt
      <4> QED  BY <1>1, <1>8, <2>1, <3>1, <4>1, DownChanges DEF Peek, ClientTake
    <3>2. CASE pipe[handle].down = << >>
      BY <1>8, <3>2 DEF Peek
    <3> QED  BY <3>1, <3>2
  <2>3. ServerHandles'
    <3>1. ASSUME NEW t \in Sessions
          PROVE  /\ pipe'[t].srv = pipe[t].srv /\ pipe'[t].cli = pipe[t].cli
                 /\ pipe'[t].up = pipe[t].up
      BY <2>2
    <3>2. /\ UNCHANGED <<srv, sess, reader, writer>>
          /\ Waits(putters', reader') /\ Waits(getters', writer')
      BY <1>1, <1>4 DEF ServerHandles
    <3>3. srv' \in {"accept", "serve"} => sess' # 0
      BY <1>1, <3>2 DEF ServerHandles
    <3>4. ASSUME NEW t \in Sessions
          PROVE  /\ pipe'[t].srv = "none" <=> t > sess'
                 /\ pipe'[t].srv = "open" <=> t = sess' /\ srv' \in {"accept", "serve"}
                 /\ t > sess' => pipe'[t].cli = "none" /\ pipe'[t].up = << >>
                 /\ t = sess' /\ srv' = "serve" => pipe'[t].cli # "none"
                 /\ t > sess' \/ (t = sess' /\ srv' = "accept")
                      => reader'[t] = "off" /\ writer'[t] = "off"
      BY <1>1, <3>1, <3>2 DEF ServerHandles
    <3> QED  BY <3>2, <3>3, <3>4 DEF ServerHandles
  <2>4. ClientHandles'
    BY <1>1, <1>4, <1>8, <2>1, <2>2 DEF ClientHandles, Peek
  <2> QED  BY <1>3, <2>3, <2>4 DEF Handles
<1>9. CASE Disconnect
  <2>1. handle \in Sessions /\ pipe[handle].cli = "open"
    BY <1>1, <1>4, <1>9 DEF Disconnect, ClientHandles
  <2>2. \A t \in Sessions :
          /\ pipe'[t].srv = pipe[t].srv
          /\ pipe'[t].cli = IF t = handle THEN "closed" ELSE pipe[t].cli
          /\ pipe'[t].up = pipe[t].up /\ pipe'[t].down = pipe[t].down
    BY <1>1, <1>9, <2>1, CliChanges DEF Disconnect, ClientClose, Ends
  <2>3. ServerHandles'
    BY <1>1, <1>4, <2>1, <2>2 DEF ServerHandles
  <2>4. ClientHandles'
    <3>1. handle' = 0 /\ status' = 0 /\ pt' = "reconnect"
      BY <1>9 DEF Disconnect
    <3>2. \A t \in Sessions :
            /\ pipe'[t].cli = "open" <=> handle' = t
            /\ pipe'[t].cli = "none" => pipe'[t].up = << >> /\ pipe'[t].down = << >>
      BY <1>1, <1>4, <2>2, <3>1 DEF ClientHandles
    <3> QED  BY <3>1, <3>2 DEF ClientHandles
  <2> QED  BY <1>3, <2>3, <2>4 DEF Handles
<1> QED  BY <1>5, <1>6, <1>7, <1>8, <1>9 DEF ThreadStep

\* A process that ends closes the client end with it; the loop only wakes tasks
\* that wait.
LEMMA OtherStepHandles ==
    ASSUME Handles, Other
    PROVE  Handles'
<1>1. PipeType /\ ServerTypeOK /\ ClientTypeOK /\ BridgeType /\ ServerHandles /\ ClientHandles
  BY DEF Handles, Types
<1>2. Types'
  BY OtherStepTypes DEF Handles
<1>3. UNCHANGED <<srv, sess>>
  BY DEF Other, SendSnapshot, PollClaim, PollCopy, Exit, Start, LoopStep, TakeSnapshot,
         PutCommand, serverVars
<1>4. /\ putters \in Seq(Sessions) /\ getters \in Seq(Sessions)
      /\ Waits(putters, reader) /\ Waits(getters, writer)
      /\ reader \in [Sessions -> {"off", "length", "body", "put", "wait", "done", "raised"}]
      /\ writer \in [Sessions -> {"off", "get", "wait", "write", "raised"}]
  BY <1>1 DEF ServerTypeOK, ServerHandles
<1>5. /\ Waits(putters, reader)' /\ Waits(getters, writer)'
      /\ \A s \in Sessions : /\ reader[s] = "off" => reader'[s] = "off"
                             /\ writer[s] = "off" => writer'[s] = "off"
  <2>1. CASE UNCHANGED <<reader, writer, putters, getters>>
    BY <1>4, <2>1 DEF Waits
  <2>2. CASE TakeSnapshot /\ putters # << >>
    <3>1. /\ putters' = Tail(putters) /\ reader' = [reader EXCEPT ![Head(putters)] = "put"]
          /\ UNCHANGED <<writer, getters>>
      BY <2>2 DEF TakeSnapshot, WakePutter
    <3>2. /\ Head(putters) \in Sessions /\ reader[Head(putters)] = "wait"
          /\ Waits(Tail(putters), [reader EXCEPT ![Head(putters)] = "put"])
      BY <1>4, <2>2, WaitsLess
    <3> QED  BY <1>4, <3>1, <3>2 DEF Waits
  <2>3. CASE PutCommand /\ getters # << >>
    <3>1. /\ getters' = Tail(getters) /\ writer' = [writer EXCEPT ![Head(getters)] = "get"]
          /\ UNCHANGED <<reader, putters>>
      BY <2>3 DEF PutCommand, WakeGetter
    <3>2. /\ Head(getters) \in Sessions /\ writer[Head(getters)] = "wait"
          /\ Waits(Tail(getters), [writer EXCEPT ![Head(getters)] = "get"])
      BY <1>4, <2>3, WaitsLess
    <3> QED  BY <1>4, <3>1, <3>2 DEF Waits
  <2> QED  BY <2>1, <2>2, <2>3
           DEF Other, SendSnapshot, PollClaim, PollCopy, Exit, Start, LoopStep, TakeSnapshot,
               PutCommand, WakePutter, WakeGetter, serverVars, taskVars
<1>6. CASE Exit
  <2>1. /\ handle' = 0 /\ status' = 0 /\ pt' = "off"
        /\ Sessions \subseteq Nat /\ 0 \notin Sessions
        /\ handle # 0 => handle \in Sessions
    BY <1>1, <1>6, MaxSessionAssumption DEF Exit, GameExit, Sessions, ClientTypeOK
  <2>2. \A t \in Sessions :
          /\ pipe'[t].srv = pipe[t].srv
          /\ pipe'[t].cli = IF t = handle THEN "closed" ELSE pipe[t].cli
          /\ pipe'[t].up = pipe[t].up /\ pipe'[t].down = pipe[t].down
    <3>1. CASE handle = 0
      BY <1>6, <2>1, <3>1 DEF Exit, GameExit
    <3>2. CASE handle # 0
      BY <1>1, <1>6, <2>1, <3>2, CliChanges DEF Exit, GameExit, ClientClose, Ends
    <3> QED  BY <3>1, <3>2
  <2>3. ServerHandles'
    <3>1. handle # 0 => pipe[handle].cli = "open"
      BY <1>1, <2>1 DEF ClientHandles
    <3>2. \A t \in Sessions : pipe'[t].cli = "none" <=> pipe[t].cli = "none"
      BY <2>1, <2>2, <3>1
    <3> QED  BY <1>1, <1>3, <1>5, <2>2, <3>2 DEF ServerHandles
  <2>4. ClientHandles'
    BY <1>1, <2>1, <2>2 DEF ClientHandles
  <2> QED  BY <1>2, <2>3, <2>4 DEF Handles
<1>7. CASE ~Exit
  <2>1. UNCHANGED <<pipe, handle>>
    BY <1>7 DEF Other, SendSnapshot, PollClaim, PollCopy, Start, GameStart, LoopStep, TakeSnapshot,
                PutCommand, clientVars
  <2>2. \/ UNCHANGED <<status, pt>>
        \/ pt = "off" /\ pt' = "connect" /\ status' = 1
    BY <1>7 DEF Other, SendSnapshot, PollClaim, PollCopy, Start, GameStart, LoopStep, TakeSnapshot,
                PutCommand, clientVars
  <2>3. ServerHandles'
    BY <1>1, <1>3, <1>5, <2>1 DEF ServerHandles
  <2>4. ClientHandles'
    BY <1>1, <2>1, <2>2 DEF ClientHandles
  <2> QED  BY <1>2, <2>3, <2>4 DEF Handles
<1> QED  BY <1>6, <1>7

\* There is no instance at first.
LEMMA InitHandles ==
    ASSUME Init
    PROVE  Handles
<1> USE MaxSessionAssumption, MaxSnapAssumption, MaxGameAssumption, QCapAssumption
<1>1. Sessions \subseteq Nat /\ 0 \notin Sessions
  BY DEF Sessions
<1>2. PipeType
  <2>1. NoPipe \in [srv : Ends, cli : Ends, up : Seq(Nat), down : Seq(Nat)]
    BY DEF NoPipe, Ends
  <2> QED  BY <2>1 DEF Init, PipeInit, PipeType
<1>3. ServerTypeOK
  <2>1. /\ reader \in [Sessions -> {"off", "length", "body", "put", "wait", "done", "raised"}]
        /\ rmsg \in [Sessions -> Nat]
        /\ writer \in [Sessions -> {"off", "get", "wait", "write", "raised"}]
        /\ wmsg \in [Sessions -> Nat]
    BY <1>1 DEF Init, ServerInit
  <2>2. srv = "create" /\ sess \in 0 .. MaxSession
    BY DEF Init, ServerInit
  <2>3. connected \in BOOLEAN
    BY Zenon DEF Init, ServerInit
  <2>4. /\ getters = << >> /\ getters \in Seq(Sessions)
        /\ putters = << >> /\ putters \in Seq(Sessions)
        /\ cmdQ = << >> /\ cmdQ \in Seq(Nat) /\ Len(cmdQ) <= QCap
    BY DEF Init, ServerInit
  <2>5. snapQ \in Seq([sess : Sessions, id : Nat]) /\ Len(snapQ) <= QCap
    <3>1. \A T : << >> \in Seq(T)
      OBVIOUS
    <3>2. snapQ = << >> /\ Len(snapQ) = 0
      BY DEF Init, ServerInit
    <3> QED  BY <3>1, <3>2
  <2> QED  BY <2>1, <2>2, <2>3, <2>4, <2>5 DEF ServerTypeOK
<1>4. ClientTypeOK /\ BridgeType
  BY <1>1 DEF Init, ClientInit, ClientTypeOK, BridgeType
<1>5. \A s \in Sessions :
        /\ pipe[s].srv = "none" /\ pipe[s].cli = "none"
        /\ pipe[s].up = << >> /\ pipe[s].down = << >>
        /\ reader[s] = "off" /\ writer[s] = "off" /\ s > 0
  BY <1>1 DEF Init, PipeInit, ServerInit, NoPipe
<1>6. Waits(putters, reader) /\ Waits(getters, writer)
  BY DEF Init, ServerInit, Waits
<1>7. ServerHandles
  BY <1>1, <1>5, <1>6 DEF Init, ServerInit, ServerHandles
<1>8. ClientHandles
  BY <1>1, <1>5 DEF Init, ClientInit, ClientHandles
<1> QED  BY <1>2, <1>3, <1>4, <1>7, <1>8 DEF Handles, Types

\* Every step keeps types and handles.
LEMMA StepHandles ==
    ASSUME Handles, [Next]_vars
    PROVE  Handles'
<1>1. CASE UNCHANGED vars
  BY <1>1 DEF vars, Handles, Types, PipeType, ServerTypeOK, ClientTypeOK, BridgeType, ServerHandles,
              ClientHandles, serverVars, taskVars, clientVars, bridgeVars, loopVars, Waits
<1> QED  BY <1>1, ServerStepHandles, ThreadStepHandles, OtherStepHandles DEF Next, Other

\* The types and the handles: what both sides know of the instances and what
\* the instances are (pipe_server.py start, pipe_client.cpp PipeThread), and who
\* waits in a queue of tasks (asyncio.Queue).
THEOREM HandlesHold == Spec => []Handles
<1> QED  BY InitHandles, StepHandles, PTL DEF Spec

\* Every variable of the game, the DLL, the pipe, the server and the loop keeps
\* its type; the server's queues keep their bound.
THEOREM TypeCorrect == Spec => []TypeOK
<1>1. Handles => TypeOK
  BY DEF Handles, Types, BridgeType, TypeOK
<1> QED  BY <1>1, HandlesHold, PTL

\* At no time does the server have an instance open besides the one of the
\* session it serves or awaits.
THEOREM OneOpenInstanceHolds == Spec => []OneOpenInstance
<1>1. Handles => OneOpenInstance
  BY DEF Handles, ServerHandles, OneOpenInstance
<1> QED  BY <1>1, HandlesHold, PTL

\* The game never holds a client end that its thread does not use, and the
\* status that Lua sees says whether there is one.
THEOREM NoLeakedHandleHolds == Spec => []NoLeakedHandle
<1>1. Handles => NoLeakedHandle
  BY DEF Handles, ClientHandles, NoLeakedHandle
<1> QED  BY <1>1, HandlesHold, PTL

-----------------------------------------------------------------------------
(* The order of the commands *)

Ascending(q) == \A i, j \in 1 .. Len(q) : i < j => q[i] < q[j]

\* The commands that the game has not read yet, and the one that the writer of
\* the session has taken and not written yet.
Down   == IF handle = 0 THEN << >> ELSE pipe[handle].down
InHand == IF srv = "serve" /\ writer[sess] = "write" THEN {wmsg[sess]} ELSE {}

\* Command n is newer than all that Lua has had and is getting, ...
Unpolled(n) == applied < 2 * n /\ polling < n /\ recvSlot < n

\* ... and than what is in the pipe, ...
Unread(n) == Unpolled(n) /\ \A i \in 1 .. Len(Down) : Down[i] < n

\* ... and than what the writer has in hand.
Unwritten(n) == Unread(n) /\ \A w \in InHand : w < n

CommandOrder ==
    /\ polling # 0 => applied <= 2 * polling
    /\ recvSlot # 0 => applied <= 2 * recvSlot /\ polling < recvSlot
    /\ Ascending(Down)
    /\ \A i \in 1 .. Len(Down) : Unpolled(Down[i])
    /\ \A w \in InHand : Unread(w)
    /\ Ascending(cmdQ)
    /\ \A i \in 1 .. Len(cmdQ) : Unwritten(cmdQ[i]) /\ cmdQ[i] <= decided
    /\ loop = "put" => Unwritten(decided) /\ \A i \in 1 .. Len(cmdQ) : cmdQ[i] < decided
    /\ Unwritten(decided + 1)

CommandTypes ==
    /\ polling \in Nat /\ applied \in Nat /\ recvSlot \in Nat /\ decided \in Nat
    /\ cmdQ \in Seq(Nat) /\ Down \in Seq(Nat) /\ InHand \subseteq Nat

\* All that is compared is a number.
LEMMA NumbersOfCommands ==
    ASSUME Handles
    PROVE  CommandTypes
<1>0. Types
  BY DEF Handles
<1>1. sess \in Sessions \cup {0} /\ (handle # 0 => handle \in Sessions) /\ 0 \notin Sessions
  BY <1>0, MaxSessionAssumption DEF Types, ServerTypeOK, ClientTypeOK, Sessions
<1>2. Down \in Seq(Nat)
  BY <1>0, <1>1, PipeAt DEF Types, Down
<1>3. InHand \subseteq Nat
  <2>1. srv = "serve" => sess \in Sessions
    BY <1>1 DEF Handles, ServerHandles
  <2>2. sess \in Sessions => wmsg[sess] \in Nat
    BY <1>0 DEF Types, ServerTypeOK
  <2> QED  BY <2>1, <2>2 DEF InHand
<1> QED  BY <1>0, <1>2, <1>3 DEF CommandTypes, Types, ServerTypeOK, ClientTypeOK, BridgeType

\* A queue without its head still ascends, and all of it is newer than the head.
LEMMA AscendingTail ==
    ASSUME NEW q \in Seq(Nat), q # << >>, Ascending(q)
    PROVE  /\ Ascending(Tail(q))
           /\ \A i \in 1 .. Len(Tail(q)) : Head(q) < Tail(q)[i]
<1> DEFINE r == Tail(q)
<1>1. /\ Len(q) \in Nat /\ Head(q) = q[1] /\ 1 \in 1 .. Len(q)
      /\ \A i \in 1 .. Len(r) : r[i] = q[i + 1] /\ i + 1 \in 1 .. Len(q) /\ 1 < i + 1
      /\ \A i, j \in 1 .. Len(r) : i < j => i + 1 < j + 1
  BY TailType
<1> HIDE DEF r
<1> QED  BY <1>1 DEF Ascending, r

\* A queue that gets something newer than all of it still ascends.
LEMMA AscendingAppend ==
    ASSUME NEW q \in Seq(Nat), NEW n \in Nat, Ascending(q), \A i \in 1 .. Len(q) : q[i] < n
    PROVE  /\ Ascending(Append(q, n))
           /\ \A i \in 1 .. Len(Append(q, n)) : i \in 1 .. Len(q) \/ Append(q, n)[i] = n
           /\ \A i \in 1 .. Len(q) : Append(q, n)[i] = q[i]
<1> DEFINE r == Append(q, n)
<1>1. /\ Len(r) = Len(q) + 1 /\ Len(q) \in Nat /\ r[Len(q) + 1] = n
      /\ \A i \in 1 .. Len(q) : r[i] = q[i]
  OBVIOUS
<1> HIDE DEF r
<1>2. \A i \in 1 .. Len(r) : i \in 1 .. Len(q) \/ i = Len(q) + 1
  BY <1>1
<1>3. \A i, j \in 1 .. Len(r) : i < j => i \in 1 .. Len(q)
  BY <1>1
<1> QED  BY <1>1, <1>2, <1>3 DEF Ascending, r

\* What the writer has in hand and what is in the pipe may be lost.
LEMMA CommandsLost ==
    ASSUME CommandTypes, CommandOrder,
           UNCHANGED <<polling, applied, recvSlot, cmdQ, loop, decided>>,
           Down' \in {Down, << >>}, InHand' \subseteq InHand
    PROVE  CommandOrder'
<1>1. \A n : Unpolled(n) => Unpolled(n)'
  BY DEF Unpolled
<1>2. \A i \in 1 .. Len(Down') : i \in 1 .. Len(Down) /\ Down'[i] = Down[i]
  OBVIOUS
<1>3. \A n : Unread(n) => Unread(n)'
  BY <1>1, <1>2 DEF Unread
<1>4. \A n : Unwritten(n) => Unwritten(n)'
  BY <1>3 DEF Unwritten
<1> QED  BY <1>1, <1>2, <1>3, <1>4 DEF CommandOrder, Ascending

\* PollCommand withdraws a command and copies it, or the next one.
LEMMA CommandPolled ==
    ASSUME CommandTypes, CommandOrder, PollClaim \/ PollCopy,
           UNCHANGED <<Down, InHand>>
    PROVE  CommandOrder' /\ (applied' # applied => applied' > applied)
<1>1. UNCHANGED <<cmdQ, loop, decided>>
  BY DEF PollClaim, PollCopy, serverVars, loopVars
<1>2. /\ applied' # applied => applied' > applied
      /\ polling' # 0 => applied' <= 2 * polling'
      /\ recvSlot' # 0 => applied' <= 2 * recvSlot' /\ polling' < recvSlot'
      /\ \A n \in Nat : Unpolled(n) => Unpolled(n)'
  <2>1. CASE PollClaim
    BY <2>1 DEF PollClaim, CommandOrder, CommandTypes, Unpolled
  <2>2. CASE PollCopy
    <3>1. applied <= 2 * polling /\ polling # 0 /\ polling' = 0 /\ recvSlot' = recvSlot
      BY <2>2 DEF PollCopy, CommandOrder, clientVars
    <3>2. CASE recvSlot = 0 /\ applied' = CopyOf(polling, applied)
      BY <3>1, <3>2 DEF CopyOf, CommandTypes, Unpolled
    <3>3. CASE recvSlot # 0 /\ applied' = CopyOf(recvSlot, applied)
      <4>1. polling < recvSlot
        BY <3>3 DEF CommandOrder
      <4>2. applied' = 2 * recvSlot
        BY <3>1, <3>3, <4>1 DEF CopyOf, CommandTypes
      <4> QED  BY <3>1, <3>3, <4>1, <4>2 DEF CommandTypes, Unpolled
    <3>4. CASE recvSlot # 0 /\ UNCHANGED applied
      BY <3>1, <3>4 DEF CommandOrder, CommandTypes, Unpolled
    <3> QED  BY <2>2, <3>2, <3>3, <3>4 DEF PollCopy
  <2> QED  BY <2>1, <2>2
<1>3. \A n \in Nat : Unread(n) => Unread(n)'
  BY <1>2 DEF Unread
<1>4. \A n \in Nat : Unwritten(n) => Unwritten(n)'
  BY <1>3 DEF Unwritten
<1>5. /\ \A i \in 1 .. Len(Down) : Down[i] \in Nat
      /\ \A i \in 1 .. Len(cmdQ) : cmdQ[i] \in Nat
      /\ decided \in Nat /\ decided + 1 \in Nat /\ InHand \subseteq Nat
  BY DEF CommandTypes
<1> QED  BY <1>1, <1>2, <1>3, <1>4, <1>5 DEF CommandOrder

\* PipeThread reads a command into the slot.
LEMMA CommandRead ==
    ASSUME CommandTypes, CommandOrder, Down # << >>,
           recvSlot' = Head(Down), Down' = Tail(Down),
           UNCHANGED <<polling, applied, InHand, cmdQ, loop, decided>>
    PROVE  CommandOrder'
<1> DEFINE n0 == Head(Down)
<1>1. /\ n0 \in Nat /\ 1 \in 1 .. Len(Down) /\ n0 = Down[1]
      /\ \A i \in 1 .. Len(Down') : Down'[i] = Down[i + 1] /\ i + 1 \in 1 .. Len(Down)
      /\ \A i \in 1 .. Len(Down) : Down[i] \in Nat
  BY TailType DEF CommandTypes
<1>2. Ascending(Down') /\ \A i \in 1 .. Len(Down') : n0 < Down'[i]
  BY AscendingTail DEF CommandTypes, CommandOrder
<1>3. Unpolled(n0) /\ recvSlot' = n0
  BY <1>1 DEF CommandOrder
<1> HIDE DEF n0
<1>4. \A n \in Nat : Unpolled(n) /\ n0 < n => Unpolled(n)'
  BY <1>1, <1>3 DEF Unpolled
<1>5. \A n \in Nat : Unread(n) => Unread(n)'
  BY <1>1, <1>4 DEF Unread
<1>6. \A n \in Nat : Unwritten(n) => Unwritten(n)'
  BY <1>5 DEF Unwritten
<1>7. /\ polling' # 0 => applied' <= 2 * polling'
      /\ applied' <= 2 * recvSlot' /\ polling' < recvSlot'
  BY <1>1, <1>3 DEF Unpolled, CommandOrder, CommandTypes
<1>8. \A i \in 1 .. Len(Down') : Unpolled(Down[i + 1]) /\ Down'[i] \in Nat
  BY <1>1 DEF CommandOrder
<1>9. \A i \in 1 .. Len(Down') : Unpolled(Down[i])'
  BY <1>1, <1>2, <1>4, <1>8 DEF Unpolled
<1>10. /\ \A i \in 1 .. Len(cmdQ) : cmdQ[i] \in Nat
       /\ decided \in Nat /\ decided + 1 \in Nat /\ InHand \subseteq Nat
  BY DEF CommandTypes
<1> QED  BY <1>2, <1>5, <1>6, <1>7, <1>9, <1>10 DEF CommandOrder

\* The writer of a session takes a command, or loses it.
LEMMA CommandTaken ==
    ASSUME CommandTypes, CommandOrder, cmdQ # << >>, cmdQ' = Tail(cmdQ),
           InHand' = InHand \/ InHand' \subseteq {Head(cmdQ)},
           UNCHANGED <<polling, applied, recvSlot, Down, loop, decided>>
    PROVE  CommandOrder'
<1> DEFINE n0 == Head(cmdQ)
<1>1. /\ n0 \in Nat /\ 1 \in 1 .. Len(cmdQ) /\ n0 = cmdQ[1]
      /\ \A i \in 1 .. Len(cmdQ') : cmdQ'[i] = cmdQ[i + 1] /\ i + 1 \in 1 .. Len(cmdQ)
      /\ \A i \in 1 .. Len(cmdQ) : cmdQ[i] \in Nat
  BY TailType DEF CommandTypes
<1>2. Ascending(cmdQ') /\ \A i \in 1 .. Len(cmdQ') : n0 < cmdQ'[i]
  BY AscendingTail DEF CommandTypes, CommandOrder
<1>3. Unwritten(n0) /\ n0 <= decided /\ (loop = "put" => n0 < decided)
  BY <1>1 DEF CommandOrder
<1> HIDE DEF n0
<1>4. \A n : (Unpolled(n) => Unpolled(n)') /\ (Unread(n) => Unread(n)')
  BY DEF Unpolled, Unread
<1>5. InHand' = InHand \/ InHand' \subseteq {n0}
  BY DEF n0
<1>6. \A n : Unwritten(n) /\ n0 < n => Unwritten(n)'
  BY <1>4, <1>5 DEF Unwritten
<1>7. \A w \in InHand' : Unread(w)
  BY <1>3, <1>5 DEF Unwritten, CommandOrder
<1>8. decided \in Nat /\ n0 < decided + 1
  BY <1>1, <1>3 DEF CommandTypes
<1> QED  BY <1>1, <1>2, <1>3, <1>4, <1>6, <1>7, <1>8 DEF CommandOrder

\* It writes the command into the pipe.
LEMMA CommandWritten ==
    ASSUME CommandTypes, CommandOrder, NEW w \in Nat, InHand = {w}, InHand' = {},
           Down' = Append(Down, w),
           UNCHANGED <<polling, applied, recvSlot, cmdQ, loop, decided>>
    PROVE  CommandOrder'
<1>1. Unread(w)
  BY DEF CommandOrder
<1>2. /\ Ascending(Down')
      /\ \A i \in 1 .. Len(Down') : (i \in 1 .. Len(Down) /\ Down'[i] = Down[i]) \/ Down'[i] = w
  BY <1>1, AscendingAppend DEF CommandTypes, CommandOrder, Unread
<1>3. \A n : Unpolled(n) => Unpolled(n)'
  BY DEF Unpolled
<1>4. \A n : Unwritten(n) => Unwritten(n)'
  BY <1>2, <1>3 DEF Unwritten, Unread
<1>5. \A i \in 1 .. Len(Down') : Unpolled(Down'[i])
  BY <1>1, <1>2 DEF Unread, CommandOrder
<1> QED  BY <1>2, <1>3, <1>4, <1>5 DEF CommandOrder

\* The loop makes a command.
LEMMA CommandDecided ==
    ASSUME CommandTypes, CommandOrder,
           \/ loop' = "put" /\ decided' = decided + 1
           \/ UNCHANGED <<loop, decided>>,
           UNCHANGED <<polling, applied, recvSlot, Down, InHand, cmdQ>>
    PROVE  CommandOrder'
<1>1. \A n : /\ Unpolled(n) => Unpolled(n)'
             /\ Unread(n) => Unread(n)'
             /\ Unwritten(n) => Unwritten(n)'
  BY DEF Unpolled, Unread, Unwritten
<1>2. CASE loop' = "put" /\ decided' = decided + 1
  <2>1. Unwritten(decided') /\ decided \in Nat /\ decided' = decided + 1
    BY <1>2 DEF CommandOrder, CommandTypes
  <2>2. Unwritten(decided' + 1)
    <3>1. \A n \in Nat : Unwritten(n) => Unwritten(n + 1)
      BY DEF Unwritten, Unread, Unpolled, CommandTypes
    <3> QED  BY <2>1, <3>1
  <2>3. \A i \in 1 .. Len(cmdQ) : cmdQ[i] \in Nat /\ cmdQ[i] <= decided
    BY DEF CommandOrder, CommandTypes
  <2>4. \A i \in 1 .. Len(cmdQ) : cmdQ[i] < decided' /\ cmdQ[i] <= decided'
    BY <2>1, <2>3
  <2> QED  BY <1>1, <2>1, <2>2, <2>4 DEF CommandOrder
<1>3. CASE UNCHANGED <<loop, decided>>
  BY <1>1, <1>3 DEF CommandOrder
<1> QED  BY <1>2, <1>3

\* The loop puts it into the queue.
LEMMA CommandQueued ==
    ASSUME CommandTypes, CommandOrder, loop = "put", loop' = "get",
           cmdQ' = Append(cmdQ, decided),
           UNCHANGED <<polling, applied, recvSlot, Down, InHand, decided>>
    PROVE  CommandOrder'
<1>1. /\ Ascending(cmdQ')
      /\ \A i \in 1 .. Len(cmdQ') :
           (i \in 1 .. Len(cmdQ) /\ cmdQ'[i] = cmdQ[i]) \/ cmdQ'[i] = decided
  BY AscendingAppend DEF CommandTypes, CommandOrder
<1>2. \A n : /\ Unpolled(n) => Unpolled(n)'
             /\ Unread(n) => Unread(n)'
             /\ Unwritten(n) => Unwritten(n)'
  BY DEF Unpolled, Unread, Unwritten
<1>3. Unwritten(decided) /\ decided <= decided
  BY DEF CommandOrder, CommandTypes
<1> QED  BY <1>1, <1>2, <1>3 DEF CommandOrder

\* A new process knows no command.
LEMMA CommandsForgotten ==
    ASSUME CommandTypes, CommandOrder, polling' = 0, applied' = 0, recvSlot' = 0,
           Down' = << >>, UNCHANGED <<InHand, cmdQ, loop, decided>>
    PROVE  CommandOrder'
<1>1. \A n \in Nat : Unpolled(n) => Unpolled(n)'
  BY DEF Unpolled, CommandTypes
<1>2. \A n \in Nat : /\ Unread(n) => Unread(n)'
                     /\ Unwritten(n) => Unwritten(n)'
  BY <1>1 DEF Unread, Unwritten
<1>3. /\ \A i \in 1 .. Len(cmdQ) : cmdQ[i] \in Nat
      /\ decided \in Nat /\ decided + 1 \in Nat /\ InHand \subseteq Nat
  BY DEF CommandTypes
<1> QED  BY <1>2, <1>3 DEF CommandOrder, Ascending

\* The server writes only into the pipe that the game reads from.
LEMMA ServerKeepsCommands ==
    ASSUME Handles, CommandOrder, Server, UNCHANGED <<clientVars, bridgeVars>>
    PROVE  CommandOrder'
<1>1. PipeType /\ ServerTypeOK /\ ClientTypeOK /\ BridgeType /\ ServerHandles /\ ClientHandles
  BY DEF Handles, Types
<1>2. CommandTypes
  BY NumbersOfCommands
<1>3. UNCHANGED <<polling, applied, recvSlot, handle, loop, decided>>
  BY DEF clientVars, bridgeVars, loopVars
<1>4. /\ handle # 0 => handle \in Sessions
      /\ srv \in {"accept", "serve"} => sess \in Sessions
      /\ Sessions \subseteq Nat /\ 0 \notin Sessions /\ sess \in Nat
  BY <1>1, MaxSessionAssumption DEF ClientTypeOK, ServerTypeOK, ServerHandles, Sessions
<1>5. ASSUME \A t \in Sessions : pipe'[t].down = pipe[t].down
      PROVE  Down' = Down
  BY <1>3, <1>4, <1>5 DEF Down
<1>6. CASE MainStep
  <2>1. InHand' \subseteq InHand /\ UNCHANGED cmdQ
    <3>1. CASE Accept
      <4>1. sess \in Sessions /\ sess' = sess /\ UNCHANGED cmdQ
        BY <1>4, <3>1 DEF Accept
      <4>2. writer'[sess] = "get"
        BY <1>1, <3>1, <4>1 DEF Accept, ServerTypeOK
      <4> QED  BY <4>1, <4>2 DEF InHand
    <3>2. CASE CreatePipe \/ AcceptFails \/ EndSession \/ Wake
      <4>1. srv' # "serve" /\ UNCHANGED cmdQ
        BY <3>2 DEF CreatePipe, AcceptFails, EndSession, Wake
      <4> QED  BY <4>1 DEF InHand
    <3> QED  BY <1>6, <3>1, <3>2 DEF MainStep
  <2>2. \A t \in Sessions : pipe'[t].down = pipe[t].down
    <3>1. srv = "create" /\ sess < MaxSession => sess + 1 \in Sessions
      BY <1>4, MaxSessionAssumption DEF Sessions
    <3>3. "open" \in Ends /\ "closed" \in Ends
      BY DEF Ends
    <3>4. CASE CreatePipe
      BY <1>1, <3>1, <3>3, <3>4, SrvChanges DEF CreatePipe, CreateInstance
    <3>5. CASE AcceptFails \/ EndSession
      BY <1>1, <1>4, <3>3, <3>5, SrvChanges DEF AcceptFails, EndSession, ServerClose
    <3> QED  BY <1>6, <3>4, <3>5 DEF MainStep, Accept, Wake
  <2> QED  BY <1>2, <1>3, <1>5, <2>1, <2>2, CommandsLost
<1>7. ASSUME NEW s \in Sessions, ReaderStep(s)
      PROVE  CommandOrder'
  <2>1. UNCHANGED <<srv, sess, writer, wmsg, cmdQ>>
    BY <1>7 DEF ReaderStep, ReadLength, ReadEOF, ReadBody, ReadBodyFails, PutSnapshot, WaitForRoom
  <2>2. \/ UNCHANGED pipe
        \/ pipe[s].up # << >> /\ pipe' = [pipe EXCEPT ![s].up = Tail(pipe[s].up)]
    BY <1>1, <1>7 DEF ReaderStep, ReadLength, ReadEOF, ReadBody, ReadBodyFails, PutSnapshot,
                      WaitForRoom, ServerTake, ServerCanRead, PipeType
  <2>3. \A t \in Sessions : pipe'[t].down = pipe[t].down
    <3>1. pipe[s].up # << >> => Tail(pipe[s].up) \in Seq(Nat)
      BY <1>1, PipeAt
    <3> QED  BY <1>1, <2>2, <3>1, UpChanges
  <2>4. InHand' = InHand
    BY <2>1 DEF InHand
  <2> QED  BY <1>2, <1>3, <1>5, <2>1, <2>3, <2>4, CommandsLost
<1>8. ASSUME NEW s \in Sessions, GetCommand(s)
      PROVE  CommandOrder'
  <2>1. UNCHANGED <<pipe, srv, sess>> /\ cmdQ # << >> /\ cmdQ' = Tail(cmdQ) /\ writer[s] = "get"
    BY <1>8 DEF GetCommand
  <2>2. InHand' = InHand \/ InHand' \subseteq {Head(cmdQ)}
    <3>1. CASE s = sess
      BY <1>1, <1>8, <2>1, <3>1 DEF GetCommand, InHand, ServerTypeOK
    <3>2. CASE s # sess
      <4>1. sess \in Sessions => writer'[sess] = writer[sess] /\ wmsg'[sess] = wmsg[sess]
        BY <1>1, <1>8, <3>2 DEF GetCommand, ServerTypeOK
      <4> QED  BY <1>4, <2>1, <4>1 DEF InHand
    <3> QED  BY <3>1, <3>2
  <2>3. UNCHANGED Down
    BY <1>5, <2>1
  <2> QED  BY <1>2, <1>3, <2>1, <2>2, <2>3, CommandTaken
<1>9. ASSUME NEW s \in Sessions, WaitForCommand(s) \/ WriteFails(s)
      PROVE  CommandOrder'
  <2>1. UNCHANGED <<pipe, srv, sess, cmdQ>>
    BY <1>9 DEF WaitForCommand, WriteFails
  <2>2. InHand' \subseteq InHand
    <3>1. CASE s = sess
      BY <1>1, <1>9, <2>1, <3>1 DEF WaitForCommand, WriteFails, InHand, ServerTypeOK
    <3>2. CASE s # sess
      <4>1. sess \in Sessions => writer'[sess] = writer[sess] /\ wmsg'[sess] = wmsg[sess]
        BY <1>1, <1>9, <3>2 DEF WaitForCommand, WriteFails, ServerTypeOK
      <4> QED  BY <1>4, <2>1, <4>1 DEF InHand
    <3> QED  BY <3>1, <3>2
  <2> QED  BY <1>2, <1>3, <1>5, <2>1, <2>2, CommandsLost
<1>10. ASSUME NEW s \in Sessions, WriteCommand(s)
       PROVE  CommandOrder'
  <2>1. /\ writer[s] = "write" /\ pipe[s].srv = "open" /\ pipe[s].cli = "open"
        /\ UNCHANGED <<srv, sess, cmdQ>>
    BY <1>10 DEF WriteCommand, ServerCanWrite
  <2>2. s = sess /\ s = handle /\ srv = "serve"
    BY <1>1, <2>1 DEF ServerHandles, ClientHandles
  <2>3. InHand = {wmsg[s]} /\ wmsg[s] \in Nat
    BY <1>1, <2>1, <2>2 DEF InHand, ServerTypeOK
  <2>4. writer'[sess] = "get"
    BY <1>1, <1>10, <2>2 DEF WriteCommand, ServerTypeOK
  <2>5. InHand' = {}
    BY <2>1, <2>4 DEF InHand
  <2>6. Down' = Append(Down, wmsg[s])
    <3> DEFINE q == Append(pipe[s].down, wmsg[s])
    <3>1. q \in Seq(Nat)
      BY <1>1, <2>3, PipeAt
    <3>2. pipe' = [pipe EXCEPT ![s].down = q]
      BY <1>10 DEF WriteCommand, ServerWrite
    <3> HIDE DEF q
    <3>3. \A t \in Sessions : pipe'[t].down = IF t = s THEN q ELSE pipe[t].down
      <4>1. PipeType
        BY <1>1
      <4> QED  BY ONLY <3>1, <3>2, <4>1, s \in Sessions, DownChanges
    <3> QED  BY <1>3, <1>4, <2>2, <3>3 DEF Down, q
  <2> QED  BY <1>2, <1>3, <2>1, <2>3, <2>5, <2>6, CommandWritten
<1> QED  BY <1>6, <1>7, <1>8, <1>9, <1>10 DEF Server, WriterStep, WriteEnds

\* A connection begins with nothing in the pipe and leaves it behind.
LEMMA ThreadKeepsCommands ==
    ASSUME Handles, CommandOrder, ThreadStep, UNCHANGED <<serverVars, bridgeVars>>
    PROVE  CommandOrder'
<1>1. PipeType /\ ServerTypeOK /\ ClientTypeOK /\ BridgeType /\ ServerHandles /\ ClientHandles
  BY DEF Handles, Types
<1>2. CommandTypes
  BY NumbersOfCommands
<1>3. UNCHANGED <<polling, applied, cmdQ, loop, decided, InHand>>
  BY DEF serverVars, taskVars, bridgeVars, loopVars, InHand
<1>4. /\ handle # 0 => handle \in Sessions
      /\ Sessions \subseteq Nat /\ 0 \notin Sessions
  BY <1>1, MaxSessionAssumption DEF ClientTypeOK, Sessions
<1>5. CASE Connect
  <2>1. PICK s \in Sessions : Listening(s) /\ ClientOpen(s) /\ handle' = s
    BY <1>5 DEF Connect
  <2>2. pipe'[s].down = << >>
    <3>1. pipe'[s].down = pipe[s].down
      BY <1>1, <2>1, CliChanges DEF ClientOpen, Ends
    <3> QED  BY <1>1, <2>1, <3>1 DEF Listening, ClientHandles
  <2>3. Down' = << >> /\ recvSlot' = recvSlot
    BY <1>4, <1>5, <2>1, <2>2 DEF Down, Connect
  <2> QED  BY <1>2, <1>3, <2>3, CommandsLost
<1>6. CASE NothingToFlush \/ Claim \/ Reconnect
  <2>1. UNCHANGED <<Down, recvSlot>>
    BY <1>6 DEF NothingToFlush, Claim, Reconnect, Down
  <2> QED  BY <1>2, <1>3, <2>1, CommandsLost
<1>7. CASE FlushLength \/ FlushBody
  <2>1. handle \in Sessions /\ handle' = handle /\ recvSlot' = recvSlot
    BY <1>1, <1>4, <1>7 DEF FlushLength, FlushBody, ClientHandles
  <2>2. \/ UNCHANGED pipe
        \/ \E p \in Nat : pipe' = [pipe EXCEPT ![handle].up = Append(pipe[handle].up, p)]
    <3>1. LengthPart \in Nat /\ scratch \in Nat
      BY <1>1 DEF LengthPart, ClientTypeOK
    <3> QED  BY <1>7, <2>1, <3>1 DEF FlushLength, FlushBody, ClientWrite
  <2>3. pipe'[handle].down = pipe[handle].down
    <3>1. ASSUME NEW p \in Nat, pipe' = [pipe EXCEPT ![handle].up = Append(pipe[handle].up, p)]
          PROVE  pipe'[handle].down = pipe[handle].down
      <4>1. Append(pipe[handle].up, p) \in Seq(Nat)
        BY <1>1, <2>1, PipeAt
      <4> QED  BY <1>1, <2>1, <3>1, <4>1, UpChanges
    <3> QED  BY <2>2, <3>1
  <2>4. UNCHANGED Down
    BY <2>1, <2>3 DEF Down
  <2> QED  BY <1>2, <1>3, <2>1, <2>4, CommandsLost
<1>8. CASE Peek
  <2>1. handle \in Sessions /\ handle # 0 /\ handle' = handle
    BY <1>1, <1>4, <1>8 DEF Peek, ClientHandles
  <2>2. CASE Down # << >>
    <3>1. /\ Down = pipe[handle].down /\ pipe[handle].down # << >>
          /\ Tail(pipe[handle].down) \in Seq(Nat)
      BY <1>1, <2>1, <2>2, PipeAt DEF Down
    <3>2. pipe'[handle].down = Tail(pipe[handle].down) /\ recvSlot' = Head(Down)
      BY <1>1, <1>8, <2>1, <3>1, DownChanges DEF Peek, ClientTake
    <3>3. Down' = Tail(Down)
      BY <2>1, <3>1, <3>2 DEF Down
    <3> QED  BY <1>2, <1>3, <2>2, <3>2, <3>3, CommandRead
  <2>3. CASE Down = << >>
    <3>1. UNCHANGED <<pipe, recvSlot>>
      BY <1>8, <2>1, <2>3 DEF Peek, Down
    <3>2. UNCHANGED Down
      BY <2>1, <3>1 DEF Down
    <3> QED  BY <1>2, <1>3, <3>1, <3>2, CommandsLost
  <2> QED  BY <2>2, <2>3
<1>9. CASE Disconnect
  <2>1. Down' = << >> /\ recvSlot' = recvSlot
    BY <1>9 DEF Disconnect, Down
  <2> QED  BY <1>2, <1>3, <2>1, CommandsLost
<1> QED  BY <1>5, <1>6, <1>7, <1>8, <1>9 DEF ThreadStep

\* So do Lua, the loop and the process.
LEMMA OthersKeepCommands ==
    ASSUME Handles, CommandOrder, Other
    PROVE  CommandOrder'
<1>1. PipeType /\ ServerTypeOK /\ ClientTypeOK /\ BridgeType /\ ServerHandles /\ ClientHandles
  BY DEF Handles, Types
<1>2. CommandTypes
  BY NumbersOfCommands
<1>3. CASE SendSnapshot \/ Start
  <2>1. UNCHANGED <<polling, applied, recvSlot, Down, InHand, cmdQ, loop, decided>>
    BY <1>3 DEF SendSnapshot, Start, GameStart, serverVars, taskVars, loopVars, Down, InHand
  <2> QED  BY <1>2, <2>1, CommandsLost
<1>4. CASE PollClaim \/ PollCopy
  <2>1. UNCHANGED <<Down, InHand>>
    BY <1>4 DEF PollClaim, PollCopy, serverVars, taskVars, clientVars, Down, InHand
  <2> QED  BY <1>2, <1>4, <2>1, CommandPolled
<1>5. CASE Exit
  <2>1. /\ polling' = 0 /\ applied' = 0 /\ recvSlot' = 0 /\ Down' = << >>
        /\ UNCHANGED <<InHand, cmdQ, loop, decided>>
    BY <1>5 DEF Exit, GameExit, serverVars, taskVars, loopVars, Down, InHand
  <2> QED  BY <1>2, <2>1, CommandsForgotten
<1>6. CASE TakeSnapshot
  <2>1. /\ UNCHANGED <<polling, applied, recvSlot, Down, InHand, cmdQ>>
        /\ \/ loop' = "put" /\ decided' = decided + 1
           \/ UNCHANGED <<loop, decided>>
    BY <1>6 DEF TakeSnapshot, luaVars, clientVars, Down, InHand
  <2> QED  BY <1>2, <2>1, CommandDecided
<1>7. CASE PutCommand
  <2>1. /\ UNCHANGED <<polling, applied, recvSlot, Down, decided, srv, sess, wmsg>>
        /\ loop = "put" /\ loop' = "get" /\ cmdQ' = Append(cmdQ, decided)
    BY <1>7 DEF PutCommand, luaVars, clientVars, Down
  <2>2. InHand' = InHand
    <3>1. CASE getters = << >>
      BY <1>7, <2>1, <3>1 DEF PutCommand, WakeGetter, InHand
    <3>2. CASE getters # << >>
      <4>1. writer[Head(getters)] = "wait" /\ writer' = [writer EXCEPT ![Head(getters)] = "get"]
        <5>1. getters \in Seq(Sessions) /\ Waits(getters, writer)
              /\ writer \in [Sessions -> {"off", "get", "wait", "write", "raised"}]
          BY <1>1 DEF ServerTypeOK, ServerHandles
        <5>2. writer[Head(getters)] = "wait"
          BY <3>2, <5>1, WaitsLess
        <5> QED  BY <1>7, <3>2, <5>2 DEF PutCommand, WakeGetter
      <4>2. srv = "serve" => sess \in Sessions
        BY <1>1 DEF ServerHandles, ServerTypeOK, Sessions
      <4>3. sess \in Sessions => (writer[sess] = "write" <=> writer'[sess] = "write")
        BY <1>1, <4>1 DEF ServerTypeOK
      <4> QED  BY <2>1, <4>2, <4>3 DEF InHand
    <3> QED  BY <3>1, <3>2
  <2> QED  BY <1>2, <2>1, <2>2, CommandQueued
<1> QED  BY <1>3, <1>4, <1>5, <1>6, <1>7 DEF Other, LoopStep

\* Nothing was decided at first.
LEMMA InitCommands ==
    ASSUME Init
    PROVE  CommandOrder
<1>1. /\ polling = 0 /\ applied = 0 /\ recvSlot = 0 /\ decided = 0 /\ loop = "get"
      /\ cmdQ = << >> /\ Down = << >> /\ InHand = {}
  BY DEF Init, ServerInit, ClientInit, Down, InHand
<1> QED  BY <1>1 DEF CommandOrder, Ascending, Unwritten, Unread, Unpolled

\* The commands on their way, from the loop to the executor of the game, are in
\* the order in which the loop made them; what overtakes is a copy of the next.
THEOREM CommandOrderHolds == Spec => [](Handles /\ CommandOrder)
<1>1. Init => Handles /\ CommandOrder
  BY InitHandles, InitCommands
<1>2. Handles /\ CommandOrder /\ [Next]_vars => Handles' /\ CommandOrder'
  <2> SUFFICES ASSUME Handles, CommandOrder, [Next]_vars
               PROVE  Handles' /\ CommandOrder'
    OBVIOUS
  <2>1. CASE UNCHANGED vars
    <3>1. UNCHANGED <<polling, applied, recvSlot, Down, InHand, cmdQ, loop, decided>>
      BY <2>1 DEF vars, serverVars, taskVars, clientVars, bridgeVars, loopVars, Down, InHand
    <3> QED  BY <2>1, <3>1, NumbersOfCommands, CommandsLost, StepHandles
  <2> QED  BY <2>1, StepHandles, ServerKeepsCommands, ThreadKeepsCommands, OthersKeepCommands
           DEF Next, Other
<1> QED  BY <1>1, <1>2, PTL DEF Spec

\* What a game applies is never older than what it applied before, nor the same
\* a third time (LLMBridge.PollCommand over osq_pop), whatever happened to the
\* sessions that the commands came through.
THEOREM CommandsInOrderHolds == Spec => CommandsInOrder
<1>1. Handles /\ CommandOrder /\ [Next]_vars
        => [applied' # applied /\ pt' # "off" => applied' > applied]_vars
  <2> SUFFICES ASSUME Handles, CommandOrder, Next, applied' # applied, pt' # "off"
               PROVE  applied' > applied
    OBVIOUS
  <2>1. PollCopy
    BY DEF Next, bridgeVars, loopVars, SendSnapshot, PollClaim, Exit, GameExit, Start, LoopStep,
           TakeSnapshot, PutCommand, luaVars
  <2>2. UNCHANGED <<Down, InHand>>
    BY <2>1 DEF PollCopy, serverVars, taskVars, clientVars, Down, InHand
  <2> QED  BY <2>1, <2>2, NumbersOfCommands, CommandPolled
<1> QED  BY <1>1, CommandOrderHolds, PTL DEF Spec, CommandsInOrder

-----------------------------------------------------------------------------
(* What the reader takes for a body is one *)

\* Lengths and bodies alternate; a reader in state r comes to a length next,
\* unless it is waiting for a body.
Alternates(q, r) ==
    /\ \A i, j \in 1 .. Len(q) : j = i + 1 => (q[i] = 0 <=> q[j] # 0)
    /\ q # << >> => (q[1] = 0 <=> r # "body")

\* The last part that the game wrote was a length.
BodyIsDue(q, r) == IF q = << >> THEN r = "body" ELSE q[Len(q)] = 0

Framed(s) ==
    /\ Alternates(pipe[s].up, reader[s])
    /\ handle = s /\ pt # "close" => (pt = "body" <=> BodyIsDue(pipe[s].up, reader[s]))

Frames == \A s \in Sessions : reader[s] \in {"done", "raised"} \/ Framed(s)

\* A queue without a first one is empty.
LEMMA NoneLeft ==
    ASSUME NEW q \in Seq(Nat)
    PROVE  q = << >> <=> Len(q) = 0
OBVIOUS

\* The reader takes one part.
LEMMA PartTaken ==
    ASSUME NEW q \in Seq(Nat), q # << >>, NEW r, NEW r2, Alternates(q, r),
           r = "body" <=> r2 # "body"
    PROVE  /\ q[1] = 0 <=> r # "body"
           /\ Alternates(Tail(q), r2)
           /\ BodyIsDue(Tail(q), r2) <=> BodyIsDue(q, r)
<1> DEFINE t == Tail(q)
<1>1. /\ Len(q) \in Nat \ {0} /\ Len(t) = Len(q) - 1 /\ (t = << >> <=> Len(q) = 1)
      /\ \A i \in 1 .. Len(t) : t[i] = q[i + 1] /\ i + 1 \in 1 .. Len(q)
      /\ 1 \in 1 .. Len(q) /\ (Len(q) # 1 => 2 \in 1 .. Len(q) /\ 1 \in 1 .. Len(t))
  <2>1. /\ Len(q) \in Nat \ {0} /\ Len(t) = Len(q) - 1 /\ t \in Seq(Nat)
        /\ \A i \in 1 .. Len(t) : t[i] = q[i + 1]
    BY TailType
  <2> HIDE DEF t
  <2>2. t = << >> <=> Len(t) = 0
    BY <2>1, NoneLeft
  <2> QED  BY <2>1, <2>2
<1> HIDE DEF t
<1>2. q[1] = 0 <=> r # "body"
  BY DEF Alternates
<1>3. Alternates(t, r2)
  <2>1. ASSUME NEW i \in 1 .. Len(t), NEW j \in 1 .. Len(t), j = i + 1
        PROVE  t[i] = 0 <=> t[j] # 0
    <3>1. i + 1 \in 1 .. Len(q) /\ j + 1 \in 1 .. Len(q) /\ j + 1 = (i + 1) + 1
      BY <1>1, <2>1
    <3>2. q[i + 1] = 0 <=> q[j + 1] # 0
      BY <3>1 DEF Alternates
    <3> QED  BY <1>1, <3>2
  <2>2. t # << >> => (t[1] = 0 <=> r2 # "body")
    <3> SUFFICES ASSUME t # << >>
                 PROVE  t[1] = 0 <=> r2 # "body"
      OBVIOUS
    <3>1. t[1] = q[2] /\ 2 \in 1 .. Len(q) /\ 2 = 1 + 1
      BY <1>1
    <3>2. q[1] = 0 <=> q[2] # 0
      BY <1>1, <3>1 DEF Alternates
    <3> QED  BY <1>2, <3>1, <3>2
  <2> QED  BY <2>1, <2>2 DEF Alternates
<1>4. BodyIsDue(t, r2) <=> BodyIsDue(q, r)
  <2>1. CASE Len(q) = 1
    BY <1>1, <1>2, <2>1 DEF BodyIsDue
  <2>2. CASE Len(q) # 1
    <3>1. Len(t) \in 1 .. Len(t) /\ t[Len(t)] = q[Len(q)] /\ t # << >>
      BY <1>1, <2>2
    <3> QED  BY <3>1 DEF BodyIsDue
  <2> QED  BY <2>1, <2>2
<1> QED  BY <1>2, <1>3, <1>4 DEF t

\* The game adds the part that is due.
LEMMA PartAdded ==
    ASSUME NEW q \in Seq(Nat), NEW p \in Nat, NEW r, Alternates(q, r),
           p = 0 <=> ~BodyIsDue(q, r)
    PROVE  /\ Alternates(Append(q, p), r)
           /\ BodyIsDue(Append(q, p), r) <=> p = 0
<1> DEFINE t == Append(q, p)
<1>1. /\ Len(t) = Len(q) + 1 /\ Len(q) \in Nat /\ t[Len(q) + 1] = p /\ t # << >>
      /\ \A i \in 1 .. Len(q) : t[i] = q[i]
      /\ Len(q) = 0 <=> q = << >>
  OBVIOUS
<1> HIDE DEF t
<1>2. BodyIsDue(t, r) <=> p = 0
  BY <1>1 DEF BodyIsDue
<1>3. ASSUME NEW i \in 1 .. Len(t), NEW j \in 1 .. Len(t), j = i + 1
      PROVE  t[i] = 0 <=> t[j] # 0
  <2>1. CASE j \in 1 .. Len(q)
    <3>1. i \in 1 .. Len(q)
      BY <1>3, <2>1
    <3> QED  BY <1>1, <1>3, <2>1, <3>1 DEF Alternates
  <2>2. CASE j = Len(q) + 1
    <3>1. i = Len(q) /\ i \in 1 .. Len(q) /\ q # << >> /\ t[j] = p /\ t[i] = q[i]
      BY <1>1, <1>3, <2>2
    <3> QED  BY <3>1 DEF BodyIsDue
  <2> QED  BY <1>1, <2>1, <2>2
<1>4. t[1] = 0 <=> r # "body"
  <2>1. CASE q = << >>
    BY <1>1, <2>1 DEF BodyIsDue
  <2>2. CASE q # << >>
    BY <1>1, <2>2 DEF Alternates
  <2> QED  BY <2>1, <2>2
<1> QED  BY <1>2, <1>3, <1>4 DEF Alternates, t

\* Nothing is said of a stream but its parts and whether its reader is in a body.
LEMMA FramedOn ==
    ASSUME NEW q, NEW r, NEW r2, Alternates(q, r), r = "body" <=> r2 = "body"
    PROVE  Alternates(q, r2) /\ (BodyIsDue(q, r2) <=> BodyIsDue(q, r))
BY DEF Alternates, BodyIsDue

\* The server's steps keep the frames.
LEMMA ServerKeepsFrames ==
    ASSUME Handles, Frames, Server, UNCHANGED <<clientVars, bridgeVars>>
    PROVE  Frames'
<1>1. PipeType /\ ServerTypeOK /\ ServerHandles
  BY DEF Handles, Types
<1>2. UNCHANGED <<handle, pt>>
  BY DEF clientVars
<1>3. ASSUME \A t \in Sessions : /\ pipe'[t].up = pipe[t].up
                                 /\ reader'[t] \in {"done", "raised"} \/ reader'[t] = reader[t]
                                    \/ (reader[t] \in {"off", "put"} /\ reader'[t] # "body")
      PROVE  Frames'
  <2> SUFFICES ASSUME NEW t \in Sessions, reader'[t] \notin {"done", "raised"}
               PROVE  Framed(t)'
    BY DEF Frames
  <2>1. /\ pipe'[t].up = pipe[t].up /\ Framed(t)
        /\ reader[t] = "body" <=> reader'[t] = "body"
    BY <1>3 DEF Frames
  <2>2. Alternates(pipe[t].up, reader'[t])
        /\ (BodyIsDue(pipe[t].up, reader'[t]) <=> BodyIsDue(pipe[t].up, reader[t]))
    BY <2>1, FramedOn DEF Framed
  <2> QED  BY <1>2, <2>1, <2>2 DEF Framed
<1>4. CASE MainStep
  <2>1. \A t \in Sessions : pipe'[t].up = pipe[t].up
    <3>1. /\ srv = "create" /\ sess < MaxSession => sess + 1 \in Sessions
          /\ srv \in {"accept", "serve"} => sess \in Sessions
      BY <1>1, MaxSessionAssumption DEF ServerTypeOK, ServerHandles, Sessions
    <3>2. "open" \in Ends /\ "closed" \in Ends
      BY DEF Ends
    <3>3. CASE CreatePipe
      BY <1>1, <3>1, <3>2, <3>3, SrvChanges DEF CreatePipe, CreateInstance
    <3>4. CASE AcceptFails \/ EndSession
      BY <1>1, <3>1, <3>2, <3>4, SrvChanges DEF AcceptFails, EndSession, ServerClose
    <3> QED  BY <1>4, <3>3, <3>4 DEF MainStep, Accept, Wake
  <2>2. \A t \in Sessions : reader'[t] = reader[t] \/ (reader[t] = "off" /\ reader'[t] = "length")
    BY <1>1, <1>4 DEF MainStep, CreatePipe, Accept, AcceptFails, EndSession, Wake, taskVars,
                      ServerTypeOK, ServerHandles
  <2> QED  BY <1>3, <2>1, <2>2
<1>5. ASSUME NEW s \in Sessions, ReadLength(s) \/ ReadBody(s)
      PROVE  Frames'
  <2>1. /\ pipe[s].up # << >> /\ pipe[s].up \in Seq(Nat) /\ Tail(pipe[s].up) \in Seq(Nat)
        /\ pipe' = [pipe EXCEPT ![s].up = Tail(pipe[s].up)]
    BY <1>1, <1>5, PipeAt DEF ReadLength, ReadBody, ServerCanRead, ServerTake
  <2>2. \A t \in Sessions : pipe'[t].up = IF t = s THEN Tail(pipe[s].up) ELSE pipe[t].up
    BY <1>1, <2>1, UpChanges
  <2>3. /\ \A t \in Sessions \ {s} : reader'[t] = reader[t]
        /\ reader[s] \in {"length", "body"}
        /\ reader'[s] \in {"raised"} \/ (reader[s] = "body" <=> reader'[s] # "body")
    BY <1>1, <1>5 DEF ReadLength, ReadBody, ServerTypeOK
  <2> SUFFICES ASSUME NEW t \in Sessions, reader'[t] \notin {"done", "raised"}
               PROVE  Framed(t)'
    BY DEF Frames
  <2>4. CASE t # s
    <3>1. Framed(t) /\ pipe'[t].up = pipe[t].up /\ reader'[t] = reader[t]
      BY <2>2, <2>3, <2>4 DEF Frames
    <3> QED  BY <1>2, <3>1 DEF Framed
  <2>5. CASE t = s
    <3>1. Framed(s) /\ pipe'[s].up = Tail(pipe[s].up)
      BY <2>2, <2>3, <2>5 DEF Frames
    <3>2. /\ Alternates(Tail(pipe[s].up), reader'[s])
          /\ BodyIsDue(Tail(pipe[s].up), reader'[s]) <=> BodyIsDue(pipe[s].up, reader[s])
      BY <2>1, <2>3, <2>5, <3>1, PartTaken DEF Framed
    <3> QED  BY <1>2, <2>5, <3>1, <3>2 DEF Framed
  <2> QED  BY <2>4, <2>5
<1>6. ASSUME NEW s \in Sessions,
             ReadEOF(s) \/ ReadBodyFails(s) \/ PutSnapshot(s) \/ WaitForRoom(s)
      PROVE  Frames'
  <2>1. UNCHANGED pipe
    BY <1>6 DEF ReadEOF, ReadBodyFails, PutSnapshot, WaitForRoom
  <2>2. \A t \in Sessions : \/ reader'[t] \in {"done", "raised"} \/ reader'[t] = reader[t]
                            \/ (reader[t] = "put" /\ reader'[t] # "body")
    BY <1>1, <1>6 DEF ReadEOF, ReadBodyFails, PutSnapshot, WaitForRoom, ServerTypeOK
  <2> QED  BY <1>3, <2>1, <2>2
<1>7. ASSUME NEW s \in Sessions, WriterStep(s)
      PROVE  Frames'
  <2>1. reader' = reader
    BY <1>7 DEF WriterStep, WriteEnds, GetCommand, WaitForCommand, WriteCommand, WriteFails
  <2>2. \A t \in Sessions : pipe'[t].up = pipe[t].up
    <3>1. CASE WriteCommand(s)
      <4> DEFINE q == Append(pipe[s].down, wmsg[s])
      <4>1. q \in Seq(Nat) /\ PipeType
        BY <1>1, PipeAt DEF ServerTypeOK
      <4>2. pipe' = [pipe EXCEPT ![s].down = q]
        BY <3>1 DEF WriteCommand, ServerWrite
      <4> HIDE DEF q
      <4> QED  BY ONLY <4>1, <4>2, s \in Sessions, DownChanges
    <3> QED  BY <1>7, <3>1 DEF WriterStep, WriteEnds, GetCommand, WaitForCommand, WriteFails
  <2> QED  BY <1>3, <2>1, <2>2
<1> QED  BY <1>4, <1>5, <1>6, <1>7 DEF Server, ReaderStep

\* Nothing is in the pipe of a new connection, and the reader has not started.
LEMMA ThreadKeepsFrames ==
    ASSUME Handles, Frames, pt \in {"copy", "body"} => scratch # 0,
           ThreadStep, UNCHANGED <<serverVars, bridgeVars>>
    PROVE  Frames'
<1>1. PipeType /\ ServerTypeOK /\ ClientTypeOK /\ ServerHandles /\ ClientHandles
  BY DEF Handles, Types
<1>2. UNCHANGED reader /\ 0 \notin Sessions /\ (handle # 0 => handle \in Sessions)
  BY <1>1, MaxSessionAssumption DEF serverVars, taskVars, Sessions, ClientTypeOK
<1>3. CASE Connect
  <2>1. PICK s \in Sessions : Listening(s) /\ ClientOpen(s) /\ handle' = s
    BY <1>3 DEF Connect
  <2>2. \A t \in Sessions : pipe'[t].up = pipe[t].up
    BY <1>1, <2>1, CliChanges DEF ClientOpen, Ends
  <2>3. pipe[s].up = << >> /\ reader[s] = "off" /\ pt' = "flush"
    BY <1>1, <1>3, <2>1 DEF Connect, Listening, ClientHandles, ServerHandles
  <2> SUFFICES ASSUME NEW t \in Sessions, reader'[t] \notin {"done", "raised"}
               PROVE  Framed(t)'
    BY DEF Frames
  <2>4. Alternates(pipe[t].up, reader[t])
    BY <1>2 DEF Frames, Framed
  <2>5. t = s => ~BodyIsDue(pipe[t].up, reader[t])
    BY <2>3 DEF BodyIsDue
  <2> QED  BY <1>2, <2>1, <2>2, <2>3, <2>4, <2>5 DEF Framed
<1>4. CASE NothingToFlush \/ Claim \/ Reconnect \/ Peek \/ Disconnect
  <2>1. \A t \in Sessions : pipe'[t].up = pipe[t].up
    <3>1. CASE Peek /\ pipe[handle].down # << >>
      <4>1. handle \in Sessions /\ PipeType
        BY <1>1, <1>2, <3>1 DEF Peek, ClientHandles
      <4> DEFINE q == Tail(pipe[handle].down)
      <4>2. q \in Seq(Nat) /\ pipe' = [pipe EXCEPT ![handle].down = q]
        BY <3>1, <4>1, PipeAt DEF Peek, ClientTake
      <4> HIDE DEF q
      <4> QED  BY ONLY <4>1, <4>2, DownChanges
    <3>2. CASE Disconnect
      BY <1>1, <1>2, <3>2, CliChanges DEF Disconnect, ClientClose, Ends, ClientHandles
    <3> QED  BY <1>4, <3>1, <3>2 DEF NothingToFlush, Claim, Reconnect, Peek
  <2>2. handle' = 0 \/ (handle' = handle /\ pt \notin {"body", "close"} /\ pt' \notin {"body", "close"})
    BY <1>1, <1>4 DEF NothingToFlush, Claim, Reconnect, Peek, Disconnect, ClientHandles
  <2> QED  BY <1>2, <2>1, <2>2 DEF Frames, Framed
<1>5. CASE FlushLength \/ FlushBody
  <2>1. /\ handle \in Sessions /\ handle' = handle
        /\ \/ FlushLength /\ pt = "copy"
           \/ FlushBody /\ pt = "body"
    BY <1>1, <1>2, <1>5 DEF FlushLength, FlushBody, ClientHandles
  <2>2. CASE ~ClientCanWrite(handle)
    <3>1. pt' = "close" /\ UNCHANGED pipe
      BY <2>1, <2>2 DEF FlushLength, FlushBody
    <3> QED  BY <1>2, <2>1, <3>1 DEF Frames, Framed
  <2>3. ASSUME NEW p \in Nat, pipe' = [pipe EXCEPT ![handle].up = Append(pipe[handle].up, p)],
               p = 0 <=> pt = "copy", pt' = IF p = 0 THEN "body" ELSE "peek"
        PROVE  Frames'
    <3>1. pipe[handle].up \in Seq(Nat) /\ Append(pipe[handle].up, p) \in Seq(Nat)
      BY <1>1, <2>1, PipeAt
    <3>2. \A t \in Sessions :
            pipe'[t].up = IF t = handle THEN Append(pipe[handle].up, p) ELSE pipe[t].up
      BY <1>1, <2>1, <2>3, <3>1, UpChanges
    <3> SUFFICES ASSUME NEW t \in Sessions, reader'[t] \notin {"done", "raised"}
                 PROVE  Framed(t)'
      BY DEF Frames
    <3>3. Framed(t)
      BY <1>2 DEF Frames
    <3>4. CASE t # handle
      BY <1>2, <2>1, <3>2, <3>3, <3>4 DEF Framed
    <3>5. CASE t = handle
      <4>1. p = 0 <=> ~BodyIsDue(pipe[t].up, reader[t])
        BY <2>1, <2>3, <3>3, <3>5 DEF Framed
      <4>2. /\ Alternates(Append(pipe[t].up, p), reader[t])
            /\ BodyIsDue(Append(pipe[t].up, p), reader[t]) <=> p = 0
        BY <3>1, <3>3, <3>5, <4>1, PartAdded DEF Framed
      <4> QED  BY <1>2, <2>1, <2>3, <3>2, <3>5, <4>2 DEF Framed
    <3> QED  BY <3>4, <3>5
  <2>4. CASE FlushLength /\ ClientCanWrite(handle)
    <3>1. /\ pipe' = [pipe EXCEPT ![handle].up = Append(pipe[handle].up, LengthPart)]
          /\ pt = "copy" /\ pt' = "body" /\ LengthPart = 0
      BY <2>4 DEF FlushLength, ClientWrite, LengthPart
    <3> QED  BY <2>3, <3>1
  <2>5. CASE FlushBody /\ ClientCanWrite(handle)
    <3>1. /\ pipe' = [pipe EXCEPT ![handle].up = Append(pipe[handle].up, scratch)]
          /\ pt = "body" /\ pt' = "peek" /\ scratch \in Nat /\ scratch # 0
      BY <1>1, <2>5 DEF FlushBody, ClientWrite, ClientTypeOK
    <3> QED  BY <2>3, <3>1
  <2> QED  BY <2>1, <2>2, <2>4, <2>5
<1> QED  BY <1>3, <1>4, <1>5 DEF ThreadStep

\* A process that ends leaves its stream as it is.
LEMMA OthersKeepFrames ==
    ASSUME Handles, Frames, Other
    PROVE  Frames'
<1>1. PipeType /\ ServerTypeOK /\ ClientTypeOK /\ ServerHandles /\ ClientHandles
  BY DEF Handles, Types
<1>2. \A t \in Sessions : reader'[t] = reader[t] \/ (reader[t] = "wait" /\ reader'[t] = "put")
  <2>1. CASE TakeSnapshot /\ putters # << >>
    <3>1. putters \in Seq(Sessions) /\ Waits(putters, reader)
          /\ reader \in [Sessions -> {"off", "length", "body", "put", "wait", "done", "raised"}]
      BY <1>1 DEF ServerTypeOK, ServerHandles
    <3>2. reader[Head(putters)] = "wait"
      BY <2>1, <3>1, WaitsLess
    <3> QED  BY <2>1, <3>1, <3>2 DEF TakeSnapshot, WakePutter
  <2> QED  BY <2>1 DEF Other, SendSnapshot, PollClaim, PollCopy, Exit, Start, LoopStep,
                       TakeSnapshot, PutCommand, WakePutter, serverVars, taskVars
<1>3. \A t \in Sessions : pipe'[t].up = pipe[t].up
  <2>1. CASE Exit /\ handle # 0
    <3>1. handle \in Sessions
      BY <1>1, <2>1 DEF ClientTypeOK, Sessions
    <3> QED  BY <1>1, <2>1, <3>1, CliChanges DEF Exit, GameExit, ClientClose, Ends
  <2> QED  BY <2>1 DEF Other, SendSnapshot, PollClaim, PollCopy, Exit, GameExit, Start, GameStart,
                       LoopStep, TakeSnapshot, PutCommand, clientVars
<1>4. handle' = 0 \/ UNCHANGED <<handle, pt>>
  BY <1>1 DEF Other, SendSnapshot, PollClaim, PollCopy, Exit, GameExit, Start, GameStart, LoopStep,
              TakeSnapshot, PutCommand, clientVars, ClientHandles
<1> SUFFICES ASSUME NEW t \in Sessions, reader'[t] \notin {"done", "raised"}
             PROVE  Framed(t)'
  BY DEF Frames
<1>5. Framed(t) /\ (reader[t] = "body" <=> reader'[t] = "body")
  BY <1>2 DEF Frames
<1>6. /\ Alternates(pipe[t].up, reader'[t])
      /\ BodyIsDue(pipe[t].up, reader'[t]) <=> BodyIsDue(pipe[t].up, reader[t])
  BY <1>5, FramedOn DEF Framed
<1>7. 0 \notin Sessions
  BY MaxSessionAssumption DEF Sessions
<1> QED  BY <1>3, <1>4, <1>5, <1>6, <1>7 DEF Framed

-----------------------------------------------------------------------------
(* The order of the snapshots *)

Below(A, B) == \A a \in A, b \in B : a < b

Bodies(q) == {q[i] : i \in 1 .. Len(q)} \ {0}

BodiesAscend(q) ==
    \A i, j \in 1 .. Len(q) : i < j /\ q[i] # 0 /\ q[j] # 0 => q[i] < q[j]

\* Where the snapshots of a session are: in the queue, in the reader's hands and
\* in the pipe; and these together with the one that the loop has taken.
InQueue(s)  == {snapQ[i].id : i \in {j \in 1 .. Len(snapQ) : snapQ[j].sess = s}}
InReader(s) == IF reader[s] \in {"put", "wait"} THEN {rmsg[s]} ELSE {}
InStream(s) == Bodies(pipe[s].up)
Passed(s)   == {taken[s]} \cup InQueue(s) \cup InReader(s) \cup InStream(s)

Chain(s) ==
    /\ Below({taken[s]}, InQueue(s) \cup InReader(s) \cup InStream(s))
    /\ Below(InQueue(s), InReader(s) \cup InStream(s))
    /\ Below(InReader(s), InStream(s))

QueueAscends ==
    \A i, j \in 1 .. Len(snapQ) :
      i < j /\ snapQ[i].sess = snapQ[j].sess => snapQ[i].id < snapQ[j].id

SnapshotOrder ==
    /\ \A s \in Sessions : Chain(s) /\ BodiesAscend(pipe[s].up)
    /\ QueueAscends
    /\ \A s, t \in Sessions : s < t => Below(Passed(s), Passed(t) \ {0})
    /\ \A s \in Sessions : s > sess => taken[s] = 0 /\ InQueue(s) = {}

\* The slot, and the copy that PipeThread made of it last.
SlotOrder ==
    /\ sendSlot <= sent /\ scratch <= 2 * sent + 1
    /\ sendSlot # 0 => scratch <= 2 * sendSlot /\ (pt = "copy" => scratch < 2 * sendSlot)

\* Copy m is older than all that the game sends from now on.
Older(m) ==
    /\ m <= 2 * sent + 1
    /\ sendSlot # 0 => m < 2 * sendSlot \/ m <= scratch
    /\ pt \in {"copy", "body"} => m < scratch

AllOlder == \A s \in Sessions : \A m \in Passed(s) : Older(m)

SnapshotInv == Frames /\ SnapshotOrder /\ SlotOrder /\ AllOlder

\* All that is compared is a number.
LEMMA NumbersOfSnapshots ==
    ASSUME Handles, NEW s \in Sessions
    PROVE  /\ taken[s] \in Nat /\ InQueue(s) \subseteq Nat /\ InReader(s) \subseteq Nat
           /\ InStream(s) \subseteq Nat /\ Passed(s) \subseteq Nat /\ s \in Nat /\ sess \in Nat
<1>1. taken[s] \in Nat /\ rmsg[s] \in Nat /\ s \in Nat /\ sess \in Nat
  BY MaxSessionAssumption DEF Handles, Types, ServerTypeOK, BridgeType, Sessions
<1>2. InStream(s) \subseteq Nat
  <2>1. pipe[s].up \in Seq(Nat)
    BY PipeAt DEF Handles, Types
  <2> QED  BY <2>1 DEF InStream, Bodies
<1>3. InQueue(s) \subseteq Nat
  <2>1. snapQ \in Seq(Entries)
    BY DEF Handles, Types, ServerTypeOK, Entries
  <2>2. \A i \in 1 .. Len(snapQ) : snapQ[i] \in Entries
    BY <2>1
  <2>3. \A i \in 1 .. Len(snapQ) : snapQ[i].id \in Nat
    BY <2>2 DEF Entries
  <2> QED  BY <2>3 DEF InQueue
<1> QED  BY <1>1, <1>2, <1>3 DEF InReader, Passed

\* What is left of a stream.
LEMMA BodiesTail ==
    ASSUME NEW q \in Seq(Nat), q # << >>, BodiesAscend(q)
    PROVE  /\ Bodies(Tail(q)) \subseteq Bodies(q) /\ BodiesAscend(Tail(q))
           /\ q[1] # 0 => q[1] \in Bodies(q) /\ Below({q[1]}, Bodies(Tail(q)))
<1> DEFINE t == Tail(q)
<1>1. /\ 1 \in 1 .. Len(q)
      /\ \A i \in 1 .. Len(t) : t[i] = q[i + 1] /\ i + 1 \in 1 .. Len(q) /\ 1 < i + 1
      /\ \A i, j \in 1 .. Len(t) : i < j => i + 1 < j + 1
  BY TailType
<1> HIDE DEF t
<1>2. Bodies(t) \subseteq Bodies(q) /\ BodiesAscend(t)
  BY <1>1 DEF Bodies, BodiesAscend
<1>3. ASSUME q[1] # 0
      PROVE  q[1] \in Bodies(q) /\ Below({q[1]}, Bodies(t))
  <2>1. q[1] \in Bodies(q)
    BY <1>1, <1>3 DEF Bodies
  <2>2. \A i \in 1 .. Len(t) : t[i] # 0 => q[1] < t[i]
    BY <1>1, <1>3 DEF BodiesAscend
  <2> QED  BY <2>1, <2>2 DEF Bodies, Below
<1> QED  BY <1>2, <1>3 DEF t

\* What is added to one.
LEMMA BodiesAppend ==
    ASSUME NEW q \in Seq(Nat), NEW p \in Nat, BodiesAscend(q),
           p = 0 \/ Below(Bodies(q), {p})
    PROVE  /\ BodiesAscend(Append(q, p))
           /\ Bodies(Append(q, p)) = Bodies(q) \cup ({p} \ {0})
<1> DEFINE t == Append(q, p)
<1>1. /\ Len(t) = Len(q) + 1 /\ Len(q) \in Nat /\ t[Len(q) + 1] = p
      /\ \A i \in 1 .. Len(q) : t[i] = q[i]
  OBVIOUS
<1> HIDE DEF t
<1>2. \A i \in 1 .. Len(t) : i \in 1 .. Len(q) \/ i = Len(q) + 1
  BY <1>1
<1>3. Bodies(t) = Bodies(q) \cup ({p} \ {0})
  <2>1. Len(q) + 1 \in 1 .. Len(t) /\ \A i \in 1 .. Len(q) : i \in 1 .. Len(t)
    BY <1>1
  <2> QED  BY <1>1, <1>2, <2>1 DEF Bodies
<1>4. ASSUME NEW i \in 1 .. Len(t), NEW j \in 1 .. Len(t), i < j, t[i] # 0, t[j] # 0
      PROVE  t[i] < t[j]
  <2>1. i \in 1 .. Len(q)
    BY <1>1, <1>4
  <2>2. CASE j \in 1 .. Len(q)
    BY <1>1, <1>4, <2>1, <2>2 DEF BodiesAscend
  <2>3. CASE j = Len(q) + 1
    <3>1. t[i] = q[i] /\ t[j] = p /\ q[i] \in Bodies(q)
      BY <1>1, <1>4, <2>1, <2>3 DEF Bodies
    <3> QED  BY <1>4, <3>1 DEF Below
  <2> QED  BY <1>2, <2>2, <2>3
<1> QED  BY <1>3, <1>4 DEF BodiesAscend, t

\* What is left of snapshot_queue.
LEMMA QueueTaken ==
    ASSUME ServerTypeOK, snapQ # << >>, snapQ' = Tail(snapQ), QueueAscends
    PROVE  /\ Head(snapQ).sess \in Sessions /\ QueueAscends'
           /\ \A t \in Sessions : InQueue(t)' \subseteq InQueue(t)
           /\ Head(snapQ).id \in InQueue(Head(snapQ).sess)
           /\ \A t \in Sessions : t = Head(snapQ).sess
                => \A m \in InQueue(t)' : Head(snapQ).id < m
<1> DEFINE h == Head(snapQ)
<1>1. /\ h \in Entries /\ h = snapQ[1] /\ 1 \in 1 .. Len(snapQ)
      /\ \A i \in 1 .. Len(snapQ') :
           snapQ'[i] = snapQ[i + 1] /\ i + 1 \in 1 .. Len(snapQ) /\ 1 < i + 1
      /\ \A i, j \in 1 .. Len(snapQ') : i < j => i + 1 < j + 1
  BY SnapQTail
<1> HIDE DEF h
<1>2. h.sess \in Sessions
  BY <1>1 DEF Entries
<1>3. QueueAscends'
  BY <1>1 DEF QueueAscends
<1>4. \A t \in Sessions : InQueue(t)' \subseteq InQueue(t)
  BY <1>1 DEF InQueue
<1>5. h.id \in InQueue(h.sess)
  BY <1>1 DEF InQueue
<1>6. \A i \in 1 .. Len(snapQ') : snapQ'[i].sess = h.sess => h.id < snapQ'[i].id
  BY <1>1 DEF QueueAscends
<1>7. \A s : \A m \in InQueue(s)' : \E i \in 1 .. Len(snapQ') : snapQ'[i].sess = s /\ m = snapQ'[i].id
  BY DEF InQueue
<1> QED  BY <1>2, <1>3, <1>4, <1>5, <1>6, <1>7 DEF h

\* What is added to it.
LEMMA QueuePut ==
    ASSUME ServerTypeOK, QueueAscends, NEW s \in Sessions, NEW m \in Nat,
           snapQ' = Append(snapQ, [sess |-> s, id |-> m]), Below(InQueue(s), {m})
    PROVE  /\ QueueAscends'
           /\ \A t \in Sessions : InQueue(t)' = InQueue(t) \cup (IF t = s THEN {m} ELSE {})
<1> DEFINE e == [sess |-> s, id |-> m]
<1>1. snapQ \in Seq(Entries) /\ e \in Entries /\ e.sess = s /\ e.id = m
  BY DEF ServerTypeOK, Entries
<1> HIDE DEF e
<1>2. /\ Len(snapQ') = Len(snapQ) + 1 /\ Len(snapQ) \in Nat /\ snapQ'[Len(snapQ) + 1] = e
      /\ \A i \in 1 .. Len(snapQ) : snapQ'[i] = snapQ[i]
  BY <1>1 DEF e
<1>3. \A i \in 1 .. Len(snapQ') : i \in 1 .. Len(snapQ) \/ i = Len(snapQ) + 1
  BY <1>2
<1>4. \A t \in Sessions : InQueue(t)' = InQueue(t) \cup (IF t = s THEN {m} ELSE {})
  <2>1. Len(snapQ) + 1 \in 1 .. Len(snapQ') /\ \A i \in 1 .. Len(snapQ) : i \in 1 .. Len(snapQ')
    BY <1>2
  <2> TAKE t \in Sessions
  <2>2. \A n : n \in InQueue(t) <=> \E i \in 1 .. Len(snapQ) : snapQ[i].sess = t /\ n = snapQ[i].id
    BY DEF InQueue
  <2>3. \A n : n \in InQueue(t)' <=> \E i \in 1 .. Len(snapQ') : snapQ'[i].sess = t /\ n = snapQ'[i].id
    BY DEF InQueue
  <2>4. \A n : n \in InQueue(t)' <=> n \in InQueue(t) \/ (t = s /\ n = m)
    BY <1>1, <1>2, <1>3, <2>1, <2>2, <2>3
  <2> QED  BY <2>4
<1>5. ASSUME NEW i \in 1 .. Len(snapQ'), NEW j \in 1 .. Len(snapQ'), i < j,
             snapQ'[i].sess = snapQ'[j].sess
      PROVE  snapQ'[i].id < snapQ'[j].id
  <2>1. i \in 1 .. Len(snapQ)
    BY <1>2, <1>5
  <2>2. CASE j \in 1 .. Len(snapQ)
    BY <1>2, <1>5, <2>1, <2>2 DEF QueueAscends
  <2>3. CASE j = Len(snapQ) + 1
    <3>1. snapQ'[i] = snapQ[i] /\ snapQ'[j].id = m /\ snapQ[i].sess = s
      BY <1>1, <1>2, <1>5, <2>1, <2>3
    <3>2. snapQ[i].id \in InQueue(s)
      BY <2>1, <3>1 DEF InQueue
    <3> QED  BY <3>1, <3>2 DEF Below
  <2> QED  BY <1>3, <2>2, <2>3
<1> QED  BY <1>4, <1>5 DEF QueueAscends

\* The slot is pushed, withdrawn, copied and emptied.
LEMMA SlotStep ==
    ASSUME Handles, SlotOrder, [Next]_vars
    PROVE  /\ SlotOrder' /\ (FlushBody => Older(scratch)')
           /\ \A m \in Nat : Older(m) => Older(m)'
<1>1. sent \in Nat /\ sendSlot \in Nat /\ scratch \in Nat
  BY MaxSnapAssumption DEF Handles, Types, ClientTypeOK, BridgeType
<1>2. CASE UNCHANGED <<sent, sendSlot, scratch>> /\ (pt' \notin {"copy", "body"} \/ pt' = pt)
  BY <1>1, <1>2 DEF SlotOrder, Older, FlushBody
<1>3. CASE SendSnapshot
  BY <1>1, <1>3 DEF SendSnapshot, SlotOrder, Older, FlushBody
<1>4. CASE Claim /\ UNCHANGED bridgeVars
  BY <1>1, <1>4 DEF Claim, bridgeVars, SlotOrder, Older, CopyOf, FlushBody
<1>5. CASE FlushLength /\ UNCHANGED bridgeVars
  <2>1. UNCHANGED <<sent, sendSlot>> /\ pt = "copy" /\ pt' \in {"body", "close"}
    BY <1>5 DEF FlushLength, bridgeVars
  <2>2. CASE sendSlot = 0 /\ UNCHANGED scratch
    BY <1>1, <2>1, <2>2 DEF SlotOrder, Older, FlushBody
  <2>3. CASE sendSlot # 0 /\ scratch' = CopyOf(sendSlot, scratch)
    <3>1. scratch' = 2 * sendSlot /\ scratch < scratch'
      BY <1>1, <2>1, <2>3 DEF CopyOf, SlotOrder
    <3> QED  BY <1>1, <2>1, <2>3, <3>1 DEF SlotOrder, Older, FlushBody
  <2> QED  BY <1>5, <2>2, <2>3 DEF FlushLength, Copied
<1>6. CASE Exit
  BY <1>1, <1>6 DEF Exit, GameExit, SlotOrder, Older, FlushBody
<1>7. CASE ThreadStep /\ ~Claim /\ ~FlushLength /\ UNCHANGED bridgeVars
  BY <1>2, <1>7 DEF ThreadStep, Connect, NothingToFlush, FlushBody, Peek, Disconnect, Reconnect,
                    bridgeVars
<1>8. CASE PollClaim \/ PollCopy \/ Start \/ LoopStep
  BY <1>2, <1>8 DEF PollClaim, PollCopy, Start, GameStart, LoopStep, TakeSnapshot, PutCommand, luaVars,
                    clientVars
<1>9. CASE UNCHANGED <<clientVars, bridgeVars>> \/ UNCHANGED vars
  BY <1>2, <1>9 DEF vars, clientVars, bridgeVars
<1> QED  BY <1>3, <1>4, <1>5, <1>6, <1>7, <1>8, <1>9 DEF Next

\* Snapshots may be lost, from the reader's hands and from the pipe.
LEMMA SnapshotsKept ==
    ASSUME Handles, SnapshotOrder, UNCHANGED <<taken, snapQ>>, sess' \in {sess, sess + 1},
           \A t \in Sessions : /\ InReader(t)' \subseteq InReader(t)
                               /\ InStream(t)' \subseteq InStream(t)
                               /\ BodiesAscend(pipe[t].up)'
    PROVE  SnapshotOrder' /\ \A t \in Sessions : Passed(t)' \subseteq Passed(t)
<1>1. \A t \in Sessions : InQueue(t)' = InQueue(t) /\ taken'[t] = taken[t]
  BY DEF InQueue
<1>2. \A t \in Sessions : Passed(t)' \subseteq Passed(t)
  BY <1>1 DEF Passed
<1>3. \A t \in Sessions : Chain(t)'
  BY <1>1 DEF SnapshotOrder, Chain, Below
<1>4. \A s, t \in Sessions : s < t => Below(Passed(s), Passed(t) \ {0})'
  BY <1>2 DEF SnapshotOrder, Below
<1>5. \A t \in Sessions : t > sess' => t > sess
  BY NumbersOfSnapshots
<1> QED  BY <1>1, <1>2, <1>3, <1>4, <1>5 DEF SnapshotOrder, QueueAscends

\* The reader has read a snapshot.
LEMMA SnapshotRead ==
    ASSUME Handles, Frames, SnapshotOrder, NEW s \in Sessions, ReadBody(s), UNCHANGED taken
    PROVE  SnapshotOrder' /\ \A t \in Sessions : Passed(t)' \subseteq Passed(t)
<1>1. PipeType /\ ServerTypeOK
  BY DEF Handles, Types
<1> DEFINE q == pipe[s].up
<1>2. /\ q # << >> /\ q \in Seq(Nat) /\ Tail(q) \in Seq(Nat) /\ q[1] = Head(q)
      /\ pipe' = [pipe EXCEPT ![s].up = Tail(q)]
      /\ reader[s] = "body" /\ UNCHANGED <<snapQ, sess>>
  BY <1>1, PipeAt, TailType DEF ReadBody, ServerCanRead, ServerTake
<1>3. \A t \in Sessions : pipe'[t].up = IF t = s THEN Tail(q) ELSE pipe[t].up
  BY <1>1, <1>2, UpChanges
<1>4. q[1] # 0
  BY <1>2 DEF Frames, Framed, Alternates
<1>5. /\ Bodies(Tail(q)) \subseteq Bodies(q) /\ BodiesAscend(Tail(q))
      /\ q[1] \in Bodies(q) /\ Below({q[1]}, Bodies(Tail(q)))
  BY <1>2, <1>4, BodiesTail DEF SnapshotOrder
<1>6. /\ \A t \in Sessions \ {s} : reader'[t] = reader[t] /\ rmsg'[t] = rmsg[t]
      /\ InReader(s) = {}
      /\ \/ reader'[s] = "put" /\ rmsg'[s] = q[1]
         \/ reader'[s] \notin {"put", "wait"}
  BY <1>1, <1>2 DEF ReadBody, ServerTypeOK, InReader
<1>7. \A t \in Sessions \ {s} : InReader(t)' = InReader(t) /\ InStream(t)' = InStream(t)
  BY <1>3, <1>6 DEF InReader, InStream
<1>8. InReader(s)' \subseteq {q[1]} /\ InStream(s)' = Bodies(Tail(q)) /\ InStream(s) = Bodies(q)
  BY <1>3, <1>6 DEF InReader, InStream
<1>9. \A t \in Sessions : InQueue(t)' = InQueue(t) /\ taken'[t] = taken[t]
  BY <1>2 DEF InQueue
<1>10. \A t \in Sessions : BodiesAscend(pipe[t].up)'
  BY <1>3, <1>5 DEF SnapshotOrder, BodiesAscend
<1> HIDE DEF q
<1>11. \A t \in Sessions : Passed(t)' \subseteq Passed(t)
  <2> TAKE t \in Sessions
  <2>1. CASE t = s
    BY <1>5, <1>8, <1>9, <2>1 DEF Passed
  <2>2. CASE t # s
    BY <1>7, <1>9, <2>2 DEF Passed
  <2> QED  BY <2>1, <2>2
<1>12. \A t \in Sessions : Chain(t)'
  <2> TAKE t \in Sessions
  <2>1. CASE t = s
    <3>1. Chain(s)
      BY DEF SnapshotOrder
    <3> QED  BY <1>5, <1>8, <1>9, <2>1, <3>1 DEF Chain, Below
  <2>2. CASE t # s
    <3>1. Chain(t)
      BY DEF SnapshotOrder
    <3> QED  BY <1>7, <1>9, <2>2, <3>1 DEF Chain
  <2> QED  BY <2>1, <2>2
<1>13. \A t, u \in Sessions : t < u => Below(Passed(t), Passed(u) \ {0})'
  BY <1>11 DEF SnapshotOrder, Below
<1> QED  BY <1>2, <1>9, <1>10, <1>11, <1>12, <1>13 DEF SnapshotOrder, QueueAscends

\* The reader has put it into the queue.
LEMMA SnapshotPut ==
    ASSUME Handles, SnapshotOrder, NEW s \in Sessions, PutSnapshot(s), UNCHANGED taken
    PROVE  SnapshotOrder' /\ \A t \in Sessions : Passed(t)' \subseteq Passed(t)
<1>1. ServerTypeOK /\ ServerHandles
  BY DEF Handles, Types
<1>2. /\ reader[s] = "put" /\ UNCHANGED <<pipe, sess>> /\ rmsg[s] \in Nat
      /\ snapQ' = Append(snapQ, [sess |-> s, id |-> rmsg[s]])
      /\ \A t \in Sessions \ {s} : reader'[t] = reader[t] /\ rmsg'[t] = rmsg[t]
      /\ reader'[s] = "length"
  BY <1>1 DEF PutSnapshot, ServerTypeOK
<1>3. InReader(s) = {rmsg[s]} /\ InReader(s)' = {}
  BY <1>2 DEF InReader
<1>4. \A t \in Sessions \ {s} : InReader(t)' = InReader(t)
  BY <1>2 DEF InReader
<1>5. \A t \in Sessions : InStream(t)' = InStream(t) /\ BodiesAscend(pipe[t].up)' /\ taken'[t] = taken[t]
  BY <1>2 DEF InStream, SnapshotOrder
<1>6. Chain(s)
  BY DEF SnapshotOrder
<1>7. /\ QueueAscends'
      /\ \A t \in Sessions : InQueue(t)' = InQueue(t) \cup (IF t = s THEN {rmsg[s]} ELSE {})
  <2>1. Below(InQueue(s), {rmsg[s]})
    BY <1>3, <1>6 DEF Chain, Below
  <2> QED  BY <1>1, <1>2, <2>1, QueuePut DEF SnapshotOrder
<1>8. \A t \in Sessions : Passed(t)' \subseteq Passed(t)
  <2> TAKE t \in Sessions
  <2>1. CASE t = s
    BY <1>3, <1>5, <1>7, <2>1 DEF Passed
  <2>2. CASE t # s
    BY <1>4, <1>5, <1>7, <2>2 DEF Passed
  <2> QED  BY <2>1, <2>2
<1>9. \A t \in Sessions : Chain(t)'
  <2> TAKE t \in Sessions
  <2>1. CASE t = s
    BY <1>3, <1>5, <1>6, <1>7, <2>1 DEF Chain, Below
  <2>2. CASE t # s
    <3>1. Chain(t)
      BY DEF SnapshotOrder
    <3> QED  BY <1>4, <1>5, <1>7, <2>2, <3>1 DEF Chain
  <2> QED  BY <2>1, <2>2
<1>10. \A t, u \in Sessions : t < u => Below(Passed(t), Passed(u) \ {0})'
  BY <1>8 DEF SnapshotOrder, Below
<1>11. \A t \in Sessions : t > sess' => taken'[t] = 0 /\ InQueue(t)' = {}
  <2>1. ~(s > sess)
    BY <1>1, <1>2 DEF ServerHandles
  <2> QED  BY <1>2, <1>5, <1>7, <2>1 DEF SnapshotOrder
<1>12. \A t \in Sessions : Chain(t)' /\ BodiesAscend(pipe[t].up)'
  BY <1>5, <1>9
<1>13. QueueAscends'
  BY <1>7
<1> QED  BY <1>8, <1>10, <1>11, <1>12, <1>13 DEF SnapshotOrder

\* The loop takes the first of the queue, which is newer than all it has taken
\* of its session and of those before.
LEMMA SnapshotTaken ==
    ASSUME Handles, SnapshotOrder, TakeSnapshot
    PROVE  /\ SnapshotOrder' /\ \A t \in Sessions : Passed(t)' \subseteq Passed(t)
           /\ \A t \in 1 .. Head(snapQ).sess : taken[t] < Head(snapQ).id
<1>1. ServerTypeOK /\ ServerHandles
  BY DEF Handles, Types
<1> DEFINE s == Head(snapQ).sess
           m == Head(snapQ).id
<1>2. /\ UNCHANGED <<pipe, sess, rmsg>> /\ snapQ # << >> /\ snapQ' = Tail(snapQ)
      /\ taken' = [taken EXCEPT ![s] = m]
  BY DEF TakeSnapshot
<1>3. /\ s \in Sessions /\ QueueAscends'
      /\ \A t \in Sessions : InQueue(t)' \subseteq InQueue(t)
      /\ m \in InQueue(s)
      /\ \A t \in Sessions : t = s => \A n \in InQueue(t)' : m < n
  BY <1>1, <1>2, QueueTaken DEF SnapshotOrder
<1> HIDE DEF s, m
<1>4. \A t \in Sessions : InStream(t)' = InStream(t) /\ BodiesAscend(pipe[t].up)'
  BY <1>2 DEF InStream, SnapshotOrder
<1>5. \A t \in Sessions : InReader(t)' = InReader(t)
  <2>1. \A t \in Sessions : reader'[t] = reader[t] \/ (reader[t] = "wait" /\ reader'[t] = "put")
    <3>1. CASE putters # << >>
      <4>1. putters \in Seq(Sessions) /\ Waits(putters, reader)
            /\ reader \in [Sessions -> {"off", "length", "body", "put", "wait", "done", "raised"}]
        BY <1>1 DEF ServerTypeOK, ServerHandles
      <4>2. reader[Head(putters)] = "wait"
        BY <3>1, <4>1, WaitsLess
      <4> QED  BY <3>1, <4>1, <4>2 DEF TakeSnapshot, WakePutter
    <3> QED  BY <3>1 DEF TakeSnapshot, WakePutter
  <2> QED  BY <1>2, <2>1 DEF InReader
<1>6. \A t \in Sessions : taken'[t] = IF t = s THEN m ELSE taken[t]
  BY <1>2 DEF Handles, Types, BridgeType
<1>7. \A t \in Sessions : Passed(t)' \subseteq Passed(t)
  <2> TAKE t \in Sessions
  <2>1. CASE t = s
    BY <1>3, <1>4, <1>5, <1>6, <2>1 DEF Passed
  <2>2. CASE t # s
    BY <1>3, <1>4, <1>5, <1>6, <2>2 DEF Passed
  <2> QED  BY <2>1, <2>2
<1>8. \A t \in Sessions : Chain(t)'
  <2> TAKE t \in Sessions
  <2>0. Chain(t)
    BY DEF SnapshotOrder
  <2>1. CASE t = s
    <3>1. \A n \in InReader(s) \cup InStream(s) : m < n
      BY <1>3, <2>0, <2>1 DEF Chain, Below
    <3> QED  BY <1>3, <1>4, <1>5, <1>6, <2>0, <2>1, <3>1 DEF Chain, Below
  <2>2. CASE t # s
    BY <1>3, <1>4, <1>5, <1>6, <2>0, <2>2 DEF Chain, Below
  <2> QED  BY <2>1, <2>2
<1>9. \A t, u \in Sessions : t < u => Below(Passed(t), Passed(u) \ {0})'
  BY <1>7 DEF SnapshotOrder, Below
<1>10. \A t \in Sessions : t > sess => InQueue(t)' = {} /\ taken'[t] = 0
  <2>1. ~(s > sess)
    BY <1>3 DEF SnapshotOrder
  <2> QED  BY <1>3, <1>6, <2>1 DEF SnapshotOrder
<1>11. \A t \in 1 .. s : taken[t] < m
  <2>1. taken[s] < m /\ taken[s] \in Nat /\ m \in Nat
    BY <1>3, NumbersOfSnapshots DEF SnapshotOrder, Chain, Below
  <2> SUFFICES ASSUME NEW t \in 1 .. s, t # s
               PROVE  taken[t] < m
    BY <2>1
  <2>2. t \in Sessions /\ t < s
    BY <1>3, MaxSessionAssumption DEF Sessions
  <2>3. taken[t] \in Passed(t) /\ m \in Passed(s) \ {0}
    BY <1>3, <2>1 DEF Passed
  <2> QED  BY <1>3, <2>2, <2>3 DEF SnapshotOrder, Below
<1> QED  BY <1>2, <1>3, <1>4, <1>7, <1>8, <1>9, <1>10, <1>11 DEF SnapshotOrder, s, m

\* PipeThread writes the copy: only into the last session, for only that one
\* has an open instance.
LEMMA SnapshotWritten ==
    ASSUME Handles, SnapshotOrder, AllOlder, FlushBody, ClientCanWrite(handle),
           UNCHANGED <<serverVars, bridgeVars>>
    PROVE  /\ SnapshotOrder'
           /\ \A t \in Sessions : Passed(t)' \subseteq Passed(t) \cup {scratch}
<1>1. PipeType /\ ServerTypeOK /\ ClientTypeOK /\ ServerHandles /\ ClientHandles
  BY DEF Handles, Types
<1>2. handle \in Sessions /\ handle = sess /\ scratch \in Nat /\ pt = "body"
  BY <1>1 DEF FlushBody, ClientCanWrite, ClientHandles, ServerHandles, ClientTypeOK, Sessions
<1> DEFINE q == pipe[handle].up
           r == Append(q, scratch)
<1>3. q \in Seq(Nat) /\ r \in Seq(Nat) /\ pipe' = [pipe EXCEPT ![handle].up = r]
  BY <1>1, <1>2, PipeAt DEF FlushBody, ClientWrite
<1>4. \A t \in Sessions : pipe'[t].up = IF t = handle THEN r ELSE pipe[t].up
  <2> HIDE DEF r
  <2> QED  BY <1>1, <1>2, <1>3, UpChanges
<1>5. \A t \in Sessions : \A n \in Passed(t) : n < scratch
  BY <1>2 DEF AllOlder, Older
<1>6. scratch # 0
  <2>1. taken[sess] \in Passed(sess) /\ taken[sess] \in Nat
    BY <1>2, NumbersOfSnapshots DEF Passed
  <2> QED  BY <1>2, <1>5, <2>1
<1>7. BodiesAscend(r) /\ Bodies(r) = Bodies(q) \cup {scratch}
  <2>1. Below(Bodies(q), {scratch})
    BY <1>2, <1>5 DEF Passed, InStream, Below
  <2>2. BodiesAscend(q)
    BY <1>2 DEF SnapshotOrder
  <2> HIDE DEF q
  <2> QED  BY <1>2, <1>3, <1>6, <2>1, <2>2, BodiesAppend
<1>8. \A t \in Sessions : t = sess => InStream(t) = Bodies(q) /\ InStream(t)' = Bodies(r)
  BY <1>2, <1>4 DEF InStream, serverVars
<1> HIDE DEF q, r
<1>9. \A t \in Sessions : /\ InReader(t)' = InReader(t) /\ InQueue(t)' = InQueue(t)
                          /\ taken'[t] = taken[t]
                          /\ t # sess => InStream(t)' = InStream(t)
  BY <1>2, <1>4 DEF InReader, InQueue, InStream, serverVars, taskVars, bridgeVars, loopVars
<1>10. UNCHANGED <<sess, snapQ>>
  BY DEF serverVars
<1>11. \A t \in Sessions : BodiesAscend(pipe[t].up)'
  BY <1>2, <1>4, <1>7 DEF SnapshotOrder, BodiesAscend
<1>12. \A t \in Sessions : Passed(t)' = Passed(t) \cup (IF t = sess THEN {scratch} ELSE {})
  <2> TAKE t \in Sessions
  <2>1. CASE t = sess
    BY <1>7, <1>8, <1>9, <2>1 DEF Passed
  <2>2. CASE t # sess
    BY <1>9, <2>2 DEF Passed
  <2> QED  BY <2>1, <2>2
<1>13. \A t \in Sessions : Chain(t)'
  <2> TAKE t \in Sessions
  <2>1. Chain(t)
    BY DEF SnapshotOrder
  <2>2. CASE t = sess
    <3>1. \A n \in {taken[t]} \cup InQueue(t) \cup InReader(t) : n < scratch
      BY <1>5 DEF Passed
    <3> QED  BY <1>7, <1>8, <1>9, <2>1, <2>2, <3>1 DEF Chain, Below
  <2>3. CASE t # sess
    BY <1>9, <2>1, <2>3 DEF Chain
  <2> QED  BY <2>2, <2>3
<1>14. ASSUME NEW t \in Sessions, NEW u \in Sessions, t < u
       PROVE  Below(Passed(t), Passed(u) \ {0})'
  <2>1. Below(Passed(t), Passed(u) \ {0})
    BY <1>14 DEF SnapshotOrder
  <2>2. CASE t # sess
    BY <1>5, <1>12, <2>1, <2>2 DEF Below
  <2>3. CASE t = sess
    <3>1. u > sess /\ u # sess
      BY <1>14, <2>3, NumbersOfSnapshots
    <3>2. Passed(u) \ {0} = {}
      <4>1. taken[u] = 0 /\ InQueue(u) = {}
        BY <3>1 DEF SnapshotOrder
      <4>2. reader[u] = "off" /\ pipe[u].up = << >>
        BY <1>1, <3>1 DEF ServerHandles
      <4>3. InReader(u) = {} /\ InStream(u) = {}
        BY <4>2 DEF InReader, InStream, Bodies
      <4> QED  BY <4>1, <4>3 DEF Passed
    <3> QED  BY <1>12, <3>1, <3>2 DEF Below
  <2> QED  BY <2>2, <2>3
<1> QED  BY <1>2, <1>9, <1>10, <1>11, <1>12, <1>13, <1>14 DEF SnapshotOrder, QueueAscends

\* The reader of session t has no other snapshot in hand than before.
HoldsNoMore(t) ==
    \/ reader'[t] = reader[t] /\ rmsg'[t] = rmsg[t]
    \/ reader'[t] \notin {"put", "wait"}
    \/ reader[t] = "put" /\ reader'[t] = "wait" /\ rmsg'[t] = rmsg[t]

\* Every step keeps the order; only what PipeThread writes is new.
LEMMA SnapshotStep ==
    ASSUME Handles, Frames, SnapshotOrder, AllOlder, [Next]_vars
    PROVE  /\ SnapshotOrder'
           /\ \A t \in Sessions : \A m \in Passed(t)' :
                m \in Passed(t) \/ (FlushBody /\ m = scratch)
<1> DEFINE Goal == /\ SnapshotOrder'
                   /\ \A t \in Sessions : \A m \in Passed(t)' :
                        m \in Passed(t) \/ (FlushBody /\ m = scratch)
<1> SUFFICES Goal
  OBVIOUS
<1>1. PipeType /\ ServerTypeOK /\ ClientTypeOK /\ ServerHandles /\ ClientHandles
  BY DEF Handles, Types
<1>2. ASSUME SnapshotOrder' /\ \A t \in Sessions : Passed(t)' \subseteq Passed(t)
      PROVE  Goal
  BY <1>2
<1> HIDE DEF Goal
<1>3. ASSUME UNCHANGED <<taken, snapQ>>, sess' \in {sess, sess + 1},
             \A t \in Sessions :
               /\ HoldsNoMore(t)
               /\ InStream(t)' \subseteq InStream(t) /\ BodiesAscend(pipe[t].up)'
      PROVE  Goal
  <2>1. \A t \in Sessions : InReader(t)' \subseteq InReader(t)
    BY <1>3 DEF InReader, HoldsNoMore
  <2> QED  BY <1>2, <1>3, <2>1, SnapshotsKept
<1>4. ASSUME UNCHANGED <<taken, snapQ>>, sess' \in {sess, sess + 1},
             \A t \in Sessions :
               /\ HoldsNoMore(t)
               /\ pipe'[t].up = pipe[t].up
      PROVE  Goal
  <2>1. \A t \in Sessions : InStream(t)' = InStream(t) /\ BodiesAscend(pipe[t].up)'
    BY <1>4 DEF InStream, SnapshotOrder, BodiesAscend
  <2> QED  BY <1>3, <1>4, <2>1
<1>4a. ASSUME UNCHANGED <<reader, rmsg, taken, snapQ, sess>>
       PROVE  /\ UNCHANGED <<taken, snapQ>> /\ sess' \in {sess, sess + 1}
              /\ \A t \in Sessions : HoldsNoMore(t)
  BY <1>4a DEF HoldsNoMore
<1>5. CASE MainStep /\ UNCHANGED <<clientVars, bridgeVars>>
  <2>1. \A t \in Sessions : pipe'[t].up = pipe[t].up
    <3>1. /\ srv = "create" /\ sess < MaxSession => sess + 1 \in Sessions
          /\ srv \in {"accept", "serve"} => sess \in Sessions
      BY <1>1, MaxSessionAssumption DEF ServerTypeOK, ServerHandles, Sessions
    <3>2. "open" \in Ends /\ "closed" \in Ends
      BY DEF Ends
    <3>3. CASE CreatePipe
      BY <1>1, <3>1, <3>2, <3>3, SrvChanges DEF CreatePipe, CreateInstance
    <3>4. CASE AcceptFails \/ EndSession
      BY <1>1, <3>1, <3>2, <3>4, SrvChanges DEF AcceptFails, EndSession, ServerClose
    <3> QED  BY <1>5, <3>3, <3>4 DEF MainStep, Accept, Wake
  <2>2. \A t \in Sessions : /\ reader'[t] = reader[t] \/ reader'[t] = "length"
                            /\ rmsg'[t] = rmsg[t]
    BY <1>1, <1>5 DEF MainStep, CreatePipe, Accept, AcceptFails, EndSession, Wake, taskVars,
                      ServerTypeOK
  <2>3. UNCHANGED <<taken, snapQ>> /\ sess' \in {sess, sess + 1}
    BY <1>5 DEF MainStep, CreatePipe, Accept, AcceptFails, EndSession, Wake, bridgeVars, loopVars
  <2>4. \A t \in Sessions : HoldsNoMore(t)
    BY <2>2 DEF HoldsNoMore
  <2> QED  BY <1>4, <2>1, <2>3, <2>4
<1>6. ASSUME NEW s \in Sessions, ReadLength(s), UNCHANGED <<clientVars, bridgeVars>>
      PROVE  Goal
  <2> DEFINE q == pipe[s].up
  <2>1. /\ q # << >> /\ q \in Seq(Nat) /\ Tail(q) \in Seq(Nat)
        /\ pipe' = [pipe EXCEPT ![s].up = Tail(q)]
    BY <1>1, <1>6, PipeAt DEF ReadLength, ServerCanRead, ServerTake
  <2>2. \A t \in Sessions : pipe'[t].up = IF t = s THEN Tail(q) ELSE pipe[t].up
    BY <1>1, <2>1, UpChanges
  <2>3. Bodies(Tail(q)) \subseteq Bodies(q) /\ BodiesAscend(Tail(q))
    BY <2>1, BodiesTail DEF SnapshotOrder
  <2>4. \A t \in Sessions : InStream(t)' \subseteq InStream(t) /\ BodiesAscend(pipe[t].up)'
    BY <2>2, <2>3 DEF SnapshotOrder, BodiesAscend, InStream
  <2>5. \A t \in Sessions : /\ reader'[t] = reader[t] \/ reader'[t] = "body"
                            /\ rmsg'[t] = rmsg[t]
    BY <1>1, <1>6 DEF ReadLength, ServerTypeOK
  <2>6. UNCHANGED <<taken, snapQ, sess>>
    BY <1>6 DEF ReadLength, bridgeVars, loopVars
  <2> QED  BY <1>3, <2>4, <2>5, <2>6 DEF HoldsNoMore
<1>7. ASSUME NEW s \in Sessions, ReadBody(s) \/ PutSnapshot(s), UNCHANGED <<clientVars, bridgeVars>>
      PROVE  Goal
  BY <1>2, <1>7, SnapshotRead, SnapshotPut DEF bridgeVars, loopVars
<1>8. ASSUME NEW s \in Sessions, ReadEOF(s) \/ ReadBodyFails(s) \/ WaitForRoom(s),
             UNCHANGED <<clientVars, bridgeVars>>
      PROVE  Goal
  <2>1. UNCHANGED <<taken, snapQ, sess, pipe>>
    BY <1>8 DEF ReadEOF, ReadBodyFails, WaitForRoom, bridgeVars, loopVars
  <2>2. \A t \in Sessions :
          /\ rmsg'[t] = rmsg[t]
          /\ \/ reader'[t] = reader[t] \/ reader'[t] \in {"done", "raised"}
             \/ reader[t] = "put" /\ reader'[t] = "wait"
    BY <1>1, <1>8 DEF ReadEOF, ReadBodyFails, WaitForRoom, ServerTypeOK
  <2> QED  BY <1>4, <2>1, <2>2 DEF HoldsNoMore
<1>9. ASSUME NEW s \in Sessions, WriterStep(s), UNCHANGED <<clientVars, bridgeVars>>
      PROVE  Goal
  <2>1. UNCHANGED <<reader, rmsg, taken, snapQ, sess>>
    BY <1>9 DEF WriterStep, WriteEnds, GetCommand, WaitForCommand, WriteCommand, WriteFails,
                bridgeVars, loopVars
  <2>2. \A t \in Sessions : pipe'[t].up = pipe[t].up
    <3>1. CASE WriteCommand(s)
      <4> DEFINE q == Append(pipe[s].down, wmsg[s])
      <4>1. q \in Seq(Nat) /\ PipeType
        BY <1>1, PipeAt DEF ServerTypeOK
      <4>2. pipe' = [pipe EXCEPT ![s].down = q]
        BY <3>1 DEF WriteCommand, ServerWrite
      <4> HIDE DEF q
      <4> QED  BY ONLY <4>1, <4>2, s \in Sessions, DownChanges
    <3> QED  BY <1>9, <3>1 DEF WriterStep, WriteEnds, GetCommand, WaitForCommand, WriteFails
  <2> QED  BY <1>4, <2>1, <2>2 DEF HoldsNoMore
<1>10. CASE ThreadStep /\ UNCHANGED <<serverVars, bridgeVars>>
  <2>1. UNCHANGED <<reader, rmsg, taken, snapQ, sess>>
    BY <1>10 DEF serverVars, taskVars, bridgeVars, loopVars
  <2>2. handle # 0 => handle \in Sessions
    BY <1>1 DEF ClientTypeOK, Sessions
  <2>3. CASE FlushBody /\ ClientCanWrite(handle)
    <3>1. SnapshotOrder' /\ \A t \in Sessions : Passed(t)' \subseteq Passed(t) \cup {scratch}
      BY <1>10, <2>3, SnapshotWritten
    <3> QED  BY <2>3, <3>1 DEF Goal
  <2>4. CASE FlushLength /\ ClientCanWrite(handle)
    <3>1. handle \in Sessions
      BY <1>1, <2>2, <2>4 DEF FlushLength, ClientHandles
    <3> DEFINE q == pipe[handle].up
               r == Append(q, 0)
    <3>2. q \in Seq(Nat) /\ r \in Seq(Nat) /\ pipe' = [pipe EXCEPT ![handle].up = r]
      BY <1>1, <2>4, <3>1, PipeAt DEF FlushLength, ClientWrite, LengthPart
    <3>3. BodiesAscend(r) /\ Bodies(r) = Bodies(q)
      <4>1. BodiesAscend(q)
        BY <3>1 DEF SnapshotOrder
      <4>2. BodiesAscend(r) /\ Bodies(r) = Bodies(q) \cup ({0} \ {0})
        <5> HIDE DEF q
        <5> QED  BY <3>2, <4>1, BodiesAppend
      <4> QED  BY <4>2
    <3>4. \A t \in Sessions : pipe'[t].up = IF t = handle THEN r ELSE pipe[t].up
      <4> HIDE DEF r
      <4> QED  BY <1>1, <3>1, <3>2, UpChanges
    <3> HIDE DEF r
    <3>5. \A t \in Sessions : InStream(t)' = InStream(t) /\ BodiesAscend(pipe[t].up)'
      BY <3>3, <3>4 DEF SnapshotOrder, BodiesAscend, InStream
    <3> QED  BY <1>3, <1>4a, <2>1, <3>5
  <2>5. CASE (FlushBody \/ FlushLength) /\ ~ClientCanWrite(handle)
    <3>1. UNCHANGED pipe
      BY <2>5 DEF FlushBody, FlushLength
    <3> QED  BY <1>4, <1>4a, <2>1, <3>1
  <2>6. CASE Connect \/ NothingToFlush \/ Claim \/ Reconnect \/ Peek \/ Disconnect
    <3>1. \A t \in Sessions : pipe'[t].up = pipe[t].up
      <4>1. CASE Peek /\ pipe[handle].down # << >>
        <5>1. handle \in Sessions /\ PipeType
          BY <1>1, <2>2, <4>1 DEF Peek, ClientHandles
        <5> DEFINE q == Tail(pipe[handle].down)
        <5>2. q \in Seq(Nat) /\ pipe' = [pipe EXCEPT ![handle].down = q]
          BY <4>1, <5>1, PipeAt DEF Peek, ClientTake
        <5> HIDE DEF q
        <5> QED  BY ONLY <5>1, <5>2, DownChanges
      <4>2. CASE Connect
        BY <1>1, <4>2, CliChanges DEF Connect, ClientOpen, Ends
      <4>3. CASE Disconnect
        BY <1>1, <2>2, <4>3, CliChanges DEF Disconnect, ClientClose, Ends, ClientHandles
      <4> QED  BY <2>6, <4>1, <4>2, <4>3 DEF NothingToFlush, Claim, Reconnect, Peek
    <3> QED  BY <1>4, <1>4a, <2>1, <3>1
  <2> QED  BY <1>10, <2>3, <2>4, <2>5, <2>6 DEF ThreadStep
<1>11. CASE TakeSnapshot
  BY <1>2, <1>11, SnapshotTaken
<1>12. CASE SendSnapshot \/ PollClaim \/ PollCopy \/ Exit \/ Start \/ UNCHANGED vars
  <2>1. UNCHANGED <<reader, rmsg, taken, snapQ, sess>>
    BY <1>12 DEF SendSnapshot, PollClaim, PollCopy, Exit, Start, vars, serverVars, taskVars,
                 bridgeVars, loopVars
  <2>2. \A t \in Sessions : pipe'[t].up = pipe[t].up
    <3>1. CASE Exit /\ handle # 0
      <4>1. handle \in Sessions
        BY <1>1, <3>1 DEF ClientTypeOK, Sessions
      <4> QED  BY <1>1, <3>1, <4>1, CliChanges DEF Exit, GameExit, ClientClose, Ends
    <3> QED  BY <1>12, <3>1 DEF SendSnapshot, PollClaim, PollCopy, Exit, GameExit, Start, GameStart,
                                vars, clientVars
  <2> QED  BY <1>4, <1>4a, <2>1, <2>2
<1>13. CASE PutCommand
  <2>1. UNCHANGED <<pipe, reader, rmsg, taken, snapQ, sess>>
    BY <1>13 DEF PutCommand
  <2> QED  BY <1>4, <1>4a, <2>1
<1> QED
  <2>1. CASE Server /\ UNCHANGED <<clientVars, bridgeVars>>
    <3>1. ASSUME NEW s \in Sessions, ReaderStep(s)
          PROVE  Goal
      BY <1>6, <1>7, <1>8, <2>1, <3>1 DEF ReaderStep
    <3>2. ASSUME NEW s \in Sessions, WriterStep(s)
          PROVE  Goal
      BY <1>9, <2>1, <3>2
    <3> QED  BY <1>5, <2>1, <3>1, <3>2 DEF Server
  <2> QED  BY <1>10, <1>11, <1>12, <1>13, <2>1 DEF Next, LoopStep

\* No copy has the number 0.
LEMMA CopyIsNotZero ==
    ASSUME Handles, AllOlder, pt \in {"copy", "body"}
    PROVE  scratch # 0
<1>1. 1 \in Sessions
  BY MaxSessionAssumption DEF Sessions
<1>2. taken[1] \in Nat /\ taken[1] \in Passed(1)
  BY <1>1, NumbersOfSnapshots DEF Passed
<1> QED  BY <1>1, <1>2 DEF AllOlder, Older

\* Nothing was sent at first.
LEMMA InitSnapshots ==
    ASSUME Init
    PROVE  SnapshotInv
<1>1. /\ snapQ = << >> /\ handle = 0 /\ sendSlot = 0 /\ scratch = 0 /\ sent = 0 /\ pt = "connect"
      /\ \A s \in Sessions : /\ pipe[s].up = << >> /\ reader[s] = "off" /\ taken[s] = 0
      /\ 0 \notin Sessions
  BY MaxSessionAssumption DEF Init, PipeInit, NoPipe, ServerInit, ClientInit, Sessions
<1>2. \A s \in Sessions : /\ InQueue(s) = {} /\ InReader(s) = {} /\ InStream(s) = {}
                          /\ Passed(s) = {0}
  BY <1>1 DEF InQueue, InReader, InStream, Bodies, Passed
<1>3. Frames
  BY <1>1 DEF Frames, Framed, Alternates, BodyIsDue
<1>4. SnapshotOrder
  BY <1>1, <1>2 DEF SnapshotOrder, Chain, Below, BodiesAscend, QueueAscends
<1>5. SlotOrder /\ AllOlder
  BY <1>1, <1>2 DEF SlotOrder, AllOlder, Older
<1> QED  BY <1>3, <1>4, <1>5 DEF SnapshotInv

\* The snapshots on their way, from the game's slot to the loop, are in the
\* order in which the game sent them, session by session and, but for those
\* that the loop has yet to take of an ended one, across the sessions.
THEOREM SnapshotInvHolds == Spec => [](Handles /\ SnapshotInv)
<1>1. Init => Handles /\ SnapshotInv
  BY InitHandles, InitSnapshots
<1>2. Handles /\ SnapshotInv /\ [Next]_vars => Handles' /\ SnapshotInv'
  <2> SUFFICES ASSUME Handles, Frames, SnapshotOrder, SlotOrder, AllOlder, [Next]_vars
               PROVE  Handles' /\ SnapshotInv'
    BY DEF SnapshotInv
  <2>1. Handles'
    BY StepHandles
  <2>2. Frames'
    <3>1. CASE UNCHANGED vars
      BY <3>1 DEF vars, serverVars, taskVars, clientVars, Frames, Framed
    <3> QED  BY <3>1, CopyIsNotZero, ServerKeepsFrames, ThreadKeepsFrames, OthersKeepFrames
             DEF Next, Other
  <2>3. SlotOrder' /\ (FlushBody => Older(scratch)') /\ \A m \in Nat : Older(m) => Older(m)'
    BY SlotStep
  <2>4. SnapshotOrder' /\ \A t \in Sessions : \A m \in Passed(t)' :
                            m \in Passed(t) \/ (FlushBody /\ m = scratch)
    BY SnapshotStep
  <2>5. AllOlder'
    <3> SUFFICES ASSUME NEW t \in Sessions, NEW m \in Passed(t)'
                 PROVE  Older(m)'
      BY DEF AllOlder
    <3>1. CASE m \in Passed(t)
      <4>1. m \in Nat /\ Older(m)
        BY <3>1, NumbersOfSnapshots DEF AllOlder
      <4> QED  BY <2>3, <4>1
    <3>2. CASE FlushBody /\ m = scratch
      <4>1. scratch' = scratch
        BY <3>2 DEF FlushBody
      <4> QED  BY <2>3, <3>2, <4>1 DEF Older
    <3> QED  BY <2>4, <3>1, <3>2
  <2> QED  BY <2>1, <2>2, <2>3, <2>4, <2>5 DEF SnapshotInv
<1> QED  BY <1>1, <1>2, PTL DEF Spec

\* What the loop takes from snapshot_queue (bridge_server.py _decision_loop) is
\* newer than all that it took of the same and of earlier sessions: the waiting
\* readers of ended sessions can be late, nothing else can.
THEOREM SnapshotsInOrderHolds == Spec => SnapshotsInOrder
<1>1. Handles /\ SnapshotInv /\ [Next]_vars
        => [Len(snapQ') < Len(snapQ)
              => \A s \in 1 .. Head(snapQ).sess : taken[s] < Head(snapQ).id]_vars
  <2> SUFFICES ASSUME Handles, SnapshotInv, Next, Len(snapQ') < Len(snapQ)
               PROVE  \A s \in 1 .. Head(snapQ).sess : taken[s] < Head(snapQ).id
    OBVIOUS
  <2>1. Len(snapQ) \in Nat /\ snapQ \in Seq(Entries)
    BY DEF Handles, Types, ServerTypeOK, Entries
  <2>2. snapQ' # snapQ
    BY <2>1
  <2>3. ASSUME NEW s \in Sessions, PutSnapshot(s)
        PROVE  FALSE
    <3>1. Len(snapQ') = Len(snapQ) + 1
      BY <2>1, <2>3 DEF PutSnapshot
    <3> QED  BY <2>1, <3>1
  <2>4. TakeSnapshot
    BY <2>2, <2>3
    DEF Next, Server, MainStep, CreatePipe, Accept, AcceptFails, EndSession, Wake, ReaderStep,
        ReadLength, ReadEOF, ReadBody, ReadBodyFails, WaitForRoom, WriterStep, WriteEnds,
        GetCommand, WaitForCommand, WriteCommand, WriteFails, serverVars, SendSnapshot,
        PollClaim, PollCopy, Exit, Start, LoopStep, PutCommand
  <2> QED  BY <2>4, SnapshotTaken DEF SnapshotInv
<1> QED  BY <1>1, SnapshotInvHolds, PTL DEF Spec, SnapshotsInOrder

=============================================================================
