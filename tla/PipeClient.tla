----------------------------- MODULE PipeClient -----------------------------
(* The game's side of the bridge, bridge/src/pipe_client.cpp: the pipe thread *)
(* and the two one-slot queues between it and the Lua threads.  A pop takes   *)
(* two steps, for osq_pop withdraws the message first and copies it then: a   *)
(* push in between makes it copy the newer message, which the next pop will   *)
(* return as well, and it may tear the copy.  OneSlotQueue has the same       *)
(* queues one memory access at a time.                                        *)
(*                                                                            *)
(* Messages are numbered from 1 on.  To tell copies apart, the first copy     *)
(* that a pop makes of message k has the number 2k, a second one 2k + 1.      *)
EXTENDS NamedPipe

VARIABLES
    pt,        \* where PipeThread is: "off" (no process), "connect", "flush",
               \* "copy" (in osq_pop), "body", "peek", "close", "reconnect"
    handle,    \* the session its pipe handle belongs to, or 0
    status,    \* g_status
    sendSlot,  \* g_send_q: the snapshot waiting, or 0
    recvSlot,  \* g_recv_q: the command waiting, or 0
    scratch    \* g_tmp_send; at "copy", the snapshot that is to be copied there

clientVars == <<pt, handle, status, sendSlot, recvSlot, scratch>>

CopyOf(k, last) == IF last = 2 * k THEN 2 * k + 1 ELSE 2 * k

\* A length on its way; the body that follows it is the number of the copy.
LengthPart == 0

\* The DLL is loaded into a new game process: PipeClient_Start.
ClientInit ==
    /\ pt = "connect"
    /\ handle = 0
    /\ status = 1
    /\ sendSlot = 0
    /\ recvSlot = 0
    /\ scratch = 0

-----------------------------------------------------------------------------
(* PipeThread *)

\* Mutant: the thread connects only while the status says "disconnected".
MutConnectIfDisconnected ==
    /\ pt = "connect"
    /\ status = 0
    /\ \E s \in Sessions : Listening(s) /\ ClientOpen(s) /\ handle' = s
    /\ status' = 2
    /\ pt' = "flush"
    /\ UNCHANGED <<sendSlot, recvSlot, scratch>>

\* WaitNamedPipe and CreateFile succeed; while no instance listens they fail
\* and the thread sleeps and tries again, which changes nothing.
Connect ==
    /\ pt = "connect"
    /\ \E s \in Sessions :
         /\ Listening(s)
         /\ ClientOpen(s)
         /\ handle' = s
    /\ status' = 2
    /\ pt' = "flush"
    /\ UNCHANGED <<sendSlot, recvSlot, scratch>>

NothingToFlush ==
    /\ pt = "flush"
    /\ sendSlot = 0
    /\ pt' = "peek"
    /\ UNCHANGED <<pipe, handle, status, sendSlot, recvSlot, scratch>>

\* Mutant: the slot is read without being emptied.
MutClaimKeeps ==
    /\ pt = "flush"
    /\ sendSlot # 0
    /\ scratch' = CopyOf(sendSlot, scratch)
    /\ pt' = "copy"
    /\ UNCHANGED <<pipe, handle, status, sendSlot, recvSlot>>

\* osq_pop swaps g_send_q.ready from 1 to 0.
Claim ==
    /\ pt = "flush"
    /\ sendSlot # 0
    /\ scratch' = CopyOf(sendSlot, scratch)
    /\ sendSlot' = 0
    /\ pt' = "copy"
    /\ UNCHANGED <<pipe, handle, status, recvSlot>>

\* ... and copies what the buffer holds now: a snapshot pushed since then, or a
\* mixture of the two, stands for the one that was withdrawn, and waits in the
\* slot nevertheless.
Copied ==
    \/ sendSlot = 0 /\ UNCHANGED scratch
    \/ sendSlot # 0 /\ scratch' = CopyOf(sendSlot, scratch)

\* Mutant: the result of write_msg is ignored.
MutIgnoreWriteError ==
    /\ pt = "copy"
    /\ Copied
    /\ IF ClientCanWrite(handle)
       THEN ClientWrite(handle, LengthPart) /\ pt' = "body"
       ELSE pt' = "peek" /\ UNCHANGED pipe
    /\ UNCHANGED <<handle, status, sendSlot, recvSlot>>

\* write_msg writes the length first.
FlushLength ==
    /\ pt = "copy"
    /\ Copied
    /\ \/ /\ ClientCanWrite(handle)
          /\ ClientWrite(handle, LengthPart)
          /\ pt' = "body"
       \/ /\ ~ClientCanWrite(handle)
          /\ pt' = "close"
          /\ UNCHANGED pipe
    /\ UNCHANGED <<handle, status, sendSlot, recvSlot>>

FlushBody ==
    /\ pt = "body"
    /\ \/ /\ ClientCanWrite(handle)
          /\ ClientWrite(handle, scratch)
          /\ pt' = "peek"
       \/ /\ ~ClientCanWrite(handle)
          /\ pt' = "close"
          /\ UNCHANGED pipe
    /\ UNCHANGED <<handle, status, sendSlot, recvSlot, scratch>>

\* PeekNamedPipe failing (a broken pipe) is taken for "nothing to read".
Peek ==
    /\ pt = "peek"
    /\ pt' = "flush"
    /\ \/ /\ pipe[handle].down # << >>
          /\ recvSlot' = Head(pipe[handle].down)
          /\ ClientTake(handle)
       \/ /\ pipe[handle].down = << >>
          /\ UNCHANGED <<pipe, recvSlot>>
    /\ UNCHANGED <<handle, status, sendSlot, scratch>>

\* Mutant: the handle is forgotten without being closed.
MutLeakHandle ==
    /\ pt = "close"
    /\ handle' = 0
    /\ status' = 0
    /\ pt' = "reconnect"
    /\ UNCHANGED <<pipe, sendSlot, recvSlot, scratch>>

\* The inner loop has ended: close the handle and start over.  The queues are
\* not emptied.
Disconnect ==
    /\ pt = "close"
    /\ ClientClose(handle)
    /\ handle' = 0
    /\ status' = 0
    /\ pt' = "reconnect"
    /\ UNCHANGED <<sendSlot, recvSlot, scratch>>

\* RECONNECT_DELAY has passed.
Reconnect ==
    /\ pt = "reconnect"
    /\ status' = 1
    /\ pt' = "connect"
    /\ UNCHANGED <<pipe, handle, sendSlot, recvSlot, scratch>>

ThreadStep == \/ Connect \/ NothingToFlush \/ Claim \/ FlushLength \/ FlushBody
              \/ Peek \/ Disconnect \/ Reconnect

-----------------------------------------------------------------------------
(* The process *)

\* The game exits or crashes, at any point: the system closes its handle.
GameExit ==
    /\ pt # "off"
    /\ pt' = "off"
    /\ handle' = 0
    /\ IF handle = 0 THEN UNCHANGED pipe ELSE ClientClose(handle)
    /\ status' = 0
    /\ sendSlot' = 0
    /\ recvSlot' = 0
    /\ scratch' = 0

\* A new game process: its DLL starts from its initial state.
GameStart ==
    /\ pt = "off"
    /\ pt' = "connect"
    /\ status' = 1
    /\ UNCHANGED <<pipe, handle, sendSlot, recvSlot, scratch>>

ClientTypeOK ==
    /\ pt \in {"off", "connect", "flush", "copy", "body", "peek", "close", "reconnect"}
    /\ handle \in 0 .. MaxSession
    /\ status \in 0 .. 2
    /\ sendSlot \in Nat
    /\ recvSlot \in Nat
    /\ scratch \in Nat
=============================================================================
