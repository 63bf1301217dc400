------------------------------- MODULE Bridge -------------------------------
(* The bridge from end to end: Lua threads, the DLL's pipe thread, the pipe,  *)
(* the server's reader and writer tasks and the decision loop between its two *)
(* queues.  What the loop decides is in DecisionLoop; here its commands are   *)
(* numbered in the order in which it makes them.                              *)
EXTENDS PipeServer, PipeClient

CONSTANTS MaxSnap,  \* bound: the number of snapshots the game sends
          MaxGame   \* bound: the number of game processes, one after another

ASSUME MaxSnapAssumption == MaxSnap \in Nat
ASSUME MaxGameAssumption == MaxGame \in Nat \ {0}

VARIABLES
    sent,     \* the number of snapshots sent so far
    game,     \* the number of game processes started so far
    polling,  \* Lua is in osq_pop: the command that it withdrew, or 0
    applied,  \* the last copy of a command that this game applied, or 0
    loop,     \* where _decision_loop waits: "get" or "put"
    decided,  \* the number of commands it made so far
    taken     \* history: the last snapshot it took of every session, or 0

loopVars   == <<loop, decided, taken>>
bridgeVars == <<sent, game, polling, applied, loopVars>>
vars == <<pipe, serverVars, clientVars, bridgeVars>>

Init ==
    /\ PipeInit
    /\ ServerInit
    /\ ClientInit
    /\ sent = 0
    /\ game = 1
    /\ polling = 0
    /\ applied = 0
    /\ loop = "get"
    /\ decided = 0
    /\ taken = [s \in Sessions |-> 0]

-----------------------------------------------------------------------------
(* Lua *)

\* LLMBridge.SendSnapshot: it overwrites a snapshot that was not yet flushed.
SendSnapshot ==
    /\ status = 2
    /\ polling = 0
    /\ sent < MaxSnap
    /\ sent' = sent + 1
    /\ sendSlot' = sent + 1
    /\ UNCHANGED <<pipe, serverVars, pt, handle, status, recvSlot, scratch,
                   game, polling, applied, loopVars>>

\* Mutant: the slot is read without being emptied.
MutPollKeeps ==
    /\ polling = 0
    /\ recvSlot # 0
    /\ polling' = recvSlot
    /\ UNCHANGED <<pipe, serverVars, clientVars, sent, game, applied, loopVars>>

\* LLMBridge.PollCommand, connected or not: osq_pop withdraws the command ...
PollClaim ==
    /\ polling = 0
    /\ recvSlot # 0
    /\ polling' = recvSlot
    /\ recvSlot' = 0
    /\ UNCHANGED <<pipe, serverVars, pt, handle, status, sendSlot, scratch,
                   sent, game, applied, loopVars>>

\* ... and copies what the buffer then holds, for StrategyExecutor.Apply: the
\* command, or one that has come in since, or a mixture of the two that does not
\* parse.
PollCopy ==
    /\ polling # 0
    /\ polling' = 0
    /\ \/ recvSlot = 0 /\ applied' = CopyOf(polling, applied)
       \/ recvSlot # 0 /\ applied' = CopyOf(recvSlot, applied)
       \/ recvSlot # 0 /\ UNCHANGED applied
    /\ UNCHANGED <<pipe, serverVars, clientVars, sent, game, loopVars>>

Exit == /\ GameExit
        /\ polling' = 0
        /\ applied' = 0
        /\ UNCHANGED <<serverVars, sent, game, loopVars>>

Start == /\ game < MaxGame
         /\ GameStart
         /\ game' = game + 1
         /\ UNCHANGED <<serverVars, sent, polling, applied, loopVars>>

-----------------------------------------------------------------------------
(* _decision_loop *)

luaVars == <<sent, game, polling, applied>>

TakeSnapshot ==
    /\ loop = "get"
    /\ snapQ # << >>
    /\ taken' = [taken EXCEPT ![Head(snapQ).sess] = Head(snapQ).id]
    /\ snapQ' = Tail(snapQ)
    /\ WakePutter
    /\ \/ loop' = "put" /\ decided' = decided + 1
       \/ UNCHANGED <<loop, decided>>  \* an exception: logged, and no command
    /\ UNCHANGED <<pipe, srv, sess, connected, rmsg, writer, wmsg, getters, cmdQ,
                   clientVars, luaVars>>

\* Mutant: the queue has no maxsize.
MutPutUnbounded ==
    /\ loop = "put"
    /\ cmdQ' = Append(cmdQ, decided)
    /\ WakeGetter
    /\ loop' = "get"
    /\ UNCHANGED <<pipe, srv, sess, connected, reader, rmsg, putters, wmsg, snapQ,
                   clientVars, luaVars, decided, taken>>

\* await command_queue.put(): waits for room.
PutCommand ==
    /\ loop = "put"
    /\ Len(cmdQ) < QCap
    /\ cmdQ' = Append(cmdQ, decided)
    /\ WakeGetter
    /\ loop' = "get"
    /\ UNCHANGED <<pipe, srv, sess, connected, reader, rmsg, putters, wmsg, snapQ,
                   clientVars, luaVars, decided, taken>>

LoopStep == TakeSnapshot \/ PutCommand

-----------------------------------------------------------------------------

Server == \/ MainStep
          \/ \E s \in Sessions : ReaderStep(s) \/ WriterStep(s)

Next ==
    \/ Server /\ UNCHANGED <<clientVars, bridgeVars>>
    \/ ThreadStep /\ UNCHANGED <<serverVars, bridgeVars>>
    \/ SendSnapshot
    \/ PollClaim \/ PollCopy
    \/ Exit
    \/ Start
    \/ LoopStep

Spec == Init /\ [][Next]_vars

(* Every task, thread and loop of the code runs for ever and is scheduled in  *)
(* the end.  A WriteFile that waits for the handle is the next to have it, so *)
(* it ends when that is possible again and again.  Nothing makes the game     *)
(* send, exit or start.                                                       *)
FairSpec ==
    /\ Spec
    /\ WF_vars(MainStep /\ UNCHANGED <<clientVars, bridgeVars>>)
    /\ \A s \in Sessions :
         /\ WF_vars(ReaderStep(s) /\ UNCHANGED <<clientVars, bridgeVars>>)
         /\ WF_vars(WriterStep(s) /\ UNCHANGED <<clientVars, bridgeVars>>)
    /\ SF_vars(\E s \in Sessions : WriteEnds(s) /\ UNCHANGED <<clientVars, bridgeVars>>)
    /\ WF_vars(ThreadStep /\ UNCHANGED <<serverVars, bridgeVars>>)
    /\ WF_vars(PollClaim \/ PollCopy)
    /\ WF_vars(LoopStep)

-----------------------------------------------------------------------------
(* Properties *)

TypeOK ==
    /\ ServerTypeOK
    /\ ClientTypeOK
    /\ sent \in 0 .. MaxSnap
    /\ game \in 1 .. MaxGame
    /\ polling \in Nat
    /\ applied \in Nat
    /\ loop \in {"get", "put"}
    /\ decided \in Nat
    /\ taken \in [Sessions -> Nat]

\* Only the session being served (or awaited) has an open server handle: what
\* outlives a session can neither read from a later one nor write to it.
OneOpenInstance ==
    \A s \in Sessions :
      pipe[s].srv = "open" => s = sess /\ srv \in {"accept", "serve"}

\* The game holds a handle to exactly one open client end, the one its thread
\* uses: a reconnect leaks none, so the server always gets its end of file.
NoLeakedHandle ==
    /\ \A s \in Sessions : pipe[s].cli = "open" <=> handle = s
    /\ handle # 0 <=> status = 2

\* Whatever the loop takes is newer than all that it has taken of the same and
\* of earlier sessions: only a snapshot that an ended session left waiting can
\* come after a newer one, and none is taken more than twice, the second time
\* only when a push overlapped the pop.
SnapshotsInOrder ==
    [][Len(snapQ') < Len(snapQ) =>
         \A s \in 1 .. Head(snapQ).sess : taken[s] < Head(snapQ).id]_vars

\* A game applies its commands in the order in which the loop made them, none
\* after a later one and none a third time, whatever sessions they came through
\* and whatever push overlapped a pop.
CommandsInOrder ==
    [][applied' # applied /\ pt' # "off" => applied' > applied]_vars

\* The reader of the session waits in ReadFile for a game that says nothing.
GameIsSilent ==
    /\ srv = "serve"
    /\ reader[sess] \in {"length", "body"}
    /\ pipe[sess].cli = "open" /\ pipe[sess].up = << >>

\* Only a silent game, whose reader keeps the handle from the writer, can leave
\* the decision loop stuck on a full command queue while it is connected.
LoopBlockedOnlyBySilence ==
    <>[](loop = "put" /\ connected) => <>[]GameIsSilent

\* A session that cannot go on is replaced: when a task of it has raised, or
\* its client went away and its writer has a command to write, the server
\* waits for a client on a new instance in the end.
DeadSessionIsReplaced ==
    (/\ srv = "serve" /\ sess < MaxSession
     /\ \/ "raised" \in {reader[sess], writer[sess]}
        \/ pipe[sess].cli = "closed" /\ writer[sess] = "write")
       ~> (srv = "accept")

\* A running game that looks for the pipe finds the instance that waits for it.
GameConnects ==
    (pt = "connect" /\ \E s \in Sessions : Listening(s)) ~> (handle # 0 \/ pt = "off")

\* The DLL notices that the server closed its end only by a failed write, but
\* a snapshot to write is enough: its thread gives the handle up.
SnapshotExposesDeadServer ==
    (handle # 0 /\ pipe[handle].srv = "closed" /\ sendSlot # 0) ~> (handle = 0)

-----------------------------------------------------------------------------
(* What comments and contracts say *)

\* pipe_server.py:112: "either failing ends the session".  The reader's way of
\* failing on a disconnected client is to return.
ReaderFailureEndsSession ==
    \A s \in Sessions :
      (sess = s /\ reader[s] = "done") ~> (sess # s \/ srv # "serve")
=============================================================================
