----------------------------- MODULE PipeServer -----------------------------
(* server/pipe_server.py: the loop of PipeServer.start, and the reader and    *)
(* writer tasks that _connect_and_serve gathers for every session.  A task    *)
(* runs to its next await without being interrupted, so an action here goes   *)
(* from one await to the next.                                                *)
(*                                                                            *)
(* asyncio.gather ends when both tasks have returned or one has raised; it    *)
(* does not cancel the other one, which goes on with the closed handle.  So a *)
(* task belongs to a session and may outlive it.                              *)
(*                                                                            *)
(* asyncio.Queue wakes one waiting task for every item that comes or goes,    *)
(* but a task that was woken only looks again when it runs: another one may   *)
(* have been quicker, and then it waits again, behind the others.             *)
EXTENDS NamedPipe

CONSTANTS QCap  \* maxsize of snapshot_queue and of command_queue

ASSUME QCapAssumption == QCap \in Nat \ {0}

VARIABLES
    srv,      \* where start() is: "create", "accept", "serve", "sleep"
    sess,     \* the last session opened; 0 before the first
    connected,\* self._connected
    reader,   \* reader[s]: "off", "length" and "body" (in ReadFile), "put" (about
              \* to put), "wait" (for room), "done" (returned), "raised"
    rmsg,     \* rmsg[s]: the snapshot that reader s has read and not yet queued
    putters,  \* the readers waiting in snapshot_queue.put(), the next to wake first
    writer,   \* writer[s]: "off", "get" (about to get), "wait" (for a command),
              \* "write", "raised"
    wmsg,     \* wmsg[s]: the command writer s took from the queue
    getters,  \* the writers waiting in command_queue.get(), the next to wake first
    snapQ,    \* snapshot_queue, with the session each snapshot came through
    cmdQ      \* command_queue

taskVars   == <<reader, rmsg, putters, writer, wmsg, getters>>
serverVars == <<srv, sess, connected, taskVars, snapQ, cmdQ>>

ServerInit ==
    /\ srv = "create"
    /\ sess = 0
    /\ connected = FALSE
    /\ reader = [s \in Sessions |-> "off"]
    /\ rmsg = [s \in Sessions |-> 0]
    /\ putters = << >>
    /\ writer = [s \in Sessions |-> "off"]
    /\ wmsg = [s \in Sessions |-> 0]
    /\ getters = << >>
    /\ snapQ = << >>
    /\ cmdQ = << >>

-----------------------------------------------------------------------------
(* start() and _connect_and_serve() *)

CreatePipe ==
    /\ srv = "create"
    /\ sess < MaxSession
    /\ sess' = sess + 1
    /\ CreateInstance(sess + 1)
    /\ srv' = "accept"
    /\ UNCHANGED <<connected, taskVars, snapQ, cmdQ>>

\* ConnectNamedPipe returned: the session starts with its two tasks.
Accept ==
    /\ srv = "accept"
    /\ pipe[sess].cli = "open"
    /\ srv' = "serve"
    /\ connected' = TRUE
    /\ reader' = [reader EXCEPT ![sess] = "length"]
    /\ writer' = [writer EXCEPT ![sess] = "get"]
    /\ UNCHANGED <<pipe, sess, rmsg, putters, wmsg, getters, snapQ, cmdQ>>

\* The client came and went before ConnectNamedPipe: it raises, nothing was
\* started, and the handle is closed when it is garbage-collected.
AcceptFails ==
    /\ srv = "accept"
    /\ pipe[sess].cli = "closed"
    /\ srv' = "sleep"
    /\ connected' = FALSE
    /\ ServerClose(sess)
    /\ UNCHANGED <<sess, taskVars, snapQ, cmdQ>>

\* Mutant: the handle is not closed when the session ends.
MutEndKeepsHandle ==
    /\ srv = "serve"
    /\ reader[sess] = "raised" \/ writer[sess] = "raised"
    /\ srv' = "sleep"
    /\ connected' = FALSE
    /\ UNCHANGED <<pipe, sess, taskVars, snapQ, cmdQ>>

\* Mutant: only the reader's error ends the session.
MutEndByReader ==
    /\ srv = "serve"
    /\ reader[sess] = "raised"
    /\ srv' = "sleep"
    /\ connected' = FALSE
    /\ ServerClose(sess)
    /\ UNCHANGED <<sess, taskVars, snapQ, cmdQ>>

\* gather() ends: one task raised.  (Both cannot return: the writer only raises.)
EndSession ==
    /\ srv = "serve"
    /\ reader[sess] = "raised" \/ writer[sess] = "raised"
    /\ srv' = "sleep"
    /\ connected' = FALSE
    /\ ServerClose(sess)
    /\ UNCHANGED <<sess, taskVars, snapQ, cmdQ>>

\* RECONNECT_DELAY_S has passed.
Wake ==
    /\ srv = "sleep"
    /\ srv' = "create"
    /\ UNCHANGED <<pipe, sess, connected, taskVars, snapQ, cmdQ>>

MainStep == CreatePipe \/ Accept \/ AcceptFails \/ EndSession \/ Wake

-----------------------------------------------------------------------------
(* _read_loop and _read_message *)

ReadLength(s) ==
    /\ reader[s] = "length"
    /\ ServerCanRead(s)
    /\ ServerTake(s)
    /\ reader' = [reader EXCEPT ![s] = "body"]
    /\ UNCHANGED <<srv, sess, connected, rmsg, putters, writer, wmsg, getters,
                   snapQ, cmdQ>>

\* Any error while reading the length: _read_message returns None, and the
\* loop returns.  The session does not end: the writer is still waiting.
ReadEOF(s) ==
    /\ reader[s] = "length"
    /\ ServerReadFails(s)
    /\ reader' = [reader EXCEPT ![s] = "done"]
    /\ UNCHANGED <<pipe, srv, sess, connected, rmsg, putters, writer, wmsg,
                   getters, snapQ, cmdQ>>

\* A snapshot that was cut to the length of the slot, or torn in it, may be
\* neither JSON nor UTF-8; which ones are is left open.
ReadBody(s) ==
    /\ reader[s] = "body"
    /\ ServerCanRead(s)
    /\ ServerTake(s)
    /\ \/ /\ reader' = [reader EXCEPT ![s] = "put"]
          /\ rmsg' = [rmsg EXCEPT ![s] = Head(pipe[s].up)]
       \/ \* json.loads raises JSONDecodeError: logged and discarded
          reader' = [reader EXCEPT ![s] = "length"] /\ UNCHANGED rmsg
       \/ \* payload.decode raises UnicodeDecodeError
          reader' = [reader EXCEPT ![s] = "raised"] /\ UNCHANGED rmsg
    /\ UNCHANGED <<srv, sess, connected, putters, writer, wmsg, getters, snapQ, cmdQ>>

\* Only the first ReadFile is inside the try: an error in the second raises.
ReadBodyFails(s) ==
    /\ reader[s] = "body"
    /\ ServerReadFails(s)
    /\ reader' = [reader EXCEPT ![s] = "raised"]
    /\ UNCHANGED <<pipe, srv, sess, connected, rmsg, putters, writer, wmsg,
                   getters, snapQ, cmdQ>>

\* await snapshot_queue.put(), when the task runs: whoever finds room puts, be
\* it before a reader that was woken for that room and has not run yet.
PutSnapshot(s) ==
    /\ reader[s] = "put"
    /\ Len(snapQ) < QCap
    /\ snapQ' = Append(snapQ, [sess |-> s, id |-> rmsg[s]])
    /\ rmsg' = [rmsg EXCEPT ![s] = 0]
    /\ reader' = [reader EXCEPT ![s] = "length"]
    /\ UNCHANGED <<pipe, srv, sess, connected, putters, writer, wmsg, getters, cmdQ>>

WaitForRoom(s) ==
    /\ reader[s] = "put"
    /\ Len(snapQ) = QCap
    /\ putters' = Append(putters, s)
    /\ reader' = [reader EXCEPT ![s] = "wait"]
    /\ UNCHANGED <<pipe, srv, sess, connected, rmsg, writer, wmsg, getters,
                   snapQ, cmdQ>>

ReaderStep(s) == \/ ReadLength(s) \/ ReadEOF(s) \/ ReadBody(s)
                 \/ ReadBodyFails(s) \/ PutSnapshot(s) \/ WaitForRoom(s)

\* A get() from the snapshot queue wakes the next putter.
WakePutter ==
    \/ putters = << >> /\ UNCHANGED <<putters, reader>>
    \/ /\ putters # << >>
       /\ putters' = Tail(putters)
       /\ reader' = [reader EXCEPT ![Head(putters)] = "put"]

-----------------------------------------------------------------------------
(* _write_loop and _write_message *)

\* await command_queue.get(), when the task runs.  A lone surrogate in the text
\* that the model wrote makes msg.encode raise: that command is gone, for nobody
\* puts it back.
GetCommand(s) ==
    /\ writer[s] = "get"
    /\ cmdQ # << >>
    /\ cmdQ' = Tail(cmdQ)
    /\ \/ /\ writer' = [writer EXCEPT ![s] = "write"]
          /\ wmsg' = [wmsg EXCEPT ![s] = Head(cmdQ)]
       \/ /\ writer' = [writer EXCEPT ![s] = "raised"]
          /\ UNCHANGED wmsg
    /\ UNCHANGED <<pipe, srv, sess, connected, reader, rmsg, putters, getters, snapQ>>

WaitForCommand(s) ==
    /\ writer[s] = "get"
    /\ cmdQ = << >>
    /\ getters' = Append(getters, s)
    /\ writer' = [writer EXCEPT ![s] = "wait"]
    /\ UNCHANGED <<pipe, srv, sess, connected, reader, rmsg, putters, wmsg,
                   snapQ, cmdQ>>

\* The handle is opened without FILE_FLAG_OVERLAPPED, and the system does one
\* thing at a time with it: a WriteFile waits until the reader's ReadFile has
\* something to return.  A call on a handle that was closed returns at once.
HandleFree(s) == \/ pipe[s].srv = "closed"
                 \/ reader[s] \notin {"length", "body"}
                 \/ ServerCanRead(s) \/ ServerReadFails(s)

WriteCommand(s) ==
    /\ writer[s] = "write"
    /\ HandleFree(s)
    /\ ServerCanWrite(s)
    /\ ServerWrite(s, wmsg[s])
    /\ wmsg' = [wmsg EXCEPT ![s] = 0]
    /\ writer' = [writer EXCEPT ![s] = "get"]
    /\ UNCHANGED <<srv, sess, connected, reader, rmsg, putters, getters, snapQ, cmdQ>>

\* Mutant: the write loop swallows the error and returns.
MutWriterReturns(s) ==
    /\ writer[s] = "write"
    /\ HandleFree(s)
    /\ ~ServerCanWrite(s)
    /\ wmsg' = [wmsg EXCEPT ![s] = 0]
    /\ writer' = [writer EXCEPT ![s] = "off"]
    /\ UNCHANGED <<pipe, srv, sess, connected, reader, rmsg, putters, getters,
                   snapQ, cmdQ>>

\* WriteFile fails.  This command is gone as well.
WriteFails(s) ==
    /\ writer[s] = "write"
    /\ HandleFree(s)
    /\ ~ServerCanWrite(s)
    /\ wmsg' = [wmsg EXCEPT ![s] = 0]
    /\ writer' = [writer EXCEPT ![s] = "raised"]
    /\ UNCHANGED <<pipe, srv, sess, connected, reader, rmsg, putters, getters,
                   snapQ, cmdQ>>

WriteEnds(s)  == WriteCommand(s) \/ WriteFails(s)
WriterStep(s) == GetCommand(s) \/ WaitForCommand(s) \/ WriteEnds(s)

\* A put() into the command queue wakes the next getter.
WakeGetter ==
    \/ getters = << >> /\ UNCHANGED <<getters, writer>>
    \/ /\ getters # << >>
       /\ getters' = Tail(getters)
       /\ writer' = [writer EXCEPT ![Head(getters)] = "get"]

ServerTypeOK ==
    /\ srv \in {"create", "accept", "serve", "sleep"}
    /\ sess \in 0 .. MaxSession
    /\ connected \in BOOLEAN
    /\ reader \in [Sessions -> {"off", "length", "body", "put", "wait", "done", "raised"}]
    /\ rmsg \in [Sessions -> Nat]
    /\ putters \in Seq(Sessions)
    /\ writer \in [Sessions -> {"off", "get", "wait", "write", "raised"}]
    /\ wmsg \in [Sessions -> Nat]
    /\ getters \in Seq(Sessions)
    /\ snapQ \in Seq([sess : Sessions, id : Nat]) /\ Len(snapQ) <= QCap
    /\ cmdQ \in Seq(Nat) /\ Len(cmdQ) <= QCap
=============================================================================
