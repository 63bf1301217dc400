------------------------------- MODULE Brain -------------------------------
(* The chat on its way through the brain's Lua threads, LLMAIBrain.lua:       *)
(* ChatHandlerThread collects what the player says, StrategyUpdateThread and  *)
(* EventTriggerThread send it with their snapshots, and SendChat passes the   *)
(* bot's replies to the user interface.  Lua threads give way only when they  *)
(* wait; the pipe thread, a thread of the system, runs in between, and may    *)
(* change the status that Lua has just looked at.                             *)
EXTENDS Naturals, Sequences

CONSTANTS FastInterval,  \* poll_interval_fast
          DeepInterval,  \* poll_interval_deep
          MAX_BUFFER,    \* of ChatHandler.lua
          MaxAsked,      \* bound: the messages of the player
          MaxChat        \* bound: when the server stops chatting

ASSUME BrainAssumption ==
    /\ FastInterval \in Nat \ {0} /\ DeepInterval \in Nat
    /\ MAX_BUFFER \in Nat \ {0}
    /\ MaxAsked \in Nat /\ MaxChat \in Nat

VARIABLES
    \* Lua, the simulation: messages of the player are numbered
    lua,       \* what runs: "idle", "drain" (ChatHandlerThread), "send" and
               \* "push" (in SendSnapshot before and after its test), "poll"
    after,     \* where SendSnapshot returns to: "poll" or "idle"
    buffer,    \* _pending_player_messages
    msgs,      \* the messages that ChatHandlerThread still has to handle
    PendingChat,
    ticks_since_deep,
    chat_id,   \* _chat_id
    sync,      \* the id in Sync.LLMBotChat, 0 without one
    \* the DLL
    connected, \* g_status = 2
    sendSlot,  \* << >>, or <<chat>>: a snapshot with that chat waits
    flushing,  \* << >>, or <<chat>>: the pipe thread is in osq_pop and has
               \* withdrawn a snapshot with that chat, but not copied it
    recvSlot,  \* a command with a chat message waits
    \* the user interface
    lastId,    \* _botChatLastId
    \* history
    asked,     \* the number of messages of the player
    heard,     \* the chats written to the pipe, of the snapshots that had one
    shown,     \* the ids displayed
    clean      \* nothing of the chat was thrown away so far

bridge == <<connected, sendSlot, flushing, recvSlot, heard>>
ui     == <<lastId, shown>>
vars   == <<lua, after, buffer, msgs, PendingChat, ticks_since_deep, chat_id,
            sync, bridge, ui, asked, clean>>

LastOf(s, k) == IF Len(s) <= k THEN s ELSE SubSeq(s, Len(s) - k + 1, Len(s))

Init ==
    /\ lua = "idle" /\ after = "idle"
    /\ buffer = << >> /\ msgs = << >> /\ PendingChat = << >>
    /\ ticks_since_deep = 0
    /\ chat_id = 0 /\ sync = 0 /\ lastId = 0
    /\ connected = FALSE /\ sendSlot = << >> /\ flushing = << >> /\ recvSlot = FALSE
    /\ asked = 0 /\ heard = << >> /\ shown = << >>
    /\ clean = TRUE

-----------------------------------------------------------------------------
(* ChatHandler.lua and ChatHandlerThread *)

\* The hooked callback: the oldest message gives way when the buffer is full.
ChatMessage ==
    /\ lua = "idle"
    /\ asked < MaxAsked
    /\ asked' = asked + 1
    /\ buffer' = LastOf(Append(buffer, asked'), MAX_BUFFER)
    /\ clean' = (clean /\ Len(buffer) < MAX_BUFFER)
    /\ UNCHANGED <<lua, after, msgs, PendingChat, ticks_since_deep, chat_id,
                   sync, bridge, ui>>

\* Both ends of the buffer run in Lua, so nothing comes in between.
GetPendingMessages ==
    /\ lua = "idle"
    /\ buffer # << >>
    /\ msgs' = buffer
    /\ buffer' = << >>
    /\ lua' = "drain"
    /\ UNCHANGED <<after, PendingChat, ticks_since_deep, chat_id, sync, bridge,
                   ui, asked, clean>>

\* SendChat: a reply not yet seen by the interface is overwritten.
SendChat == chat_id' = chat_id + 1 /\ sync' = chat_id'

\* Mutant: a message answered here takes the place of the pending ones.
MutReplacePending ==
    /\ lua = "drain"
    /\ msgs # << >>
    /\ PendingChat' = <<Head(msgs)>>
    /\ msgs' = Tail(msgs)
    /\ lua' = IF msgs' = << >> THEN "idle" ELSE "drain"
    /\ IF connected THEN UNCHANGED <<chat_id, sync>> ELSE SendChat
    /\ UNCHANGED <<after, buffer, ticks_since_deep, bridge, ui, asked, clean>>

\* One message: into the next snapshot, and answered at once when offline.
HandleMessage ==
    /\ lua = "drain"
    /\ PendingChat' = Append(PendingChat, Head(msgs))
    /\ msgs' = Tail(msgs)
    /\ lua' = IF msgs' = << >> THEN "idle" ELSE "drain"
    /\ \/ ~connected /\ SendChat
       \/ connected /\ UNCHANGED <<chat_id, sync>>
    /\ UNCHANGED <<after, buffer, ticks_since_deep, bridge, ui, asked, clean>>

-----------------------------------------------------------------------------
(* StrategyUpdateThread and EventTriggerThread *)

DeepIsDue == ticks_since_deep * FastInterval >= DeepInterval

\* Mutant: the count is never reset.
MutCountOn ==
    /\ lua = "idle"
    /\ connected
    /\ lua' = "send" /\ after' = "poll"
    /\ ticks_since_deep' = ticks_since_deep + 1
    /\ UNCHANGED <<buffer, msgs, PendingChat, chat_id, sync, bridge, ui, asked, clean>>

\* The periodic snapshot, when the thread finds the status connected.
Periodic ==
    /\ lua = "idle"
    /\ connected
    /\ lua' = "send" /\ after' = "poll"
    /\ ticks_since_deep' = IF DeepIsDue THEN 0 ELSE ticks_since_deep + 1
    /\ UNCHANGED <<buffer, msgs, PendingChat, chat_id, sync, bridge, ui, asked, clean>>

Offline ==
    /\ lua = "idle"
    /\ ~connected
    /\ lua' = "poll"
    /\ UNCHANGED <<after, buffer, msgs, PendingChat, ticks_since_deep, chat_id,
                   sync, bridge, ui, asked, clean>>

\* A detector reports an event, connected or not.
Event ==
    /\ lua = "idle"
    /\ lua' = "send" /\ after' = "idle"
    /\ UNCHANGED <<buffer, msgs, PendingChat, ticks_since_deep, chat_id, sync,
                   bridge, ui, asked, clean>>

\* SendSnapshot tests the status itself, and returns when it is offline: the
\* caller clears PendingChat all the same.
SendTest ==
    /\ lua = "send"
    /\ \/ /\ connected
          /\ lua' = "push"
          /\ UNCHANGED <<PendingChat, clean>>
       \/ /\ ~connected
          /\ lua' = after
          /\ PendingChat' = << >>
          /\ clean' = (clean /\ PendingChat = << >>)
    /\ UNCHANGED <<after, buffer, msgs, ticks_since_deep, chat_id, sync, bridge,
                   ui, asked>>

\* No chat is in the slot, or withdrawn from it and not yet copied.
NothingToLose == {sendSlot, flushing} \subseteq {<< >>, << << >> >>}

\* Mutant: the pending chat is not cleared.
MutPushKeeps ==
    /\ lua = "push"
    /\ lua' = after
    /\ sendSlot' = <<PendingChat>>
    /\ clean' = (clean /\ NothingToLose)
    /\ UNCHANGED <<after, buffer, msgs, PendingChat, ticks_since_deep, chat_id,
                   sync, connected, flushing, recvSlot, heard, ui, asked>>

\* Mutant: the snapshot goes without the chat, which waits for the next one.
MutSendWithoutChat ==
    /\ lua = "push"
    /\ lua' = after
    /\ sendSlot' = << << >> >>
    /\ clean' = (clean /\ NothingToLose)
    /\ UNCHANGED <<after, buffer, msgs, PendingChat, ticks_since_deep, chat_id,
                   sync, connected, flushing, recvSlot, heard, ui, asked>>

\* The snapshot, with the chat, overwrites one that was not yet flushed, or
\* that the pipe thread has withdrawn and is about to copy; or
\* GameStateCollector.Collect fails, and nothing is sent.  The caller then
\* clears PendingChat.
Push ==
    /\ lua = "push"
    /\ lua' = after
    /\ PendingChat' = << >>
    /\ \/ /\ sendSlot' = <<PendingChat>>
          /\ clean' = (clean /\ NothingToLose)
       \/ /\ clean' = (clean /\ PendingChat = << >>)
          /\ UNCHANGED sendSlot
    /\ UNCHANGED <<after, buffer, msgs, ticks_since_deep, chat_id, sync,
                   connected, flushing, recvSlot, heard, ui, asked>>

\* The strategy thread polls for a command; what Apply does with it is in
\* StrategyExecutor.
PollCommand ==
    /\ lua = "poll"
    /\ lua' = "idle"
    /\ recvSlot' = FALSE
    /\ IF recvSlot THEN SendChat ELSE UNCHANGED <<chat_id, sync>>
    /\ UNCHANGED <<after, buffer, msgs, PendingChat, ticks_since_deep, connected,
                   sendSlot, flushing, heard, ui, asked, clean>>

-----------------------------------------------------------------------------
(* The pipe thread *)

lua_ui == <<lua, after, buffer, msgs, PendingChat, ticks_since_deep, chat_id,
            sync, ui, asked>>

\* PipeThread connects, or gives a broken handle up; the slots stay.
ChangeStatus ==
    /\ flushing = << >>
    /\ connected' = ~connected
    /\ UNCHANGED <<sendSlot, flushing, recvSlot, heard, clean, lua_ui>>

\* osq_pop swaps g_send_q.ready from 1 to 0.
Claim ==
    /\ connected
    /\ flushing = << >> /\ sendSlot # << >>
    /\ flushing' = sendSlot
    /\ sendSlot' = << >>
    /\ UNCHANGED <<connected, recvSlot, heard, clean, lua_ui>>

\* The chat that osq_pop copies: that of a snapshot pushed since, if there is one.
Copied == IF sendSlot = << >> THEN flushing[1] ELSE sendSlot[1]

\* ... copies what the buffer then holds, and write_msg writes it.  A snapshot
\* pushed since waits in the slot nevertheless, to be copied again.
Flush ==
    /\ flushing # << >>
    /\ flushing' = << >>
    /\ \/ /\ heard' = IF Copied = << >> THEN heard ELSE Append(heard, Copied)
          /\ UNCHANGED <<connected, clean>>
       \/ /\ sendSlot # << >>  \* a torn copy, which the server cannot read
          /\ UNCHANGED <<connected, heard, clean>>
       \/ /\ connected' = FALSE  \* the write fails
          /\ clean' = (clean /\ (sendSlot # << >> \/ Copied = << >>))
          /\ UNCHANGED heard
    /\ UNCHANGED <<sendSlot, recvSlot, lua_ui>>

\* A command arrives, with a chat message or without, and overwrites one that
\* was not yet polled.
Receive ==
    /\ connected
    /\ flushing = << >>
    /\ recvSlot' \in {FALSE, chat_id < MaxChat}
    /\ UNCHANGED <<connected, sendSlot, flushing, heard, clean, lua_ui>>

-----------------------------------------------------------------------------
(* The user interface, mod/hook/lua/ui/game/gamemain.lua *)

\* Mutant: the id is not compared with the last one.
MutShowAlways ==
    /\ lua = "idle"
    /\ sync # 0
    /\ Len(shown) < MaxChat + MaxAsked
    /\ lastId' = sync
    /\ shown' = Append(shown, sync)
    /\ sync' \in {0, sync}
    /\ UNCHANGED <<lua, after, buffer, msgs, PendingChat, ticks_since_deep,
                   chat_id, bridge, asked, clean>>

\* OnSync, after a tick of the simulation.  Whether the table is emptied then
\* or keeps its contents is the engine's affair.  CheckSyncForBotChat, which
\* polls, finds the table of the same tick and compares the same last id: it
\* displays what OnSync would have displayed, or nothing.
OnSync ==
    /\ lua = "idle"
    /\ sync # 0
    /\ sync' \in {0, sync}
    /\ \/ sync # lastId /\ lastId' = sync /\ shown' = Append(shown, sync)
       \/ sync = lastId /\ UNCHANGED ui
    /\ UNCHANGED <<lua, after, buffer, msgs, PendingChat, ticks_since_deep,
                   chat_id, bridge, asked, clean>>

-----------------------------------------------------------------------------

Strategy == Periodic \/ Offline
InProgress == HandleMessage \/ SendTest \/ Push \/ PollCommand

Next == \/ ChatMessage \/ GetPendingMessages \/ Strategy \/ Event
        \/ InProgress
        \/ ChangeStatus \/ Claim \/ Flush \/ Receive
        \/ OnSync

Spec == Init /\ [][Next]_vars

(* A Lua thread that runs goes on to its next wait, and every wait ends, also *)
(* while other threads take their turns; the pipe thread goes on as well.     *)
FairSpec == /\ Spec
            /\ WF_vars(InProgress) /\ WF_vars(Claim) /\ WF_vars(Flush)
            /\ SF_vars(GetPendingMessages) /\ SF_vars(Strategy)

-----------------------------------------------------------------------------
(* Properties *)

TypeOK ==
    /\ lua \in {"idle", "drain", "send", "push", "poll"}
    /\ after \in {"idle", "poll"}
    /\ buffer \in Seq(1 .. asked) /\ Len(buffer) <= MAX_BUFFER
    /\ msgs \in Seq(1 .. asked) /\ (lua = "drain" <=> msgs # << >>)
    /\ PendingChat \in Seq(1 .. asked)
    /\ ticks_since_deep \in Nat
    /\ ticks_since_deep * FastInterval < DeepInterval + FastInterval
    /\ chat_id \in Nat /\ sync \in 0 .. chat_id /\ lastId \in 0 .. chat_id
    /\ connected \in BOOLEAN
    /\ Len(sendSlot) <= 1 /\ sendSlot \in Seq(Seq(1 .. asked))
    /\ Len(flushing) <= 1 /\ flushing \in Seq(Seq(1 .. asked))
    /\ recvSlot \in BOOLEAN
    /\ asked \in 0 .. MaxAsked
    /\ heard \in Seq(Seq(1 .. asked))
    /\ shown \in Seq(1 .. chat_id)
    /\ clean \in BOOLEAN

\* The messages of a sequence, and sequences of messages one after the other.
In(s)        == {s[i] : i \in 1 .. Len(s)}
Ascends(s)   == \A i, j \in 1 .. Len(s) : i < j => s[i] < s[j]
Before(c, d) == \A m \in In(c), n \in In(d) : m < n

\* Every chat with its snapshot, from the pipe back to the slot, and all parts of
\* the way.
Snapshots == heard \o flushing \o sendSlot
Way       == Snapshots \o <<PendingChat, msgs, buffer>>

\* The model is told the player's messages in the order in which they were
\* said, whichever threads sent them, through lost connections and overwritten
\* snapshots; and one a second time only with all of its snapshot, directly
\* after the first (a push overlapped the pop), and never a third time.
ChatInOrder ==
    /\ \A i \in 1 .. Len(Way) : Ascends(Way[i])
    /\ \A i, j \in 1 .. Len(Way) :
         i < j => Before(Way[i], Way[j]) \/ (j = i + 1 /\ Way[i] = Way[j])

\* No message gets lost but in a full buffer, a snapshot that is overwritten
\* (before or while it is popped) or cannot be built or written, or an event
\* reported offline.
ChatIsKept ==
    clean => \A k \in 1 .. asked : \E i \in 1 .. Len(Way) : k \in In(Way[i])

\* The interface displays replies in their order and none twice.
RepliesInOrder == \A i, j \in 1 .. Len(shown) : i < j => shown[i] < shown[j]

\* A message reaches the pipe in the end, unless the connection is lost or the
\* chat was thrown away.
ChatArrives ==
    \A k \in 1 .. MaxAsked :
      (asked >= k) ~> (~connected \/ ~clean \/ \E i \in 1 .. Len(heard) : k \in In(heard[i]))
=============================================================================
