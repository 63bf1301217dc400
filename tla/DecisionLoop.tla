---------------------------- MODULE DecisionLoop ----------------------------
(* _decision_loop of server/bridge_server.py with the LLMClient.query of      *)
(* server/llm_client.py inside it, between the snapshot queue and the command *)
(* queue.  The loop is one asyncio task: an action goes from one of its       *)
(* awaits (the queue's get, a request to a model, the queue's put) to the     *)
(* next.                                                                      *)
EXTENDS LLMRouter, Naturals, Sequences

CONSTANTS Snapshots,     \* the snapshots the game may send
          QCap,          \* maxsize of the two queues
          TimeoutLimit,  \* _CONSECUTIVE_TIMEOUT_LIMIT
          HistoryLimit,  \* how much of chat_history is kept
          EmptyChat,     \* what the game's JSON encoder makes of no chat: "list"
                         \* ([], dkjson) or "object" ({}, the bundled JSON.lua)
          MaxIn          \* bound: the number of envelopes the game sends

ASSUME SnapshotsAssumption == Snapshots \subseteq SnapshotType
ASSUME LimitsAssumption == /\ QCap \in Nat \ {0}
                           /\ TimeoutLimit \in Nat \ {0}
                           /\ HistoryLimit \in Nat \ {0}
                           /\ MaxIn \in Nat
ASSUME EmptyChatAssumption == EmptyChat \in {"list", "object"}

VARIABLES
    received,  \* the number of envelopes received so far
    snapQ,     \* snapshot_queue
    cmdQ,      \* command_queue
    pc,        \* what the loop awaits: "get", "query" (the first request),
               \* "retry" (the second), "put"
    current,   \* the envelope it works on
    model,     \* the model of the request in progress
    command,   \* the command it waits to put
    consecutive_deep_timeouts,
    deep_degraded,
    chat_history,
    \* history
    deepLog,   \* the outcome of every request to the deep model so far
    sent,      \* the numbers of the snapshots whose commands were put
    saved      \* << >>, or <<h>>: a save file exists, h was chat_history then

client == <<consecutive_deep_timeouts, deep_degraded, deepLog>>
vars == <<received, snapQ, cmdQ, pc, current, model, command, client,
          chat_history, sent, saved>>

\* What a request to a model comes back with.  "timeout" and "error" (an HTTP
\* error, undecodable JSON, anything else) are both None to query().  Of the
\* decisions, "chat" has a chat message, "silent" has none, and "malformed" has
\* a field that CommandBuilder.build raises on, or DecisionLogger.log after it:
\* DecisionData says which these are.
Failures  == {"timeout", "error"}
Decisions == {"chat", "silent", "malformed"}

Envelopes == [type : {"snapshot"}, snapshot : Snapshots, id : Nat]
               \cup [type : {"save", "load", "other"}, id : Nat]
NoEnvelope == [type |-> "other", id |-> 0]

\* Mutant: the history is never cut.
MutKeepAll(s, k) == s

\* The last k elements of a sequence.
LastOf(s, k) == IF Len(s) <= k THEN s ELSE SubSeq(s, Len(s) - k + 1, Len(s))

Init ==
    /\ received = 0
    /\ snapQ = << >>
    /\ cmdQ = << >>
    /\ pc = "get"
    /\ current = NoEnvelope
    /\ model = "fast"
    /\ command = [id |-> 0, source |-> "none"]
    /\ consecutive_deep_timeouts = 0
    /\ deep_degraded = FALSE
    /\ chat_history = << >>
    /\ deepLog = << >>
    /\ sent = << >>
    /\ saved \in {<< >>, << << >> >>}  \* a file may be left from an earlier run

-----------------------------------------------------------------------------
(* The two ends of the queues: the session's reader and writer *)

Receive(e) ==
    /\ received < MaxIn
    /\ Len(snapQ) < QCap
    /\ received' = received + 1
    /\ snapQ' = Append(snapQ, e)
    /\ UNCHANGED <<cmdQ, pc, current, model, command, client, chat_history,
                   sent, saved>>

ReceiveAny ==
    \/ \E x \in Snapshots :
         Receive([type |-> "snapshot", snapshot |-> x, id |-> received + 1])
    \/ \E t \in {"save", "load", "other"} :
         Receive([type |-> t, id |-> received + 1])

Write ==
    /\ cmdQ # << >>
    /\ cmdQ' = Tail(cmdQ)
    /\ UNCHANGED <<received, snapQ, pc, current, model, command, client,
                   chat_history, sent, saved>>

-----------------------------------------------------------------------------
(* await snapshot_queue.get(), and what needs no model *)

\* Mutant: the loop looks at the queue without taking from it.
MutPeek(types) ==
    /\ pc = "get"
    /\ snapQ # << >>
    /\ Head(snapQ).type \in types
    /\ current' = Head(snapQ)
    /\ UNCHANGED snapQ

Take(types) ==
    /\ pc = "get"
    /\ snapQ # << >>
    /\ Head(snapQ).type \in types
    /\ current' = Head(snapQ)
    /\ snapQ' = Tail(snapQ)

TakeOther ==
    /\ Take({"other"})
    /\ UNCHANGED <<received, cmdQ, pc, model, command, client, chat_history,
                   sent, saved>>

\* SaveState.save writes the fields of the message, and the game sends it only
\* the save's name: of the conversation nothing is written.
TakeSave ==
    /\ Take({"save"})
    /\ saved' = <<chat_history>>
    /\ UNCHANGED <<received, cmdQ, pc, model, command, client, chat_history,
                   sent>>

\* SaveState.load returns the file's fields: there is no "chat_history" among
\* them, so the history becomes [].  Without a file nothing changes.
TakeLoad ==
    /\ Take({"load"})
    /\ chat_history' = IF saved = << >> THEN chat_history ELSE << >>
    /\ UNCHANGED <<received, cmdQ, pc, model, command, client, sent, saved>>

\* StateProcessor._build_chat_block slices player_chat when there is a history,
\* and an empty object cannot be sliced.
build_prompt_raises(snapshot) ==
    /\ EmptyChat = "object"
    /\ snapshot.chat = "none"
    /\ chat_history # << >>

\* The exception is logged, and the snapshot gets no command.
PromptRaises ==
    /\ Take({"snapshot"})
    /\ build_prompt_raises(current'.snapshot)
    /\ UNCHANGED <<received, cmdQ, pc, model, command, client, chat_history,
                   sent, saved>>

\* Mutant: the router's choice is asked, degraded or not.
MutIgnoreDegraded ==
    /\ Take({"snapshot"})
    /\ ~build_prompt_raises(current'.snapshot)
    /\ model' = route(current'.snapshot)
    /\ pc' = "query"
    /\ UNCHANGED <<received, cmdQ, command, client, chat_history, sent, saved>>

\* A snapshot: route it, and query() posts the first request.
TakeSnapshot ==
    /\ Take({"snapshot"})
    /\ ~build_prompt_raises(current'.snapshot)
    /\ model' = IF deep_degraded THEN "fast" ELSE route(current'.snapshot)
    /\ pc' = "query"
    /\ UNCHANGED <<received, cmdQ, command, client, chat_history, sent, saved>>

-----------------------------------------------------------------------------
(* LLMClient.query, and what the loop does with its result *)

\* The deep model failed: count it, perhaps give up on it, ask the fast one.
DeepFails(r) ==
    /\ pc = "query"
    /\ model = "deep"
    /\ r \in Failures
    /\ consecutive_deep_timeouts' = consecutive_deep_timeouts + 1
    /\ deep_degraded' =
         (deep_degraded \/ consecutive_deep_timeouts' >= TimeoutLimit)
    /\ deepLog' = Append(deepLog, r)
    /\ model' = "fast"
    /\ pc' = "retry"
    /\ UNCHANGED <<received, snapQ, cmdQ, current, command, chat_history, sent, saved>>

\* Mutant: the message joins the history before build() may raise.
MutHistoryFirst(source, r) ==
    /\ chat_history' = IF r \in {"chat", "malformed"}
                       THEN LastOf(Append(chat_history, current.id), HistoryLimit)
                       ELSE chat_history
    /\ IF r = "malformed"
       THEN pc' = "get" /\ UNCHANGED command
       ELSE pc' = "put" /\ command' = [id |-> current.id, source |-> source]

\* build(), the chat history, and on to command_queue.put().
Decide(source, r) ==
    \/ /\ r = "malformed"  \* build() or log() raises: no command
       /\ pc' = "get"
       /\ UNCHANGED <<command, chat_history>>
    \/ /\ r # "malformed"
       /\ pc' = "put"
       /\ command' = [id |-> current.id, source |-> source]
       /\ chat_history' = IF r = "chat"
                          THEN LastOf(Append(chat_history, current.id), HistoryLimit)
                          ELSE chat_history

\* Mutant: an answer does not reset the count of failures.
MutNoReset(r) ==
    /\ pc = "query"
    /\ model = "deep"
    /\ r \in Decisions
    /\ deepLog' = Append(deepLog, "answer")
    /\ Decide("deep", r)
    /\ UNCHANGED <<received, snapQ, cmdQ, current, model, deep_degraded,
                   consecutive_deep_timeouts, sent, saved>>

DeepAnswers(r) ==
    /\ pc = "query"
    /\ model = "deep"
    /\ r \in Decisions
    /\ consecutive_deep_timeouts' = 0
    /\ deepLog' = Append(deepLog, "answer")
    /\ Decide("deep", r)
    /\ UNCHANGED <<received, snapQ, cmdQ, current, model, deep_degraded, sent, saved>>

FastAnswers(r) ==
    /\ pc \in {"query", "retry"}
    /\ model = "fast"
    /\ r \in Decisions
    /\ Decide("fast", r)
    /\ UNCHANGED <<received, snapQ, cmdQ, current, model, client, sent, saved>>

\* Mutant: the fast model too is asked again, without a limit.
MutRetryForever(r) ==
    /\ pc \in {"query", "retry"}
    /\ model = "fast"
    /\ r \in Failures
    /\ pc' = IF pc = "query" THEN "retry" ELSE "query"
    /\ UNCHANGED <<received, snapQ, cmdQ, current, model, command, client,
                   chat_history, sent, saved>>

\* query() returns None: FallbackStrategy decides, and never chats.
FastFails(r) ==
    /\ pc \in {"query", "retry"}
    /\ model = "fast"
    /\ r \in Failures
    /\ Decide("fallback", "silent")
    /\ UNCHANGED <<received, snapQ, cmdQ, current, model, client, sent, saved>>

-----------------------------------------------------------------------------
(* await command_queue.put() *)

PutCommand ==
    /\ pc = "put"
    /\ Len(cmdQ) < QCap
    /\ cmdQ' = Append(cmdQ, command)
    /\ sent' = Append(sent, command.id)
    /\ pc' = "get"
    /\ UNCHANGED <<received, snapQ, current, model, command, client,
                   chat_history, saved>>

LoopStep ==
    \/ TakeOther \/ TakeSave \/ TakeLoad \/ PromptRaises \/ TakeSnapshot
    \/ \E r \in Failures : DeepFails(r) \/ FastFails(r)
    \/ \E r \in Decisions : DeepAnswers(r) \/ FastAnswers(r)
    \/ PutCommand

Next == ReceiveAny \/ Write \/ LoopStep

Spec == Init /\ [][Next]_vars

(* The task is scheduled in the end, every request ends (httpx times it out), *)
(* and a connected session's writer drains the command queue.                 *)
FairSpec == Spec /\ WF_vars(LoopStep) /\ WF_vars(Write)

-----------------------------------------------------------------------------
(* Properties *)

TypeOK ==
    /\ received \in 0 .. MaxIn
    /\ snapQ \in Seq(Envelopes) /\ Len(snapQ) <= QCap
    /\ cmdQ \in Seq([id : Nat, source : {"deep", "fast", "fallback"}])
    /\ Len(cmdQ) <= QCap
    /\ pc \in {"get", "query", "retry", "put"}
    /\ current \in Envelopes
    /\ model \in Models
    /\ command \in [id : Nat, source : {"none", "deep", "fast", "fallback"}]
    /\ consecutive_deep_timeouts \in 0 .. TimeoutLimit
    /\ deep_degraded \in BOOLEAN
    /\ chat_history \in Seq(Nat) /\ Len(chat_history) <= HistoryLimit
    /\ deepLog \in Seq(Failures \cup {"answer"})
    /\ sent \in Seq(Nat)
    /\ saved \in Seq(Seq(Nat)) /\ Len(saved) <= 1

\* A log has TimeoutLimit outcomes in a row that are in R.
RowIn(log, R) ==
    \E i \in 0 .. Len(log) - TimeoutLimit :
      \A j \in 1 .. TimeoutLimit : log[i + j] \in R

\* The deep model is given up exactly when it has failed TimeoutLimit times in
\* a row at some time: no answer in between, and no failure of the fast model,
\* brings that about or puts it off.
DegradedExactly == deep_degraded <=> RowIn(deepLog, Failures)

\* Once given up it is never asked again, whatever the router says.
DegradedForGood == [][deep_degraded => deepLog' = deepLog]_vars

\* Commands leave in the order of the snapshots they answer, none twice.
CommandsInSnapshotOrder ==
    \A i, j \in 1 .. Len(sent) : i < j => sent[i] < sent[j]

\* The conversation shown to the model holds what the game was told, in order:
\* a chat message whose command was never put is not in it.
HistoryWasSaid ==
    /\ \A i, j \in 1 .. Len(chat_history) :
         i < j => chat_history[i] < chat_history[j]
    /\ \A i \in 1 .. Len(chat_history) :
         \/ \E j \in 1 .. Len(sent) : sent[j] = chat_history[i]
         \/ pc = "put" /\ command.id = chat_history[i]

\* Whatever the models do, the loop gets back to its queue; a full command
\* queue only makes it wait for the writer.
LoopReturns == (pc # "get") ~> (pc = "get")

-----------------------------------------------------------------------------
(* The inductive invariant behind TypeOK and DegradedExactly *)

\* The counter is the length of the run of failures that ends the log, and the
\* deep model is asked only while it is not given up.
CountInv ==
    /\ consecutive_deep_timeouts <= Len(deepLog)
    /\ \A j \in 1 .. Len(deepLog) :
         j > Len(deepLog) - consecutive_deep_timeouts => deepLog[j] \in Failures
    /\ consecutive_deep_timeouts < Len(deepLog) =>
         deepLog[Len(deepLog) - consecutive_deep_timeouts] = "answer"
    /\ ~deep_degraded => consecutive_deep_timeouts < TimeoutLimit
    /\ pc = "query" /\ model = "deep" => ~deep_degraded
    /\ pc = "put" => command.source # "none"

IInv == TypeOK /\ CountInv /\ DegradedExactly

-----------------------------------------------------------------------------
(* What the specification of the bot says *)

\* spec.md:141, FR-015: "on save, the bot preserves its [...] conversation
\* history [...]; on load, it resumes exactly where it left off".
LoadResumes ==
    [][current'.type = "load" /\ current' # current /\ saved # << >>
         => chat_history' = saved[1]]_vars
=============================================================================
