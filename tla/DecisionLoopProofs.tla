------------------------- MODULE DecisionLoopProofs -------------------------
(* Proofs about DecisionLoop for every difficulty, every set of snapshots,    *)
(* every queue size, every limit on failures and on the history.              *)
EXTENDS DecisionLoop, SequenceTheorems, TLAPS

USE LimitsAssumption, SnapshotsAssumption

-----------------------------------------------------------------------------
(* Sequences *)

\* Appending keeps the old elements where they were.
LEMMA AppendKeeps ==
    ASSUME NEW S, NEW s \in Seq(S), NEW x \in S
    PROVE  /\ Append(s, x) \in Seq(S)
           /\ Len(Append(s, x)) = Len(s) + 1
           /\ Append(s, x)[Len(s) + 1] = x
           /\ \A k \in 1 .. Len(s) : Append(s, x)[k] = s[k]
  OBVIOUS

\* Taking the head leaves a shorter sequence of the same kind.
LEMMA TakeHead ==
    ASSUME NEW S, NEW s \in Seq(S), s # << >>
    PROVE  /\ Head(s) \in S
           /\ Tail(s) \in Seq(S)
           /\ Len(Tail(s)) = Len(s) - 1
           /\ Len(s) \in Nat
  OBVIOUS

\* LastOf keeps at most k elements.
LEMMA LastOfBounds ==
    ASSUME NEW S, NEW s \in Seq(S), NEW k \in Nat \ {0}
    PROVE  LastOf(s, k) \in Seq(S) /\ Len(LastOf(s, k)) <= k
<1>1. CASE Len(s) <= k
    BY <1>1 DEF LastOf
<1>2. CASE ~(Len(s) <= k)
  <2>1. LastOf(s, k) = SubSeq(s, Len(s) - k + 1, Len(s))
      BY <1>2, Zenon DEF LastOf
  <2>2. /\ Len(s) \in Nat
        /\ Len(s) - k + 1 \in 1 .. Len(s)
      BY <1>2
  <2>3. /\ SubSeq(s, Len(s) - k + 1, Len(s)) \in Seq(S)
        /\ Len(SubSeq(s, Len(s) - k + 1, Len(s))) = Len(s) - (Len(s) - k + 1) + 1
      BY <2>2
  <2> QED
      BY <2>1, <2>2, <2>3
<1> QED
    BY <1>1, <1>2

-----------------------------------------------------------------------------
(* The initial states *)

LEMMA InitIInv == Init => IInv
<1> SUFFICES ASSUME Init PROVE IInv
    OBVIOUS
<1>1. TypeOK
  <2>1. saved \in Seq(Seq(Nat)) /\ Len(saved) <= 1
    <3>1. CASE saved = << >>
        BY <3>1
    <3>2. CASE saved = << << >> >>
      <4>1. << >> \in Seq(Nat)
          OBVIOUS
      <4> QED
          BY <3>2, <4>1
    <3> QED
        BY <3>1, <3>2 DEF Init
  <2>2. current \in Envelopes
      BY DEF Init, NoEnvelope, Envelopes
  <2>3. command \in [id : Nat, source : {"none", "deep", "fast", "fallback"}]
      BY DEF Init
  <2>4. /\ received \in 0 .. MaxIn
        /\ snapQ \in Seq(Envelopes) /\ Len(snapQ) <= QCap
        /\ cmdQ \in Seq([id : Nat, source : {"deep", "fast", "fallback"}])
        /\ Len(cmdQ) <= QCap
        /\ chat_history \in Seq(Nat) /\ Len(chat_history) <= HistoryLimit
        /\ deepLog \in Seq(Failures \cup {"answer"})
        /\ sent \in Seq(Nat)
        /\ consecutive_deep_timeouts \in 0 .. TimeoutLimit
      BY DEF Init
  <2>5. /\ pc \in {"get", "query", "retry", "put"}
        /\ model \in Models
        /\ deep_degraded \in BOOLEAN
      BY DEF Init, Models
  <2> QED
      BY <2>1, <2>2, <2>3, <2>4, <2>5, Zenon DEF TypeOK
<1>2. CountInv
    BY DEF CountInv, Init
<1>3. DegradedExactly
    BY DEF DegradedExactly, RowIn, Init
<1> QED
    BY <1>1, <1>2, <1>3 DEF IInv

-----------------------------------------------------------------------------
(* Types *)

\* Every envelope has a number, and a snapshot among them a snapshot.
LEMMA EnvelopeFields ==
    \A e \in Envelopes : e.id \in Nat
  BY DEF Envelopes

LEMMA ReceiveType == TypeOK /\ ReceiveAny => TypeOK'
<1> SUFFICES ASSUME TypeOK, ReceiveAny PROVE TypeOK'
    OBVIOUS
<1>1. PICK e \in Envelopes : Receive(e)
  <2>1. received + 1 \in Nat
      BY DEF TypeOK
  <2>2. \A x \in Snapshots :
          [type |-> "snapshot", snapshot |-> x, id |-> received + 1] \in Envelopes
      BY <2>1 DEF Envelopes
  <2>3. \A t \in {"save", "load", "other"} :
          [type |-> t, id |-> received + 1] \in Envelopes
      BY <2>1 DEF Envelopes
  <2> QED
      BY <2>2, <2>3 DEF ReceiveAny
<1>2. snapQ' \in Seq(Envelopes) /\ Len(snapQ') <= QCap
    BY <1>1, AppendKeeps DEF Receive, TypeOK
<1>3. received' \in 0 .. MaxIn
    BY <1>1 DEF Receive, TypeOK
<1> QED
    BY <1>1, <1>2, <1>3 DEF Receive, TypeOK, client

LEMMA WriteType == TypeOK /\ Write => TypeOK'
<1> SUFFICES ASSUME TypeOK, Write PROVE TypeOK'
    OBVIOUS
<1> DEFINE C == [id : Nat, source : {"deep", "fast", "fallback"}]
<1>1. cmdQ' \in Seq(C) /\ Len(cmdQ') <= QCap
  <2> HIDE DEF C
  <2>1. cmdQ \in Seq(C) /\ cmdQ # << >> /\ cmdQ' = Tail(cmdQ) /\ Len(cmdQ) <= QCap
      BY DEF Write, TypeOK, C
  <2> QED
      BY <2>1, TakeHead
<1> QED
    BY <1>1 DEF Write, TypeOK, client

\* What the four kinds of envelope have in common.
LEMMA TakeType ==
    ASSUME TypeOK, NEW types, Take(types)
    PROVE  /\ snapQ' \in Seq(Envelopes) /\ Len(snapQ') <= QCap
           /\ current' \in Envelopes
           /\ pc = "get"
<1>1. snapQ \in Seq(Envelopes) /\ Len(snapQ) <= QCap
    BY DEF TypeOK
<1>2. /\ snapQ # << >> /\ snapQ' = Tail(snapQ) /\ current' = Head(snapQ)
      /\ pc = "get"
    BY DEF Take
<1> QED
    BY <1>1, <1>2, TakeHead

LEMMA TakesType ==
    TypeOK /\ (TakeOther \/ TakeSave \/ TakeLoad \/ PromptRaises \/ TakeSnapshot)
      => TypeOK'
<1>1. ASSUME TypeOK, TakeOther PROVE TypeOK'
  <2>1. Take({"other"})
      BY <1>1 DEF TakeOther
  <2> QED
      BY <1>1, <2>1, TakeType DEF TakeOther, TypeOK, client
<1>2. ASSUME TypeOK, TakeSave PROVE TypeOK'
  <2>1. Take({"save"})
      BY <1>2 DEF TakeSave
  <2>2. saved' \in Seq(Seq(Nat)) /\ Len(saved') <= 1
    <3>1. chat_history \in Seq(Nat) /\ saved' = <<chat_history>>
        BY <1>2 DEF TakeSave, TypeOK
    <3> DEFINE S == Seq(Nat)
    <3> HIDE DEF S
    <3>2. chat_history \in S /\ saved' \in Seq(S) /\ Len(saved') = 1
        BY <3>1 DEF S
    <3> QED
        BY <3>2 DEF S
  <2> QED
      BY <1>2, <2>1, <2>2, TakeType DEF TakeSave, TypeOK, client
<1>3. ASSUME TypeOK, TakeLoad PROVE TypeOK'
  <2>1. Take({"load"})
      BY <1>3 DEF TakeLoad
  <2>2. chat_history' \in Seq(Nat) /\ Len(chat_history') <= HistoryLimit
      BY <1>3 DEF TakeLoad, TypeOK
  <2> QED
      BY <1>3, <2>1, <2>2, TakeType DEF TakeLoad, TypeOK, client
<1>4. ASSUME TypeOK, TakeSnapshot PROVE TypeOK'
  <2>1. Take({"snapshot"})
      BY <1>4 DEF TakeSnapshot
  <2>2. model' \in Models /\ pc' = "query"
      BY <1>4 DEF TakeSnapshot, route, Models
  <2> QED
      BY <1>4, <2>1, <2>2, TakeType DEF TakeSnapshot, TypeOK, client
<1>5. ASSUME TypeOK, PromptRaises PROVE TypeOK'
  <2>1. Take({"snapshot"})
      BY <1>5 DEF PromptRaises
  <2> QED
      BY <1>5, <2>1, TakeType DEF PromptRaises, TypeOK, client
<1> QED
    BY <1>1, <1>2, <1>3, <1>4, <1>5

\* build() and the history, whoever decided.
LEMMA DecideType ==
    ASSUME TypeOK, NEW source \in {"deep", "fast", "fallback"}, NEW r, Decide(source, r)
    PROVE  /\ pc' \in {"get", "put"}
           /\ command' \in [id : Nat, source : {"none", "deep", "fast", "fallback"}]
           /\ chat_history' \in Seq(Nat) /\ Len(chat_history') <= HistoryLimit
           /\ pc' = "put" => command'.source # "none"
<1>1. current.id \in Nat
    BY EnvelopeFields DEF TypeOK
<1>2. /\ chat_history \in Seq(Nat) /\ Len(chat_history) <= HistoryLimit
      /\ command \in [id : Nat, source : {"none", "deep", "fast", "fallback"}]
    BY DEF TypeOK
<1>3. CASE r = "malformed"
    BY <1>2, <1>3 DEF Decide
<1>4. CASE r # "malformed"
  <2>1. Append(chat_history, current.id) \in Seq(Nat)
      BY <1>1, <1>2, AppendKeeps
  <2>2. /\ LastOf(Append(chat_history, current.id), HistoryLimit) \in Seq(Nat)
        /\ Len(LastOf(Append(chat_history, current.id), HistoryLimit)) <= HistoryLimit
      BY <2>1, LastOfBounds
  <2>3. /\ pc' = "put"
        /\ command' = [id |-> current.id, source |-> source]
        /\ chat_history' = IF r = "chat"
                           THEN LastOf(Append(chat_history, current.id), HistoryLimit)
                           ELSE chat_history
      BY <1>4, Zenon DEF Decide
  <2> HIDE DEF LastOf
  <2> QED
      BY <1>1, <1>2, <2>2, <2>3
<1> QED
    BY <1>3, <1>4

LEMMA DeepFailsType ==
    ASSUME IInv, NEW r \in Failures, DeepFails(r) PROVE TypeOK'
<1>1. TypeOK /\ consecutive_deep_timeouts < TimeoutLimit
    BY DEF IInv, CountInv, DeepFails
<1>2. consecutive_deep_timeouts' \in 0 .. TimeoutLimit
    BY <1>1 DEF DeepFails, TypeOK
<1>3. deepLog' \in Seq(Failures \cup {"answer"})
    BY <1>1, AppendKeeps DEF DeepFails, TypeOK
<1>4. deep_degraded' \in BOOLEAN
    BY <1>1 DEF DeepFails, TypeOK
<1> QED
    BY <1>1, <1>2, <1>3, <1>4 DEF DeepFails, TypeOK, Models

LEMMA DeepAnswersType ==
    ASSUME TypeOK, NEW r \in Decisions, DeepAnswers(r) PROVE TypeOK'
<1>1. Decide("deep", r)
    BY DEF DeepAnswers
<1>2. deepLog' \in Seq(Failures \cup {"answer"})
    BY AppendKeeps DEF DeepAnswers, TypeOK
<1> QED
    BY <1>1, <1>2, DecideType DEF DeepAnswers, TypeOK

LEMMA FastType ==
    ASSUME TypeOK, NEW r, FastAnswers(r) \/ FastFails(r) PROVE TypeOK'
<1>1. PICK source \in {"fast", "fallback"} : \E d : Decide(source, d)
    BY DEF FastAnswers, FastFails
<1> QED
    BY <1>1, DecideType DEF FastAnswers, FastFails, TypeOK, client

LEMMA PutCommandType ==
    ASSUME IInv, PutCommand PROVE TypeOK'
<1> DEFINE C == [id : Nat, source : {"deep", "fast", "fallback"}]
<1>1. TypeOK /\ command.source # "none"
    BY DEF IInv, CountInv, PutCommand
<1>2. command \in C /\ command.id \in Nat
    BY <1>1 DEF TypeOK
<1>3. cmdQ' \in Seq(C) /\ Len(cmdQ') <= QCap
  <2> HIDE DEF C
  <2>1. /\ cmdQ \in Seq(C) /\ Len(cmdQ) < QCap
        /\ cmdQ' = Append(cmdQ, command)
      BY <1>1 DEF PutCommand, TypeOK, C
  <2> QED
      BY <1>2, <2>1, AppendKeeps
<1>4. sent' \in Seq(Nat)
    BY <1>1, <1>2, AppendKeeps DEF PutCommand, TypeOK
<1> QED
    BY <1>1, <1>3, <1>4 DEF PutCommand, TypeOK, client

-----------------------------------------------------------------------------
(* The count of failures *)

\* A row of failures in a log with one more outcome was there before, or it
\* ends with that outcome.
LEMMA RowAppend ==
    ASSUME NEW S, NEW R, NEW log \in Seq(S), NEW x \in S, NEW more, more = Append(log, x)
    PROVE  RowIn(more, R) <=>
             \/ RowIn(log, R)
             \/ /\ TimeoutLimit <= Len(log) + 1
                /\ x \in R
                /\ \A j \in 1 .. Len(log) :
                     j > Len(log) + 1 - TimeoutLimit => log[j] \in R
<1> DEFINE L == Len(log)
<1>1. /\ L \in Nat
      /\ Len(more) = L + 1
      /\ more[L + 1] = x
      /\ \A k \in 1 .. L : more[k] = log[k]
    BY AppendKeeps
<1>2. RowIn(more, R) <=> \E i \in 0 .. L + 1 - TimeoutLimit :
                              \A j \in 1 .. TimeoutLimit : more[i + j] \in R
  <2>1. 0 .. Len(more) - TimeoutLimit = 0 .. L + 1 - TimeoutLimit
      BY <1>1
  <2> HIDE DEF L
  <2> QED
      BY <2>1 DEF RowIn
<1>3. RowIn(log, R) <=> \E i \in 0 .. L - TimeoutLimit :
                             \A j \in 1 .. TimeoutLimit : log[i + j] \in R
    BY DEF RowIn
<1> HIDE DEF L
<1>4. ASSUME NEW i \in 0 .. L - TimeoutLimit
      PROVE  \A j \in 1 .. TimeoutLimit : more[i + j] = log[i + j]
    BY <1>1
<1>5. ASSUME TimeoutLimit <= L + 1
      PROVE  (\A j \in 1 .. TimeoutLimit : more[L + 1 - TimeoutLimit + j] \in R)
               <=> /\ x \in R
                   /\ \A j \in 1 .. L : j > L + 1 - TimeoutLimit => log[j] \in R
  <2> DEFINE s == L + 1 - TimeoutLimit
  <2>1. s \in 0 .. L
      BY <1>1, <1>5
  <2>2. ASSUME \A j \in 1 .. TimeoutLimit : more[s + j] \in R
        PROVE  /\ x \in R
               /\ \A j \in 1 .. L : j > s => log[j] \in R
    <3>1. x \in R
      <4>1. TimeoutLimit \in 1 .. TimeoutLimit /\ s + TimeoutLimit = L + 1
          BY <1>1
      <4> QED
          BY <1>1, <2>2, <4>1
    <3>2. ASSUME NEW j \in 1 .. L, j > s PROVE log[j] \in R
      <4>1. j - s \in 1 .. TimeoutLimit /\ s + (j - s) = j
          BY <1>1, <3>2
      <4>2. more[s + (j - s)] \in R
          BY <2>2, <4>1
      <4> QED
          BY <1>1, <4>1, <4>2
    <3> QED
        BY <3>1, <3>2
  <2>3. ASSUME x \in R,
               \A j \in 1 .. L : j > s => log[j] \in R,
               NEW j \in 1 .. TimeoutLimit
        PROVE  more[s + j] \in R
    <3>1. s + j \in 1 .. L + 1 /\ s + j > s
        BY <1>1, <2>1
    <3> QED
        BY <1>1, <2>3, <3>1
  <2> QED
      BY <2>2, <2>3
<1>6. 0 .. L + 1 - TimeoutLimit =
        (0 .. L - TimeoutLimit) \cup
          (IF TimeoutLimit <= L + 1 THEN {L + 1 - TimeoutLimit} ELSE {})
    BY <1>1
<1>7. RowIn(more, R) <=>
        \/ \E i \in 0 .. L - TimeoutLimit :
             \A j \in 1 .. TimeoutLimit : more[i + j] \in R
        \/ /\ TimeoutLimit <= L + 1
           /\ \A j \in 1 .. TimeoutLimit : more[L + 1 - TimeoutLimit + j] \in R
    BY <1>2, <1>6, Zenon
<1>8. (\E i \in 0 .. L - TimeoutLimit :
         \A j \in 1 .. TimeoutLimit : more[i + j] \in R) <=> RowIn(log, R)
    BY <1>3, <1>4
<1> QED
    BY <1>5, <1>7, <1>8 DEF L

LEMMA DeepFailsCount ==
    ASSUME IInv, NEW r \in Failures, DeepFails(r)
    PROVE  CountInv' /\ DegradedExactly'
<1> DEFINE L == Len(deepLog)
           c == consecutive_deep_timeouts
<1>1. /\ TypeOK /\ c \in Nat /\ c < TimeoutLimit /\ c <= L /\ L \in Nat
      /\ ~deep_degraded /\ ~RowIn(deepLog, Failures)
    BY DEF IInv, TypeOK, CountInv, DegradedExactly, DeepFails
<1>2. /\ deepLog' = Append(deepLog, r)
      /\ c' = c + 1
      /\ deep_degraded' <=> c + 1 >= TimeoutLimit
      /\ pc' = "retry"
    BY <1>1 DEF DeepFails
<1>3. /\ Len(deepLog') = L + 1
      /\ deepLog'[L + 1] = r
      /\ \A k \in 1 .. L : deepLog'[k] = deepLog[k]
    BY <1>1, <1>2, AppendKeeps DEF TypeOK
<1>4. /\ \A j \in 1 .. L : j > L - c => deepLog[j] \in Failures
      /\ c < L => deepLog[L - c] = "answer"
    BY DEF IInv, CountInv
<1>5. deep_degraded' \in BOOLEAN /\ deep_degraded \in BOOLEAN
    BY DeepFailsType DEF TypeOK, IInv
<1>6. CountInv'
  <2> HIDE DEF L, c
  <2>1. c' <= L + 1
      BY <1>1, <1>2
  <2>2. \A j \in 1 .. L + 1 : j > (L + 1) - c' => deepLog'[j] \in Failures
      BY <1>1, <1>2, <1>3, <1>4
  <2>3. c' < L + 1 => deepLog'[(L + 1) - c'] = "answer"
      BY <1>1, <1>2, <1>3, <1>4
  <2>4. ~deep_degraded' => c' < TimeoutLimit
      BY <1>1, <1>2
  <2> QED
      BY <1>2, <1>3, <2>1, <2>2, <2>3, <2>4 DEF CountInv, c
<1>9. /\ deepLog \in Seq(Failures \cup {"answer"})
      /\ r \in Failures \cup {"answer"}
    BY <1>1 DEF TypeOK
<1>7. RowIn(deepLog', Failures) <=>
        /\ TimeoutLimit <= L + 1
        /\ \A j \in 1 .. L : j > L + 1 - TimeoutLimit => deepLog[j] \in Failures
    BY <1>1, <1>2, <1>9, RowAppend
<1>8. RowIn(deepLog', Failures) <=> c + 1 >= TimeoutLimit
  <2> HIDE DEF L, c
  <2>1. ASSUME c + 1 >= TimeoutLimit PROVE RowIn(deepLog', Failures)
      BY <1>1, <1>4, <1>7, <2>1
  <2>2. ASSUME RowIn(deepLog', Failures), ~(c + 1 >= TimeoutLimit) PROVE FALSE
    <3>1. /\ L - c \in 1 .. L /\ L - c > L + 1 - TimeoutLimit
          /\ c < L
        BY <1>1, <1>7, <2>2
    <3> QED
        BY <1>4, <1>7, <2>2, <3>1 DEF Failures
  <2> QED
      BY <2>1, <2>2
<1> QED
    BY <1>2, <1>6, <1>8 DEF DegradedExactly

LEMMA DeepAnswersCount ==
    ASSUME IInv, NEW r \in Decisions, DeepAnswers(r)
    PROVE  CountInv' /\ DegradedExactly'
<1>1. TypeOK /\ ~deep_degraded /\ ~RowIn(deepLog, Failures)
    BY DEF IInv, CountInv, DegradedExactly, DeepAnswers
<1>2. /\ deepLog' = Append(deepLog, "answer")
      /\ consecutive_deep_timeouts' = 0
      /\ deep_degraded' = deep_degraded
      /\ Decide("deep", r)
    BY DEF DeepAnswers
<1>3. /\ Len(deepLog') = Len(deepLog) + 1
      /\ Len(deepLog) \in Nat
      /\ deepLog'[Len(deepLog) + 1] = "answer"
    BY <1>1, <1>2, AppendKeeps DEF TypeOK
<1>4. CountInv'
    BY <1>1, <1>2, <1>3, DecideType DEF CountInv
<1>9. deepLog \in Seq(Failures \cup {"answer"})
    BY <1>1 DEF TypeOK
<1>5. "answer" \notin Failures
    BY DEF Failures
<1>6. "answer" \in Failures \cup {"answer"}
    OBVIOUS
<1>7. ~RowIn(deepLog', Failures)
    BY <1>1, <1>2, <1>5, <1>6, <1>9, RowAppend
<1> QED
    BY <1>1, <1>2, <1>4, <1>7 DEF DegradedExactly

\* The other actions touch neither the count nor the log.
LEMMA OthersCount ==
    ASSUME IInv,
           \/ ReceiveAny \/ Write \/ TakeOther \/ TakeSave \/ TakeLoad \/ PromptRaises
           \/ TakeSnapshot \/ PutCommand \/ UNCHANGED vars
           \/ \E r : FastAnswers(r) \/ FastFails(r)
    PROVE  CountInv' /\ DegradedExactly'
<1>1. UNCHANGED client
    BY DEF ReceiveAny, Receive, Write, TakeOther, TakeSave, TakeLoad, PromptRaises, TakeSnapshot,
           PutCommand, vars, FastAnswers, FastFails
<1>2. UNCHANGED <<deepLog, consecutive_deep_timeouts, deep_degraded>>
    BY <1>1 DEF client
<1>3. DegradedExactly'
    BY <1>2 DEF IInv, DegradedExactly
<1>4. /\ pc' = "query" /\ model' = "deep" => ~deep_degraded'
      /\ pc' = "put" => command'.source # "none"
  <2>1. CASE ReceiveAny \/ Write \/ TakeOther \/ TakeSave \/ TakeLoad \/ PromptRaises
             \/ UNCHANGED vars
    <3>1. UNCHANGED <<pc, model, command>>
        BY <2>1 DEF ReceiveAny, Receive, Write, TakeOther, TakeSave, TakeLoad, PromptRaises, vars
    <3> QED
        BY <1>2, <3>1 DEF IInv, CountInv
  <2>2. CASE TakeSnapshot
      BY <1>2, <2>2 DEF TakeSnapshot
  <2>3. CASE PutCommand
      BY <2>3 DEF PutCommand
  <2>4. ASSUME NEW r, FastAnswers(r) \/ FastFails(r)
        PROVE  /\ pc' = "query" /\ model' = "deep" => ~deep_degraded'
               /\ pc' = "put" => command'.source # "none"
    <3>1. PICK source \in {"fast", "fallback"} : \E d : Decide(source, d)
        BY <2>4 DEF FastAnswers, FastFails
    <3> QED
        BY <3>1, DecideType DEF IInv
  <2> QED
      BY <2>1, <2>2, <2>3, <2>4
<1>5. CountInv'
    BY <1>2, <1>4 DEF IInv, CountInv
<1> QED
    BY <1>3, <1>5

LEMMA StepIInv == IInv /\ [Next]_vars => IInv'
<1> SUFFICES ASSUME IInv, [Next]_vars PROVE IInv'
    OBVIOUS
<1>0. TypeOK
    BY DEF IInv
<1>1. CASE ReceiveAny
    BY <1>0, <1>1, ReceiveType, OthersCount DEF IInv
<1>2. CASE Write
    BY <1>0, <1>2, WriteType, OthersCount DEF IInv
<1>3. CASE TakeOther \/ TakeSave \/ TakeLoad \/ PromptRaises \/ TakeSnapshot
    BY <1>0, <1>3, TakesType, OthersCount DEF IInv
<1>4. ASSUME NEW r \in Failures, DeepFails(r) PROVE IInv'
    BY <1>4, DeepFailsType, DeepFailsCount DEF IInv
<1>5. ASSUME NEW r \in Decisions, DeepAnswers(r) PROVE IInv'
    BY <1>0, <1>5, DeepAnswersType, DeepAnswersCount DEF IInv
<1>6. ASSUME NEW r, FastAnswers(r) \/ FastFails(r) PROVE IInv'
    BY <1>0, <1>6, FastType, OthersCount DEF IInv
<1>7. CASE PutCommand
    BY <1>7, PutCommandType, OthersCount DEF IInv
<1>8. CASE UNCHANGED vars
  <2>1. TypeOK'
      BY <1>0, <1>8 DEF TypeOK, vars, client
  <2> QED
      BY <1>8, <2>1, OthersCount DEF IInv
<1> QED
    BY <1>1, <1>2, <1>3, <1>4, <1>5, <1>6, <1>7, <1>8 DEF Next, LoopStep

-----------------------------------------------------------------------------
(* The order of commands and of the conversation *)

Ascending(s) == \A i, j \in 1 .. Len(s) : i < j => s[i] < s[j]

\* Envelopes are numbered in the order in which they came, and the one that the
\* loop works on came before those still in the queue.
QueueInv ==
    /\ current.id <= received
    /\ \A i \in 1 .. Len(snapQ) : current.id < snapQ[i].id /\ snapQ[i].id <= received
    /\ \A i, j \in 1 .. Len(snapQ) : i < j => snapQ[i].id < snapQ[j].id

\* What was sent is older than the envelope in work, or is its command.
SentInv ==
    /\ \A i \in 1 .. Len(sent) :
         sent[i] <= current.id /\ (pc # "get" => sent[i] < current.id)
    /\ pc = "put" => command.id = current.id

OrderInv ==
    /\ QueueInv /\ SentInv
    /\ CommandsInSnapshotOrder /\ HistoryWasSaid

\* An ascending sequence stays so when something larger is appended.
LEMMA AppendAscends ==
    ASSUME NEW s \in Seq(Nat), NEW x \in Nat, Ascending(s),
           \A i \in 1 .. Len(s) : s[i] < x
    PROVE  Ascending(Append(s, x))
<1> DEFINE t == Append(s, x)
<1>1. /\ Len(s) \in Nat /\ Len(t) = Len(s) + 1 /\ t[Len(s) + 1] = x
      /\ \A k \in 1 .. Len(s) : t[k] = s[k] /\ s[k] \in Nat
    BY AppendKeeps
<1> HIDE DEF t
<1>2. ASSUME NEW i \in 1 .. Len(t), NEW j \in 1 .. Len(t), i < j PROVE t[i] < t[j]
  <2>1. i \in 1 .. Len(s) /\ t[i] = s[i]
      BY <1>1, <1>2
  <2>2. CASE j = Len(s) + 1
      BY <1>1, <2>1, <2>2
  <2>3. CASE j \in 1 .. Len(s)
      BY <1>1, <1>2, <2>1, <2>3 DEF Ascending
  <2>4. j = Len(s) + 1 \/ j \in 1 .. Len(s)
      BY <1>1
  <2> QED
      BY <2>2, <2>3, <2>4
<1> QED
    BY <1>2 DEF Ascending, t

\* LastOf leaves out some elements at the front, never all.
LEMMA LastOfShifts ==
    ASSUME NEW S, NEW s \in Seq(S), s # << >>, NEW k \in Nat \ {0}
    PROVE  \E d \in 0 .. Len(s) - 1 :
             /\ Len(LastOf(s, k)) = Len(s) - d
             /\ \A i \in 1 .. Len(s) - d : LastOf(s, k)[i] = s[i + d]
<1>1. Len(s) \in Nat \ {0}
    OBVIOUS
<1>2. CASE Len(s) <= k
  <2>1. LastOf(s, k) = s
      BY <1>2 DEF LastOf
  <2>2. Len(s) = Len(s) - 0 /\ \A i \in 1 .. Len(s) - 0 : s[i] = s[i + 0]
      BY <1>1
  <2>3. 0 \in 0 .. Len(s) - 1
      BY <1>1
  <2> QED
      BY <2>1, <2>2, <2>3
<1>3. CASE ~(Len(s) <= k)
  <2> DEFINE d == Len(s) - k
             t == SubSeq(s, d + 1, Len(s))
  <2>1. LastOf(s, k) = t
      BY <1>3, Zenon DEF LastOf
  <2>2. d \in 0 .. Len(s) - 1
      BY <1>1, <1>3
  <2>3. Len(t) = Len(s) - d /\ \A i \in 1 .. Len(s) - d : t[i] = s[i + d]
      BY <1>1, <2>2
  <2> HIDE DEF d, t
  <2> QED
      BY <2>1, <2>2, <2>3
<1> QED
    BY <1>2, <1>3

\* Nothing has been received at first.
LEMMA InitOrder == Init => OrderInv
  BY DEF Init, NoEnvelope, OrderInv, QueueInv, SentInv,
         CommandsInSnapshotOrder, HistoryWasSaid

\* The numbers in the queue, as TypeOK gives them.
LEMMA QueueNumbers ==
    ASSUME TypeOK
    PROVE  /\ received \in Nat /\ current.id \in Nat
           /\ Len(snapQ) \in Nat /\ \A i \in 1 .. Len(snapQ) : snapQ[i].id \in Nat
<1>1. \A i \in 1 .. Len(snapQ) : snapQ[i] \in Envelopes
    BY DEF TypeOK
<1> QED
    BY <1>1, EnvelopeFields DEF TypeOK

\* An envelope joins the queue with a number of its own, after all the others.
LEMMA ReceiveOrder == TypeOK /\ OrderInv /\ ReceiveAny => OrderInv'
<1> SUFFICES ASSUME TypeOK, OrderInv, ReceiveAny PROVE OrderInv'
    OBVIOUS
<1>1. PICK e \in Envelopes : Receive(e) /\ e.id = received + 1
  <2>1. received + 1 \in Nat
      BY DEF TypeOK
  <2>2. \A x \in Snapshots :
          [type |-> "snapshot", snapshot |-> x, id |-> received + 1] \in Envelopes
      BY <2>1 DEF Envelopes
  <2>3. \A t \in {"save", "load", "other"} :
          [type |-> t, id |-> received + 1] \in Envelopes
      BY <2>1 DEF Envelopes
  <2> QED
      BY <2>2, <2>3 DEF ReceiveAny
<1>2. /\ Len(snapQ') = Len(snapQ) + 1
      /\ snapQ'[Len(snapQ) + 1] = e
      /\ \A k \in 1 .. Len(snapQ) : snapQ'[k] = snapQ[k]
    BY <1>1, AppendKeeps DEF Receive, TypeOK
<1>3. UNCHANGED <<pc, current, command, chat_history, sent>>
    BY <1>1 DEF Receive
<1>4. received' = received + 1
    BY <1>1 DEF Receive
<1>5. QueueInv'
  <2>1. /\ received \in Nat /\ current.id \in Nat
        /\ Len(snapQ) \in Nat /\ \A i \in 1 .. Len(snapQ) : snapQ[i].id \in Nat
      BY QueueNumbers
  <2>2. QueueInv
      BY DEF OrderInv
  <2>3. \A i \in 1 .. Len(snapQ') : i \in 1 .. Len(snapQ) \/ i = Len(snapQ) + 1
      BY <1>2, <2>1
  <2>4. /\ current.id <= received
        /\ \A i \in 1 .. Len(snapQ) :
             snapQ'[i].id \in Nat /\ current.id < snapQ'[i].id /\ snapQ'[i].id <= received
        /\ snapQ'[Len(snapQ) + 1].id = received + 1
      BY <1>1, <1>2, <2>1, <2>2 DEF QueueInv
  <2>5. /\ current'.id <= received'
        /\ \A i \in 1 .. Len(snapQ') : current'.id < snapQ'[i].id /\ snapQ'[i].id <= received'
      BY <1>3, <1>4, <2>1, <2>3, <2>4
  <2>6. ASSUME NEW i \in 1 .. Len(snapQ'), NEW j \in 1 .. Len(snapQ'), i < j
        PROVE  snapQ'[i].id < snapQ'[j].id
    <3>1. i \in 1 .. Len(snapQ)
        BY <1>2, <2>1, <2>6
    <3>2. CASE j = Len(snapQ) + 1
        BY <2>1, <2>4, <3>1, <3>2
    <3>3. CASE j \in 1 .. Len(snapQ)
        BY <1>2, <2>2, <2>6, <3>1, <3>3 DEF QueueInv
    <3> QED
        BY <2>3, <3>2, <3>3
  <2> QED
      BY <2>5, <2>6 DEF QueueInv
<1> QED
    BY <1>3, <1>5 DEF OrderInv, SentInv, CommandsInSnapshotOrder,
         HistoryWasSaid

\* Whatever is taken is newer than what was in work before.
LEMMA TakeQueue ==
    ASSUME TypeOK, OrderInv, NEW types, Take(types), UNCHANGED received
    PROVE  /\ QueueInv'
           /\ current'.id \in Nat /\ current.id < current'.id
           /\ current'.type \in types
<1>1. /\ snapQ \in Seq(Envelopes) /\ snapQ # << >>
      /\ current' = Head(snapQ) /\ snapQ' = Tail(snapQ)
    BY DEF Take, TypeOK
<1>2. /\ Len(snapQ) \in Nat \ {0} /\ Len(snapQ') = Len(snapQ) - 1
      /\ current' = snapQ[1]
      /\ \A i \in 1 .. Len(snapQ) - 1 : snapQ'[i] = snapQ[i + 1]
    BY <1>1
<1>3. \A i \in 1 .. Len(snapQ') :
        /\ current'.id < snapQ'[i].id /\ snapQ'[i].id <= received
        /\ \A j \in 1 .. Len(snapQ') : i < j => snapQ'[i].id < snapQ'[j].id
  <2>1. QueueInv /\ \A i \in 1 .. Len(snapQ) : snapQ[i].id \in Nat
      BY QueueNumbers DEF OrderInv
  <2> SUFFICES ASSUME NEW i \in 1 .. Len(snapQ')
               PROVE  /\ current'.id < snapQ'[i].id /\ snapQ'[i].id <= received
                      /\ \A j \in 1 .. Len(snapQ') : i < j => snapQ'[i].id < snapQ'[j].id
      OBVIOUS
  <2>2. /\ 1 \in 1 .. Len(snapQ) /\ i + 1 \in 1 .. Len(snapQ)
        /\ snapQ'[i] = snapQ[i + 1]
      BY <1>2
  <2>3. current'.id < snapQ'[i].id /\ snapQ'[i].id <= received
      BY <1>2, <2>1, <2>2 DEF QueueInv
  <2>4. ASSUME NEW j \in 1 .. Len(snapQ'), i < j PROVE snapQ'[i].id < snapQ'[j].id
    <3>1. j + 1 \in 1 .. Len(snapQ) /\ snapQ'[j] = snapQ[j + 1] /\ i + 1 < j + 1
        BY <1>2, <2>4
    <3> QED
        BY <2>1, <2>2, <3>1 DEF QueueInv
  <2> QED
      BY <2>3, <2>4
<1>4. /\ received \in Nat /\ current.id \in Nat
      /\ \A i \in 1 .. Len(snapQ) : snapQ[i].id \in Nat
      /\ QueueInv
    BY QueueNumbers DEF OrderInv
<1> QED
    BY <1>2, <1>3, <1>4 DEF QueueInv, Take

\* Taking the next envelope makes everything that was sent older.
LEMMA TakesOrder ==
    TypeOK /\ OrderInv /\ (TakeOther \/ TakeSave \/ TakeLoad \/ PromptRaises \/ TakeSnapshot)
      => OrderInv'
<1> SUFFICES ASSUME TypeOK, OrderInv,
                    TakeOther \/ TakeSave \/ TakeLoad \/ PromptRaises \/ TakeSnapshot
             PROVE  OrderInv'
    OBVIOUS
<1>1. PICK types : Take(types) /\ (TakeSnapshot => types = {"snapshot"})
    BY DEF TakeOther, TakeSave, TakeLoad, PromptRaises, TakeSnapshot
<1>2. /\ UNCHANGED <<received, sent, command>>
      /\ pc = "get" /\ pc' \in {"get", "query"}
      /\ pc' = "query" => TakeSnapshot
      /\ chat_history' \in {chat_history, << >>}
      /\ TakeSnapshot => UNCHANGED chat_history
    BY <1>1 DEF TakeOther, TakeSave, TakeLoad, PromptRaises, TakeSnapshot, Take
<1>3. /\ QueueInv'
      /\ current'.id \in Nat /\ current.id < current'.id
      /\ current'.type \in types
    BY <1>1, <1>2, TakeQueue
<1>4. current.id \in Nat /\ sent \in Seq(Nat)
  <2>1. current.id \in Nat
      BY QueueNumbers
  <2> QED
      BY <2>1 DEF TypeOK
<1>5. SentInv'
    BY <1>2, <1>3, <1>4 DEF OrderInv, SentInv
<1>7. /\ CommandsInSnapshotOrder' /\ HistoryWasSaid'
    BY <1>2 DEF OrderInv, CommandsInSnapshotOrder, HistoryWasSaid
<1> QED
    BY <1>3, <1>5, <1>7 DEF OrderInv

\* A decision, with chat or without: the message is newer than the history.
LEMMA DecideOrder ==
    ASSUME TypeOK, OrderInv, NEW source, NEW r, Decide(source, r),
           pc \in {"query", "retry"},
           UNCHANGED <<received, snapQ, current, sent>>
    PROVE  OrderInv'
<1>1. /\ current.id \in Nat /\ chat_history \in Seq(Nat) /\ Len(chat_history) \in Nat
      /\ \A i \in 1 .. Len(sent) : sent[i] \in Nat /\ sent[i] < current.id
      /\ \A i \in 1 .. Len(chat_history) : chat_history[i] \in Nat
  <2>1. current.id \in Nat
      BY QueueNumbers
  <2>2. sent \in Seq(Nat) /\ chat_history \in Seq(Nat)
      BY DEF TypeOK
  <2> QED
      BY <2>1, <2>2 DEF OrderInv, SentInv
<1>2. \A i \in 1 .. Len(chat_history) :
        /\ chat_history[i] < current.id
        /\ \E j \in 1 .. Len(sent) : sent[j] = chat_history[i]
    BY <1>1 DEF OrderInv, HistoryWasSaid
<1>3. QueueInv' /\ CommandsInSnapshotOrder'
    BY DEF OrderInv, QueueInv, CommandsInSnapshotOrder
<1>5. CASE r = "malformed" \/ (r # "malformed" /\ r # "chat")
  <2>1. /\ chat_history' = chat_history
        /\ pc' = "get" \/ (pc' = "put" /\ command'.id = current.id)
      BY <1>5 DEF Decide
  <2>2. SentInv'
      BY <1>1, <2>1 DEF OrderInv, SentInv
  <2>3. HistoryWasSaid'
      BY <1>2, <2>1 DEF OrderInv, HistoryWasSaid
  <2> QED
      BY <1>3, <2>2, <2>3 DEF OrderInv
<1>6. CASE r = "chat"
  <2> DEFINE longer == Append(chat_history, current.id)
  <2>1. /\ pc' = "put" /\ command'.id = current.id
        /\ chat_history' = LastOf(longer, HistoryLimit)
      BY <1>6 DEF Decide
  <2>2. /\ longer \in Seq(Nat) /\ Len(longer) = Len(chat_history) + 1
        /\ longer[Len(chat_history) + 1] = current.id
        /\ \A k \in 1 .. Len(chat_history) : longer[k] = chat_history[k]
      BY <1>1, AppendKeeps
  <2>3. Ascending(longer)
      BY <1>1, <1>2, AppendAscends DEF OrderInv, HistoryWasSaid, Ascending
  <2> HIDE DEF longer
  <2>4. longer # << >>
      BY <1>1, <2>2
  <2>5. PICK d \in 0 .. Len(longer) - 1 :
          /\ Len(chat_history') = Len(longer) - d
          /\ \A i \in 1 .. Len(longer) - d : chat_history'[i] = longer[i + d]
    <3>0. longer \in Seq(Nat) /\ longer # << >>
        BY <2>2, <2>4
    <3>1. \E d \in 0 .. Len(longer) - 1 :
            /\ Len(LastOf(longer, HistoryLimit)) = Len(longer) - d
            /\ \A i \in 1 .. Len(longer) - d :
                 LastOf(longer, HistoryLimit)[i] = longer[i + d]
        BY <3>0, LastOfShifts
    <3> QED
        BY <2>1, <3>1
  <2>6. SentInv'
      BY <1>1, <2>1 DEF OrderInv, SentInv
  <2>7. HistoryWasSaid'
    <3>1. ASSUME NEW i \in 1 .. Len(chat_history'), NEW j \in 1 .. Len(chat_history'), i < j
          PROVE  chat_history'[i] < chat_history'[j]
      <4>0. i \in 1 .. Len(longer) - d /\ j \in 1 .. Len(longer) - d /\ Len(longer) \in Nat
          BY <2>2, <2>5
      <4>1. /\ i + d \in 1 .. Len(longer) /\ j + d \in 1 .. Len(longer) /\ i + d < j + d
            /\ chat_history'[i] = longer[i + d] /\ chat_history'[j] = longer[j + d]
          BY <2>5, <3>1, <4>0
      <4> QED
          BY <2>3, <4>1 DEF Ascending
    <3>2. ASSUME NEW i \in 1 .. Len(chat_history')
          PROVE  \/ \E j \in 1 .. Len(sent') : sent'[j] = chat_history'[i]
                 \/ pc' = "put" /\ command'.id = chat_history'[i]
      <4>0. i \in 1 .. Len(longer) - d /\ Len(longer) = Len(chat_history) + 1
          BY <2>2, <2>5
      <4>1. chat_history'[i] = longer[i + d]
          BY <2>5, <4>0
      <4>2. i + d = Len(chat_history) + 1 \/ i + d \in 1 .. Len(chat_history)
        <5>1. Len(chat_history) \in Nat /\ i \in Int /\ d \in Nat
            BY <1>1
        <5> QED
            BY <4>0, <5>1
      <4>3. CASE i + d = Len(chat_history) + 1
          BY <2>1, <2>2, <4>1, <4>3
      <4>4. CASE i + d \in 1 .. Len(chat_history)
        <5>1. chat_history'[i] = chat_history[i + d]
            BY <2>2, <4>1, <4>4
        <5> QED
            BY <1>2, <4>4, <5>1
      <4> QED
          BY <4>2, <4>3, <4>4
    <3> QED
        BY <3>1, <3>2 DEF HistoryWasSaid
  <2> QED
      BY <1>3, <2>6, <2>7 DEF OrderInv
<1> QED
    BY <1>5, <1>6

\* A command is queued with the number of the envelope in work.
LEMMA PutCommandOrder == TypeOK /\ OrderInv /\ PutCommand => OrderInv'
<1> SUFFICES ASSUME TypeOK, OrderInv, PutCommand PROVE OrderInv'
    OBVIOUS
<1>1. /\ pc = "put" /\ pc' = "get" /\ command.id = current.id
      /\ sent' = Append(sent, current.id)
      /\ UNCHANGED <<received, snapQ, current, chat_history>>
    BY DEF PutCommand, OrderInv, SentInv
<1>2. /\ current.id \in Nat /\ sent \in Seq(Nat) /\ Len(sent) \in Nat
      /\ \A i \in 1 .. Len(sent) : sent[i] \in Nat /\ sent[i] < current.id
  <2>1. current.id \in Nat
      BY QueueNumbers
  <2>2. sent \in Seq(Nat)
      BY DEF TypeOK
  <2> QED
      BY <1>1, <2>1, <2>2 DEF OrderInv, SentInv
<1>3. /\ Len(sent') = Len(sent) + 1 /\ sent'[Len(sent) + 1] = current.id
      /\ \A i \in 1 .. Len(sent) : sent'[i] = sent[i]
    BY <1>1, <1>2, AppendKeeps
<1>4. CommandsInSnapshotOrder'
    BY <1>1, <1>2, AppendAscends DEF OrderInv, CommandsInSnapshotOrder, Ascending
<1>5. SentInv'
    BY <1>1, <1>2, <1>3 DEF OrderInv, SentInv
<1>6. HistoryWasSaid'
  <2>1. \A i \in 1 .. Len(sent) : i \in 1 .. Len(sent')
      BY <1>2, <1>3
  <2>2. Len(sent) + 1 \in 1 .. Len(sent')
      BY <1>2, <1>3
  <2>3. ASSUME NEW i \in 1 .. Len(chat_history)
        PROVE  \E j \in 1 .. Len(sent') : sent'[j] = chat_history[i]
    <3>1. CASE \E j \in 1 .. Len(sent) : sent[j] = chat_history[i]
        BY <1>3, <2>1, <3>1
    <3>2. CASE command.id = chat_history[i]
        BY <1>1, <1>3, <2>2, <3>2
    <3> QED
        BY <3>1, <3>2 DEF OrderInv, HistoryWasSaid
  <2> QED
      BY <1>1, <2>3 DEF OrderInv, HistoryWasSaid
<1>8. QueueInv'
    BY <1>1 DEF OrderInv, QueueInv
<1> QED
    BY <1>4, <1>5, <1>6, <1>8 DEF OrderInv

\* Every step keeps the order.
LEMMA StepOrder == TypeOK /\ OrderInv /\ [Next]_vars => OrderInv'
<1> SUFFICES ASSUME TypeOK, OrderInv, [Next]_vars PROVE OrderInv'
    OBVIOUS
<1>1. CASE ReceiveAny
    BY <1>1, ReceiveOrder
<1>2. CASE Write \/ UNCHANGED vars
    BY <1>2 DEF Write, vars, OrderInv, QueueInv, SentInv,
         CommandsInSnapshotOrder, HistoryWasSaid
<1>3. CASE TakeOther \/ TakeSave \/ TakeLoad \/ PromptRaises \/ TakeSnapshot
    BY <1>3, TakesOrder
<1>4. ASSUME NEW r \in Failures, DeepFails(r) PROVE OrderInv'
    BY <1>4 DEF DeepFails, OrderInv, QueueInv, SentInv,
         CommandsInSnapshotOrder, HistoryWasSaid
<1>5. ASSUME NEW r, DeepAnswers(r) \/ FastAnswers(r) \/ FastFails(r) PROVE OrderInv'
  <2>1. PICK source, d : Decide(source, d)
      BY <1>5 DEF DeepAnswers, FastAnswers, FastFails
  <2>2. /\ pc \in {"query", "retry"}
        /\ UNCHANGED <<received, snapQ, current, sent>>
      BY <1>5 DEF DeepAnswers, FastAnswers, FastFails
  <2> QED
      BY <2>1, <2>2, DecideOrder
<1>6. CASE PutCommand
    BY <1>6, PutCommandOrder
<1> QED
    BY <1>1, <1>2, <1>3, <1>4, <1>5, <1>6 DEF Next, LoopStep

-----------------------------------------------------------------------------
(* Theorems *)

\* IInv holds throughout, whatever the models answer and the game sends.
THEOREM Invariance == Spec => []IInv
<1>1. Init => IInv
    BY InitIInv
<1>2. IInv /\ [Next]_vars => IInv'
    BY StepIInv
<1> QED
    BY <1>1, <1>2, PTL DEF Spec

\* Every variable of the loop keeps its type: the queues stay within maxsize,
\* the history within its limit, and the count never passes the limit.
THEOREM TypeCorrect == Spec => []TypeOK
<1>1. IInv => TypeOK
    BY DEF IInv
<1> QED
    BY <1>1, Invariance, PTL

\* LLMClient gives the deep model up exactly when it failed TimeoutLimit times
\* in a row.
THEOREM DegradedExactlyHolds == Spec => []DegradedExactly
<1>1. IInv => DegradedExactly
    BY DEF IInv
<1> QED
    BY <1>1, Invariance, PTL

\* A deep model that was given up is never asked again, even on "hard", where
\* the router names no other.
THEOREM DegradedForGoodHolds == Spec => DegradedForGood
<1>1. IInv /\ [Next]_vars => [deep_degraded => deepLog' = deepLog]_vars
  <2> SUFFICES ASSUME IInv, Next, deep_degraded PROVE deepLog' = deepLog
      OBVIOUS
  <2>1. ASSUME NEW r, DeepFails(r) \/ DeepAnswers(r) PROVE FALSE
      BY <2>1 DEF IInv, CountInv, DeepFails, DeepAnswers
  <2>2. CASE UNCHANGED client
      BY <2>2 DEF client
  <2> QED
      BY <2>1, <2>2 DEF Next, ReceiveAny, Receive, Write, LoopStep, TakeOther, TakeSave,
           TakeLoad, PromptRaises, TakeSnapshot, FastAnswers, FastFails, PutCommand
<1> QED
    BY <1>1, Invariance, PTL DEF Spec, DegradedForGood

\* OrderInv holds throughout: envelopes, commands and the conversation follow
\* one order, whatever the models answer and the game sends.
THEOREM OrderHolds == Spec => []OrderInv
<1>1. Init => OrderInv
    BY InitOrder
<1>2. TypeOK /\ OrderInv /\ [Next]_vars => OrderInv'
    BY StepOrder
<1> QED
    BY <1>1, <1>2, TypeCorrect, PTL DEF Spec

\* _decision_loop puts commands in the order of their snapshots, and for no
\* snapshot two.
THEOREM CommandsInSnapshotOrderHolds == Spec => []CommandsInSnapshotOrder
<1>1. OrderInv => CommandsInSnapshotOrder
    BY DEF OrderInv
<1> QED
    BY <1>1, OrderHolds, PTL

\* chat_history holds, in order, only messages whose commands went to the game
\* or are about to.
THEOREM HistoryWasSaidHolds == Spec => []HistoryWasSaid
<1>1. OrderInv => HistoryWasSaid
    BY DEF OrderInv
<1> QED
    BY <1>1, OrderHolds, PTL
=============================================================================
