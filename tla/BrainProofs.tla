---------------------------- MODULE BrainProofs ----------------------------
(* The chat keeps its order on the way through the Lua threads, the DLL's     *)
(* slot and the pipe; nothing of it is lost but where the code throws it      *)
(* away; and the replies are displayed in order.                              *)
EXTENDS Brain, SequenceTheorems, TLAPS

\* Each chat in a sequence of chats is before the later ones, or it is the next
\* one over again.
InOrder(w) ==
    \A i, j \in 1 .. Len(w) : i < j => Before(w[i], w[j]) \/ (j = i + 1 /\ w[i] = w[j])

\* d may follow w: it is after all chats of w, or the last one over again.
Follows(w, d) ==
    \A i \in 1 .. Len(w) : Before(w[i], d) \/ (i = Len(w) /\ w[i] = d)

\* The chats that travel with a snapshot or have arrived, and all parts of the way.
Gone  == In(heard) \cup In(flushing) \cup In(sendSlot)
Parts == Gone \cup {PendingChat, msgs, buffer}

\* ChatInOrder, part by part.  Only the snapshot that the pipe thread is to
\* claim next can be one that it wrote already.
Ordered ==
    /\ \A c \in Parts : Ascends(c)
    /\ InOrder(heard)
    /\ \A c \in In(flushing) : Follows(heard, c)
    /\ \A d \in In(sendSlot) :
         /\ flushing = << >> => Follows(heard, d)
         /\ flushing # << >> => \A c \in In(heard) \cup In(flushing) : Before(c, d)
    /\ \A c \in Gone, d \in {PendingChat, msgs, buffer} : Before(c, d)
    /\ Before(PendingChat, msgs) /\ Before(PendingChat, buffer) /\ Before(msgs, buffer)

\* ChatIsKept, part by part.  A claimed chat that a push has overtaken is empty,
\* as long as nothing was thrown away.
Kept ==
    clean => /\ \A k \in 1 .. asked : \E c \in Parts : k \in In(c)
             /\ sendSlot # << >> => \A c \in In(flushing) : c = << >>

\* What the interface displayed is not after its last id, and what it has not
\* compared yet is not before it.
Replied ==
    /\ Ascends(shown)
    /\ \A n \in In(shown) : n <= lastId
    /\ sync = 0 \/ sync >= lastId

IInv == TypeOK /\ Ordered /\ Kept /\ Replied

-----------------------------------------------------------------------------
(* Sequences in order *)

\* What is empty is in order.
LEMMA EmptyAscends == In(<< >>) = {} /\ Ascends(<< >>)
BY DEF In, Ascends

\* Two ascending sequences make one when all of the first is before the second.
LEMMA ConcatAscends ==
    ASSUME NEW s \in Seq(Nat), NEW t \in Seq(Nat)
    PROVE  /\ s \o t \in Seq(Nat)
           /\ In(s \o t) = In(s) \cup In(t)
           /\ Ascends(s) /\ Ascends(t) /\ Before(s, t) => Ascends(s \o t)
<1> DEFINE u == s \o t
<1>1. /\ u \in Seq(Nat) /\ Len(u) = Len(s) + Len(t)
      /\ Len(s) \in Nat /\ Len(t) \in Nat
      /\ \A i \in 1 .. Len(s) : u[i] = s[i]
      /\ \A i \in 1 .. Len(t) : u[Len(s) + i] = t[i]
  BY ConcatProperties
<1> HIDE DEF u
<1>2. \A i \in 1 .. Len(u) :
        i \in 1 .. Len(s) \/ \E j \in 1 .. Len(t) : i = Len(s) + j
  <2> SUFFICES ASSUME NEW i \in 1 .. Len(u), i \notin 1 .. Len(s)
               PROVE  \E j \in 1 .. Len(t) : i = Len(s) + j
    OBVIOUS
  <2>1. i - Len(s) \in 1 .. Len(t) /\ i = Len(s) + (i - Len(s))
    BY <1>1
  <2> QED  BY <2>1
<1>3. In(u) = In(s) \cup In(t)
  <2>1. ASSUME NEW n \in In(u)
        PROVE  n \in In(s) \cup In(t)
    <3>1. PICK i \in 1 .. Len(u) : n = u[i]
      BY DEF In
    <3>2. CASE i \in 1 .. Len(s)
      BY <1>1, <3>1, <3>2 DEF In
    <3>3. CASE i \notin 1 .. Len(s)
      <4>1. PICK j \in 1 .. Len(t) : i = Len(s) + j
        BY <1>2, <3>3
      <4> QED  BY <1>1, <3>1, <4>1 DEF In
    <3> QED  BY <3>2, <3>3
  <2>2. ASSUME NEW n \in In(s)
        PROVE  n \in In(u)
    <3>1. PICK i \in 1 .. Len(s) : n = s[i]
      BY DEF In
    <3>2. i \in 1 .. Len(u) /\ n = u[i]
      BY <1>1, <3>1
    <3> QED  BY <3>2 DEF In
  <2>3. ASSUME NEW n \in In(t)
        PROVE  n \in In(u)
    <3>1. PICK j \in 1 .. Len(t) : n = t[j]
      BY DEF In
    <3>2. Len(s) + j \in 1 .. Len(u)
      BY <1>1
    <3>3. n = u[Len(s) + j]
      BY <1>1, <3>1
    <3> QED  BY <3>2, <3>3 DEF In
  <2> QED  BY <2>1, <2>2, <2>3
<1>4. ASSUME Ascends(s), Ascends(t), Before(s, t)
      PROVE  Ascends(u)
  <2> SUFFICES ASSUME NEW i \in 1 .. Len(u), NEW j \in 1 .. Len(u), i < j
               PROVE  u[i] < u[j]
    BY DEF Ascends
  <2>1. CASE j \in 1 .. Len(s)
    <3>1. i \in 1 .. Len(s)
      BY <1>1, <2>1
    <3> QED  BY <1>1, <1>4, <2>1, <3>1 DEF Ascends
  <2>2. CASE j \notin 1 .. Len(s)
    <3>1. PICK k \in 1 .. Len(t) : j = Len(s) + k
      BY <1>2, <2>2
    <3>2. CASE i \in 1 .. Len(s)
      <4>1. s[i] \in In(s) /\ t[k] \in In(t)
        BY <3>2 DEF In
      <4> QED  BY <1>1, <1>4, <3>1, <3>2, <4>1 DEF Before
    <3>3. CASE i \notin 1 .. Len(s)
      <4>1. PICK l \in 1 .. Len(t) : i = Len(s) + l
        BY <1>2, <3>3
      <4>2. l < k
        BY <1>1, <3>1, <4>1
      <4> QED  BY <1>1, <1>4, <3>1, <4>1, <4>2 DEF Ascends
    <3> QED  BY <3>2, <3>3
  <2> QED  BY <2>1, <2>2
<1>5. s \o t = u
  BY DEF u
<1> QED  BY <1>1, <1>3, <1>4, <1>5

\* A new largest element keeps the order (ChatHandler.lua appends the newest message).
LEMMA AppendAscends ==
    ASSUME NEW s \in Seq(Nat), NEW x \in Nat
    PROVE  /\ In(Append(s, x)) = In(s) \cup {x}
           /\ Ascends(s) /\ (\A n \in In(s) : n < x) => Ascends(Append(s, x))
<1>1. <<x>> \in Seq(Nat) /\ In(<<x>>) = {x} /\ Ascends(<<x>>)
  BY DEF In, Ascends
<1>2. Append(s, x) = s \o <<x>>
  BY AppendIsConcat
<1> DEFINE t == <<x>>
<1>3. t \in Seq(Nat) /\ In(t) = {x} /\ Ascends(t) /\ Append(s, x) = s \o t
  BY <1>1, <1>2
<1> HIDE DEF t
<1> QED  BY <1>3, ConcatAscends DEF Before

\* Taking the first element away keeps the order (a full buffer drops it).
LEMMA TailAscends ==
    ASSUME NEW s \in Seq(Nat), s # << >>
    PROVE  /\ Tail(s) \in Seq(Nat)
           /\ Head(s) \in In(s) /\ In(Tail(s)) \subseteq In(s)
           /\ Ascends(s) => Ascends(Tail(s)) /\ \A n \in In(Tail(s)) : Head(s) < n
<1> DEFINE t == Tail(s)
<1>1. /\ t \in Seq(Nat) /\ Len(s) \in Nat \ {0} /\ Len(t) = Len(s) - 1
      /\ \A i \in 1 .. Len(t) : t[i] = s[i + 1]
      /\ Head(s) = s[1]
  BY HeadTailProperties, EmptySeq
<1> HIDE DEF t
<1>2. /\ \A i \in 1 .. Len(t) : i + 1 \in 1 .. Len(s) /\ 1 < i + 1
      /\ 1 \in 1 .. Len(s)
  BY <1>1
<1>3. Head(s) \in In(s) /\ In(t) \subseteq In(s)
  BY <1>1, <1>2 DEF In
<1>4. ASSUME Ascends(s)
      PROVE  Ascends(t) /\ \A n \in In(t) : Head(s) < n
  <2>1. \A i, j \in 1 .. Len(t) : i < j => i + 1 < j + 1
    BY <1>1
  <2>2. Ascends(t)
    BY <1>1, <1>2, <1>4, <2>1 DEF Ascends
  <2>3. \A i \in 1 .. Len(t) : Head(s) < t[i]
    BY <1>1, <1>2, <1>4 DEF Ascends
  <2> QED  BY <2>2, <2>3 DEF In
<1> QED  BY <1>1, <1>3, <1>4 DEF t

\* The last one is the largest.
LEMMA LastAscends ==
    ASSUME NEW S \in SUBSET Nat, NEW s \in Seq(S), NEW k \in Nat
    PROVE  /\ LastOf(s, k) \in Seq(S) /\ Len(LastOf(s, k)) <= k
           /\ Len(s) <= k => LastOf(s, k) = s
           /\ In(LastOf(s, k)) \subseteq In(s)
           /\ Ascends(s) => Ascends(LastOf(s, k))
<1>1. Len(s) \in Nat
  OBVIOUS
<1>2. CASE Len(s) <= k
  BY <1>2 DEF LastOf
<1>3. CASE ~(Len(s) <= k)
  <2> DEFINE m == Len(s) - k + 1
             t == SubSeq(s, m, Len(s))
  <2>1. m \in 1 .. Len(s) + 1 /\ Len(s) - m + 1 = k
    BY <1>1, <1>3
  <2>2. \A i \in m .. Len(s) : s[i] \in S
    BY <1>1, <2>1
  <2>3. LastOf(s, k) = t
    BY <1>3 DEF LastOf
  <2> HIDE DEF m
  <2>4. t \in Seq(S) /\ Len(t) = k /\ \A i \in 1 .. k : t[i] = s[m + i - 1]
    BY <1>1, <2>1, <2>2, SubSeqProperties
  <2> HIDE DEF t
  <2>5. \A i \in 1 .. k : m + i - 1 \in 1 .. Len(s)
    BY <1>1, <2>1
  <2>6. In(t) \subseteq In(s)
    BY <2>4, <2>5 DEF In
  <2>7. Ascends(s) => Ascends(t)
    <3>1. \A i, j \in 1 .. k : i < j => m + i - 1 < m + j - 1
      BY <2>1
    <3> QED  BY <2>4, <2>5, <3>1 DEF Ascends
  <2> QED  BY <1>3, <2>3, <2>4, <2>6, <2>7
<1> QED  BY <1>2, <1>3

-----------------------------------------------------------------------------
(* Types *)

\* The bounds of the messages grow with their number.
LEMMA SaidGrows ==
    ASSUME NEW a \in Nat, NEW b \in Nat, a <= b
    PROVE  /\ 1 .. a \subseteq 1 .. b
           /\ \A s \in Seq(1 .. a) : s \in Seq(1 .. b)
           /\ \A s \in Seq(Seq(1 .. a)) : s \in Seq(Seq(1 .. b))
<1>1. 1 .. a \subseteq 1 .. b
  OBVIOUS
<1>2. \A s \in Seq(1 .. a) : s \in Seq(1 .. b)
  BY <1>1, SeqMonotonic
<1>3. \A s \in Seq(Seq(1 .. a)) : s \in Seq(Seq(1 .. b))
  <2>1. Seq(1 .. a) \subseteq Seq(1 .. b)
    BY <1>2
  <2> QED  BY <2>1, SeqMonotonic
<1> QED  BY <1>1, <1>2, <1>3

\* While the deep cadence is not due, another fast interval stays short of its end.
LEMMA OneMoreTick ==
    ASSUME NEW t \in Nat, NEW f \in Nat, NEW d \in Nat, ~(t * f >= d)
    PROVE  (t + 1) * f < d + f
<1>1. (t + 1) * f = t * f + f /\ t * f \in Int
  OBVIOUS
<1>2. t * f < d
  BY <1>1
<1> QED  BY <1>1, <1>2

\* The numbers of replies grow, and so do the bounds of what is displayed.
LEMMA RepliesGrow ==
    ASSUME TypeOK, UNCHANGED <<lastId, shown>>,
           (chat_id' = chat_id + 1 /\ sync' = chat_id') \/ UNCHANGED <<chat_id, sync>>
    PROVE  /\ chat_id' \in Nat /\ sync' \in 0 .. chat_id' /\ lastId' \in 0 .. chat_id'
           /\ shown' \in Seq(1 .. chat_id')
<1>1. /\ chat_id \in Nat /\ sync \in 0 .. chat_id /\ lastId \in 0 .. chat_id
      /\ shown \in Seq(1 .. chat_id)
  BY DEF TypeOK
<1>2. chat_id' \in Nat /\ chat_id <= chat_id'
  BY <1>1
<1>3. shown \in Seq(1 .. chat_id')
  BY <1>1, <1>2, SaidGrows
<1> QED  BY <1>1, <1>2, <1>3

\* Init has the types.
LEMMA InitTypes ==
    ASSUME Init
    PROVE  TypeOK
<1>1. 0 * FastInterval = 0 /\ 0 < DeepInterval + FastInterval
  BY BrainAssumption
<1>2. << >> \in Seq(1 .. 0) /\ << >> \in Seq(Seq(1 .. 0)) /\ Len(<< >>) = 0
  OBVIOUS
<1>3. /\ lua = "idle" /\ after = "idle" /\ buffer = << >> /\ msgs = << >> /\ PendingChat = << >>
      /\ ticks_since_deep = 0 /\ chat_id = 0 /\ sync = 0 /\ lastId = 0
      /\ sendSlot = << >> /\ flushing = << >> /\ asked = 0 /\ heard = << >> /\ shown = << >>
  BY DEF Init
<1>4. connected \in BOOLEAN /\ recvSlot \in BOOLEAN /\ clean \in BOOLEAN
  BY DEF Init
<1>5. /\ asked \in 0 .. MaxAsked /\ sync \in 0 .. chat_id /\ lastId \in 0 .. chat_id
      /\ Len(buffer) <= MAX_BUFFER
  BY <1>2, <1>3, BrainAssumption
<1> QED  BY <1>1, <1>2, <1>3, <1>4, <1>5 DEF TypeOK

\* Every step keeps the types.
LEMMA StepTypes ==
    ASSUME TypeOK, [Next]_vars
    PROVE  TypeOK'
<1> USE DEF bridge, ui
<1>1. CASE UNCHANGED vars
  BY <1>1 DEF vars, TypeOK
<1>2. CASE ChatMessage
  <2>1. /\ asked \in Nat /\ asked' \in Nat /\ asked' \in 0 .. MaxAsked
        /\ asked <= asked' /\ asked' \in 1 .. asked'
    BY <1>2, BrainAssumption DEF ChatMessage, TypeOK
  <2>2. /\ \A s \in Seq(1 .. asked) : s \in Seq(1 .. asked')
        /\ \A s \in Seq(Seq(1 .. asked)) : s \in Seq(Seq(1 .. asked'))
    BY <2>1, SaidGrows
  <2>3. /\ LastOf(Append(buffer, asked'), MAX_BUFFER) \in Seq(1 .. asked')
        /\ Len(LastOf(Append(buffer, asked'), MAX_BUFFER)) <= MAX_BUFFER
    <3>1. Append(buffer, asked') \in Seq(1 .. asked')
      BY <2>1, <2>2 DEF TypeOK
    <3>2. 1 .. asked' \in SUBSET Nat
      OBVIOUS
    <3> QED  BY <3>1, <3>2, LastAscends, BrainAssumption
  <2> QED  BY <1>2, <2>1, <2>2, <2>3 DEF ChatMessage, TypeOK
<1>3. CASE GetPendingMessages
  <2>1. << >> \in Seq(1 .. asked) /\ Len(<< >>) = 0
    OBVIOUS
  <2> QED  BY <1>3, <2>1, BrainAssumption DEF GetPendingMessages, TypeOK
<1>4. CASE HandleMessage
  <2>1. msgs \in Seq(1 .. asked) /\ msgs # << >> /\ PendingChat \in Seq(1 .. asked)
    BY <1>4 DEF HandleMessage, TypeOK
  <2>2. Tail(msgs) \in Seq(1 .. asked) /\ Append(PendingChat, Head(msgs)) \in Seq(1 .. asked)
    BY <2>1, HeadTailProperties, AppendProperties
  <2>3. /\ chat_id' \in Nat /\ sync' \in 0 .. chat_id' /\ lastId' \in 0 .. chat_id'
        /\ shown' \in Seq(1 .. chat_id')
    <3>1. (chat_id' = chat_id + 1 /\ sync' = chat_id') \/ UNCHANGED <<chat_id, sync>>
      BY <1>4 DEF HandleMessage, SendChat
    <3>2. UNCHANGED <<lastId, shown>>
      BY <1>4 DEF HandleMessage
    <3> QED  BY <3>1, <3>2, RepliesGrow
  <2> QED  BY <1>4, <2>2, <2>3 DEF HandleMessage, TypeOK
<1>5. CASE Periodic
  <2>1. ticks_since_deep' \in Nat /\ ticks_since_deep' * FastInterval < DeepInterval + FastInterval
    <3>1. 0 * FastInterval = 0 /\ 0 < DeepInterval + FastInterval
      BY BrainAssumption
    <3>2. ~DeepIsDue => (ticks_since_deep + 1) * FastInterval < DeepInterval + FastInterval
      BY OneMoreTick, BrainAssumption DEF DeepIsDue, TypeOK
    <3> QED  BY <1>5, <3>1, <3>2 DEF Periodic, TypeOK
  <2> QED  BY <1>5, <2>1 DEF Periodic, TypeOK
<1>6. CASE Offline \/ Event
  BY <1>6 DEF Offline, Event, TypeOK
<1>7. CASE SendTest
  <2>1. << >> \in Seq(1 .. asked) /\ clean' \in BOOLEAN
    BY <1>7 DEF SendTest, TypeOK
  <2> QED  BY <1>7, <2>1 DEF SendTest, TypeOK
<1>8. CASE Push
  <2>1. << >> \in Seq(1 .. asked) /\ clean' \in BOOLEAN
    BY <1>8 DEF Push, TypeOK
  <2>2. sendSlot' \in Seq(Seq(1 .. asked)) /\ Len(sendSlot') <= 1
    <3>1. <<PendingChat>> \in Seq(Seq(1 .. asked)) /\ Len(<<PendingChat>>) = 1
      BY DEF TypeOK
    <3>2. sendSlot' = <<PendingChat>> \/ sendSlot' = sendSlot
      BY <1>8 DEF Push
    <3>3. sendSlot \in Seq(Seq(1 .. asked)) /\ Len(sendSlot) <= 1
      BY DEF TypeOK
    <3>4. CASE sendSlot' = sendSlot
      BY <3>3, <3>4
    <3>5. CASE sendSlot' = <<PendingChat>>
      <4> DEFINE q == <<PendingChat>>
      <4>1. q \in Seq(Seq(1 .. asked)) /\ Len(q) = 1 /\ sendSlot' = q
        BY <3>1, <3>5
      <4> HIDE DEF q
      <4>2. sendSlot' \in Seq(Seq(1 .. asked)) /\ Len(sendSlot') = 1
        BY <4>1
      <4> QED  BY <4>2
    <3> QED  BY <3>2, <3>4, <3>5
  <2>3. /\ lua = "push" /\ lua' = after /\ PendingChat' = << >>
        /\ UNCHANGED <<after, buffer, msgs, ticks_since_deep, chat_id, sync, connected,
                       flushing, recvSlot, heard, lastId, shown, asked>>
    BY <1>8 DEF Push
  <2> QED  BY <2>1, <2>2, <2>3 DEF TypeOK
<1>9. CASE PollCommand
  <2>1. /\ chat_id' \in Nat /\ sync' \in 0 .. chat_id' /\ lastId' \in 0 .. chat_id'
        /\ shown' \in Seq(1 .. chat_id')
    <3>1. (chat_id' = chat_id + 1 /\ sync' = chat_id') \/ UNCHANGED <<chat_id, sync>>
      BY <1>9 DEF PollCommand, SendChat
    <3>2. UNCHANGED <<lastId, shown>>
      BY <1>9 DEF PollCommand
    <3> QED  BY <3>1, <3>2, RepliesGrow
  <2> QED  BY <1>9, <2>1 DEF PollCommand, TypeOK
<1>10. CASE ChangeStatus
  BY <1>10 DEF ChangeStatus, lua_ui, TypeOK
<1>11. CASE Claim
  <2>1. << >> \in Seq(Seq(1 .. asked)) /\ Len(<< >>) = 0
    OBVIOUS
  <2>2. /\ flushing' = sendSlot /\ sendSlot' = << >>
        /\ UNCHANGED <<connected, recvSlot, heard, clean, lua, after, buffer, msgs, PendingChat,
                       ticks_since_deep, chat_id, sync, lastId, shown, asked>>
    BY <1>11 DEF Claim, lua_ui
  <2> QED  BY <2>1, <2>2 DEF TypeOK
<1>14. CASE Flush
  <2>1. Copied \in Seq(1 .. asked)
    BY <1>14 DEF Flush, Copied, TypeOK
  <2>2. heard' \in Seq(Seq(1 .. asked))
    <3>1. heard \in Seq(Seq(1 .. asked))
      BY DEF TypeOK
    <3>2. Append(heard, Copied) \in Seq(Seq(1 .. asked))
      BY <2>1, <3>1, AppendProperties
    <3>3. heard' = heard \/ heard' = Append(heard, Copied)
      BY <1>14 DEF Flush
    <3> QED  BY <3>1, <3>2, <3>3
  <2>3. << >> \in Seq(Seq(1 .. asked)) /\ Len(<< >>) = 0
    OBVIOUS
  <2>4. /\ flushing' = << >>
        /\ UNCHANGED <<sendSlot, recvSlot, lua, after, buffer, msgs, PendingChat, ticks_since_deep,
                       chat_id, sync, lastId, shown, asked>>
    BY <1>14 DEF Flush, lua_ui
  <2>5. connected' \in BOOLEAN /\ clean' \in BOOLEAN
    BY <1>14 DEF Flush, TypeOK
  <2> QED  BY <2>2, <2>3, <2>4, <2>5 DEF TypeOK
<1>12. CASE Receive
  <2>1. recvSlot' \in BOOLEAN
    <3>1. chat_id \in Nat /\ MaxChat \in Nat
      BY BrainAssumption DEF TypeOK
    <3>2. (chat_id < MaxChat) \in BOOLEAN
      BY <3>1
    <3>3. recvSlot' \in {FALSE, chat_id < MaxChat}
      BY <1>12 DEF Receive
    <3> QED  BY <3>2, <3>3, Zenon
  <2>2. UNCHANGED <<connected, sendSlot, flushing, heard, clean, lua, after, buffer, msgs, PendingChat,
                    ticks_since_deep, chat_id, sync, lastId, shown, asked>>
    BY <1>12 DEF Receive, lua_ui
  <2> QED  BY <2>1, <2>2 DEF TypeOK
<1>13. CASE OnSync
  <2>1. sync \in 1 .. chat_id
    BY <1>13 DEF OnSync, TypeOK
  <2>2. Append(shown, sync) \in Seq(1 .. chat_id)
    BY <2>1 DEF TypeOK
  <2>3. UNCHANGED <<lua, after, buffer, msgs, PendingChat, ticks_since_deep, chat_id, connected,
                    sendSlot, flushing, recvSlot, heard, asked, clean>>
    BY <1>13 DEF OnSync
  <2>4. sync' \in 0 .. chat_id /\ lastId' \in 0 .. chat_id /\ shown' \in Seq(1 .. chat_id)
    <3>1. sync \in 0 .. chat_id /\ 0 \in 0 .. chat_id
      <4>1. chat_id \in Nat
        BY DEF TypeOK
      <4> QED  BY <2>1, <4>1
    <3>2. lastId \in 0 .. chat_id /\ shown \in Seq(1 .. chat_id)
      BY DEF TypeOK
    <3>3. /\ sync' = 0 \/ sync' = sync
          /\ \/ lastId' = sync /\ shown' = Append(shown, sync)
             \/ lastId' = lastId /\ shown' = shown
      BY <1>13 DEF OnSync
    <3> QED  BY <2>2, <3>1, <3>2, <3>3
  <2> QED  BY <2>3, <2>4 DEF TypeOK
<1> QED  BY <1>1, <1>2, <1>3, <1>4, <1>5, <1>6, <1>7, <1>8, <1>9, <1>10, <1>11, <1>12, <1>13, <1>14
         DEF Next, Strategy, InProgress

\* Every variable of the brain's threads and of the interface keeps its type; the
\* buffer keeps its bound, and nobody displays or writes what was not said.
THEOREM TypeCorrect == Spec => []TypeOK
BY InitTypes, StepTypes, PTL DEF Spec

-----------------------------------------------------------------------------
(* Chats, and sequences of them *)

\* One more chat at the end of a sequence (PipeThread writes one).
LEMMA AppendChat ==
    ASSUME NEW S, NEW w \in Seq(S), NEW d \in S
    PROVE  /\ Append(w, d) \in Seq(S)
           /\ In(Append(w, d)) = In(w) \cup {d}
           /\ InOrder(w) /\ Follows(w, d) => InOrder(Append(w, d))
           /\ \A c : (\A b \in In(w) \cup {d} : Before(b, c)) => Follows(Append(w, d), c)
<1> DEFINE u == Append(w, d)
<1>1. /\ u \in Seq(S) /\ Len(w) \in Nat /\ Len(u) = Len(w) + 1
      /\ \A i \in 1 .. Len(w) : u[i] = w[i]
      /\ u[Len(u)] = d
  BY AppendProperties
<1> HIDE DEF u
<1>2. \A i \in 1 .. Len(u) : i \in 1 .. Len(w) \/ i = Len(u)
  BY <1>1
<1>3. /\ Len(u) \in 1 .. Len(u) /\ \A i \in 1 .. Len(w) : i \in 1 .. Len(u) /\ i < Len(u)
      /\ \A i \in 1 .. Len(u) : ~(Len(u) < i)
  BY <1>1
<1>4. In(u) = In(w) \cup {d}
  BY <1>1, <1>2, <1>3 DEF In
<1>5. ASSUME InOrder(w), Follows(w, d)
      PROVE  InOrder(u)
  <2> SUFFICES ASSUME NEW i \in 1 .. Len(u), NEW j \in 1 .. Len(u), i < j
               PROVE  Before(u[i], u[j]) \/ (j = i + 1 /\ u[i] = u[j])
    BY DEF InOrder
  <2>1. i \in 1 .. Len(w) /\ u[i] = w[i]
    BY <1>1, <1>2, <1>3
  <2>2. CASE j \in 1 .. Len(w)
    BY <1>1, <1>5, <2>1, <2>2 DEF InOrder
  <2>3. CASE j = Len(u)
    BY <1>1, <1>5, <2>1, <2>3 DEF Follows
  <2> QED  BY <1>2, <2>2, <2>3
<1>6. ASSUME NEW c, \A b \in In(w) \cup {d} : Before(b, c)
      PROVE  Follows(u, c)
  <2>1. \A i \in 1 .. Len(u) : u[i] \in In(w) \cup {d}
    BY <1>4 DEF In
  <2> QED  BY <1>6, <2>1 DEF Follows
<1> QED  BY <1>1, <1>4, <1>5, <1>6 DEF u

\* A slot holds at most one chat.
LEMMA Slot ==
    ASSUME NEW S, NEW q \in Seq(S), Len(q) <= 1, q # << >>
    PROVE  q[1] \in S /\ In(q) = {q[1]} /\ q = Append(<< >>, q[1])
<1>1. Len(q) = 1
  <2>1. Len(q) \in Nat /\ Len(q) # 0
    BY EmptySeq, LenProperties
  <2> QED  BY <2>1
<1>2. q[1] \in S /\ In(q) = {q[1]}
  BY <1>1, ElementOfSeq DEF In
<1>3. q = Append(<< >>, q[1])
  <2> DEFINE u == Append(<< >>, q[1])
  <2>1. u \in Seq(S) /\ Len(u) = 1 /\ u[1] = q[1]
    BY <1>2
  <2> HIDE DEF u
  <2>2. u = q
    BY <1>1, <2>1, SeqEqual
  <2> QED  BY <2>2 DEF u
<1> QED  BY <1>2, <1>3

\* What was said and not thrown away is a sequence of messages up to the last one.
LEMMA PartNumbers ==
    ASSUME TypeOK
    PROVE  /\ asked \in Nat
           /\ \A c \in Parts : c \in Seq(Nat) /\ \A n \in In(c) : n \in Nat /\ n <= asked
           /\ flushing # << >> => flushing[1] \in Gone /\ In(flushing) = {flushing[1]}
           /\ sendSlot # << >> => sendSlot[1] \in Gone /\ In(sendSlot) = {sendSlot[1]}
<1>1. asked \in Nat /\ 1 .. asked \subseteq Nat
  BY BrainAssumption DEF TypeOK
<1> DEFINE Chats == Seq(1 .. asked)
<1>2. \A s \in Chats : s \in Seq(Nat) /\ \A n \in In(s) : n \in Nat /\ n <= asked
  <2> SUFFICES ASSUME NEW s \in Chats
               PROVE  s \in Seq(Nat) /\ \A n \in In(s) : n \in Nat /\ n <= asked
    OBVIOUS
  <2>1. s \in Seq(Nat)
    BY <1>1, SeqMonotonic
  <2>2. \A i \in 1 .. Len(s) : s[i] \in 1 .. asked
    BY ElementOfSeq
  <2> QED  BY <1>1, <2>1, <2>2 DEF In
<1>3. /\ heard \in Seq(Chats) /\ flushing \in Seq(Chats) /\ sendSlot \in Seq(Chats)
      /\ Len(flushing) <= 1 /\ Len(sendSlot) <= 1
      /\ PendingChat \in Chats /\ msgs \in Chats /\ buffer \in Chats
  BY DEF TypeOK
<1> HIDE DEF Chats
<1>4. \A w \in Seq(Chats) : In(w) \subseteq Chats
  BY ElementOfSeq DEF In
<1>5. Parts \subseteq Chats
  <2>1. In(heard) \subseteq Chats /\ In(flushing) \subseteq Chats /\ In(sendSlot) \subseteq Chats
    BY <1>3, <1>4
  <2> QED  BY <1>3, <2>1 DEF Parts, Gone
<1>6. flushing # << >> => In(flushing) = {flushing[1]}
  BY <1>3, Slot
<1>7. sendSlot # << >> => In(sendSlot) = {sendSlot[1]}
  BY <1>3, Slot
<1> QED  BY <1>1, <1>2, <1>5, <1>6, <1>7 DEF Gone

-----------------------------------------------------------------------------
(* The order of the chat *)

\* An empty chat has no message in it, in whatever order.
LEMMA EmptyBefore == \A c : Before(c, << >>) /\ Before(<< >>, c)
BY EmptyAscends DEF Before

\* Nothing is on its way at first.
LEMMA InitOrder ==
    ASSUME Init
    PROVE  Ordered /\ Kept /\ Replied
<1>1. /\ heard = << >> /\ flushing = << >> /\ sendSlot = << >>
      /\ PendingChat = << >> /\ msgs = << >> /\ buffer = << >>
      /\ shown = << >> /\ sync = 0 /\ asked = 0
  BY DEF Init
<1>2. Gone = {} /\ Parts = {<< >>}
  BY <1>1, EmptyAscends DEF Gone, Parts
<1>3. InOrder(<< >>)
  BY DEF InOrder
<1>4. In(flushing) = {} /\ In(sendSlot) = {}
  BY <1>1, EmptyAscends
<1>5. Ordered
  BY <1>1, <1>2, <1>3, <1>4, EmptyAscends, EmptyBefore DEF Ordered
<1>6. Kept
  BY <1>1 DEF Kept
<1> QED  BY <1>1, <1>5, <1>6, EmptyAscends DEF Replied

\* What Lua does before it pushes keeps the order, if it leaves the three parts
\* in Lua in order and after all that is gone.
LEMMA LuaOrder ==
    ASSUME Ordered, UNCHANGED <<heard, flushing, sendSlot>>,
           Ascends(PendingChat'), Ascends(msgs'), Ascends(buffer'),
           \A c \in Gone : Before(c, PendingChat') /\ Before(c, msgs') /\ Before(c, buffer'),
           Before(PendingChat', msgs') /\ Before(PendingChat', buffer') /\ Before(msgs', buffer')
    PROVE  Ordered'
<1>1. Gone' = Gone
  BY DEF Gone
<1>2. \A c \in Parts' : Ascends(c)
  BY <1>1 DEF Parts, Ordered
<1>3. \A c \in Gone', d \in {PendingChat', msgs', buffer'} : Before(c, d)
  BY <1>1
<1>4. /\ InOrder(heard') /\ \A c \in In(flushing') : Follows(heard', c)
      /\ \A d \in In(sendSlot') :
         /\ flushing' = << >> => Follows(heard', d)
         /\ flushing' # << >> => \A c \in In(heard') \cup In(flushing') : Before(c, d)
  BY DEF Ordered
<1> QED  BY <1>2, <1>3, <1>4 DEF Ordered

\* Every step leaves the parts in order: it moves the front of one to the end of
\* the one before it, adds what is newest, throws something away, or writes what
\* waits in the slot in place of what was claimed.
LEMMA StepOrder ==
    ASSUME TypeOK, Ordered, [Next]_vars
    PROVE  Ordered'
<1> USE DEF bridge, ui
<1>1. CASE UNCHANGED <<heard, flushing, sendSlot, PendingChat, msgs, buffer>>
  BY <1>1 DEF Ordered, Parts, Gone
<1>2. CASE ChatMessage
  <2>1. /\ UNCHANGED <<heard, flushing, sendSlot, PendingChat, msgs>>
        /\ buffer' = LastOf(Append(buffer, asked + 1), MAX_BUFFER)
    BY <1>2 DEF ChatMessage
  <2>2. /\ buffer \in Parts /\ asked + 1 \in Nat
        /\ \A c \in Parts : Ascends(c) /\ \A n \in In(c) : n < asked + 1
    BY PartNumbers DEF Parts, Ordered
  <2>3. /\ In(Append(buffer, asked + 1)) = In(buffer) \cup {asked + 1}
        /\ Ascends(Append(buffer, asked + 1))
    BY <2>2, PartNumbers, AppendAscends
  <2>4. In(buffer') \subseteq In(buffer) \cup {asked + 1} /\ Ascends(buffer')
    <3>1. Append(buffer, asked + 1) \in Seq(Nat) /\ Nat \in SUBSET Nat /\ MAX_BUFFER \in Nat
      BY <2>2, PartNumbers, AppendProperties, BrainAssumption
    <3> QED  BY <2>1, <2>3, <3>1, LastAscends
  <2>5. ASSUME NEW c \in Parts, Before(c, buffer)
        PROVE  Before(c, buffer')
    BY <2>2, <2>4, <2>5 DEF Before
  <2>6. Gone \subseteq Parts /\ PendingChat \in Parts /\ msgs \in Parts
    BY DEF Parts
  <2>7. \A c \in Gone : Before(c, PendingChat) /\ Before(c, msgs) /\ Before(c, buffer')
    BY <2>5, <2>6 DEF Ordered
  <2>8. Before(PendingChat, msgs) /\ Before(PendingChat, buffer') /\ Before(msgs, buffer')
    BY <2>5, <2>6 DEF Ordered
  <2> QED  BY <2>1, <2>2, <2>4, <2>6, <2>7, <2>8, LuaOrder
<1>3. CASE GetPendingMessages
  <2>1. /\ UNCHANGED <<heard, flushing, sendSlot, PendingChat>>
        /\ msgs' = buffer /\ buffer' = << >>
    BY <1>3 DEF GetPendingMessages
  <2>2. PendingChat \in Parts /\ buffer \in Parts
    BY DEF Parts
  <2> QED  BY <2>1, <2>2, EmptyAscends, EmptyBefore, LuaOrder DEF Ordered
<1>4. CASE HandleMessage
  <2> DEFINE x == Head(msgs)
             t == Tail(msgs)
             p == Append(PendingChat, x)
  <2>1. /\ UNCHANGED <<heard, flushing, sendSlot, buffer>>
        /\ PendingChat' = p /\ msgs' = t /\ msgs # << >>
    BY <1>4 DEF HandleMessage, TypeOK
  <2>2. /\ PendingChat \in Parts /\ msgs \in Parts /\ buffer \in Parts
        /\ PendingChat \in Seq(Nat) /\ msgs \in Seq(Nat)
        /\ Ascends(PendingChat) /\ Ascends(msgs) /\ Ascends(buffer)
        /\ Before(PendingChat, msgs) /\ Before(PendingChat, buffer) /\ Before(msgs, buffer)
        /\ \A c \in Gone : Before(c, PendingChat) /\ Before(c, msgs) /\ Before(c, buffer)
        /\ \A n \in In(msgs) : n \in Nat
    BY PartNumbers DEF Parts, Ordered
  <2>3. /\ x \in In(msgs) /\ In(t) \subseteq In(msgs) /\ Ascends(t)
        /\ \A n \in In(t) : x < n
    BY <2>1, <2>2, TailAscends
  <2>4. In(p) = In(PendingChat) \cup {x} /\ Ascends(p)
    <3>1. x \in Nat /\ \A n \in In(PendingChat) : n < x
      BY <2>2, <2>3 DEF Before
    <3> QED  BY <2>2, <3>1, AppendAscends
  <2> HIDE DEF x, t, p
  <2>5. \A c \in Gone : Before(c, p) /\ Before(c, t) /\ Before(c, buffer)
    BY <2>2, <2>3, <2>4 DEF Before
  <2>6. Before(p, t) /\ Before(p, buffer) /\ Before(t, buffer)
    BY <2>2, <2>3, <2>4 DEF Before
  <2> QED  BY <2>1, <2>2, <2>3, <2>4, <2>5, <2>6, LuaOrder
<1>5. CASE UNCHANGED <<heard, flushing, sendSlot, msgs, buffer>> /\ PendingChat' = << >>
  <2>1. msgs \in Parts /\ buffer \in Parts
    BY DEF Parts
  <2> QED  BY <1>5, <2>1, EmptyAscends, EmptyBefore, LuaOrder DEF Ordered
<1>6. CASE /\ UNCHANGED <<heard, flushing, msgs, buffer>> /\ PendingChat' = << >>
           /\ sendSlot' = <<PendingChat>>
  <2>1. In(sendSlot') = {PendingChat}
    <3>1. In(<<PendingChat>>) = {PendingChat}
      BY DEF In
    <3> QED  BY <1>6, <3>1
  <2>2. \A c \in In(heard) \cup In(flushing) : Before(c, PendingChat)
    BY DEF Ordered, Gone
  <2>3. Follows(heard, PendingChat)
    <3>1. \A i \in 1 .. Len(heard) : heard[i] \in In(heard)
      BY DEF In
    <3> QED  BY <2>2, <3>1 DEF Follows
  <2>4. /\ Gone' \subseteq Gone \cup {PendingChat} /\ PendingChat \in Parts
        /\ Parts' \subseteq Parts \cup {<< >>}
    BY <1>6, <2>1 DEF Gone, Parts
  <2>5. \A c \in Parts' : Ascends(c)
    BY <2>4, EmptyAscends DEF Ordered
  <2>6. \A c \in Gone', d \in {PendingChat', msgs', buffer'} : Before(c, d)
    BY <1>6, <2>4, EmptyBefore DEF Ordered
  <2>7. Before(PendingChat', msgs') /\ Before(PendingChat', buffer') /\ Before(msgs', buffer')
    BY <1>6, EmptyBefore DEF Ordered
  <2>8. InOrder(heard') /\ \A c \in In(flushing') : Follows(heard', c)
    BY <1>6 DEF Ordered
  <2>9. \A d \in In(sendSlot') :
         /\ flushing' = << >> => Follows(heard', d)
         /\ flushing' # << >> => \A c \in In(heard') \cup In(flushing') : Before(c, d)
    BY <1>6, <2>1, <2>2, <2>3
  <2> QED  BY <2>5, <2>6, <2>7, <2>8, <2>9 DEF Ordered
<1>7. CASE Claim
  <2>1. /\ UNCHANGED <<heard, PendingChat, msgs, buffer>>
        /\ flushing = << >> /\ flushing' = sendSlot /\ sendSlot' = << >>
    BY <1>7 DEF Claim, lua_ui
  <2>2. In(flushing) = {} /\ In(flushing') = In(sendSlot) /\ In(sendSlot') = {}
    BY <2>1, EmptyAscends
  <2>3. Gone' = Gone /\ Parts' = Parts
    BY <2>1, <2>2 DEF Gone, Parts
  <2>4. \A c \in In(flushing') : Follows(heard, c)
    BY <2>1, <2>2 DEF Ordered
  <2> QED  BY <2>1, <2>2, <2>3, <2>4 DEF Ordered
<1>8. CASE Flush
  <2>1. /\ UNCHANGED <<sendSlot, PendingChat, msgs, buffer>>
        /\ flushing # << >> /\ flushing' = << >>
        /\ heard' = heard \/ heard' = Append(heard, Copied)
    BY <1>8 DEF Flush, lua_ui
  <2>2. In(flushing') = {} /\ flushing[1] \in In(flushing)
    BY <2>1, EmptyAscends, PartNumbers
  <2>3. Copied \in Gone /\ Follows(heard, Copied)
    <3>1. CASE sendSlot = << >>
      BY <2>1, <2>2, <3>1, PartNumbers DEF Copied, Ordered
    <3>2. CASE sendSlot # << >>
      <4>1. sendSlot[1] \in In(sendSlot) /\ sendSlot[1] \in Gone
        BY <3>2, PartNumbers
      <4>2. \A c \in In(heard) : Before(c, sendSlot[1])
        BY <2>1, <4>1 DEF Ordered
      <4>3. \A i \in 1 .. Len(heard) : heard[i] \in In(heard)
        BY DEF In
      <4>4. Follows(heard, sendSlot[1])
        BY <4>2, <4>3 DEF Follows
      <4> QED  BY <3>2, <4>1, <4>4 DEF Copied
    <3> QED  BY <3>1, <3>2
  <2>4. heard \in Seq(Seq(1 .. asked)) /\ Copied \in Seq(1 .. asked)
    BY <1>8 DEF Flush, Copied, TypeOK
  <2>5. In(heard') \subseteq Gone /\ InOrder(heard')
    <3>1. In(heard) \subseteq Gone /\ InOrder(heard)
      BY DEF Ordered, Gone
    <3>2. In(Append(heard, Copied)) = In(heard) \cup {Copied} /\ InOrder(Append(heard, Copied))
      BY <2>3, <2>4, <3>1, AppendChat
    <3> QED  BY <2>1, <2>3, <3>1, <3>2
  <2>6. Gone' \subseteq Gone /\ Parts' \subseteq Parts
    BY <2>1, <2>2, <2>5 DEF Gone, Parts
  <2>7. \A d \in In(sendSlot) : Follows(heard', d)
    <3> SUFFICES ASSUME NEW d \in In(sendSlot)
                 PROVE  Follows(heard', d)
      OBVIOUS
    <3>1. sendSlot # << >> /\ d = sendSlot[1] /\ Copied = d
      BY EmptyAscends, PartNumbers DEF Copied
    <3>2. \A c \in In(heard) : Before(c, d)
      BY <2>1 DEF Ordered
    <3>3. \A i \in 1 .. Len(heard) : heard[i] \in In(heard)
      BY DEF In
    <3>4. Follows(heard, d)
      BY <3>2, <3>3 DEF Follows
    <3>5. Follows(Append(heard, d), d)
      <4> DEFINE u == Append(heard, d)
      <4>1. /\ Len(heard) \in Nat /\ Len(u) = Len(heard) + 1 /\ u[Len(u)] = d
            /\ \A i \in 1 .. Len(heard) : u[i] = heard[i]
        BY <2>4, <3>1, AppendProperties
      <4> HIDE DEF u
      <4>2. \A i \in 1 .. Len(u) : i \in 1 .. Len(heard) \/ i = Len(u)
        BY <4>1
      <4>3. Follows(u, d)
        BY <3>2, <3>3, <4>1, <4>2 DEF Follows
      <4> QED  BY <4>3 DEF u
    <3> QED  BY <2>1, <3>1, <3>4, <3>5
  <2>8. /\ \A c \in Parts' : Ascends(c)
        /\ \A c \in Gone', d \in {PendingChat', msgs', buffer'} : Before(c, d)
        /\ Before(PendingChat', msgs') /\ Before(PendingChat', buffer') /\ Before(msgs', buffer')
    BY <2>1, <2>6 DEF Ordered
  <2> QED  BY <2>1, <2>2, <2>5, <2>7, <2>8 DEF Ordered
<1>9. CASE Periodic \/ Offline \/ Event \/ PollCommand \/ ChangeStatus \/ Receive \/ OnSync
  BY <1>1, <1>9 DEF Periodic, Offline, Event, PollCommand, ChangeStatus, Receive, OnSync, lua_ui
<1>10. CASE SendTest
  BY <1>1, <1>5, <1>10 DEF SendTest
<1>11. CASE Push
  BY <1>5, <1>6, <1>11 DEF Push
<1>12. CASE UNCHANGED vars
  BY <1>1, <1>12 DEF vars
<1> QED  BY <1>2, <1>3, <1>4, <1>7, <1>8, <1>9, <1>10, <1>11, <1>12 DEF Next, Strategy, InProgress

\* One part after the other, Way is in order and has all the parts.
LEMMA WayInOrder ==
    ASSUME TypeOK, Ordered
    PROVE  InOrder(Way) /\ In(Way) = Parts
<1> DEFINE Chats == Seq(1 .. asked)
<1>1. /\ heard \in Seq(Chats) /\ flushing \in Seq(Chats) /\ sendSlot \in Seq(Chats)
      /\ Len(flushing) <= 1 /\ Len(sendSlot) <= 1
      /\ PendingChat \in Chats /\ msgs \in Chats /\ buffer \in Chats
  BY DEF TypeOK
<1> HIDE DEF Chats
<1> DEFINE h == heard \o flushing
           g == h \o sendSlot
<1>2. \A w \in Seq(Chats), q \in Seq(Chats) :
        /\ q = << >> => w \o q = w
        /\ Len(q) <= 1 /\ q # << >> => w \o q = Append(w, q[1]) /\ q[1] \in Chats /\ In(q) = {q[1]}
  <2> SUFFICES ASSUME NEW w \in Seq(Chats), NEW q \in Seq(Chats)
               PROVE  /\ q = << >> => w \o q = w
                      /\ Len(q) <= 1 /\ q # << >> =>
                           w \o q = Append(w, q[1]) /\ q[1] \in Chats /\ In(q) = {q[1]}
    OBVIOUS
  <2>1. q = << >> => w \o q = w
    BY ConcatEmptySeq
  <2>2. ASSUME Len(q) <= 1, q # << >>
        PROVE  w \o q = Append(w, q[1]) /\ q[1] \in Chats /\ In(q) = {q[1]}
    <3>1. q[1] \in Chats /\ In(q) = {q[1]} /\ q = Append(<< >>, q[1])
      BY <2>2, Slot
    <3>2. Append(<< >>, q[1]) = <<q[1]>>
      OBVIOUS
    <3>3. Append(w, q[1]) = w \o <<q[1]>>
      BY <3>1, AppendIsConcat
    <3> QED  BY <3>1, <3>2, <3>3
  <2> QED  BY <2>1, <2>2
<1>3. h \in Seq(Chats) /\ InOrder(h) /\ In(h) = In(heard) \cup In(flushing)
  <2>1. CASE flushing = << >>
    BY <1>1, <1>2, <2>1, EmptyAscends DEF Ordered
  <2>2. CASE flushing # << >>
    <3>1. h = Append(heard, flushing[1]) /\ flushing[1] \in Chats /\ In(flushing) = {flushing[1]}
      BY <1>1, <1>2, <2>2
    <3>2. InOrder(heard) /\ Follows(heard, flushing[1])
      BY <3>1 DEF Ordered
    <3> HIDE DEF h
    <3> QED  BY <1>1, <3>1, <3>2, AppendChat
  <2> QED  BY <2>1, <2>2
<1>4. flushing = << >> => h = heard
  BY <1>1, <1>2
<1> HIDE DEF h
<1>5. g \in Seq(Chats) /\ InOrder(g) /\ In(g) = Gone
  <2>1. CASE sendSlot = << >>
    BY <1>1, <1>2, <1>3, <2>1, EmptyAscends DEF Gone
  <2>2. CASE sendSlot # << >>
    <3>1. g = Append(h, sendSlot[1]) /\ sendSlot[1] \in Chats /\ In(sendSlot) = {sendSlot[1]}
      BY <1>1, <1>2, <1>3, <2>2
    <3>2. Follows(h, sendSlot[1])
      <4>1. CASE flushing = << >>
        BY <1>4, <3>1, <4>1 DEF Ordered
      <4>2. CASE flushing # << >>
        <5>1. \A c \in In(h) : Before(c, sendSlot[1])
          BY <1>3, <3>1, <4>2 DEF Ordered
        <5>2. \A i \in 1 .. Len(h) : h[i] \in In(h)
          BY DEF In
        <5> QED  BY <5>1, <5>2 DEF Follows
      <4> QED  BY <4>1, <4>2
    <3> HIDE DEF g
    <3>3. g \in Seq(Chats) /\ InOrder(g) /\ In(g) = In(h) \cup {sendSlot[1]}
      BY <1>3, <3>1, <3>2, AppendChat
    <3> QED  BY <1>3, <3>1, <3>3 DEF Gone
  <2> QED  BY <2>1, <2>2
<1>6. Snapshots = g
  BY DEF Snapshots, g, h
<1> HIDE DEF g
<1> DEFINE p == Append(g, PendingChat)
           m == Append(p, msgs)
           b == Append(m, buffer)
<1>7. ASSUME NEW w \in Seq(Chats), NEW d \in Chats, InOrder(w), \A c \in In(w) : Before(c, d)
      PROVE  /\ Append(w, d) \in Seq(Chats) /\ InOrder(Append(w, d))
             /\ In(Append(w, d)) = In(w) \cup {d}
  <2>1. \A i \in 1 .. Len(w) : w[i] \in In(w)
    BY DEF In
  <2>2. Follows(w, d)
    BY <1>7, <2>1 DEF Follows
  <2> QED  BY <1>7, <2>2, AppendChat
<1>8. p \in Seq(Chats) /\ InOrder(p) /\ In(p) = Gone \cup {PendingChat}
  BY <1>1, <1>5, <1>7 DEF Ordered
<1> HIDE DEF p
<1>9. m \in Seq(Chats) /\ InOrder(m) /\ In(m) = Gone \cup {PendingChat, msgs}
  <2>1. \A c \in In(p) : Before(c, msgs)
    BY <1>8 DEF Ordered
  <2>2. /\ m \in Seq(Chats) /\ InOrder(m) /\ In(m) = In(p) \cup {msgs}
    BY <1>1, <1>7, <1>8, <2>1
  <2> HIDE DEF m
  <2> QED  BY <1>8, <2>2
<1> HIDE DEF m
<1>10. b \in Seq(Chats) /\ InOrder(b) /\ In(b) = Parts
  <2>1. \A c \in In(m) : Before(c, buffer)
    BY <1>9 DEF Ordered
  <2>2. /\ b \in Seq(Chats) /\ InOrder(b) /\ In(b) = In(m) \cup {buffer}
    BY <1>1, <1>7, <1>9, <2>1
  <2> HIDE DEF b
  <2> QED  BY <1>9, <2>2 DEF Parts
<1> DEFINE r == <<PendingChat, msgs, buffer>>
           v == g \o r
<1>11. r \in Seq(Chats) /\ Len(r) = 3 /\ r[1] = PendingChat /\ r[2] = msgs /\ r[3] = buffer
  BY <1>1
<1>12. /\ Len(g) \in Nat /\ b \in Seq(Chats) /\ Len(b) = Len(g) + 3
       /\ \A i \in 1 .. Len(g) : b[i] = g[i]
       /\ b[Len(g) + 1] = PendingChat /\ b[Len(g) + 2] = msgs /\ b[Len(g) + 3] = buffer
  <2>1. /\ Len(g) \in Nat /\ Len(p) = Len(g) + 1 /\ p[Len(g) + 1] = PendingChat
        /\ \A i \in 1 .. Len(g) : p[i] = g[i]
    BY <1>1, <1>5, AppendProperties DEF p
  <2>2. /\ Len(m) = Len(p) + 1 /\ m[Len(p) + 1] = msgs
        /\ \A i \in 1 .. Len(p) : m[i] = p[i]
    BY <1>1, <1>8, AppendProperties DEF m
  <2>3. /\ Len(b) = Len(m) + 1 /\ b[Len(m) + 1] = buffer
        /\ \A i \in 1 .. Len(m) : b[i] = m[i]
    BY <1>1, <1>9, AppendProperties DEF b
  <2>4. b \in Seq(Chats)
    BY <1>10
  <2> HIDE DEF b
  <2> QED  BY <2>1, <2>2, <2>3, <2>4
<1> HIDE DEF r
<1>13. /\ v \in Seq(Chats) /\ Len(v) = Len(g) + 3
       /\ \A i \in 1 .. Len(g) : v[i] = g[i]
       /\ v[Len(g) + 1] = PendingChat /\ v[Len(g) + 2] = msgs /\ v[Len(g) + 3] = buffer
  <2>1. /\ v \in Seq(Chats) /\ Len(v) = Len(g) + Len(r)
        /\ \A i \in 1 .. Len(g) : v[i] = g[i]
        /\ \A i \in 1 .. Len(r) : v[Len(g) + i] = r[i]
    <3>1. g \in Seq(Chats) /\ r \in Seq(Chats)
      BY <1>5, <1>11
    <3>2. \A w \in Seq(Chats), q \in Seq(Chats) :
            /\ w \o q \in Seq(Chats) /\ Len(w \o q) = Len(w) + Len(q)
            /\ \A i \in 1 .. Len(w) : (w \o q)[i] = w[i]
            /\ \A i \in 1 .. Len(q) : (w \o q)[Len(w) + i] = q[i]
      BY ConcatProperties
    <3> QED  BY <3>1, <3>2
  <2> HIDE DEF v
  <2> QED  BY <1>11, <1>12, <2>1
<1> HIDE DEF b, v
<1>14. v = b
  <2>1. \A i \in 1 .. Len(g) + 3 : i \in 1 .. Len(g) \/ i = Len(g) + 1 \/ i = Len(g) + 2 \/ i = Len(g) + 3
    BY <1>12
  <2>2. \A i \in 1 .. Len(v) : v[i] = b[i]
    BY <1>12, <1>13, <2>1
  <2> QED  BY <1>12, <1>13, <2>2, SeqEqual
<1>15. Way = v
  BY <1>6 DEF Way, v, r
<1> QED  BY <1>10, <1>14, <1>15

\* The order of the parts is the order of all that is on its way.
LEMMA OrderOfWay ==
    ASSUME TypeOK, Ordered
    PROVE  ChatInOrder
<1>1. \A i \in 1 .. Len(Way) : Way[i] \in Parts
  BY WayInOrder DEF In
<1>2. \A i \in 1 .. Len(Way) : Ascends(Way[i])
  BY <1>1 DEF Ordered
<1> QED  BY <1>2, WayInOrder DEF ChatInOrder, InOrder

-----------------------------------------------------------------------------
(* What is kept *)

\* A message that moves on leaves nothing behind, and what takes the place of a
\* chat that is claimed takes that of nothing, unless it is noted.
LEMMA StepKept ==
    ASSUME TypeOK, Kept, [Next]_vars
    PROVE  Kept'
<1> USE DEF bridge, ui
<1> SUFFICES ASSUME clean', clean => Kept
             PROVE  Kept'
  BY DEF Kept
<1>1. CASE UNCHANGED <<heard, flushing, sendSlot, PendingChat, msgs, buffer, asked, clean>>
  BY <1>1 DEF Kept, Parts, Gone
<1>2. CASE ChatMessage
  <2>1. /\ UNCHANGED <<heard, flushing, sendSlot, PendingChat, msgs>>
        /\ asked' = asked + 1 /\ clean /\ Len(buffer) < MAX_BUFFER
        /\ buffer' = LastOf(Append(buffer, asked + 1), MAX_BUFFER)
    BY <1>2 DEF ChatMessage
  <2>2. buffer \in Seq(Nat) /\ asked \in Nat /\ buffer \in Parts
    BY PartNumbers DEF Parts
  <2>3. buffer' = Append(buffer, asked + 1)
    <3>1. /\ Append(buffer, asked + 1) \in Seq(Nat) /\ Len(buffer) \in Nat /\ MAX_BUFFER \in Nat
          /\ Len(Append(buffer, asked + 1)) = Len(buffer) + 1
      BY <2>2, AppendProperties, BrainAssumption
    <3>2. Len(Append(buffer, asked + 1)) <= MAX_BUFFER
      BY <2>1, <3>1
    <3> QED  BY <2>1, <3>2 DEF LastOf
  <2>4. In(buffer') = In(buffer) \cup {asked + 1}
    BY <2>2, <2>3, AppendAscends
  <2>5. \A k \in 1 .. asked + 1 : k \in 1 .. asked \/ k = asked + 1
    BY <2>2
  <2>6. Parts = (Gone \cup {PendingChat, msgs}) \cup {buffer}
        /\ Parts' = (Gone \cup {PendingChat, msgs}) \cup {buffer'}
    BY <2>1 DEF Parts, Gone
  <2>7. \A k \in 1 .. asked : \E c \in Parts : k \in In(c)
    BY <2>1 DEF Kept
  <2>8. \A k \in 1 .. asked + 1 : \E c \in Parts' : k \in In(c)
    BY <2>4, <2>5, <2>6, <2>7
  <2> QED  BY <2>1, <2>8 DEF Kept
<1>3. CASE GetPendingMessages
  <2>1. /\ UNCHANGED <<heard, flushing, sendSlot, PendingChat, asked, clean>>
        /\ msgs = << >> /\ msgs' = buffer /\ buffer' = << >>
    BY <1>3 DEF GetPendingMessages, TypeOK
  <2>2. Parts' = Parts
    BY <2>1 DEF Parts, Gone
  <2> QED  BY <2>1, <2>2 DEF Kept
<1>4. CASE HandleMessage
  <2> DEFINE x == Head(msgs)
             t == Tail(msgs)
             p == Append(PendingChat, x)
  <2>1. /\ UNCHANGED <<heard, flushing, sendSlot, buffer, asked, clean>> /\ msgs # << >>
        /\ PendingChat' = p /\ msgs' = t
    BY <1>4 DEF HandleMessage, TypeOK
  <2>2. PendingChat \in Seq(Nat) /\ msgs \in Seq(Nat)
    BY PartNumbers DEF Parts
  <2>3. In(msgs) \subseteq {x} \cup In(t)
    <3>1. /\ Len(msgs) \in Nat /\ Len(t) = Len(msgs) - 1 /\ x = msgs[1]
          /\ \A i \in 1 .. Len(t) : t[i] = msgs[i + 1]
      BY <2>1, <2>2, HeadTailProperties
    <3> HIDE DEF x, t
    <3>2. \A i \in 1 .. Len(msgs) : i = 1 \/ (i - 1 \in 1 .. Len(t) /\ (i - 1) + 1 = i)
      BY <3>1
    <3>3. \A i \in 1 .. Len(msgs) : msgs[i] = x \/ \E j \in 1 .. Len(t) : msgs[i] = t[j]
      BY <3>1, <3>2
    <3> QED  BY <3>3 DEF In
  <2>4. In(p) = In(PendingChat) \cup {x}
    <3>1. x \in Nat
      BY <2>1, <2>2, HeadTailProperties
    <3> QED  BY <2>2, <3>1, AppendAscends
  <2> HIDE DEF x, t, p
  <2>5. /\ Parts = Gone \cup {PendingChat, msgs, buffer}
        /\ Parts' = Gone \cup {p, t, buffer}
    BY <2>1 DEF Parts, Gone
  <2>6. \A c \in Parts : \A k \in In(c) : \E d \in Parts' : k \in In(d)
    BY <2>3, <2>4, <2>5
  <2> QED  BY <2>1, <2>6 DEF Kept
<1>5. CASE /\ UNCHANGED <<heard, flushing, sendSlot, msgs, buffer, asked>> /\ PendingChat' = << >>
           /\ clean' = (clean /\ PendingChat = << >>)
  <2>1. clean /\ PendingChat = << >>
    BY <1>5
  <2> QED  BY <1>5, <2>1 DEF Kept, Parts, Gone
<1>6. CASE /\ UNCHANGED <<heard, flushing, msgs, buffer, asked>> /\ PendingChat' = << >>
           /\ sendSlot' = <<PendingChat>>
           /\ clean' = (clean /\ NothingToLose)
  <2>1. clean /\ NothingToLose
    BY <1>6
  <2>2. In(sendSlot') = {PendingChat}
    <3>1. In(<<PendingChat>>) = {PendingChat}
      BY DEF In
    <3> QED  BY <1>6, <3>1
  <2>3. \A c \in In(flushing) \cup In(sendSlot) : c = << >>
    <3>1. /\ flushing = << >> \/ flushing = << << >> >>
          /\ sendSlot = << >> \/ sendSlot = << << >> >>
      BY <2>1 DEF NothingToLose
    <3>2. \A q : q = << >> \/ q = << << >> >> => \A c \in In(q) : c = << >>
      BY DEF In
    <3> QED  BY <3>1, <3>2
  <2>4. \A c \in Parts : \A k \in In(c) : \E d \in Parts' : k \in In(d)
    <3>1. \A k \in In(<< >>) : FALSE
      BY EmptyAscends
    <3>2. \A c \in Parts : c \in Parts' \/ c = << >>
      BY <1>6, <2>2, <2>3 DEF Parts, Gone
    <3> QED  BY <3>1, <3>2
  <2> QED  BY <1>6, <2>1, <2>3, <2>4 DEF Kept
<1>7. CASE Claim
  <2>1. /\ UNCHANGED <<heard, PendingChat, msgs, buffer, asked, clean>>
        /\ flushing = << >> /\ flushing' = sendSlot /\ sendSlot' = << >>
    BY <1>7 DEF Claim, lua_ui
  <2>2. Parts' = Parts
    BY <2>1 DEF Parts, Gone
  <2> QED  BY <2>1, <2>2 DEF Kept
<1>8. CASE Flush
  <2>1. /\ UNCHANGED <<sendSlot, PendingChat, msgs, buffer, asked>>
        /\ flushing # << >> /\ flushing' = << >>
        /\ \/ /\ heard' = IF Copied = << >> THEN heard ELSE Append(heard, Copied)
              /\ clean' = clean
           \/ sendSlot # << >> /\ UNCHANGED <<heard, clean>>
           \/ heard' = heard /\ clean' = (clean /\ (sendSlot # << >> \/ Copied = << >>))
    BY <1>8 DEF Flush, lua_ui
  <2>2. clean
    BY <2>1
  <2>3. In(flushing) = {flushing[1]} /\ In(flushing') = {}
    BY <2>1, EmptyAscends, PartNumbers
  <2>4. In(heard) \subseteq In(heard')
    <3>1. heard \in Seq(Seq(1 .. asked)) /\ Copied \in Seq(1 .. asked)
      BY <1>8 DEF Flush, Copied, TypeOK
    <3>2. In(Append(heard, Copied)) = In(heard) \cup {Copied}
      BY <3>1, AppendChat
    <3> QED  BY <2>1, <3>2
  <2>5. flushing[1] = << >> \/ flushing[1] \in In(heard')
    <3>1. CASE sendSlot # << >>
      BY <2>2, <2>3, <3>1 DEF Kept
    <3>2. CASE sendSlot = << >>
      <4>1. Copied = flushing[1]
        BY <3>2 DEF Copied
      <4>2. CASE Copied = << >>
        BY <4>1, <4>2
      <4>3. CASE Copied # << >>
        <5>1. heard' = Append(heard, Copied)
          BY <2>1, <3>2, <4>3
        <5>2. heard \in Seq(Seq(1 .. asked)) /\ Copied \in Seq(1 .. asked)
          BY <1>8 DEF Flush, Copied, TypeOK
        <5> QED  BY <4>1, <5>1, <5>2, AppendChat
      <4> QED  BY <4>2, <4>3
    <3> QED  BY <3>1, <3>2
  <2>6. \A c \in Parts : c \in Parts' \/ c = << >>
    BY <2>1, <2>3, <2>4, <2>5 DEF Parts, Gone
  <2>7. \A c \in Parts : \A k \in In(c) : \E d \in Parts' : k \in In(d)
    BY <2>6, EmptyAscends
  <2> QED  BY <2>1, <2>2, <2>3, <2>7 DEF Kept
<1>9. CASE Periodic \/ Offline \/ Event \/ PollCommand \/ ChangeStatus \/ Receive \/ OnSync
  BY <1>1, <1>9 DEF Periodic, Offline, Event, PollCommand, ChangeStatus, Receive, OnSync, lua_ui
<1>10. CASE SendTest
  BY <1>1, <1>5, <1>10 DEF SendTest
<1>11. CASE Push
  BY <1>5, <1>6, <1>11 DEF Push
<1>12. CASE UNCHANGED vars
  BY <1>1, <1>12 DEF vars
<1> QED  BY <1>2, <1>3, <1>4, <1>7, <1>8, <1>9, <1>10, <1>11, <1>12 DEF Next, Strategy, InProgress

\* What the parts keep is kept on the way.
LEMMA KeptOnWay ==
    ASSUME TypeOK, Ordered, Kept
    PROVE  ChatIsKept
<1>1. \A c \in Parts : \E i \in 1 .. Len(Way) : c = Way[i]
  BY WayInOrder DEF In
<1> QED  BY <1>1 DEF Kept, ChatIsKept

-----------------------------------------------------------------------------
(* The replies *)

\* OnSync compares with lastId what Sync holds, which is never older.
LEMMA StepReplied ==
    ASSUME TypeOK, Replied, [Next]_vars
    PROVE  Replied'
<1> USE DEF bridge, ui
<1>1. /\ chat_id \in Nat /\ sync \in 0 .. chat_id /\ lastId \in 0 .. chat_id
      /\ shown \in Seq(Nat)
  <2>1. chat_id \in Nat /\ 1 .. chat_id \subseteq Nat /\ shown \in Seq(1 .. chat_id)
    BY DEF TypeOK
  <2>2. shown \in Seq(Nat)
    BY <2>1, SeqMonotonic
  <2> QED  BY <2>2 DEF TypeOK
<1>2. CASE UNCHANGED <<sync, lastId, shown>>
  BY <1>2 DEF Replied
<1>3. CASE SendChat /\ UNCHANGED <<lastId, shown>>
  <2>1. sync' = chat_id + 1
    BY <1>3 DEF SendChat
  <2>2. sync' >= lastId'
    BY <1>1, <1>3, <2>1
  <2> QED  BY <1>3, <2>2 DEF Replied
<1>4. CASE OnSync
  <2>1. sync \in Nat /\ lastId \in Nat /\ sync # 0 /\ sync >= lastId /\ sync' \in {0, sync}
    BY <1>1, <1>4 DEF OnSync, Replied
  <2>2. CASE sync # lastId /\ lastId' = sync /\ shown' = Append(shown, sync)
    <3>1. \A n \in In(shown) : n < sync /\ n <= sync
      <4>1. \A n \in In(shown) : n \in Nat
        BY <1>1, ElementOfSeq DEF In
      <4> QED  BY <2>1, <2>2, <4>1 DEF Replied
    <3>2. In(shown') = In(shown) \cup {sync} /\ Ascends(shown')
      BY <1>1, <2>1, <2>2, <3>1, AppendAscends DEF Replied
    <3>3. \A n \in In(shown) : n <= sync
      BY <3>1
    <3>4. sync <= sync
      BY <2>1
    <3> QED  BY <2>1, <2>2, <3>2, <3>3, <3>4 DEF Replied
  <2>3. CASE UNCHANGED <<lastId, shown>>
    BY <2>1, <2>3 DEF Replied
  <2> QED  BY <1>4, <2>2, <2>3 DEF OnSync
<1>5. CASE ChatMessage \/ GetPendingMessages \/ Periodic \/ Offline \/ Event \/ SendTest \/ Push
           \/ ChangeStatus \/ Claim \/ Flush \/ Receive \/ UNCHANGED vars
  BY <1>2, <1>5 DEF ChatMessage, GetPendingMessages, Periodic, Offline, Event, SendTest, Push,
                    ChangeStatus, Claim, Flush, Receive, lua_ui, vars
<1>6. CASE HandleMessage \/ PollCommand
  BY <1>2, <1>3, <1>6 DEF HandleMessage, PollCommand
<1> QED  BY <1>4, <1>5, <1>6 DEF Next, Strategy, InProgress

-----------------------------------------------------------------------------

\* The inductive invariant: what is on its way is in order from part to part,
\* and the interface is behind what it was sent.
THEOREM Invariance == Spec => []IInv
<1>1. Init => IInv
  BY InitTypes, InitOrder DEF IInv
<1>2. IInv /\ [Next]_vars => IInv'
  BY StepTypes, StepOrder, StepKept, StepReplied DEF IInv
<1> QED  BY <1>1, <1>2, PTL DEF Spec

\* The player's messages reach the pipe in the order in which they were said, and
\* one a second time only with all of its snapshot and directly after the first
\* (LLMAIBrain.lua ChatHandlerThread, pipe_client.cpp osq_pop and PipeThread).
THEOREM ChatInOrderHolds == Spec => []ChatInOrder
<1>1. IInv => ChatInOrder
  BY OrderOfWay DEF IInv
<1> QED  BY <1>1, Invariance, PTL

\* Every message is still on its way or in the pipe, unless one of the places
\* where the code throws chat away was passed.
THEOREM ChatIsKeptHolds == Spec => []ChatIsKept
<1>1. IInv => ChatIsKept
  BY KeptOnWay DEF IInv
<1> QED  BY <1>1, Invariance, PTL

\* The interface displays replies in their order and none twice (SendChat of
\* LLMAIBrain.lua, OnSync of gamemain.lua).
THEOREM RepliesInOrderHolds == Spec => []RepliesInOrder
<1>1. IInv => RepliesInOrder
  BY DEF IInv, Replied, Ascends, RepliesInOrder
<1> QED  BY <1>1, Invariance, PTL
=============================================================================
