------------------------- MODULE OneSlotQueueProofs -------------------------
(* Proofs about OneSlotQueue for every capacity, every set of lengths and     *)
(* every number of pushes.                                                    *)
EXTENDS OneSlotQueue, SequenceTheorems, TLAPS

USE CapAssumption, MaxPushAssumption DEF Cells

\* Pushing a message leaves the messages already sent as they were.
LEMMA AppendKeeps ==
    ASSUME NEW s \in Seq(Cells), NEW x \in Cells
    PROVE  /\ Append(s, x) \in Seq(Cells)
           /\ Len(Append(s, x)) = Len(s) + 1
           /\ Append(s, x)[Len(s) + 1] = x
           /\ \A k \in 1 .. Len(s) : Append(s, x)[k] = s[k]
  OBVIOUS

\* What the type invariant says of the values the steps below compute with.
LEMMA Typing ==
    ASSUME TypeOK
    PROVE  /\ Newest \in 0 .. MaxPush
           /\ claimed \in 0 .. MaxPush
           /\ len \in 0 .. Cap
           /\ n \in 0 .. Cap
           /\ last.claim \in 0 .. MaxPush
           /\ last.upto \in 0 .. MaxPush
           /\ \A k \in 1 .. Newest : sent[k] \in 1 .. Cap
           /\ \A i \in Cells : buf[i] \in 0 .. MaxPush /\ out[i] \in 0 .. MaxPush
<1>1. \A k \in 1 .. Newest : sent[k] \in 1 .. Cap
    BY ElementOfSeq DEF TypeOK, Newest
<1> QED
    BY <1>1 DEF TypeOK

LEMMA ClampInCells == \A l \in LenArgs : Clamp(l) \in Cells
  BY CapAssumption, LenArgsAssumption DEF Clamp

LEMMA InitIInv == Init => IInv
<1> SUFFICES ASSUME Init PROVE IInv
    OBVIOUS
<1> USE DEF Init
<1>0. Newest = 0
    BY DEF Newest
<1>1. TypeOK
  <2>1. last \in [claim : 0 .. MaxPush, upto : 0 .. MaxPush, data : Seq(0 .. MaxPush)]
      OBVIOUS
  <2>4. len \in 0 .. Cap /\ n \in 0 .. Cap /\ claimed \in 0 .. MaxPush
      OBVIOUS
  <2>2. buf \in [Cells -> 0 .. MaxPush] /\ out \in [Cells -> 0 .. MaxPush]
      OBVIOUS
  <2>3. sent \in Seq(Cells)
      BY EmptySeq
  <2> QED
      BY <1>0, <2>1, <2>2, <2>3, <2>4, Zenon DEF TypeOK
<1>2. ProducerInv
    BY <1>0 DEF ProducerInv
<1>3. ConsumerInv
    BY <1>0 DEF ConsumerInv
<1>4. LastInv
    BY <1>0 DEF LastInv, QuietPopExact, NoOlderByte, Message
<1> QED
    BY <1>1, <1>2, <1>3, <1>4 DEF IInv

LEMMA BeginPushIInv ==
    ASSUME IInv, NEW l \in LenArgs, BeginPush(l) PROVE IInv'
<1> USE DEF IInv
<1> DEFINE m == Clamp(l)
<1>1. m \in Cells
    BY ClampInCells
<1>2. /\ sent' \in Seq(Cells)
      /\ Newest' = Newest + 1
      /\ sent'[Newest + 1] = m
      /\ \A k \in 1 .. Newest : sent'[k] = sent[k]
    BY <1>1, AppendKeeps DEF TypeOK, Newest, BeginPush
<1> HIDE DEF m
<1>3. /\ stores' = 0 .. m
      /\ ready' = 0
      /\ pushing' = TRUE
      /\ Newest < MaxPush
      /\ UNCHANGED <<buf, len, cpc, n, loads, out, claimed, last>>
    BY DEF m, BeginPush, consumer
<1>4. \A k \in Nat : k # 0 /\ k <= Newest => sent'[k] = sent[k]
    BY <1>2, Typing
<1>5. TypeOK'
  <2>1. /\ Newest' \in 0 .. MaxPush
        /\ stores' \subseteq 0 .. Cap
      BY <1>1, <1>2, <1>3, Typing
  <2> QED
      BY <1>2, <1>3, <2>1 DEF TypeOK
<1>6. ProducerInv'
  <2>1. /\ Newest \in Nat /\ claimed <= Newest /\ claimed \in Nat
        /\ \A i \in Cells : buf[i] \in Nat /\ buf[i] <= Newest
      BY Typing DEF ProducerInv, ConsumerInv
  <2> HIDE DEF IInv
  <2>2. /\ Newest' > 0 /\ Newest' > claimed /\ sent'[Newest'] = m /\ m \in Nat
        /\ \A i \in Cells : buf[i] <= Newest'
      BY <1>1, <1>2, <2>1
  <2> QED
      BY <1>3, <2>2 DEF ProducerInv
<1>7. ConsumerInv'
  <2>1. claimed \in 0 .. Newest /\ Newest \in Nat
      BY Typing DEF ConsumerInv
  <2>2. claimed > 0 => sent'[claimed] = sent[claimed]
      BY <1>4, <2>1
  <2>3. cpc = "copy" => claimed > 0 /\ n \in 0 .. Cap /\ loads \subseteq 1 .. n
      BY Typing DEF ConsumerInv
  <2>4. cpc = "copy" => \A i \in 1 .. n : out[i] \in 0 .. MaxPush
      BY <2>3, Typing
  <2>5. claimed > 0 => \A i \in 1 .. sent'[claimed] : buf[i] >= claimed
      BY <2>2 DEF ConsumerInv
  <2>6. cpc = "copy" =>
          /\ claimed # Newest'
          /\ \A i \in (1 .. n) \ loads :
                /\ out[i] <= Newest'
                /\ i <= sent'[claimed] => out[i] >= claimed
    <3>1. cpc = "copy" =>
            \A i \in (1 .. n) \ loads :
              out[i] <= Newest /\ (i <= sent[claimed] => out[i] >= claimed)
        BY DEF ConsumerInv
    <3> HIDE DEF IInv
    <3> QED
        BY <1>2, <2>1, <2>2, <2>3, <2>4, <3>1
  <2>7. ready' = 0 /\ claimed <= Newest'
      BY <1>2, <1>3, <2>1
  <2> QED
      BY <1>3, <2>3, <2>5, <2>6, <2>7 DEF ConsumerInv
<1>8. LastInv'
  <2>1. last.claim \in 0 .. Newest
      BY Typing DEF LastInv, ConsumerInv
  <2>2. last.claim # 0 => sent'[last.claim] = sent[last.claim]
      BY <1>4, <2>1, Typing
  <2>3. QuietPopExact'
      BY <1>3, <2>2 DEF LastInv, QuietPopExact, Message
  <2>4. NoOlderByte'
      BY <1>3, <2>2 DEF LastInv, NoOlderByte
  <2> QED
      BY <1>2, <1>3, <2>3, <2>4, Typing DEF LastInv
<1> QED
    BY <1>5, <1>6, <1>7, <1>8

\* A step that touches neither the last pop nor the messages sent keeps what
\* is known of that pop.
LEMMA LastInvKept ==
    ASSUME LastInv, UNCHANGED <<last, sent>>, Newest' = Newest, claimed' \in Nat,
           claimed \in Nat, last.claim \in Nat, claimed' >= claimed
    PROVE  LastInv'
  BY DEF LastInv, QuietPopExact, NoOlderByte, Message

LEMMA StoreLenIInv == ASSUME IInv, StoreLen PROVE IInv'
<1> USE DEF IInv, StoreLen, consumer
<1>0. Newest' = Newest
    BY DEF Newest
<1>1. pushing /\ Newest > claimed /\ Newest > 0
    BY Typing DEF ProducerInv
<1>2. TypeOK'
  <2>1. len' \in 0 .. Cap
      BY <1>1, Typing
  <2> QED
      BY <1>0, <2>1 DEF TypeOK
<1>3. ProducerInv'
    BY <1>0, <1>1 DEF ProducerInv
<1>4. ConsumerInv'
    BY <1>0, <1>1 DEF ConsumerInv
<1>5. LastInv'
    BY <1>0, LastInvKept, Typing
<1> QED
    BY <1>2, <1>3, <1>4, <1>5

LEMMA StoreCellIInv ==
    ASSUME IInv, NEW i \in Cells, StoreCell(i) PROVE IInv'
<1> USE DEF IInv, StoreCell, consumer
<1>0. Newest' = Newest
    BY DEF Newest
<1>1. pushing /\ Newest > claimed /\ Newest \in 1 .. MaxPush
    BY Typing DEF ProducerInv
<1>2. buf' = [buf EXCEPT ![i] = Newest] /\ buf \in [Cells -> 0 .. MaxPush]
    BY DEF TypeOK
<1>3. TypeOK'
    BY <1>0, <1>1, <1>2 DEF TypeOK
<1>4. ProducerInv'
    BY <1>0, <1>1, <1>2, Typing DEF ProducerInv
<1>5. ConsumerInv'
    BY <1>0, <1>1, <1>2, Typing DEF ConsumerInv
<1>6. LastInv'
    BY <1>0, LastInvKept, Typing
<1> QED
    BY <1>3, <1>4, <1>5, <1>6

LEMMA PublishIInv == ASSUME IInv, Publish PROVE IInv'
<1> USE DEF IInv, Publish, consumer
<1>0. Newest' = Newest
    BY DEF Newest
<1>1. TypeOK'
    BY <1>0 DEF TypeOK
<1>2. ProducerInv'
    BY <1>0 DEF ProducerInv
<1>3. ConsumerInv'
    BY <1>0 DEF ConsumerInv, ProducerInv
<1>4. LastInv'
    BY <1>0, LastInvKept, Typing
<1> QED
    BY <1>1, <1>2, <1>3, <1>4

LEMMA ClaimIInv == ASSUME IInv, Claim PROVE IInv'
<1> USE DEF IInv, Claim, producer
<1>0. Newest' = Newest
    BY DEF Newest
<1>1. ~pushing /\ stores = {} /\ Newest > claimed /\ Newest \in 1 .. MaxPush
    BY Typing DEF ProducerInv, ConsumerInv, TypeOK
<1>2. TypeOK'
    BY <1>0, <1>1 DEF TypeOK
<1>3. ProducerInv'
    BY <1>0, <1>1 DEF ProducerInv
<1>4. ConsumerInv'
    BY <1>0, <1>1, Typing DEF ConsumerInv, ProducerInv, LastInv
<1>5. LastInv'
    BY <1>0, <1>1, LastInvKept, Typing
<1> QED
    BY <1>2, <1>3, <1>4, <1>5

LEMMA LoadLenIInv == ASSUME IInv, LoadLen PROVE IInv'
<1> USE DEF IInv, LoadLen, producer, queue
<1>0. Newest' = Newest
    BY DEF Newest
<1>1. claimed > 0 /\ loads' \subseteq Cells
    BY Typing DEF ConsumerInv
<1>2. TypeOK'
    BY <1>0, <1>1 DEF TypeOK
<1>3. ProducerInv'
    BY <1>0 DEF ProducerInv
<1>4. claimed = Newest => len = sent[claimed]
    BY <1>1, Typing DEF ProducerInv
<1>5. ConsumerInv'
    BY <1>0, <1>4, Typing DEF ConsumerInv
<1>6. LastInv'
    BY <1>0, LastInvKept, Typing
<1> QED
    BY <1>2, <1>3, <1>5, <1>6

LEMMA LoadCellIInv ==
    ASSUME IInv, NEW i \in Cells, LoadCell(i) PROVE IInv'
<1> USE DEF IInv, LoadCell, producer, queue
<1>0. Newest' = Newest
    BY DEF Newest
<1>1. out' = [out EXCEPT ![i] = buf[i]] /\ out \in [Cells -> 0 .. MaxPush]
    BY DEF TypeOK
<1>2. buf[i] <= Newest /\ (claimed > 0 /\ i <= sent[claimed] => buf[i] >= claimed)
    BY DEF ProducerInv, ConsumerInv
<1>3. TypeOK'
    BY <1>0, <1>1, Typing DEF TypeOK
<1>4. ProducerInv'
    BY <1>0 DEF ProducerInv
<1>5. ConsumerInv'
  <2>1. cpc = "copy" => 1 .. n \subseteq Cells /\ loads \subseteq 1 .. n
      BY Typing DEF ConsumerInv
  <2>2. \A j \in Cells : out'[j] = IF j = i THEN buf[i] ELSE out[j]
      BY <1>1
  <2>3. cpc = "copy" => claimed > 0
      BY Typing DEF ConsumerInv
  <2>4. cpc = "copy" =>
          \A j \in (1 .. n) \ loads' :
             out'[j] <= Newest /\ (j <= sent[claimed] => out'[j] >= claimed)
      BY <1>2, <2>1, <2>2, <2>3 DEF ConsumerInv
  <2> QED
      BY <1>0, <2>4 DEF ConsumerInv
<1>6. LastInv'
    BY <1>0, LastInvKept, Typing
<1> QED
    BY <1>3, <1>4, <1>5, <1>6

LEMMA ReturnIInv == ASSUME IInv, Return PROVE IInv'
<1> USE DEF IInv, Return, producer, queue
<1> DEFINE d == [i \in 1 .. n |-> out[i]]
<1>0. Newest' = Newest
    BY DEF Newest
<1>1. /\ d \in Seq(0 .. MaxPush)
      /\ Len(d) = n
      /\ \A i \in 1 .. n : d[i] = out[i]
    BY DEF TypeOK
<1> HIDE DEF d
<1>2. last' = [claim |-> claimed, upto |-> Newest, data |-> d]
    BY DEF d
<1>3. claimed \in 1 .. Newest /\ claimed \in 0 .. MaxPush /\ sent[claimed] \in 1 .. Cap
    BY Typing DEF ConsumerInv
<1>4. TypeOK'
  <2>1. last' \in [claim : 0 .. MaxPush, upto : 0 .. MaxPush, data : Seq(0 .. MaxPush)]
    <3>1. Newest \in 0 .. MaxPush
        BY Typing
    <3> HIDE DEF IInv, Return
    <3> QED
        BY <1>1, <1>2, <1>3, <3>1
  <2> QED
      BY <1>0, <2>1 DEF TypeOK
<1>5. ProducerInv'
    BY <1>0 DEF ProducerInv
<1>6. ConsumerInv'
    BY <1>0 DEF ConsumerInv
<1>7. \A i \in 1 .. n : out[i] <= Newest /\ (i <= sent[claimed] => out[i] >= claimed)
    BY DEF ConsumerInv
<1>8. QuietPopExact'
  <2> SUFFICES ASSUME claimed = Newest
               PROVE  d = [i \in 1 .. sent[claimed] |-> claimed]
    <3>1. last'.claim = claimed /\ last'.upto = Newest /\ last'.data = d
        BY <1>2
    <3>2. sent' = sent /\ claimed # 0
        BY <1>3
    <3> QED
        BY <3>1, <3>2 DEF QuietPopExact, Message
  <2>1. n = sent[claimed]
      BY DEF ConsumerInv
  <2>2. \A i \in 1 .. n : out[i] = claimed
      BY <1>3, <1>7, <2>1, Typing
  <2> QED
      BY <2>1, <2>2 DEF d
<1>9. NoOlderByte'
    BY <1>1, <1>2, <1>3, <1>7, Typing DEF NoOlderByte
<1>10. LastInv'
    BY <1>0, <1>2, <1>3, <1>8, <1>9, Typing DEF LastInv
<1> QED
    BY <1>4, <1>5, <1>6, <1>10

LEMMA StutterIInv == ASSUME IInv, UNCHANGED vars PROVE IInv'
<1> USE DEF vars, queue, producer, consumer
<1>0. Newest' = Newest
    BY DEF Newest
<1>1. TypeOK' /\ ProducerInv' /\ ConsumerInv'
    BY <1>0 DEF IInv, TypeOK, ProducerInv, ConsumerInv
<1>2. LastInv'
    BY <1>0, LastInvKept, Typing DEF IInv
<1> QED
    BY <1>1, <1>2 DEF IInv

LEMMA NextIInv == IInv /\ [Next]_vars => IInv'
<1> SUFFICES ASSUME IInv, [Next]_vars PROVE IInv'
    OBVIOUS
<1>1. CASE \E l \in LenArgs : BeginPush(l)
    BY <1>1, BeginPushIInv
<1>2. CASE PushStep
    BY <1>2, StoreLenIInv, StoreCellIInv, PublishIInv DEF PushStep
<1>3. CASE PopStep
    BY <1>3, ClaimIInv, LoadLenIInv, LoadCellIInv, ReturnIInv DEF PopStep
<1>4. CASE PopEmpty \/ UNCHANGED vars
    BY <1>4, StutterIInv DEF PopEmpty
<1> QED
    BY <1>1, <1>2, <1>3, <1>4 DEF Next

\* The inductive invariant holds in every reachable state.
THEOREM Invariance == Spec => []IInv
  BY InitIInv, NextIInv, PTL DEF Spec

\* Every variable keeps its type.
THEOREM TypeCorrect == Spec => []TypeOK
  BY Invariance, PTL DEF IInv

\* A consumer that finds ready = 1 finds the newest message whole in the slot.
THEOREM ReadyMeansWholeHolds == Spec => []ReadyMeansWhole
<1>1. IInv => ReadyMeansWhole
  <2> SUFFICES ASSUME IInv, ready = 1 PROVE ReadyMeansWhole
      BY DEF ReadyMeansWhole
  <2>1. ~pushing /\ stores = {} /\ Newest > 0
      BY Typing DEF IInv, ProducerInv, ConsumerInv, TypeOK
  <2> QED
      BY <2>1 DEF IInv, ProducerInv, ReadyMeansWhole
<1> QED
    BY <1>1, Invariance, PTL

\* Only a push that overlaps a pop can damage what the pop returns, and then
\* never with bytes older than the message that was claimed.
THEOREM PopContents == Spec => [](QuietPopExact /\ NoOlderByte)
  BY Invariance, PTL DEF IInv, LastInv

\* No two pops claim the same message.
THEOREM EachClaimedOnceHolds == Spec => EachClaimedOnce
<1>1. ASSUME IInv, [Next]_vars, last' # last
      PROVE  last'.claim > last.claim
  <2>1. Return
      BY <1>1 DEF Next, PushStep, PopStep, BeginPush, StoreLen, StoreCell, Publish,
                  PopEmpty, Claim, LoadLen, LoadCell, consumer, vars
  <2>2. last'.claim = claimed
      BY <2>1 DEF Return
  <2> QED
      BY <1>1, <2>1, <2>2, Typing DEF Return, IInv, ConsumerInv
<1>2. IInv /\ [Next]_vars => [last' # last => last'.claim > last.claim]_vars
    BY <1>1
<1> QED
    BY <1>2, Invariance, PTL DEF Spec, EachClaimedOnce

-----------------------------------------------------------------------------
(* The queue implements the mailbox *)

\* What the mailbox sees of a reachable state.
LEMMA View ==
    ASSUME IInv
    PROVE  /\ Newest \in Nat /\ claimed \in Nat
           /\ ready = 1 => Newest > 0 /\ ~pushing
           /\ pushing => ready # 1
           /\ cpc # "idle" => claimed > 0
           /\ pushing \in BOOLEAN
           /\ last.claim = last.upto => last.data = Message(last.claim)
  BY Typing DEF IInv, TypeOK, LastInv, QuietPopExact, ProducerInv, ConsumerInv

\* Whatever the interleaving of their memory accesses, osq_push and osq_pop are
\* the latest-message-wins mailbox, whose copies only a newer push can damage.
THEOREM Refinement == Spec => ImplementsMailbox
<1>1. Init => MB!Init
    BY DEF Init, MB!Init, Newest, Message
<1>2. ASSUME IInv, IInv', [Next]_vars
      PROVE  [MB!Next]_MB!vars
  <2> USE <1>2, View DEF MB!vars, MB!Next
  <2>1. ASSUME NEW l \in LenArgs, BeginPush(l) PROVE MB!Begin
    <3>1. Clamp(l) \in Cells /\ sent \in Seq(Cells)
        BY ClampInCells DEF IInv, TypeOK
    <3>2. /\ sent' = Append(sent, Clamp(l))
          /\ ~pushing /\ pushing' = TRUE /\ ready' = 0
          /\ UNCHANGED <<cpc, claimed, last>>
        BY <2>1 DEF BeginPush, consumer
    <3> HIDE DEF Clamp
    <3>3. /\ Newest' = Newest + 1
          /\ \A k \in 1 .. Newest : sent'[k] = sent[k]
        BY <3>1, <3>2, AppendKeeps DEF Newest
    <3>4. last.claim \in 0 .. Newest
        BY Typing DEF IInv, LastInv, ConsumerInv
    <3>5. last.claim # 0 => sent'[last.claim] = sent[last.claim]
        BY <3>3, <3>4
    <3>6. Message(last.claim)' = Message(last.claim)
        BY <3>2, <3>5 DEF Message
    <3> QED
        BY <3>2, <3>3, <3>6 DEF MB!Begin
  <2>2. CASE StoreLen \/ \E i \in Cells : StoreCell(i)
      BY <2>2 DEF StoreLen, StoreCell, consumer, Newest, Message
  <2>3. CASE Publish
    <3>1. Newest' = Newest /\ sent' = sent /\ UNCHANGED <<cpc, claimed, last>>
        BY <2>3 DEF Publish, consumer, Newest
    <3>2. pushing /\ pushing' = FALSE /\ ready' = 1
        BY <2>3 DEF Publish
    <3> QED
        BY <3>1, <3>2 DEF MB!Put, Message
  <2>4. CASE Claim
    <3>1. Newest' = Newest /\ sent' = sent /\ UNCHANGED <<pushing, last>>
        BY <2>4 DEF Claim, producer, Newest
    <3> QED
        BY <2>4, <3>1 DEF Claim, MB!Take, Message
  <2>5. CASE LoadLen \/ \E i \in Cells : LoadCell(i)
      BY <2>5 DEF LoadLen, LoadCell, queue, producer, Newest, Message
  <2>6. CASE Return
    <3>1. /\ Newest' = Newest /\ sent' = sent /\ cpc # "idle" /\ cpc' = "idle"
          /\ last'.claim = claimed /\ last'.upto = Newest
          /\ UNCHANGED <<ready, pushing, claimed>>
        BY <2>6 DEF Return, queue, producer, Newest
    <3>2. claimed # Newest => Newest > claimed
        BY DEF IInv, ConsumerInv
    <3>3. (last.claim = last.upto => last.data = Message(last.claim))'
        BY DEF IInv, LastInv, QuietPopExact
    <3>4. (last.data # Message(last.claim))' => Newest > claimed
        BY <3>1, <3>2, <3>3
    <3> QED
        BY <3>1, <3>4 DEF MB!Return
  <2>7. CASE PopEmpty \/ UNCHANGED vars
      BY <2>7 DEF PopEmpty, vars, queue, producer, consumer, Newest, Message
  <2> QED
      BY <2>1, <2>2, <2>3, <2>4, <2>5, <2>6, <2>7 DEF Next, PushStep, PopStep
<1>3. IInv /\ IInv' /\ [Next]_vars => [MB!Next]_MB!vars
    BY <1>2
<1> QED
    BY <1>1, <1>3, Invariance, PTL DEF Spec, ImplementsMailbox, MB!Spec
=============================================================================
