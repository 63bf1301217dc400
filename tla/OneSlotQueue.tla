---------------------------- MODULE OneSlotQueue ----------------------------
(* OneSlotQueue of bridge/src/pipe_client.cpp: osq_push and osq_pop, one       *)
(* memory access at a time.  There are two such queues (g_send_q, g_recv_q),  *)
(* each with one producer thread and one consumer thread that share nothing   *)
(* else, so one instance is modelled.                                         *)
(*                                                                            *)
(* A buffer has Cap cells.  The bytes of the k-th message pushed are the      *)
(* number k, so that a cell says which push wrote it; 0 is a cell that no     *)
(* push has written.  memcpy promises no order between its bytes, nor the     *)
(* compiler between memcpy and the store of len: the pending stores (loads)   *)
(* of a push (pop) are a set, done in any order between the two interlocked   *)
(* accesses to ready, which are full barriers.                                *)
EXTENDS Naturals, Sequences

CONSTANTS Cap,      \* MAX_MSG_LEN, in cells
          LenArgs,  \* the lengths a caller passes to osq_push
          MaxPush   \* bound: the number of pushes

ASSUME CapAssumption == Cap \in Nat \ {0}
ASSUME LenArgsAssumption == LenArgs \subseteq Nat \ {0}
ASSUME MaxPushAssumption == MaxPush \in Nat

VARIABLES
    \* the queue
    buf,      \* buf[i]: the message whose byte cell i holds
    len,      \* q->len
    ready,    \* q->ready
    \* the producer inside osq_push
    pushing,  \* it is between its two writes of ready
    stores,   \* the stores it still has to do: 0 for len, i for cell i
    \* the consumer inside osq_pop
    cpc,      \* "idle", "len" (has claimed the slot), "copy"
    n,        \* its local n
    loads,    \* the cells it still has to read
    out,      \* its output buffer
    \* history
    sent,     \* sent[k]: the length of the k-th message pushed
    claimed,  \* the message in the slot when the consumer last claimed it
    last      \* the last completed pop: what it claimed, the newest push
              \* begun when it returned, and the data it returned

queue    == <<buf, len, ready>>
producer == <<pushing, stores, sent>>
consumer == <<cpc, n, loads, out, claimed, last>>
vars     == <<queue, producer, consumer>>

Cells == 1 .. Cap

\* Mutant: the copy is not clamped to the buffer.
MutNoClamp(l) == l
Clamp(l) == IF l > Cap THEN Cap ELSE l

\* The number of the newest message, whole or still being stored.
Newest == Len(sent)

\* Message k as its sender wrote it: sent[k] bytes, all of them its own.
Message(k) == IF k = 0 THEN << >> ELSE [i \in 1 .. sent[k] |-> k]

Init ==
    /\ buf = [i \in Cells |-> 0]
    /\ len = 0
    /\ ready = 0
    /\ pushing = FALSE
    /\ stores = {}
    /\ sent = << >>
    /\ cpc = "idle"
    /\ n = 0
    /\ loads = {}
    /\ out = [i \in Cells |-> 0]
    /\ claimed = 0
    /\ last = [claim |-> 0, upto |-> 0, data |-> << >>]

-----------------------------------------------------------------------------
(* osq_push *)

\* Mutant: the old message is not withdrawn before it is overwritten.
MutNoWithdraw(l) ==
    /\ ~pushing
    /\ Newest < MaxPush
    /\ pushing' = TRUE
    /\ stores' = 0 .. Clamp(l)
    /\ sent' = Append(sent, Clamp(l))
    /\ UNCHANGED <<buf, len, ready, consumer>>

BeginPush(l) ==
    /\ ~pushing
    /\ Newest < MaxPush
    /\ ready' = 0
    /\ pushing' = TRUE
    /\ stores' = 0 .. Clamp(l)
    /\ sent' = Append(sent, Clamp(l))
    /\ UNCHANGED <<buf, len, consumer>>

StoreLen ==
    /\ 0 \in stores
    /\ len' = sent[Newest]
    /\ stores' = stores \ {0}
    /\ UNCHANGED <<buf, ready, pushing, sent, consumer>>

StoreCell(i) ==
    /\ i \in stores
    /\ buf' = [buf EXCEPT ![i] = Newest]
    /\ stores' = stores \ {i}
    /\ UNCHANGED <<len, ready, pushing, sent, consumer>>

\* Mutant: ready is set before the copy has ended.
MutPublishEarly ==
    /\ pushing
    /\ ready' = 1
    /\ pushing' = FALSE
    /\ stores' = {}
    /\ UNCHANGED <<buf, len, sent, consumer>>

Publish ==
    /\ pushing
    /\ stores = {}
    /\ ready' = 1
    /\ pushing' = FALSE
    /\ UNCHANGED <<buf, len, stores, sent, consumer>>

PushStep == StoreLen \/ (\E i \in Cells : StoreCell(i)) \/ Publish

-----------------------------------------------------------------------------
(* osq_pop *)

PopEmpty ==
    /\ cpc = "idle"
    /\ ready = 0
    /\ UNCHANGED vars

\* Mutant: the consumer tests ready without swapping it to 0.
MutClaimKeepsReady ==
    /\ cpc = "idle"
    /\ ready = 1
    /\ cpc' = "len"
    /\ claimed' = Newest
    /\ UNCHANGED <<queue, producer, n, loads, out, last>>

\* Mutant: the test of the swapped value is inverted, so that a full slot is
\* emptied and reported as empty.
MutClaimDrops ==
    /\ cpc = "idle"
    /\ ready = 1
    /\ ready' = 0
    /\ UNCHANGED <<buf, len, producer, consumer>>

Claim ==
    /\ cpc = "idle"
    /\ ready = 1
    /\ ready' = 0
    /\ cpc' = "len"
    /\ claimed' = Newest
    /\ UNCHANGED <<buf, len, producer, n, loads, out, last>>

LoadLen ==
    /\ cpc = "len"
    /\ n' = len
    /\ loads' = 1 .. len
    /\ cpc' = "copy"
    /\ UNCHANGED <<queue, producer, out, claimed, last>>

LoadCell(i) ==
    /\ i \in loads
    /\ out' = [out EXCEPT ![i] = buf[i]]
    /\ loads' = loads \ {i}
    /\ UNCHANGED <<queue, producer, cpc, n, claimed, last>>

Return ==
    /\ cpc = "copy"
    /\ loads = {}
    /\ cpc' = "idle"
    /\ last' = [claim |-> claimed, upto |-> Newest, data |-> [i \in 1 .. n |-> out[i]]]
    /\ UNCHANGED <<queue, producer, n, loads, out, claimed>>

PopStep == Claim \/ LoadLen \/ (\E i \in Cells : LoadCell(i)) \/ Return

-----------------------------------------------------------------------------

Next ==
    \/ \E l \in LenArgs : BeginPush(l)
    \/ PushStep
    \/ PopEmpty
    \/ PopStep

Spec == Init /\ [][Next]_vars

(* A push, once begun, runs to its end, and each side polls for ever: the Lua *)
(* threads and the pipe thread call osq_pop in endless loops.  Nothing makes  *)
(* a caller push.                                                             *)
FairSpec == Spec /\ WF_vars(PushStep) /\ WF_vars(PopStep)

-----------------------------------------------------------------------------
(* Properties *)

TypeOK ==
    /\ buf \in [Cells -> 0 .. MaxPush]
    /\ len \in 0 .. Cap
    /\ ready \in {0, 1}
    /\ pushing \in BOOLEAN
    /\ stores \subseteq 0 .. Cap
    /\ sent \in Seq(Cells)
    /\ Newest \in 0 .. MaxPush
    /\ cpc \in {"idle", "len", "copy"}
    /\ n \in 0 .. Cap
    /\ loads \subseteq Cells
    /\ out \in [Cells -> 0 .. MaxPush]
    /\ claimed \in 0 .. MaxPush
    /\ last \in [claim : 0 .. MaxPush, upto : 0 .. MaxPush, data : Seq(0 .. MaxPush)]

\* When ready is 1 the slot holds the newest message whole: no consumer can
\* claim a message of which a byte, or the length, is still to be written.
ReadyMeansWhole ==
    ready = 1 => /\ ~pushing
                 /\ len = sent[Newest]
                 /\ \A i \in 1 .. len : buf[i] = Newest

\* A pop during which no push began returns exactly the message it claimed:
\* nothing but an overlapping push can damage what osq_pop returns.
QuietPopExact == last.claim = last.upto => last.data = Message(last.claim)

\* Up to the length of the message that was claimed, a pop never returns a
\* byte older than that message: what tears a pop is always a newer push.
NoOlderByte ==
    last.claim # 0 =>
        \A i \in 1 .. Len(last.data) :
            i <= sent[last.claim] => last.data[i] \in last.claim .. last.upto

\* No two pops claim the same message: the compare-and-swap hands each
\* published message to at most one pop.
EachClaimedOnce == [][last' # last => last'.claim > last.claim]_vars

\* A published message is popped, or a newer one is: what the producer leaves
\* in the slot is never forgotten there.
PublishedIsPopped ==
    \A k \in 1 .. MaxPush : (ready = 1 /\ Newest = k) ~> (last.claim >= k)

\* The queue is the mailbox of one slot: whatever the interleaving, a message
\* is withdrawn, published and claimed as a whole, and what a pop returns is
\* that message unless a newer push began before the pop returned.
MB == INSTANCE Mailbox WITH
        slot    <- IF ready = 1 THEN Newest ELSE 0,
        begun   <- Newest,
        writing <- pushing,
        taken   <- IF cpc = "idle" THEN 0 ELSE claimed,
        got     <- last.claim,
        torn    <- last.data # Message(last.claim)
ImplementsMailbox == MB!Spec

-----------------------------------------------------------------------------
(* The inductive invariant behind them *)

\* Of a push in progress, exactly the stores not yet done are missing from
\* the slot; after it the slot stays whole, claimed or not, until the next.
ProducerInv ==
    /\ ~pushing => stores = {}
    /\ pushing => /\ ready = 0
                  /\ Newest > claimed
                  /\ stores \subseteq 0 .. sent[Newest]
    /\ Newest > 0 => /\ 0 \notin stores => len = sent[Newest]
                     /\ \A i \in 1 .. sent[Newest] : i \notin stores => buf[i] = Newest
    /\ \A i \in Cells : buf[i] <= Newest

\* The consumer holds a message that was whole when claimed; while no push
\* has begun since, what it has read is that message, and otherwise the cells
\* of that message hold it or newer ones.
ConsumerInv ==
    /\ claimed <= Newest
    /\ ready = 1 => Newest > claimed
    /\ claimed > 0 => \A i \in 1 .. sent[claimed] : buf[i] >= claimed
    /\ cpc # "idle" => claimed > last.claim
    /\ cpc = "copy" =>
         /\ loads \subseteq 1 .. n
         /\ claimed = Newest => n = sent[claimed]
         /\ \A i \in (1 .. n) \ loads :
               /\ out[i] <= Newest
               /\ i <= sent[claimed] => out[i] >= claimed

LastInv ==
    /\ last.claim <= claimed
    /\ last.upto <= Newest
    /\ QuietPopExact
    /\ NoOlderByte

IInv == TypeOK /\ ProducerInv /\ ConsumerInv /\ LastInv

-----------------------------------------------------------------------------
(* What the comments say *)

\* pipe_client.cpp:15-20 calls this a lock-free single-producer,
\* single-consumer queue whose consumer "reads if it was 1": every pop would
\* return one whole message.
PopsAreWhole == \E k \in 0 .. Newest : last.data = Message(k)
=============================================================================
