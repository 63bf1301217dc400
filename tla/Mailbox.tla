------------------------------ MODULE Mailbox ------------------------------
(* What the two queues of bridge/src/pipe_client.cpp promise: a mailbox of    *)
(* one slot between one producer and one consumer in which the latest message *)
(* wins.  A message is named by its number: the k-th message begun is k, and  *)
(* 0 stands for "none".  Taking a message is atomic; carrying it away is not, *)
(* and a message begun meanwhile may damage the copy.  OneSlotQueue is the    *)
(* same mailbox one memory access at a time.                                  *)
EXTENDS Naturals

VARIABLES slot,     \* the message in the slot, or 0
          begun,    \* how many messages the producer has begun to put
          writing,  \* it is putting the last of them
          taken,    \* the message the consumer is carrying away, or 0
          got,      \* the message the consumer last carried away, or 0
          torn      \* what it got of that message is not the message

vars == <<slot, begun, writing, taken, got, torn>>

Init == /\ slot = 0 /\ begun = 0 /\ taken = 0 /\ got = 0
        /\ writing = FALSE
        /\ torn = FALSE

\* A producer about to put a message withdraws the one that nobody took.
Begin == /\ ~writing
         /\ writing' = TRUE
         /\ begun' = begun + 1
         /\ slot' = 0
         /\ UNCHANGED <<taken, got, torn>>

Put == /\ writing
       /\ writing' = FALSE
       /\ slot' = begun
       /\ UNCHANGED <<begun, taken, got, torn>>

Take == /\ taken = 0
        /\ slot # 0
        /\ taken' = slot
        /\ slot' = 0
        /\ UNCHANGED <<begun, writing, got, torn>>

Return == /\ taken # 0
          /\ got' = taken
          /\ taken' = 0
          /\ torn' \in BOOLEAN
          /\ torn' => begun > taken
          /\ UNCHANGED <<slot, begun, writing>>

Next == Begin \/ Put \/ Take \/ Return

Spec == Init /\ [][Next]_vars
=============================================================================
