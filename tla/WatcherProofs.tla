---------------------------- MODULE WatcherProofs ----------------------------
(* Proofs about Watcher for any ids, any delay and any lengths of a pass.     *)
EXTENDS Watcher, TLAPS

USE TimesAssumption, BoundsAssumption

-----------------------------------------------------------------------------
(* The inductive invariant *)

\* What maps ids to the time since something happened, up to Delay.
IsTimer(f) ==
    /\ f = [p \in DOMAIN f |-> f[p]]
    /\ DOMAIN f \subseteq Pids
    /\ \A p \in DOMAIN f : f[p] \in 0 .. Delay

TypeInv ==
    /\ proc \in [Pids -> Nat] /\ started \in Nat /\ failures \in Nat
    /\ pass \in BOOLEAN
    /\ todo \subseteq Pids /\ injected \subseteq Pids /\ reused \subseteq Pids
    /\ IsTimer(pending) /\ IsTimer(listed)

\* What the watcher knows of an id that has not changed hands is about a
\* process that was listed, and that is known for no longer than that.
WaitInv ==
    \A p \in Pids \ reused :
      /\ p \in todo \cup DOMAIN pending => p \in DOMAIN listed
      /\ p \in DOMAIN pending => pending[p] <= listed[p]

IInv == TypeInv /\ WaitInv

-----------------------------------------------------------------------------
(* Timers *)

\* Time passes for every id alike.
LEMMA AgedTimer ==
    ASSUME NEW f, IsTimer(f), NEW d \in Nat
    PROVE  /\ IsTimer(Aged(f, d)) /\ DOMAIN Aged(f, d) = DOMAIN f
           /\ \A p \in DOMAIN f :
                Aged(f, d)[p] = IF f[p] + d > Delay THEN Delay ELSE f[p] + d
  BY DEF IsTimer, Aged

\* New ids begin at 0, the others go on.
LEMMA WithNewTimer ==
    ASSUME NEW f, IsTimer(f), NEW S, S \subseteq Pids
    PROVE  /\ IsTimer(WithNew(f, S)) /\ DOMAIN WithNew(f, S) = DOMAIN f \cup S
           /\ \A p \in DOMAIN f \cup S :
                WithNew(f, S)[p] = IF p \in DOMAIN f THEN f[p] ELSE 0
  BY DEF IsTimer, WithNew

\* Ids that are taken away leave the other times as they are.
LEMMA WithoutTimer ==
    ASSUME NEW f, IsTimer(f), NEW S
    PROVE  /\ IsTimer(Without(f, S)) /\ DOMAIN Without(f, S) = DOMAIN f \ S
           /\ \A p \in DOMAIN f \ S : Without(f, S)[p] = f[p]
  BY DEF IsTimer, Without

-----------------------------------------------------------------------------
(* Initial states and steps *)

\* The watcher knows nothing at first.
LEMMA InitIInv == Init => IInv
<1> SUFFICES ASSUME Init PROVE IInv
    OBVIOUS
<1>1. IsTimer([p \in {} |-> 0])
    BY DEF IsTimer
<1>2. DOMAIN pending = {} /\ todo = {}
    BY DEF Init
<1>3. TypeInv
    BY <1>1 DEF Init, TypeInv
<1>4. WaitInv
    BY <1>2 DEF WaitInv
<1> QED
    BY <1>3, <1>4 DEF IInv

\* A listing that works lists ids of living processes.
LEMMA FindType ==
    ASSUME TypeInv, NEW found, find_fa_pids(found)
    PROVE  found \subseteq Pids /\ failures' \in Nat
  BY DEF TypeInv, find_fa_pids, Live

\* When games start or end the watcher does not notice; an id that changes hands is in reused.
LEMMA ProcessesStep ==
    ASSUME IInv, NEW p \in Pids, Start(p) \/ Exit(p) PROVE IInv'
<1>1. CASE Start(p)
    BY <1>1 DEF Start, watcher, IInv, TypeInv, WaitInv
<1>2. CASE Exit(p)
  <2>1. /\ listed' = Without(listed, {p}) /\ reused' = reused \cup {p}
        /\ proc' \in [Pids -> Nat]
        /\ UNCHANGED <<started, failures, pass, todo, injected, pending>>
      BY <1>2 DEF Exit, watcher, IInv, TypeInv
  <2>2. /\ IsTimer(listed') /\ DOMAIN listed' = DOMAIN listed \ {p}
        /\ \A q \in DOMAIN listed \ {p} : listed'[q] = listed[q]
      BY <2>1, WithoutTimer DEF IInv, TypeInv
  <2>3. TypeInv'
      BY <2>1, <2>2 DEF IInv, TypeInv
  <2>4. WaitInv'
    <3> SUFFICES ASSUME NEW q \in Pids \ reused'
                 PROVE  /\ q \in todo' \cup DOMAIN pending' => q \in DOMAIN listed'
                        /\ q \in DOMAIN pending' => pending'[q] <= listed'[q]
        BY DEF WaitInv
    <3>1. q \in Pids \ reused /\ q # p
        BY <2>1
    <3> QED
        BY <2>1, <2>2, <3>1 DEF IInv, WaitInv
  <2> QED
      BY <2>3, <2>4 DEF IInv
<1> QED
    BY <1>1, <1>2

\* A listing begins a time for each id that is new in it.
LEMMA ListStep ==
    ASSUME IInv, NEW d \in Elapsed, NEW found, List(d, found) PROVE IInv'
<1>1. /\ pass' = TRUE /\ todo' = found
      /\ pending' = Aged(pending, d)
      /\ listed' = WithNew(Aged(listed, d), found)
      /\ UNCHANGED <<proc, started, injected, reused>>
      /\ found \subseteq Pids /\ failures' \in Nat
    BY FindType DEF List, system, IInv
<1>2. /\ IsTimer(pending') /\ DOMAIN pending' = DOMAIN pending
      /\ \A p \in DOMAIN pending :
           pending'[p] = IF pending[p] + d > Delay THEN Delay ELSE pending[p] + d
    BY <1>1, AgedTimer DEF IInv, TypeInv
<1>3. /\ IsTimer(listed') /\ DOMAIN listed' = DOMAIN listed \cup found
      /\ \A p \in DOMAIN listed :
           listed'[p] = IF listed[p] + d > Delay THEN Delay ELSE listed[p] + d
  <2> DEFINE f == Aged(listed, d)
  <2>1. /\ IsTimer(f) /\ DOMAIN f = DOMAIN listed
        /\ \A p \in DOMAIN listed :
             f[p] = IF listed[p] + d > Delay THEN Delay ELSE listed[p] + d
      BY AgedTimer DEF IInv, TypeInv
  <2> HIDE DEF f
  <2>2. listed' = WithNew(f, found)
      BY <1>1 DEF f
  <2> QED
      BY <1>1, <2>1, <2>2, WithNewTimer
<1>4. TypeInv'
    BY <1>1, <1>2, <1>3 DEF IInv, TypeInv
<1>5. WaitInv'
  <2> SUFFICES ASSUME NEW p \in Pids \ reused
               PROVE  /\ p \in found \cup DOMAIN pending => p \in DOMAIN listed'
                      /\ p \in DOMAIN pending => pending'[p] <= listed'[p]
      BY <1>1, <1>2 DEF WaitInv
  <2>1. ASSUME p \in DOMAIN pending
        PROVE  p \in DOMAIN listed /\ pending'[p] <= listed'[p]
    <3>1. p \in DOMAIN listed /\ pending[p] <= listed[p]
        BY <2>1 DEF IInv, WaitInv
    <3>2. pending[p] \in Nat /\ listed[p] \in Nat /\ d \in Nat
        BY <2>1, <3>1 DEF IInv, TypeInv, IsTimer
    <3> QED
        BY <1>2, <1>3, <2>1, <3>1, <3>2
  <2> QED
      BY <1>3, <2>1
<1> QED
    BY <1>4, <1>5 DEF IInv

\* A look at an id begins its wait, no earlier than it was listed.
LEMMA LookStep ==
    ASSUME IInv, NEW p \in Pids, Skip(p) \/ Detect(p) PROVE IInv'
<1>1. CASE Skip(p)
    BY <1>1 DEF Skip, system, IInv, TypeInv, WaitInv
<1>2. CASE Detect(p)
  <2>1. /\ p \in todo /\ p \notin DOMAIN pending /\ todo' = todo \ {p}
        /\ pending' = WithNew(pending, {p})
        /\ UNCHANGED <<proc, started, failures, pass, injected, listed, reused>>
      BY <1>2 DEF Detect, system
  <2>2. /\ IsTimer(pending') /\ DOMAIN pending' = DOMAIN pending \cup {p}
        /\ \A q \in DOMAIN pending : pending'[q] = pending[q]
        /\ pending'[p] = 0
    <3>1. IsTimer(pending) /\ {p} \subseteq Pids
        BY DEF IInv, TypeInv
    <3>2. /\ IsTimer(WithNew(pending, {p}))
          /\ DOMAIN WithNew(pending, {p}) = DOMAIN pending \cup {p}
          /\ \A q \in DOMAIN pending \cup {p} :
               WithNew(pending, {p})[q] = IF q \in DOMAIN pending THEN pending[q] ELSE 0
        BY <3>1, WithNewTimer
    <3> QED
        BY <2>1, <3>2
  <2>3. TypeInv'
      BY <2>1, <2>2 DEF IInv, TypeInv
  <2>4. WaitInv'
    <3> SUFFICES ASSUME NEW q \in Pids \ reused
                 PROVE  /\ q \in todo' \cup DOMAIN pending' => q \in DOMAIN listed
                        /\ q \in DOMAIN pending' => pending'[q] <= listed[q]
        BY <2>1 DEF WaitInv
    <3>1. q \in todo' \cup DOMAIN pending' => q \in DOMAIN listed
        BY <2>1, <2>2 DEF IInv, WaitInv
    <3>2. q \in DOMAIN listed => listed[q] \in Nat
        BY DEF IInv, TypeInv, IsTimer
    <3>3. CASE q = p
        BY <2>2, <3>1, <3>2, <3>3
    <3>4. CASE q # p
        BY <2>2, <3>1, <3>4 DEF IInv, WaitInv
    <3> QED
        BY <3>3, <3>4
  <2> QED
      BY <2>3, <2>4 DEF IInv
<1> QED
    BY <1>1, <1>2

\* An injection, or its failure, takes the id from the list.
LEMMA InjectStep ==
    ASSUME IInv, NEW p \in Pids, NEW works \in BOOLEAN, Inject(p, works) PROVE IInv'
<1>1. /\ todo' = todo \ {p} /\ injected' \subseteq Pids
      /\ pending' = Without(pending, {p}) /\ reused' = reused \ {p}
      /\ UNCHANGED <<proc, started, pass, listed>>
      /\ failures' \in Nat
    BY DEF Inject, inject_dll, IInv, TypeInv
<1>2. /\ IsTimer(pending') /\ DOMAIN pending' = DOMAIN pending \ {p}
      /\ \A q \in DOMAIN pending \ {p} : pending'[q] = pending[q]
    BY <1>1, WithoutTimer DEF IInv, TypeInv
<1>3. TypeInv'
    BY <1>1, <1>2 DEF IInv, TypeInv
<1>4. WaitInv'
  <2> SUFFICES ASSUME NEW q \in Pids \ reused'
               PROVE  /\ q \in todo' \cup DOMAIN pending' => q \in DOMAIN listed
                      /\ q \in DOMAIN pending' => pending'[q] <= listed[q]
      BY <1>1 DEF WaitInv
  <2>1. CASE q = p
      BY <1>1, <1>2, <2>1
  <2>2. CASE q # p
      BY <1>1, <1>2, <2>2 DEF IInv, WaitInv
  <2> QED
      BY <2>1, <2>2
<1> QED
    BY <1>3, <1>4 DEF IInv

\* Cleaning forgets the ids that are gone, and what was known of them.
LEMMA CleanStep == ASSUME IInv, NEW found, Clean(found) PROVE IInv'
<1>1. /\ todo = {} /\ pass' = FALSE
      /\ pending' = Without(pending, Pids \ found) /\ reused' = reused \cap found
      /\ UNCHANGED <<proc, started, todo, injected, listed>>
      /\ found \subseteq Pids /\ failures' \in Nat
    BY FindType DEF Clean, system, IInv
<1>2. /\ IsTimer(pending') /\ DOMAIN pending' = DOMAIN pending \ (Pids \ found)
      /\ \A q \in DOMAIN pending \ (Pids \ found) : pending'[q] = pending[q]
    BY <1>1, WithoutTimer DEF IInv, TypeInv
<1>3. TypeInv'
    BY <1>1, <1>2 DEF IInv, TypeInv
<1>4. WaitInv'
  <2> SUFFICES ASSUME NEW q \in Pids \ reused', q \in DOMAIN pending'
               PROVE  q \in DOMAIN listed /\ pending'[q] <= listed[q]
      BY <1>1 DEF WaitInv
  <2>1. q \in DOMAIN pending /\ q \in found /\ q \notin reused
      BY <1>1, <1>2
  <2> QED
      BY <1>2, <2>1 DEF IInv, WaitInv
<1> QED
    BY <1>3, <1>4 DEF IInv

\* Every step keeps the invariant.
LEMMA StepIInv == IInv /\ [Next]_vars => IInv'
<1> SUFFICES ASSUME IInv, [Next]_vars PROVE IInv'
    OBVIOUS
<1>1. CASE UNCHANGED vars
    BY <1>1 DEF vars, system, watcher, IInv, TypeInv, WaitInv
<1>2. ASSUME NEW p \in Pids, Start(p) \/ Exit(p) PROVE IInv'
    BY <1>2, ProcessesStep
<1>3. ASSUME NEW p \in Pids, Skip(p) \/ Detect(p) PROVE IInv'
    BY <1>3, LookStep
<1>4. ASSUME NEW p \in Pids, NEW works \in BOOLEAN, Inject(p, works) PROVE IInv'
    BY <1>4, InjectStep
<1>5. ASSUME NEW found, Clean(found) PROVE IInv'
    BY <1>5, CleanStep
<1>6. ASSUME NEW found, NEW d \in Elapsed, List(d, found) PROVE IInv'
    BY <1>6, ListStep
<1> QED
    BY <1>1, <1>2, <1>3, <1>4, <1>5, <1>6 DEF Next, WatcherStep

-----------------------------------------------------------------------------
(* Theorems *)

\* IInv holds throughout, however processes come and go and listings fail.
THEOREM Invariance == Spec => []IInv
<1> QED
    BY InitIInv, StepIInv, PTL DEF Spec

\* _watch_and_inject injects into no process before it has been listed for
\* INJECT_DELAY_S, but for one that took over the id of another between two
\* cleanings.
THEOREM NeverTooEarlyHolds == Spec => NeverTooEarly
<1>1. IInv /\ [Next]_vars =>
        [\A p \in Pids : Attempted(p) /\ p \notin reused =>
           p \in DOMAIN listed /\ listed[p] = Delay]_vars
  <2> SUFFICES ASSUME IInv, Next, NEW p \in Pids, Attempted(p), p \notin reused
               PROVE  p \in DOMAIN listed /\ listed[p] = Delay
      OBVIOUS
  <2>1. p \in todo /\ p \notin todo' /\ p \in DOMAIN pending /\ p \notin DOMAIN pending'
      BY DEF Attempted
  <2>2. PICK works \in BOOLEAN : Inject(p, works)
    <3>1. ASSUME NEW q \in Pids, Start(q) \/ Exit(q) \/ Skip(q) PROVE FALSE
        BY <2>1, <3>1 DEF Start, Exit, Skip, watcher
    <3>2. ASSUME NEW q \in Pids, Detect(q) PROVE FALSE
        BY <2>1, <3>2 DEF Detect, WithNew
    <3>3. ASSUME NEW found, Clean(found) PROVE FALSE
        BY <2>1, <3>3 DEF Clean
    <3>4. ASSUME NEW found, NEW d \in Elapsed, List(d, found) PROVE FALSE
        BY <2>1, <3>4 DEF List, Aged
    <3>5. ASSUME NEW q \in Pids, NEW works \in BOOLEAN, Inject(q, works) PROVE q = p
        BY <2>1, <3>5 DEF Inject
    <3> QED
        BY <3>1, <3>2, <3>3, <3>4, <3>5 DEF Next, WatcherStep
  <2>3. pending[p] = Delay
      BY <2>2 DEF Inject
  <2>4. p \in DOMAIN listed /\ pending[p] <= listed[p]
      BY <2>1 DEF IInv, WaitInv
  <2>5. listed[p] \in 0 .. Delay
      BY <2>4 DEF IInv, TypeInv, IsTimer
  <2> QED
      BY <2>3, <2>4, <2>5
<1> QED
    BY <1>1, Invariance, PTL DEF Spec, NeverTooEarly
=============================================================================
