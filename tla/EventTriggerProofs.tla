------------------------- MODULE EventTriggerProofs -------------------------
(* Proofs about EventTrigger for all durations that are related as those of   *)
(* the code are.                                                              *)
EXTENDS EventTrigger, TLAPS

USE TimesAssumption

-----------------------------------------------------------------------------
(* The inductive invariant *)

\* The baseline is young, unless there is none yet.
ArmyInv == LastArmySize # 0 => tick - LastArmyCheckTick <= Window

\* A stall is being timed only after the cooldown, not for longer than its
\* duration, and since no earlier than the income is low; while the income is
\* low it is timed or cools down, and timing began at once or right after the
\* cooldown.
StallInv ==
    LET last == last_trigger_tick["economy_stall"] IN
    /\ EconomyStallTick # 0 =>
         /\ tick - last > Cooldown
         /\ tick - EconomyStallTick <= StallTicks
         /\ lowSince # 0 /\ lowSince <= EconomyStallTick
         /\ EconomyStallTick = lowSince \/ EconomyStallTick - last <= Cooldown + Step
    /\ lowSince # 0 => EconomyStallTick # 0 \/ tick - last <= Cooldown

PhaseInv == told = last_phase /\ PhaseIsKnown

IInv == TypeOK /\ ArmyInv /\ StallInv /\ PhaseInv

\* Nothing is remembered at first.
LEMMA InitIInv == Init => IInv
  BY DEF Init, IInv, TypeOK, ArmyInv, StallInv, PhaseInv, PhaseIsKnown, Phases, Events

-----------------------------------------------------------------------------
(* One pass of the loop *)

\* Which events a pass reports is what its detectors say.
LEMMA ReportsOfPass ==
    ASSUME NEW army, NEW near, NEW low, NEW p, Pass(army, near, low, p)
    PROVE  /\ DOMAIN last_trigger_tick' = Events
           /\ last_trigger_tick'["army_lost"] =
                IF ArmyLost(army) THEN tick' ELSE last_trigger_tick["army_lost"]
           /\ last_trigger_tick'["enemy_detected"] =
                IF EnemyDetected(near) THEN tick' ELSE last_trigger_tick["enemy_detected"]
           /\ last_trigger_tick'["economy_stall"] =
                IF Stalled(low) THEN tick' ELSE last_trigger_tick["economy_stall"]
           /\ last_trigger_tick'["phase_change"] =
                IF PhaseChanged(p) THEN tick' ELSE last_trigger_tick["phase_change"]
  BY DEF Pass, Events

\* A pass remembers ticks up to its own.
LEMMA PassType ==
    ASSUME TypeOK, NEW army \in Sizes, NEW near \in BOOLEAN, NEW low \in BOOLEAN,
           NEW p \in Phases, Pass(army, near, low, p)
    PROVE  TypeOK'
<1>1. tick \in Nat /\ tick' \in Nat /\ tick' = tick + Step
    BY DEF TypeOK, Pass
<1>2. last_trigger_tick' \in [Events -> 0 .. tick']
  <2>1. \A e \in Events : last_trigger_tick[e] \in 0 .. tick'
      BY <1>1 DEF TypeOK
  <2>2. PICK R : last_trigger_tick' =
                   [e \in Events |-> IF R[e] THEN tick' ELSE last_trigger_tick[e]]
    <3> DEFINE R == [e \in Events |->
                       CASE e = "army_lost"      -> ArmyLost(army)
                         [] e = "enemy_detected" -> EnemyDetected(near)
                         [] e = "economy_stall"  -> Stalled(low)
                         [] e = "phase_change"   -> PhaseChanged(p)]
    <3>1. last_trigger_tick' =
            [e \in Events |-> IF R[e] THEN tick' ELSE last_trigger_tick[e]]
        BY Zenon DEF Pass
    <3> QED
        BY <3>1
  <2>3. tick' \in 0 .. tick'
      BY <1>1
  <2> QED
      BY <2>1, <2>2, <2>3
<1>3. /\ LastArmySize' \in Sizes \cup {0}
      /\ LastArmyCheckTick' \in 0 .. tick'
    BY <1>1 DEF TypeOK, Pass, Baseline
<1>4. EconomyStallTick' \in 0 .. tick'
    BY <1>1 DEF TypeOK, Pass, StallTick
<1>5. lowSince' \in 0 .. tick'
    BY <1>1 DEF TypeOK, Pass
<1>6. last_phase' \in Phases /\ phase' \in Phases /\ told' \in Phases
    BY DEF TypeOK, Pass, RememberPhase
<1> QED
    BY <1>1, <1>2, <1>3, <1>4, <1>5, <1>6 DEF TypeOK

\* What TypeOK says of the numbers that the detectors compare.
LEMMA Numbers ==
    ASSUME TypeOK
    PROVE  /\ tick \in Nat /\ LastArmySize \in Nat /\ LastArmyCheckTick \in Nat
           /\ EconomyStallTick \in Nat /\ lowSince \in Nat
           /\ lowSince <= tick /\ EconomyStallTick <= tick
           /\ \A e \in Events : last_trigger_tick[e] \in Nat /\ last_trigger_tick[e] <= tick
  BY DEF TypeOK

\* A pass begins to time a stall, goes on, reports it or forgets it.
LEMMA PassStall ==
    ASSUME TypeOK, StallInv, NEW army \in Sizes, NEW near \in BOOLEAN,
           NEW low \in BOOLEAN, NEW p \in Phases, Pass(army, near, low, p)
    PROVE  StallInv'
<1> DEFINE last == last_trigger_tick["economy_stall"]
           est  == EconomyStallTick
<1>1. /\ tick \in Nat /\ last \in Nat /\ est \in Nat /\ lowSince \in Nat
      /\ lowSince <= tick /\ est <= tick
    BY Numbers DEF Events
<1>2. /\ tick' = tick + Step
      /\ last' = IF Stalled(low) THEN tick' ELSE last
      /\ lowSince' = IF ~low THEN 0 ELSE IF lowSince = 0 THEN tick' ELSE lowSince
      /\ est' = IF ~(tick' - last > Cooldown) THEN est
                ELSE IF Stalled(low) \/ ~low THEN 0
                ELSE IF est = 0 THEN tick' ELSE est
  <2>1. last' = IF Stalled(low) THEN tick' ELSE last
      BY ReportsOfPass
  <2>2. Cooled("economy_stall") <=> tick' - last > Cooldown
      BY DEF Cooled
  <2>3. est' = IF ~Cooled("economy_stall") THEN est
               ELSE IF Stalled(low) \/ ~low THEN 0
               ELSE IF est = 0 THEN tick' ELSE est
      BY DEF Pass, StallTick
  <2>4. /\ tick' = tick + Step
        /\ lowSince' = IF ~low THEN 0 ELSE IF lowSince = 0 THEN tick' ELSE lowSince
      BY DEF Pass
  <2> HIDE DEF last, est
  <2> QED
      BY <2>1, <2>2, <2>3, <2>4
<1>3. Stalled(low) <=> /\ tick' - last > Cooldown /\ low
                       /\ est # 0 /\ tick' - est > StallTicks
    BY DEF Stalled, Cooled
<1>4. /\ est # 0 => /\ tick - last > Cooldown
                    /\ tick - est <= StallTicks
                    /\ lowSince # 0 /\ lowSince <= est
                    /\ est = lowSince \/ est - last <= Cooldown + Step
      /\ lowSince # 0 => est # 0 \/ tick - last <= Cooldown
    BY DEF StallInv
<1> SUFFICES /\ est' # 0 => /\ tick' - last' > Cooldown
                            /\ tick' - est' <= StallTicks
                            /\ lowSince' # 0 /\ lowSince' <= est'
                            /\ est' = lowSince' \/ est' - last' <= Cooldown + Step
             /\ lowSince' # 0 => est' # 0 \/ tick' - last' <= Cooldown
    BY DEF StallInv
<1> HIDE DEF last, est
<1>5. CASE ~(tick' - last > Cooldown)
    BY <1>1, <1>2, <1>3, <1>4, <1>5
<1>6. CASE Stalled(low)
    BY <1>1, <1>2, <1>3, <1>4, <1>6
<1>7. CASE tick' - last > Cooldown /\ ~low
    BY <1>1, <1>2, <1>3, <1>4, <1>7
<1>8. CASE tick' - last > Cooldown /\ low /\ ~Stalled(low)
  <2>1. /\ last' = last /\ est' = IF est = 0 THEN tick' ELSE est
        /\ lowSince' = IF lowSince = 0 THEN tick' ELSE lowSince
      BY <1>2, <1>8
  <2>2. CASE est = 0
      BY <1>1, <1>2, <1>4, <1>8, <2>1, <2>2
  <2>3. CASE est # 0
    <3>1. ~(tick' - est > StallTicks)
        BY <1>3, <1>8, <2>3, Zenon
    <3>2. tick' - last > Cooldown /\ tick' = tick + Step
        BY <1>2, <1>8
    <3> QED
        BY <1>1, <1>4, <2>1, <2>3, <3>1, <3>2
  <2> QED
      BY <2>2, <2>3
<1> QED
    BY <1>5, <1>6, <1>7, <1>8

\* A pass looks at a baseline only while it is young, and replaces an old one.
LEMMA PassArmy ==
    ASSUME TypeOK, ArmyInv, NEW army, NEW near, NEW low, NEW p,
           Pass(army, near, low, p)
    PROVE  ArmyInv'
  BY Numbers DEF ArmyInv, Pass, Baseline

\* A pass reports a new phase, or remembers that it did not.
LEMMA PassPhase ==
    ASSUME TypeOK, PhaseInv, NEW army, NEW near, NEW low, NEW p,
           Pass(army, near, low, p)
    PROVE  PhaseInv'
<1>1. /\ phase' = p /\ told = last_phase
      /\ told' = IF PhaseChanged(p) THEN p ELSE told
      /\ last_phase' = IF PhaseChanged(p) THEN p ELSE last_phase
      /\ last_trigger_tick'["phase_change"] =
           IF PhaseChanged(p) THEN tick' ELSE last_trigger_tick["phase_change"]
    BY ReportsOfPass DEF Pass, RememberPhase, PhaseInv
<1>2. /\ tick' \in Nat /\ last_trigger_tick["phase_change"] \in Nat
    BY Numbers DEF Pass, Events
<1>3. PhaseChanged(p) <=>
        tick' - last_trigger_tick["phase_change"] > Cooldown /\ p # last_phase
    BY DEF PhaseChanged, Cooled
<1> QED
    BY <1>1, <1>2, <1>3 DEF PhaseInv, PhaseIsKnown

\* Every pass keeps the invariant.
LEMMA StepIInv == IInv /\ [Next]_vars => IInv'
<1> SUFFICES ASSUME IInv, [Next]_vars PROVE IInv'
    OBVIOUS
<1>1. ASSUME NEW army \in Sizes, NEW near \in BOOLEAN, NEW low \in BOOLEAN,
             NEW p \in Phases, Pass(army, near, low, p)
      PROVE  IInv'
    BY <1>1, PassType, PassArmy, PassStall, PassPhase DEF IInv
<1>2. CASE UNCHANGED vars
    BY <1>2 DEF vars, IInv, TypeOK, ArmyInv, StallInv, PhaseInv, PhaseIsKnown
<1> QED
    BY <1>1, <1>2 DEF Next

-----------------------------------------------------------------------------
(* Theorems *)

\* IInv holds in every game, however armies, incomes and phases change.
THEOREM Invariance == Spec => []IInv
<1> QED
    BY InitIInv, StepIInv, PTL DEF Spec

\* Every variable keeps its type; in particular nothing is remembered from a
\* tick that is still to come.
THEOREM TypeCorrect == Spec => []TypeOK
<1>1. IInv => TypeOK
    BY DEF IInv
<1> QED
    BY <1>1, Invariance, PTL

\* While the income stays low, EventTriggerThread reports a stall again and
\* again: the last report is never longer ago than Pause.
THEOREM StallIsReportedHolds == Spec => []StallIsReported
<1>1. IInv => StallIsReported
  <2> SUFFICES ASSUME IInv PROVE StallIsReported
      OBVIOUS
  <2>1. /\ tick \in Nat /\ EconomyStallTick \in Nat /\ lowSince \in Nat
        /\ last_trigger_tick["economy_stall"] \in Nat
      BY Numbers DEF IInv, Events
  <2> QED
      BY <2>1 DEF IInv, StallInv, StallIsReported, Pause
<1> QED
    BY <1>1, Invariance, PTL

\* The phase that was last reported is the phase of the game, but for changes
\* during the cooldown.
THEOREM PhaseIsKnownHolds == Spec => []PhaseIsKnown
<1>1. IInv => PhaseIsKnown
    BY DEF IInv, PhaseInv
<1> QED
    BY <1>1, Invariance, PTL

\* A lost army is reported once, against a baseline taken since the report
\* before: the cooldown outlives the baseline (CooldownAssumption).
THEOREM LossReportedOnceHolds == Spec => LossReportedOnce
<1>1. IInv /\ [Next]_vars =>
        [Reported("army_lost") =>
           /\ LastArmyCheckTick >= last_trigger_tick["army_lost"]
           /\ tick' - LastArmyCheckTick <= Window + Step]_vars
  <2> SUFFICES ASSUME IInv, NEW army \in Sizes, NEW near \in BOOLEAN,
                      NEW low \in BOOLEAN, NEW p \in Phases,
                      Pass(army, near, low, p), Reported("army_lost")
               PROVE  /\ LastArmyCheckTick >= last_trigger_tick["army_lost"]
                      /\ tick' - LastArmyCheckTick <= Window + Step
      BY DEF Next
  <2>1. ArmyLost(army)
      BY ReportsOfPass DEF Reported
  <2>2. /\ tick' = tick + Step
        /\ tick' - last_trigger_tick["army_lost"] > Cooldown
        /\ LastArmySize > 5
      BY <2>1 DEF ArmyLost, Cooled, Pass
  <2>3. /\ tick \in Nat /\ LastArmySize \in Nat /\ LastArmyCheckTick \in Nat
        /\ last_trigger_tick["army_lost"] \in Nat
      BY Numbers DEF IInv, Events
  <2>4. tick - LastArmyCheckTick <= Window
      BY <2>2, <2>3 DEF IInv, ArmyInv
  <2> QED
      BY <2>2, <2>3, <2>4, CooldownAssumption
<1> QED
    BY <1>1, Invariance, PTL DEF Spec, LossReportedOnce

\* A stall is reported only after every pass for longer than StallTicks found a
\* low income, though the detector looks at it only when it has cooled down.
THEOREM StallIsSustainedHolds == Spec => StallIsSustained
<1>1. IInv /\ [Next]_vars =>
        [Reported("economy_stall") =>
           /\ lowSince # 0
           /\ lowSince' = lowSince
           /\ tick' - lowSince > StallTicks]_vars
  <2> SUFFICES ASSUME IInv, NEW army \in Sizes, NEW near \in BOOLEAN,
                      NEW low \in BOOLEAN, NEW p \in Phases,
                      Pass(army, near, low, p), Reported("economy_stall")
               PROVE  /\ lowSince # 0
                      /\ lowSince' = lowSince
                      /\ tick' - lowSince > StallTicks
      BY DEF Next
  <2>1. Stalled(low)
      BY ReportsOfPass DEF Reported
  <2>2. /\ low /\ EconomyStallTick # 0 /\ tick' - EconomyStallTick > StallTicks
      BY <2>1 DEF Stalled
  <2>3. lowSince # 0 /\ lowSince <= EconomyStallTick
      BY <2>2 DEF IInv, StallInv
  <2>4. lowSince' = lowSince /\ tick' = tick + Step
      BY <2>2, <2>3 DEF Pass
  <2>5. tick \in Nat /\ EconomyStallTick \in Nat /\ lowSince \in Nat
      BY Numbers DEF IInv
  <2> QED
      BY <2>2, <2>3, <2>4, <2>5
<1> QED
    BY <1>1, Invariance, PTL DEF Spec, StallIsSustained
=============================================================================
