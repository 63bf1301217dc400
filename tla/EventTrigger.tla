---------------------------- MODULE EventTrigger ----------------------------
(* EventTriggerThread of mod/lua/AI/LLMAIBrain.lua: when the brain reports an *)
(* event.  A Lua thread of the simulation is not interrupted between two      *)
(* waits, so one pass through the loop, with its four detectors, is one       *)
(* action.  What happens to the snapshot that a report sends is in Brain.     *)
EXTENDS Naturals

CONSTANTS Step,      \* WaitTicks of the loop
          Start,     \* the tick at which the loop begins
          Window,    \* how long LastArmySize is kept, in ticks
          Cooldown,  \* COOLDOWN_TICKS
          StallTicks,\* ECONOMY_STALL_DURATION, in ticks
          Sizes,     \* the sizes the land army may have
          MaxTick    \* bound: when the game ends

ASSUME TimesAssumption ==
    /\ Step \in Nat \ {0} /\ Start \in Nat
    /\ Window \in Nat /\ Cooldown \in Nat /\ StallTicks \in Nat
    /\ Sizes \subseteq Nat /\ MaxTick \in Nat

\* The code's 5, 100 and 200 ticks are so related.
ASSUME CooldownAssumption == Window + Step <= Cooldown

Events == {"army_lost", "enemy_detected", "economy_stall", "phase_change"}
Phases == {"early", "mid", "late"}

VARIABLES
    tick,               \* GetGameTick() in the last pass
    LastArmySize,
    LastArmyCheckTick,
    EconomyStallTick,   \* 0 for nil: no pass is at tick 0
    last_phase,
    last_trigger_tick,  \* of each event
    \* history
    phase,              \* the phase of the game in the last pass
    told,               \* the phase in the last report of a change
    lowSince            \* the first of the passes, up to the last one, that
                        \* all found a low mass income; 0 if the last did not

vars == <<tick, LastArmySize, LastArmyCheckTick, EconomyStallTick, last_phase,
          last_trigger_tick, phase, told, lowSince>>

Init ==
    /\ tick = Start
    /\ LastArmySize = 0
    /\ LastArmyCheckTick = 0
    /\ EconomyStallTick = 0
    /\ last_phase = "early"
    /\ last_trigger_tick = [e \in Events |-> 0]
    /\ phase = "early"
    /\ told = "early"
    /\ lowSince = 0

-----------------------------------------------------------------------------
(* The detectors: what each reports at the new tick, and what it remembers *)

Cooled(e) == tick' - last_trigger_tick[e] > Cooldown

ArmyLost(army) ==
    Cooled("army_lost") /\ LastArmySize > 5 /\ 2 * army < LastArmySize

\* Mutant: a new baseline only when the army has grown.
MutBaselineGrows(army) ==
    IF tick' - LastArmyCheckTick > Window /\ army > LastArmySize
    THEN LastArmySize' = army /\ LastArmyCheckTick' = tick'
    ELSE UNCHANGED <<LastArmySize, LastArmyCheckTick>>

\* Mutant: LastArmyCheckTick is when the next baseline is due.
MutBaselineDue(army) ==
    IF tick' > LastArmyCheckTick
    THEN LastArmySize' = army /\ LastArmyCheckTick' = tick' + Window
    ELSE UNCHANGED <<LastArmySize, LastArmyCheckTick>>

\* A new baseline every Window ticks, cooled down or not.
Baseline(army) ==
    IF tick' - LastArmyCheckTick > Window
    THEN LastArmySize' = army /\ LastArmyCheckTick' = tick'
    ELSE UNCHANGED <<LastArmySize, LastArmyCheckTick>>

\* near: the own commander lives and an enemy's is closer than 300.
EnemyDetected(near) == Cooled("enemy_detected") /\ near

Stalled(low) == /\ Cooled("economy_stall") /\ low
                /\ EconomyStallTick # 0
                /\ tick' - EconomyStallTick > StallTicks

\* Mutant: the stall's start is not forgotten when the income recovers.
MutStallKept(low) ==
    EconomyStallTick' = IF ~Cooled("economy_stall") THEN EconomyStallTick
                        ELSE IF Stalled(low) THEN 0
                        ELSE IF low /\ EconomyStallTick = 0 THEN tick'
                        ELSE EconomyStallTick

\* Mutant: every low pass starts the stall anew.
MutStallRestarts(low) ==
    EconomyStallTick' = IF ~Cooled("economy_stall") THEN EconomyStallTick
                        ELSE IF Stalled(low) \/ ~low THEN 0
                        ELSE tick'

\* While the event cools down the income is not looked at.
StallTick(low) ==
    EconomyStallTick' = IF ~Cooled("economy_stall") THEN EconomyStallTick
                        ELSE IF Stalled(low) \/ ~low THEN 0
                        ELSE IF EconomyStallTick = 0 THEN tick'
                        ELSE EconomyStallTick

PhaseChanged(p) == Cooled("phase_change") /\ p # last_phase

\* Mutant: the phase is remembered also while the event cools down.
MutPhaseRemembered(p) == last_phase' = p
RememberPhase(p) == last_phase' = IF PhaseChanged(p) THEN p ELSE last_phase

Pass(army, near, low, p) ==
    /\ tick < MaxTick
    /\ tick' = tick + Step
    /\ Baseline(army)
    /\ StallTick(low)
    /\ RememberPhase(p)
    /\ LET reports(e) == CASE e = "army_lost"      -> ArmyLost(army)
                           [] e = "enemy_detected" -> EnemyDetected(near)
                           [] e = "economy_stall"  -> Stalled(low)
                           [] e = "phase_change"   -> PhaseChanged(p)
       IN  last_trigger_tick' =
             [e \in Events |-> IF reports(e) THEN tick' ELSE last_trigger_tick[e]]
    /\ phase' = p
    /\ told' = IF PhaseChanged(p) THEN p ELSE told
    /\ lowSince' = IF ~low THEN 0 ELSE IF lowSince = 0 THEN tick' ELSE lowSince

Next == \E army \in Sizes, near, low \in BOOLEAN, p \in Phases :
          Pass(army, near, low, p)

Spec == Init /\ [][Next]_vars

-----------------------------------------------------------------------------
(* Properties *)

TypeOK ==
    /\ tick \in Nat
    /\ LastArmySize \in Sizes \cup {0}
    /\ LastArmyCheckTick \in 0 .. tick
    /\ EconomyStallTick \in 0 .. tick
    /\ last_phase \in Phases
    /\ last_trigger_tick \in [Events -> 0 .. tick]
    /\ phase \in Phases
    /\ told \in Phases
    /\ lowSince \in 0 .. tick

Reported(e) == last_trigger_tick'[e] # last_trigger_tick[e]

\* A loss is reported once, and while it is news: the army size that a report
\* compares with was taken after the report before it, and not long ago.  The
\* cooldown alone does not bring that about, the shorter life of the baseline
\* does.
LossReportedOnce ==
    [][Reported("army_lost") =>
         /\ LastArmyCheckTick >= last_trigger_tick["army_lost"]
         /\ tick' - LastArmyCheckTick <= Window + Step]_vars

\* A stall is reported only when every pass for longer than StallTicks found a
\* low income, those in which the detector was cooling down included.
StallIsSustained ==
    [][Reported("economy_stall") =>
         /\ lowSince # 0
         /\ lowSince' = lowSince
         /\ tick' - lowSince > StallTicks]_vars

\* A stall that lasts is reported, and again and again: at no time is the last
\* report longer ago than the cooldown, the duration and one pass.
Pause == Cooldown + StallTicks + Step
StallIsReported ==
    lowSince # 0 /\ tick - lowSince > Pause =>
        tick - last_trigger_tick["economy_stall"] <= Pause

\* The phase last reported is the game's phase, except during the cooldown.
PhaseIsKnown ==
    phase # told => tick - last_trigger_tick["phase_change"] <= Cooldown
=============================================================================
