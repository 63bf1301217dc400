-------------------------- MODULE StrategyExecutor --------------------------
(* mod/lua/AI/StrategyExecutor.lua: how the commander works through the build *)
(* order of the current strategy, given by BuildOrderUEF.lua.  Apply and      *)
(* TickBuild run in the brain's strategy thread and are not interrupted.  Of  *)
(* the factories' queues only the strategy of the newest batch is kept:       *)
(* nothing in the code looks at them.                                         *)
EXTENDS Naturals, Sequences

CONSTANTS Strategies,  \* the strategies a decision may name
          Templates,   \* the build order of each strategy that has one
          Expansion,   \* ExpansionLoop
          MaxTried     \* bound: the orders tried for one strategy

ASSUME TemplatesAssumption ==
    /\ "balanced" \in DOMAIN Templates
    /\ \A s \in DOMAIN Templates : Templates[s] \in Seq(STRING) \ {<< >>}
    /\ Expansion \in Seq(STRING) \ {<< >>}
    /\ "balanced" \in Strategies
    /\ MaxTried \in Nat

VARIABLES
    CurrentStrategy,
    build_index,      \* brain._build_index, 0 for nil
    expansion_index,  \* brain._expansion_index, 0 for nil
    acu,              \* the commander: "idle", "busy", "dead"
    latest,           \* the newest batch in a factory, "none" without one
    \* history
    tried,            \* the orders tried since the strategy was last changed
    resumed           \* where the expansion loop stood at that time

vars == <<CurrentStrategy, build_index, expansion_index, acu, latest, tried, resumed>>

GetTemplate(s) == IF s \in DOMAIN Templates THEN Templates[s] ELSE Templates["balanced"]

\* An index that is nil counts from 1.
Started(i) == IF i = 0 THEN 1 ELSE i

\* Mutant: the last order of the loop is never reached.
MutWrapEarly(i) == IF i + 1 >= Len(Expansion) THEN 1 ELSE i + 1
NextInLoop(i) == IF i + 1 > Len(Expansion) THEN 1 ELSE i + 1

Init ==
    /\ CurrentStrategy = "balanced"
    /\ build_index = 0
    /\ expansion_index = 0
    /\ acu = "idle"
    /\ latest = "none"
    /\ tried = << >>
    /\ resumed = 1

-----------------------------------------------------------------------------
(* AdvanceACUBuild *)

\* Mutant: an order that fails does not advance the index.
MutAdvance(s, b, log) ==
    LET T == GetTemplate(s)
        j == Started(b)
        e == Started(expansion_index)
    IN  IF acu # "idle"
        THEN build_index' = j /\ tried' = log /\ UNCHANGED <<expansion_index, acu>>
        ELSE \E ok \in BOOLEAN :
               /\ Len(log) < MaxTried
               /\ acu' = IF ok THEN "busy" ELSE "idle"
               /\ build_index' = IF j <= Len(T) /\ ok THEN j + 1 ELSE j
               /\ expansion_index' = IF j <= Len(T) THEN expansion_index
                                     ELSE IF ok THEN NextInLoop(e) ELSE e
               /\ tried' = IF ok THEN Append(log, IF j <= Len(T) THEN T[j] ELSE Expansion[e])
                           ELSE log

\* With _build_index = b, and log the orders tried so far: an idle commander
\* gets the next order of the template, or of the loop after its end.  An order
\* that fails leaves it idle and is skipped like one that does not.
Advance(s, b, log) ==
    LET T == GetTemplate(s)
        j == Started(b)
        e == Started(expansion_index)
        inTemplate == j <= Len(T)
    IN  \/ /\ acu = "idle"
           /\ Len(log) < MaxTried
           /\ acu' \in {"busy", "idle"}
           /\ build_index' = IF inTemplate THEN j + 1 ELSE j
           /\ expansion_index' = IF inTemplate THEN expansion_index ELSE NextInLoop(e)
           /\ tried' = Append(log, IF inTemplate THEN T[j] ELSE Expansion[e])
        \/ /\ acu # "idle"
           /\ build_index' = j
           /\ expansion_index' = IF inTemplate THEN expansion_index ELSE e
           /\ tried' = log
           /\ UNCHANGED acu

\* A live factory gets a batch (or two) of the strategy, if there is one.
SetFactoryQueues(s) == latest' \in {s, "none"}

TickBuild ==
    /\ Advance(CurrentStrategy, build_index, tried)
    /\ SetFactoryQueues(CurrentStrategy)
    /\ UNCHANGED <<CurrentStrategy, resumed>>

\* Mutant: a new strategy does not start its template afresh.
MutApplyNoReset(s) ==
    /\ CurrentStrategy' = s
    /\ Advance(s, build_index, IF s = CurrentStrategy THEN tried ELSE << >>)
    /\ resumed' = IF s = CurrentStrategy THEN resumed ELSE Started(expansion_index)
    /\ SetFactoryQueues(s)

\* Apply: a change of strategy starts its template afresh, not the loop.
Apply(s) ==
    /\ CurrentStrategy' = s
    /\ Advance(s, IF s = CurrentStrategy THEN build_index ELSE 1,
                  IF s = CurrentStrategy THEN tried ELSE << >>)
    /\ resumed' = IF s = CurrentStrategy THEN resumed ELSE Started(expansion_index)
    /\ SetFactoryQueues(s)

-----------------------------------------------------------------------------
(* The game *)

\* The commander has built what it was told, or the engine gave the order up.
AcuDone == /\ acu = "busy"
           /\ acu' = "idle"
           /\ UNCHANGED <<CurrentStrategy, build_index, expansion_index, latest,
                          tried, resumed>>

AcuDies == /\ acu # "dead"
           /\ acu' = "dead"
           /\ UNCHANGED <<CurrentStrategy, build_index, expansion_index, latest,
                          tried, resumed>>

Next == TickBuild \/ (\E s \in Strategies : Apply(s)) \/ AcuDone \/ AcuDies

Spec == Init /\ [][Next]_vars

(* The strategy thread ticks for ever, and the engine ends every order.       *)
FairSpec == Spec /\ WF_vars(TickBuild) /\ WF_vars(AcuDone)

-----------------------------------------------------------------------------
(* Properties *)

Template == GetTemplate(CurrentStrategy)

\* Every variable keeps its type, and the index points at most one beyond the
\* template of the strategy in force, though templates differ in length and
\* strategies change at any time.
TypeOK ==
    /\ CurrentStrategy \in Strategies
    /\ build_index \in 0 .. Len(Template) + 1
    /\ expansion_index \in 0 .. Len(Expansion)
    /\ acu \in {"idle", "busy", "dead"}
    /\ latest \in {"none", CurrentStrategy}
    /\ tried \in Seq(STRING)
    /\ resumed \in 1 .. Len(Expansion)

\* The k-th order since the strategy was changed is the k-th of its template,
\* then the expansion loop goes on from where an earlier strategy left it:
\* nothing is tried twice, left out or taken from another strategy, whatever
\* orders fail and however long the commander is busy.
OrdersFollowTemplate ==
    \A k \in 1 .. Len(tried) :
      tried[k] = IF k <= Len(Template) THEN Template[k]
                 ELSE Expansion[((resumed + k - Len(Template) - 2) % Len(Expansion)) + 1]

\* With a commander alive and a strategy that stays, the template is worked
\* through to its end: no order that fails blocks it.
TemplateEnds ==
    \A s \in Strategies :
      (CurrentStrategy = s) ~>
        (build_index > Len(GetTemplate(s)) \/ CurrentStrategy # s \/ acu = "dead")
=============================================================================
