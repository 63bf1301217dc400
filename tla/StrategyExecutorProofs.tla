----------------------- MODULE StrategyExecutorProofs -----------------------
(* Proofs about StrategyExecutor for all build orders, of any length.         *)
EXTENDS StrategyExecutor, Integers, TLAPS

USE TemplatesAssumption

-----------------------------------------------------------------------------
(* Remainders *)

\* A multiple of L that is smaller than L, either way, is 0.
LEMMA SmallMultiple ==
    ASSUME NEW L \in Nat \ {0}, NEW d \in Int, -L < L * d, L * d < L
    PROVE  d = 0
<1>1. CASE d >= 1
  <2>1. L * (d - 1) >= 0
      BY <1>1
  <2> QED
      BY <1>1, <2>1
<1>2. CASE d <= -1
  <2>1. L * (-d - 1) >= 0
      BY <1>2
  <2> QED
      BY <1>2, <2>1
<1> QED
    BY <1>1, <1>2

\* The remainder is what is left after some multiple, if it is small enough.
LEMMA Remainder ==
    ASSUME NEW L \in Nat \ {0}, NEW q \in Int, NEW r \in 0 .. L - 1
    PROVE  (L * q + r) % L = r
<1> DEFINE x == L * q + r
           a == x \div L
           m == x % L
<1>1. x \in Int
    OBVIOUS
<1>2. a \in Int /\ m \in 0 .. L - 1 /\ x = L * a + m
  <2> HIDE DEF x
  <2> QED
      BY <1>1
<1>3. L * a + m = L * q + r
    BY <1>2
<1> HIDE DEF a, m
<1>4. L * (a - q) = r - m
  <2>1. L * (a - q) = L * a - L * q
      BY <1>2
  <2>2. L * a \in Int /\ L * q \in Int
      BY <1>2
  <2> QED
      BY <1>2, <1>3, <2>1, <2>2
<1>5. a - q = 0
  <2> DEFINE d == a - q
  <2>1. d \in Int /\ L * d = r - m
      BY <1>2, <1>4
  <2> HIDE DEF d
  <2>2. -L < L * d /\ L * d < L
      BY <1>2, <2>1
  <2>3. d = 0
      BY <2>1, <2>2, SmallMultiple
  <2> QED
      BY <2>3 DEF d
<1>6. m = r
    BY <1>2, <1>4, <1>5
<1> QED
    BY <1>6 DEF m

-----------------------------------------------------------------------------
(* The inductive invariant *)

\* Where the loop stands i orders after it stood at from.
InLoop(from, i) == ((from + i - 1) % Len(Expansion)) + 1

\* How far beyond the template a log of orders goes.
Beyond(log, T) == IF Len(log) <= Len(T) THEN 0 ELSE Len(log) - Len(T)

\* The indices b and e stand where a log of orders has left them, that began
\* with T when the loop stood at from; and the log is what it should be.
Follows(T, b, e, log, from) ==
    /\ Started(b) = IF Len(log) <= Len(T) THEN Len(log) + 1 ELSE Len(T) + 1
    /\ Started(e) = InLoop(from, Beyond(log, T))
    /\ \A k \in 1 .. Len(log) :
         log[k] = IF k <= Len(T) THEN T[k] ELSE Expansion[InLoop(from, k - Len(T) - 1)]

IInv == /\ TypeOK
        /\ Follows(Template, build_index, expansion_index, tried, resumed)

-----------------------------------------------------------------------------
(* The operators *)

\* What GetTemplate returns is never empty.
LEMMA TemplateType ==
    ASSUME NEW s
    PROVE  GetTemplate(s) \in Seq(STRING) /\ Len(GetTemplate(s)) \in Nat \ {0}
<1>1. GetTemplate(s) \in Seq(STRING) \ {<< >>}
    BY DEF GetTemplate
<1> QED
    BY <1>1

\* Nor is the expansion loop.
LEMMA ExpansionType == Len(Expansion) \in Nat \ {0} /\ Expansion \in Seq(STRING)
  OBVIOUS

\* NextInLoop goes round the loop, one order at a time.
LEMMA LoopGoesOn ==
    ASSUME NEW from \in 1 .. Len(Expansion), NEW i \in Nat
    PROVE  /\ InLoop(from, i) \in 1 .. Len(Expansion)
           /\ InLoop(from, 0) = from
           /\ NextInLoop(InLoop(from, i)) = InLoop(from, i + 1)
<1> DEFINE L == Len(Expansion)
           x == from + i - 1
           q == x \div L
           m == x % L
<1>1. L \in Nat \ {0} /\ from \in 1 .. L /\ x \in Nat /\ x + 1 = from + (i + 1) - 1
    BY ExpansionType
<1>2. q \in Int /\ m \in 0 .. L - 1 /\ x = L * q + m
  <2> HIDE DEF L, x
  <2> QED
      BY <1>1
<1>3. InLoop(from, i) = m + 1 /\ InLoop(from, i + 1) = ((x + 1) % L) + 1
    BY <1>1 DEF InLoop
<1>4. (from - 1) % L = from - 1
  <2> HIDE DEF L
  <2>1. from - 1 \in 0 .. L - 1 /\ L * 0 + (from - 1) = from - 1 /\ 0 \in Int
      BY <1>1
  <2>2. (L * 0 + (from - 1)) % L = from - 1
      BY <1>1, <2>1, Remainder
  <2> QED
      BY <2>1, <2>2
<1>5. InLoop(from, 0) = from
  <2>1. from + 0 - 1 = from - 1
      OBVIOUS
  <2> QED
      BY <1>4, <2>1 DEF InLoop
<1> HIDE DEF L, x, q, m
<1>6. NextInLoop(m + 1) = ((x + 1) % L) + 1
  <2>1. CASE m + 1 < L
    <3>1. x + 1 = L * q + (m + 1) /\ m + 1 \in 0 .. L - 1
        BY <1>1, <1>2, <2>1
    <3>2. (L * q + (m + 1)) % L = m + 1
        BY <1>1, <1>2, <3>1, Remainder
    <3> QED
        BY <1>1, <1>2, <2>1, <3>1, <3>2 DEF NextInLoop, L
  <2>2. CASE m + 1 = L
    <3>1. L * (q + 1) = L * q + L
        BY <1>1, <1>2
    <3>2. x + 1 = L * (q + 1) + 0 /\ 0 \in 0 .. L - 1 /\ q + 1 \in Int
        BY <1>1, <1>2, <2>2, <3>1
    <3>3. (L * (q + 1) + 0) % L = 0
        BY <1>1, <3>2, Remainder
    <3> QED
        BY <1>1, <1>2, <2>2, <3>2, <3>3 DEF NextInLoop, L
  <2> QED
      BY <1>1, <1>2, <2>1, <2>2
<1> QED
    BY <1>1, <1>2, <1>3, <1>5, <1>6 DEF L

\* Advance, from any index and log that fit: the next order is the right one.
LEMMA AdvanceFollows ==
    ASSUME NEW s, NEW b \in 0 .. Len(GetTemplate(s)) + 1, NEW log \in Seq(STRING),
           NEW from \in 1 .. Len(Expansion),
           expansion_index \in 0 .. Len(Expansion),
           acu \in {"idle", "busy", "dead"},
           Follows(GetTemplate(s), b, expansion_index, log, from),
           Advance(s, b, log)
    PROVE  /\ Follows(GetTemplate(s), build_index', expansion_index', tried', from)
           /\ build_index' \in 0 .. Len(GetTemplate(s)) + 1
           /\ expansion_index' \in 0 .. Len(Expansion)
           /\ acu' \in {"idle", "busy", "dead"}
           /\ tried' \in Seq(STRING)
<1> DEFINE T == GetTemplate(s)
           n == Len(T)
           l == Len(log)
           L == Len(Expansion)
           j == Started(b)
           e == Started(expansion_index)
<1>1. T \in Seq(STRING) /\ n \in Nat \ {0} /\ l \in Nat
    BY TemplateType
<1>2. L \in Nat \ {0} /\ Expansion \in Seq(STRING)
    BY ExpansionType
<1>3. /\ j = IF l <= n THEN l + 1 ELSE n + 1
      /\ e = InLoop(from, Beyond(log, T))
      /\ \A k \in 1 .. l :
           log[k] = IF k <= n THEN T[k] ELSE Expansion[InLoop(from, k - n - 1)]
    BY DEF Follows
<1>4. j \in 1 .. n + 1 /\ e \in 1 .. L
    BY <1>1, <1>2 DEF Started
<1>5. /\ Beyond(log, T) \in Nat
      /\ l >= n => Beyond(log, T) = l - n
      /\ l <= n => Beyond(log, T) = 0
    BY <1>1 DEF Beyond
<1>6. \/ /\ acu = "idle" /\ acu' \in {"busy", "idle"}
         /\ build_index' = IF j <= n THEN j + 1 ELSE j
         /\ expansion_index' = IF j <= n THEN expansion_index ELSE NextInLoop(e)
         /\ tried' = Append(log, IF j <= n THEN T[j] ELSE Expansion[e])
      \/ /\ acu # "idle"
         /\ build_index' = j
         /\ expansion_index' = IF j <= n THEN expansion_index ELSE e
         /\ tried' = log /\ acu' = acu
    BY DEF Advance
<1>7. NextInLoop(e) = InLoop(from, Beyond(log, T) + 1) /\ NextInLoop(e) \in 1 .. L
  <2> DEFINE i == Beyond(log, T)
  <2>1. i \in Nat /\ i + 1 \in Nat /\ e = InLoop(from, i)
      BY <1>3, <1>5
  <2> HIDE DEF i, e
  <2>2. NextInLoop(InLoop(from, i)) = InLoop(from, i + 1)
      BY <2>1, LoopGoesOn
  <2>3. InLoop(from, i + 1) \in 1 .. Len(Expansion)
      BY <2>1, LoopGoesOn
  <2> QED
      BY <2>1, <2>2, <2>3 DEF i
<1> HIDE DEF T, n, l, L, j, e
<1>8. CASE acu # "idle"
  <2>1. /\ build_index' = j /\ Started(build_index') = j
        /\ Started(expansion_index') = e /\ expansion_index' \in 0 .. L
        /\ tried' = log /\ acu' = acu
      BY <1>4, <1>6, <1>8 DEF Started, e, L
  <2> QED
      BY <1>1, <1>3, <1>4, <2>1 DEF Follows, l, n, L, T
<1>9. CASE acu = "idle"
  <2> DEFINE x == IF j <= n THEN T[j] ELSE Expansion[e]
  <2>1. x \in STRING
      BY <1>1, <1>2, <1>4 DEF n, L
  <2>2. /\ build_index' = (IF j <= n THEN j + 1 ELSE j)
        /\ expansion_index' = (IF j <= n THEN expansion_index ELSE NextInLoop(e))
        /\ tried' = Append(log, x)
        /\ acu' \in {"busy", "idle"}
      BY <1>6, <1>9
  <2> HIDE DEF x
  <2>3. /\ tried' \in Seq(STRING) /\ Len(tried') = l + 1
        /\ tried'[l + 1] = x
        /\ \A k \in 1 .. l : tried'[k] = log[k]
      BY <2>1, <2>2 DEF l
  <2>4. CASE l < n
    <3>1. j = l + 1 /\ j <= n /\ x = T[l + 1]
        BY <1>1, <1>3, <2>4 DEF x
    <3>2. /\ build_index' = l + 2 /\ expansion_index' = expansion_index
          /\ Beyond(tried', T) = Beyond(log, T)
        BY <1>1, <1>5, <2>2, <2>3, <2>4, <3>1 DEF Beyond, n
    <3>3. Started(build_index') = l + 2 /\ Started(expansion_index') = e
        BY <1>1, <3>2 DEF Started, e
    <3>4. \A k \in 1 .. l + 1 :
            tried'[k] = IF k <= n THEN T[k] ELSE Expansion[InLoop(from, k - n - 1)]
        BY <1>1, <1>3, <2>3, <2>4, <3>1
    <3>5. Follows(T, build_index', expansion_index', tried', from)
        BY <1>1, <1>3, <2>3, <2>4, <3>2, <3>3, <3>4 DEF Follows, n
    <3>6. build_index' \in 0 .. n + 1
        BY <1>1, <2>4, <3>2
    <3> QED
        BY <2>2, <2>3, <3>2, <3>5, <3>6 DEF T, n, L
  <2>5. CASE l >= n
    <3>1. j = n + 1 /\ ~(j <= n) /\ x = Expansion[e]
        BY <1>1, <1>3, <2>5 DEF x
    <3>2. /\ build_index' = n + 1 /\ expansion_index' = NextInLoop(e)
          /\ Beyond(log, T) = l - n /\ Beyond(tried', T) = l - n + 1
        BY <1>1, <1>5, <2>2, <2>3, <2>5, <3>1 DEF Beyond, n
    <3>3. /\ Started(build_index') = n + 1
          /\ Started(expansion_index') = InLoop(from, Beyond(tried', T))
        BY <1>1, <1>7, <3>2 DEF Started
    <3>4. ASSUME NEW k \in 1 .. l + 1
          PROVE  tried'[k] = IF k <= n THEN T[k] ELSE Expansion[InLoop(from, k - n - 1)]
      <4>1. CASE k \in 1 .. l
          BY <1>3, <2>3, <4>1
      <4>2. CASE k = l + 1
        <5>1. ~(k <= n) /\ k - n - 1 = l - n
            BY <1>1, <2>5, <4>2
        <5> QED
            BY <1>3, <2>3, <3>1, <3>2, <4>2, <5>1
      <4> QED
          BY <1>1, <4>1, <4>2
    <3>5. Follows(T, build_index', expansion_index', tried', from)
        BY <1>1, <2>3, <2>5, <3>3, <3>4 DEF Follows, n
    <3>6. build_index' \in 0 .. n + 1 /\ expansion_index' \in 0 .. L
        BY <1>1, <1>2, <1>7, <3>2
    <3> QED
        BY <2>2, <2>3, <3>5, <3>6 DEF T, n, L
  <2> QED
      BY <1>1, <2>4, <2>5
<1> QED
    BY <1>8, <1>9
-----------------------------------------------------------------------------
(* Initial states and steps *)

\* Nothing tried: the indices stand where they begin.
LEMMA NothingTried ==
    ASSUME NEW s, NEW b \in {0, 1}, NEW e \in 0 .. Len(Expansion)
    PROVE  /\ Started(e) \in 1 .. Len(Expansion)
           /\ Follows(GetTemplate(s), b, e, << >>, Started(e))
<1>1. Started(e) \in 1 .. Len(Expansion) /\ Started(b) = 1
    BY ExpansionType DEF Started
<1>2. InLoop(Started(e), 0) = Started(e)
    BY <1>1, LoopGoesOn
<1>3. Len(GetTemplate(s)) \in Nat /\ Beyond(<< >>, GetTemplate(s)) = 0
    BY TemplateType DEF Beyond
<1> QED
    BY <1>1, <1>2, <1>3 DEF Follows

\* Nothing has been ordered at first.
LEMMA InitIInv == Init => IInv
<1> SUFFICES ASSUME Init PROVE IInv
    OBVIOUS
<1>1. /\ CurrentStrategy = "balanced" /\ build_index = 0 /\ expansion_index = 0
      /\ acu = "idle" /\ latest = "none" /\ tried = << >> /\ resumed = 1
    BY DEF Init
<1>2. Len(Template) \in Nat /\ Len(Expansion) \in Nat \ {0}
    BY TemplateType, ExpansionType DEF Template
<1>3. TypeOK
    BY <1>1, <1>2 DEF TypeOK
<1>4. 0 \in 0 .. Len(Expansion) /\ Started(0) = 1
    BY <1>2 DEF Started
<1>5. Follows(Template, 0, 0, << >>, 1)
    BY <1>4, NothingTried DEF Template
<1> QED
    BY <1>1, <1>3, <1>5 DEF IInv

\* TickBuild gives at most the next order.
LEMMA TickBuildStep == IInv /\ TickBuild => IInv'
<1> SUFFICES ASSUME IInv, TickBuild PROVE IInv'
    OBVIOUS
<1>1. /\ Advance(CurrentStrategy, build_index, tried)
      /\ latest' \in {CurrentStrategy, "none"}
      /\ CurrentStrategy' = CurrentStrategy /\ resumed' = resumed
    BY DEF TickBuild, SetFactoryQueues
<1>2. TypeOK /\ Follows(Template, build_index, expansion_index, tried, resumed)
    BY DEF IInv
<1>3. /\ Follows(Template, build_index', expansion_index', tried', resumed)
      /\ build_index' \in 0 .. Len(Template) + 1
      /\ expansion_index' \in 0 .. Len(Expansion)
      /\ acu' \in {"idle", "busy", "dead"}
      /\ tried' \in Seq(STRING)
    BY <1>1, <1>2, AdvanceFollows DEF TypeOK, Template
<1>4. Template' = Template
    BY <1>1 DEF Template, GetTemplate
<1> QED
    BY <1>1, <1>2, <1>3, <1>4 DEF IInv, TypeOK

\* Apply starts another template from its beginning, and changes nothing for the same one.
LEMMA ApplyStep == ASSUME IInv, NEW s \in Strategies, Apply(s) PROVE IInv'
<1> DEFINE same == s = CurrentStrategy
           b    == IF same THEN build_index ELSE 1
           log  == IF same THEN tried ELSE << >>
           from == IF same THEN resumed ELSE Started(expansion_index)
<1>1. /\ Advance(s, b, log)
      /\ latest' \in {s, "none"}
      /\ CurrentStrategy' = s /\ resumed' = from
    BY DEF Apply, SetFactoryQueues
<1>2. TypeOK /\ Follows(Template, build_index, expansion_index, tried, resumed)
    BY DEF IInv
<1>3. Len(GetTemplate(s)) \in Nat
    BY TemplateType
<1>4. /\ b \in 0 .. Len(GetTemplate(s)) + 1 /\ log \in Seq(STRING)
      /\ from \in 1 .. Len(Expansion)
      /\ Follows(GetTemplate(s), b, expansion_index, log, from)
  <2>1. CASE same
      BY <1>2, <2>1 DEF TypeOK, Template
  <2>2. CASE ~same
    <3>1. b = 1 /\ log = << >> /\ from = Started(expansion_index)
        BY <2>2
    <3>2. expansion_index \in 0 .. Len(Expansion)
        BY <1>2 DEF TypeOK
    <3> HIDE DEF b, log, from
    <3> QED
        BY <1>3, <3>1, <3>2, NothingTried
  <2> QED
      BY <2>1, <2>2
<1> HIDE DEF same, b, log, from
<1>5. /\ Follows(GetTemplate(s), build_index', expansion_index', tried', from)
      /\ build_index' \in 0 .. Len(GetTemplate(s)) + 1
      /\ expansion_index' \in 0 .. Len(Expansion)
      /\ acu' \in {"idle", "busy", "dead"}
      /\ tried' \in Seq(STRING)
  <2>1. expansion_index \in 0 .. Len(Expansion) /\ acu \in {"idle", "busy", "dead"}
      BY <1>2 DEF TypeOK
  <2> QED
      BY <1>1, <1>4, <2>1, AdvanceFollows
<1>6. Template' = GetTemplate(s)
    BY <1>1 DEF Template, GetTemplate
<1>7. from \in 1 .. Len(Expansion)
    BY <1>4
<1> QED
    BY <1>1, <1>5, <1>6, <1>7 DEF IInv, TypeOK

\* Every step keeps the invariant.
LEMMA StepIInv == IInv /\ [Next]_vars => IInv'
<1> SUFFICES ASSUME IInv, [Next]_vars PROVE IInv'
    OBVIOUS
<1>1. CASE TickBuild
    BY <1>1, TickBuildStep
<1>2. ASSUME NEW s \in Strategies, Apply(s) PROVE IInv'
    BY <1>2, ApplyStep
<1>3. CASE AcuDone \/ AcuDies \/ UNCHANGED vars
  <2>1. /\ UNCHANGED <<CurrentStrategy, build_index, expansion_index, latest, tried, resumed>>
        /\ acu' \in {"idle", "busy", "dead"}
      BY <1>3 DEF AcuDone, AcuDies, vars, IInv, TypeOK
  <2>2. Template' = Template
      BY <2>1 DEF Template, GetTemplate
  <2>3. TypeOK'
      BY <2>1, <2>2 DEF IInv, TypeOK
  <2> QED
      BY <2>1, <2>2, <2>3 DEF IInv
<1> QED
    BY <1>1, <1>2, <1>3 DEF Next

-----------------------------------------------------------------------------
(* Theorems *)

\* IInv holds throughout, whatever strategies are applied, however orders fail.
THEOREM Invariance == Spec => []IInv
<1> QED
    BY InitIInv, StepIInv, PTL DEF Spec

\* _build_index never points further than one beyond the template in force, and
\* _expansion_index never out of ExpansionLoop.
THEOREM TypeCorrect == Spec => []TypeOK
<1>1. IInv => TypeOK
    BY DEF IInv
<1> QED
    BY <1>1, Invariance, PTL

\* The commander is given the orders of the template one by one, then those of
\* the expansion loop round and round, from where an earlier strategy left it.
THEOREM OrdersFollowTemplateHolds == Spec => []OrdersFollowTemplate
<1>1. IInv => OrdersFollowTemplate
  <2> SUFFICES ASSUME IInv, NEW k \in 1 .. Len(tried)
               PROVE  tried[k] = IF k <= Len(Template) THEN Template[k]
                        ELSE Expansion[((resumed + k - Len(Template) - 2) % Len(Expansion)) + 1]
      BY DEF OrdersFollowTemplate
  <2>1. Len(Template) \in Nat /\ resumed \in Nat /\ k \in Nat
      BY TemplateType DEF IInv, TypeOK, Template
  <2>2. tried[k] = IF k <= Len(Template) THEN Template[k]
                   ELSE Expansion[InLoop(resumed, k - Len(Template) - 1)]
      BY DEF IInv, Follows
  <2>3. resumed + (k - Len(Template) - 1) - 1 = resumed + k - Len(Template) - 2
      BY <2>1
  <2> QED
      BY <2>2, <2>3 DEF InLoop
<1> QED
    BY <1>1, Invariance, PTL
=============================================================================
