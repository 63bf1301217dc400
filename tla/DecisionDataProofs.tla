------------------------- MODULE DecisionDataProofs -------------------------
(* Whatever the models answer, a command that leaves the builder is valid but *)
(* for a strategy that is missing and shares that overflow; what is valid     *)
(* already leaves as it is; the fallback always decides; and with the stop    *)
(* token only flat answers are used.                                          *)
EXTENDS DecisionData, FiniteSetTheorems, TLAPS

-----------------------------------------------------------------------------
(* The filter of the build priorities and of the tokens *)

\* There are as many places up to n as n says.
LEMMA CountTo ==
    ASSUME NEW n \in Nat
    PROVE  IsFiniteSet(1 .. n) /\ Cardinality(1 .. n) = n
BY FS_Interval

\* In a set of places, for every k up to their number there is one that is the
\* k-th: counting up to a place is an injection from the places to 1 .. number.
LEMMA PlaceOfRank ==
    ASSUME NEW n \in Nat, NEW S \in SUBSET (1 .. n), NEW k \in 1 .. Cardinality(S)
    PROVE  \E i \in S : Cardinality(S \cap 1 .. i) = k
<1> DEFINE rank == [i \in S |-> Cardinality(S \cap 1 .. i)]
           R    == 1 .. Cardinality(S)
<1>1. IsFiniteSet(S) /\ Cardinality(S) \in Nat
  <2>1. IsFiniteSet(1 .. n)
    BY CountTo
  <2> QED  BY <2>1, FS_Subset, FS_CardinalityType
<1>2. \A i \in S : /\ IsFiniteSet(S \cap 1 .. i) /\ Cardinality(S \cap 1 .. i) \in Nat
                   /\ Cardinality(S \cap 1 .. i) <= Cardinality(S)
                   /\ Cardinality(S \cap 1 .. i) # 0
  <2> TAKE i \in S
  <2>1. IsFiniteSet(S \cap 1 .. i) /\ Cardinality(S \cap 1 .. i) <= Cardinality(S)
    BY <1>1, FS_Subset
  <2>2. i \in S \cap 1 .. i
    OBVIOUS
  <2> QED  BY <2>1, <2>2, FS_EmptySet, FS_CardinalityType
<1>3. rank \in [S -> R]
  BY <1>1, <1>2
<1>4. \A i, j \in S : i < j => rank[i] # rank[j]
  <2> SUFFICES ASSUME NEW i \in S, NEW j \in S, i < j
               PROVE  rank[i] # rank[j]
    OBVIOUS
  <2>1. S \cap 1 .. i \in SUBSET (S \cap 1 .. j)
    OBVIOUS
  <2>2. j \in S \cap 1 .. j /\ j \notin S \cap 1 .. i
    OBVIOUS
  <2> QED  BY <1>2, <2>1, <2>2, FS_Subset
<1>5. rank \in Injection(S, R)
  <2>1. ASSUME NEW i \in S, NEW j \in S, rank[i] = rank[j]
        PROVE  i = j
    <3>1. i \in Int /\ j \in Int
      OBVIOUS
    <3>2. ~(i < j) /\ ~(j < i)
      BY <1>4, <2>1
    <3> HIDE DEF rank
    <3> QED  BY <3>1, <3>2
  <2> QED  BY <1>3, <2>1 DEF Injection, IsInjective
<1>6. IsFiniteSet(R) /\ Cardinality(R) = Cardinality(S)
  BY <1>1, CountTo
<1>7. rank \in Surjection(S, R)
  BY <1>5, <1>6, FS_Injection
<1> QED  BY <1>7 DEF Surjection

\* f reads the items at increasing places, which are all those where one is in S.
Reads(f, items, S, place) ==
    /\ \A k \in 1 .. Len(f) :
         place[k] \in 1 .. Len(items) /\ f[k] = items[place[k]] /\ f[k] \in S
    /\ \A j, k \in 1 .. Len(f) : j < k => place[j] < place[k]
    /\ \A i \in 1 .. Len(items) : items[i] \in S => \E k \in 1 .. Len(f) : place[k] = i

\* The filter returns, in their order, all of the items that are in S.
LEMMA AmongPlaces ==
    ASSUME NEW items, Len(items) \in Nat, NEW S
    PROVE  Among(items, S) \in Seq(S) /\ \E place : Reads(Among(items, S), items, S, place)
<1> DEFINE kept   == {i \in 1 .. Len(items) : items[i] \in S}
           nth(k) == CHOOSE i \in kept : Cardinality(kept \cap 1 .. i) = k
           N      == Cardinality(kept)
           place  == [k \in 1 .. N |-> nth(k)]
<1>1. kept \in SUBSET (1 .. Len(items))
  OBVIOUS
<1>2. IsFiniteSet(kept) /\ N \in Nat
  <2>1. IsFiniteSet(1 .. Len(items))
    BY CountTo
  <2> QED  BY <1>1, <2>1, FS_Subset, FS_CardinalityType
<1>3. \A k \in 1 .. N : nth(k) \in kept /\ Cardinality(kept \cap 1 .. nth(k)) = k
  BY <1>1, PlaceOfRank
<1>4. \A i \in kept : items[i] \in S
  OBVIOUS
<1>5. Among(items, S) = [k \in 1 .. N |-> items[nth(k)]]
  BY DEF Among
<1>6. \A i \in 1 .. Len(items) : items[i] \in S => i \in kept
  OBVIOUS
<1>7. place = [k \in 1 .. N |-> nth(k)]
  OBVIOUS
<1> HIDE DEF kept, nth, N, place
<1>8. Among(items, S) \in Seq(S) /\ Len(Among(items, S)) = N
  <2>1. Among(items, S) \in [1 .. N -> S]
    BY <1>3, <1>4, <1>5
  <2> QED  BY <1>2, <2>1
<1>9. \A k \in 1 .. N : /\ place[k] \in 1 .. Len(items)
                        /\ Among(items, S)[k] = items[place[k]]
                        /\ Among(items, S)[k] \in S
  BY <1>1, <1>3, <1>4, <1>5, <1>7
<1>10. \A i, j \in kept : i <= j => Cardinality(kept \cap 1 .. i) <= Cardinality(kept \cap 1 .. j)
  <2> TAKE i, j \in kept
  <2> HAVE i <= j
  <2>1. kept \cap 1 .. i \in SUBSET (kept \cap 1 .. j)
    BY <1>1
  <2>2. IsFiniteSet(kept \cap 1 .. j)
    BY <1>2, FS_Subset
  <2> QED  BY <2>1, <2>2, FS_Subset
<1>11. ASSUME NEW j \in 1 .. N, NEW k \in 1 .. N, j < k
       PROVE  place[j] < place[k]
  <2>1. place[j] \in kept /\ place[k] \in kept
    BY <1>3, <1>7
  <2>2. place[k] <= place[j] => k <= j
    BY <1>3, <1>7, <1>10, <2>1
  <2>3. \A i \in kept : i \in Int
    BY <1>1
  <2> QED  BY <1>11, <2>1, <2>2, <2>3
<1>12. ASSUME NEW i \in kept
       PROVE  \E k \in 1 .. N : place[k] = i
  <2> DEFINE k == Cardinality(kept \cap 1 .. i)
  <2>1. IsFiniteSet(kept \cap 1 .. i) /\ k \in Nat /\ k <= N
    BY <1>2, FS_Subset, FS_CardinalityType DEF N
  <2>2. i \in kept \cap 1 .. i
    BY <1>1
  <2>3. k # 0
    BY <2>1, <2>2, FS_EmptySet
  <2> HIDE DEF k
  <2>4. k \in 1 .. N
    BY <1>2, <2>1, <2>3
  <2>5. nth(k) \in kept /\ Cardinality(kept \cap 1 .. nth(k)) = k
    BY <1>3, <2>4
  <2>6. ~(nth(k) < i) /\ ~(i < nth(k))
    <3>1. \A x, y \in kept : x < y => Cardinality(kept \cap 1 .. x) # Cardinality(kept \cap 1 .. y)
      <4> TAKE x, y \in kept
      <4> HAVE x < y
      <4>1. kept \cap 1 .. x \in SUBSET (kept \cap 1 .. y)
        BY <1>1
      <4>2. IsFiniteSet(kept \cap 1 .. y) /\ y \in kept \cap 1 .. y /\ y \notin kept \cap 1 .. x
        BY <1>1, <1>2, FS_Subset
      <4> QED  BY <4>1, <4>2, FS_Subset
    <3> QED  BY <2>5, <3>1 DEF k
  <2>7. \A x \in kept : x \in Int
    BY <1>1
  <2>8. \A x, y \in Int : ~(x < y) /\ ~(y < x) => x = y
    OBVIOUS
  <2>9. nth(k) = i
    BY <2>5, <2>6, <2>7, <2>8
  <2> QED  BY <1>7, <2>4, <2>9
<1>13. Reads(Among(items, S), items, S, place)
  BY <1>6, <1>8, <1>9, <1>11, <1>12 DEF Reads
<1> QED  BY <1>8, <1>13

\* Without the places: all of the items that are in S, and nothing else.
LEMMA AmongElements ==
    ASSUME NEW items, Len(items) \in Nat, NEW S
    PROVE  LET f == Among(items, S)
           IN  /\ \A k \in 1 .. Len(f) : \E i \in 1 .. Len(items) : f[k] = items[i]
               /\ \A i \in 1 .. Len(items) :
                    items[i] \in S => \E k \in 1 .. Len(f) : f[k] = items[i]
<1> DEFINE f == Among(items, S)
<1>1. PICK place : Reads(f, items, S, place)
  BY AmongPlaces
<1> HIDE DEF f
<1>2. /\ \A k \in 1 .. Len(f) : \E i \in 1 .. Len(items) : f[k] = items[i]
      /\ \A i \in 1 .. Len(items) :
           items[i] \in S => \E k \in 1 .. Len(f) : f[k] = items[i]
  BY <1>1 DEF Reads
<1> QED  BY <1>2 DEF f

\* It leaves alone what is valid.
LEMMA AmongKeeps ==
    ASSUME NEW items \in Seq(PriorityNames),
           \A i \in 1 .. Len(items) : items[i] \in _VALID_BUILD_PRIORITIES
    PROVE  Among(items, _VALID_BUILD_PRIORITIES) = items
<1> DEFINE n      == Len(items)
           kept   == {i \in 1 .. Len(items) : items[i] \in _VALID_BUILD_PRIORITIES}
           nth(k) == CHOOSE i \in kept : Cardinality(kept \cap 1 .. i) = k
<1>1. n \in Nat /\ items = [i \in 1 .. n |-> items[i]]
  OBVIOUS
<1>2. kept = 1 .. n
  OBVIOUS
<1>3. Cardinality(kept) = n
  <2>1. Cardinality(1 .. n) = n
    BY <1>1, CountTo
  <2> QED  BY <1>2, <2>1
<1>4. \A i \in 1 .. n : Cardinality(kept \cap 1 .. i) = i
  <2> TAKE i \in 1 .. n
  <2>1. kept \cap 1 .. i = 1 .. i
    BY <1>2
  <2>2. Cardinality(1 .. i) = i
    BY CountTo
  <2> QED  BY <2>1, <2>2
<1>5. \A k \in 1 .. n : nth(k) = k
  <2> TAKE k \in 1 .. n
  <2>1. \E i \in kept : Cardinality(kept \cap 1 .. i) = k
    BY <1>2, <1>4
  <2>2. nth(k) \in kept /\ Cardinality(kept \cap 1 .. nth(k)) = k
    BY <2>1
  <2> HIDE DEF nth, kept
  <2> QED  BY <2>2, <1>2, <1>4
<1>6. Among(items, _VALID_BUILD_PRIORITIES) = [k \in 1 .. Cardinality(kept) |-> items[nth(k)]]
  BY DEF Among
<1> HIDE DEF kept, nth
<1> QED  BY <1>1, <1>3, <1>5, <1>6

-----------------------------------------------------------------------------
(* The army composition *)

\* A quotient to the nearest ten is off by at most five.
LEMMA Round3Bounds ==
    ASSUME NEW a \in Int, NEW t \in Int, t > 0
    PROVE  /\ Round3(a, t) \in Int
           /\ t * Round3(a, t) <= a + 5 * t
           /\ a - 5 * t < t * Round3(a, t)
<1> DEFINE b == 10 * t
           q == (2 * a + b) \div (2 * b)
           m == (2 * a + b) % (2 * b)
<1>1. Round3(a, t) = 10 * q
  BY DEF Round3, Rounded
<1>2. b \in Int /\ b > 0
  OBVIOUS
<1>3. q \in Int /\ m \in 0 .. 2 * b - 1 /\ 2 * a + b = (2 * b) * q + m
  <2> HIDE DEF b
  <2> QED  BY <1>2
<1>4. (2 * b) * q = 2 * (t * (10 * q)) /\ t * (10 * q) \in Int
  <2> HIDE DEF q
  <2> QED  BY <1>3
<1> HIDE DEF q, m
<1> QED  BY <1>1, <1>3, <1>4

\* Two positive factors make a positive product.
LEMMA PositiveProduct ==
    ASSUME NEW t \in Int, NEW x \in Int, t > 0
    PROVE  /\ t * x >= 0 => x >= 0
           /\ t * x > 0 => x > 0
OBVIOUS

\* Shares that are numbers with no infinite sum are 1.0 in all when they leave,
\* within the tolerance and three roundings.
LEMMA CompositionTotal ==
    ASSUME NEW reply, Given(reply) \in [Units -> ShareValues], ~Overflows(Given(reply))
    PROVE  Total(Composition(reply)) \in 9890 .. 10110
<1> DEFINE comp  == Given(reply)
           total == comp.land + comp.air + comp.navy
           made  == Composition(reply)
<1>1. \A unit \in Units : comp[unit] \in ShareValues /\ comp[unit] # Infinity
  BY DEF Overflows
<1>2. made = IF \E unit \in Units : comp[unit] = NotANumber THEN Default
             ELSE IF \E unit \in Units : comp[unit] = Large
               THEN [unit \in Units |-> IF comp[unit] = Large THEN 10000 ELSE 0]
             ELSE IF total \in 9901 .. 10099 THEN [unit \in Units |-> Round3(comp[unit], 1)]
             ELSE IF total > 0 THEN [unit \in Units |-> Round3(10000 * comp[unit], total)]
             ELSE Default
  BY DEF Composition
<1>3. Total(Default) = 10000
  BY DEF Default, Total
<1>4. ASSUME NEW large \in Units, comp[large] = Large
      PROVE  Total([unit \in Units |-> IF comp[unit] = Large THEN 10000 ELSE 0]) = 10000
  <2>1. \A unit \in Units : comp[unit] = Large <=> unit = large
    BY <1>4 DEF Overflows
  <2> DEFINE part == [unit \in Units |-> IF comp[unit] = Large THEN 10000 ELSE 0]
  <2>2. \A unit \in Units : part[unit] = IF unit = large THEN 10000 ELSE 0
    BY <2>1
  <2> HIDE DEF part
  <2>3. /\ part.land = IF large = "land" THEN 10000 ELSE 0
        /\ part.air = IF large = "air" THEN 10000 ELSE 0
        /\ part.navy = IF large = "navy" THEN 10000 ELSE 0
    BY <2>2 DEF Units
  <2>4. Total(part) = 10000
    BY <2>3 DEF Units, Total
  <2> QED  BY <2>4 DEF part
<1>5. CASE \E unit \in Units : comp[unit] \in {NotANumber, Large}
  <2> HIDE DEF comp, made
  <2>1. Total(made) = 10000
    BY <1>2, <1>3, <1>4, <1>5
  <2> QED  BY <2>1 DEF made
<1>6. CASE ~\E unit \in Units : comp[unit] \in {NotANumber, Large}
  <2>1. \A unit \in Units : comp[unit] \in Int
    BY <1>1, <1>6 DEF ShareValues
  <2> HIDE DEF comp
  <2>2. comp.land \in Int /\ comp.air \in Int /\ comp.navy \in Int /\ total \in Int
    BY <2>1 DEF Units
  <2>3. CASE total \in 9901 .. 10099
    <3> DEFINE part == [unit \in Units |-> Round3(comp[unit], 1)]
    <3>1. \A x \in Int : Round3(x, 1) \in Int /\ x - 5 < Round3(x, 1) /\ Round3(x, 1) <= x + 5
      <4> TAKE x \in Int
      <4>1. /\ Round3(x, 1) \in Int
            /\ 1 * Round3(x, 1) <= x + 5 * 1 /\ x - 5 * 1 < 1 * Round3(x, 1)
        BY Round3Bounds
      <4> QED  BY <4>1
    <3>2. /\ part.land \in Int /\ part.air \in Int /\ part.navy \in Int
          /\ comp.land - 5 < part.land /\ part.land <= comp.land + 5
          /\ comp.air - 5 < part.air /\ part.air <= comp.air + 5
          /\ comp.navy - 5 < part.navy /\ part.navy <= comp.navy + 5
      BY <2>2, <3>1 DEF Units
    <3>3. \E k \in Int : Total(part) = 10 * k
      <4>1. /\ part.land = 10 * Rounded(comp.land, 10)
            /\ part.air = 10 * Rounded(comp.air, 10)
            /\ part.navy = 10 * Rounded(comp.navy, 10)
        BY DEF Round3, Units
      <4>2. /\ Rounded(comp.land, 10) \in Int /\ Rounded(comp.air, 10) \in Int
            /\ Rounded(comp.navy, 10) \in Int
        BY <2>2 DEF Rounded
      <4> HIDE DEF part
      <4>3. /\ Total(part) = 10 * (Rounded(comp.land, 10) + Rounded(comp.air, 10)
                                    + Rounded(comp.navy, 10))
            /\ Rounded(comp.land, 10) + Rounded(comp.air, 10) + Rounded(comp.navy, 10) \in Int
        BY <4>1, <4>2 DEF Total
      <4> QED  BY <4>3
    <3>4. made = part
      BY <1>2, <1>6, <2>3
    <3> HIDE DEF part, made
    <3>5. Total(part) \in Int /\ 9901 - 15 < Total(part) /\ Total(part) <= 10099 + 15
      BY <2>2, <2>3, <3>2 DEF Total
    <3>6. Total(part) \in 9890 .. 10110
      BY <3>3, <3>5
    <3> QED  BY <3>4, <3>6 DEF made
  <2>4. CASE total \notin 9901 .. 10099 /\ total > 0
    <3> DEFINE part == [unit \in Units |-> Round3(10000 * comp[unit], total)]
               a == part.land + part.air + part.navy
    <3>1. \A x \in Int : /\ Round3(10000 * x, total) \in Int
                         /\ total * Round3(10000 * x, total) <= 10000 * x + 5 * total
                         /\ 10000 * x - 5 * total < total * Round3(10000 * x, total)
      <4> TAKE x \in Int
      <4>1. 10000 * x \in Int
        OBVIOUS
      <4> HIDE DEF total
      <4> QED  BY <2>2, <2>4, <4>1, Round3Bounds
    <3>2. /\ part.land \in Int /\ part.air \in Int /\ part.navy \in Int /\ a \in Int
          /\ total * part.land <= 10000 * comp.land + 5 * total
          /\ total * part.air <= 10000 * comp.air + 5 * total
          /\ total * part.navy <= 10000 * comp.navy + 5 * total
          /\ 10000 * comp.land - 5 * total < total * part.land
          /\ 10000 * comp.air - 5 * total < total * part.air
          /\ 10000 * comp.navy - 5 * total < total * part.navy
      <4> HIDE DEF total
      <4> QED  BY <2>2, <3>1 DEF Units
    <3>3. total * a = total * part.land + total * part.air + total * part.navy
      BY <2>2, <3>2
    <3>4. total * a <= 10015 * total /\ 9985 * total < total * a
      <4>1. /\ total * part.land \in Int /\ total * part.air \in Int
            /\ total * part.navy \in Int
        BY <2>2, <3>2
      <4> HIDE DEF a, part
      <4> QED  BY <2>2, <3>2, <3>3, <4>1
    <3>5. /\ total * (10015 - a) = 10015 * total - total * a
          /\ total * (a - 9985) = total * a - 9985 * total
          /\ total * a \in Int
      BY <2>2, <3>2
    <3>6. 10015 - a >= 0 /\ a - 9985 > 0
      <4> HIDE DEF a, total
      <4> QED  BY <2>2, <2>4, <3>2, <3>4, <3>5, PositiveProduct
    <3>7. Total(part) = a
      BY DEF Total
    <3>8. made = part
      BY <1>2, <1>6, <2>4
    <3> HIDE DEF part, made, a
    <3> QED  BY <3>2, <3>6, <3>7, <3>8 DEF made
  <2>5. CASE total \notin 9901 .. 10099 /\ ~(total > 0)
    <3>1. made = Default
      BY <1>2, <1>6, <2>5
    <3> QED  BY <1>3, <3>1
  <2> QED  BY <2>3, <2>4, <2>5
<1> QED  BY <1>5, <1>6

-----------------------------------------------------------------------------
(* build *)

\* What build() lets through has numbers for its shares.
LEMMA SharesGiven ==
    ASSUME NEW reply, IsDecision(reply), ~build_raises(reply)
    PROVE  Given(reply) \in [Units -> ShareValues]
<1> DEFINE comp == Get(reply, "army_composition", Null)
<1>1. \A unit \in Units : IsNumber(Given(reply)[unit])
  BY DEF build_raises, IsNumber
<1>2. \A unit \in Units : Default[unit] \in ShareValues
  BY DEF Default, ShareValues, Units
<1>3. CASE comp \in {Null, Other, Array}
  <2>1. Given(reply) = [unit \in Units |-> Default[unit]]
    BY <1>3 DEF Given
  <2> QED  BY <2>1, <1>2
<1>4. CASE comp \notin {Null, Other, Array}
  <2>1. Given(reply) = [unit \in Units |-> Get(comp, unit, Default[unit])]
    BY <1>4 DEF Given
  <2>2. "army_composition" \in DOMAIN reply /\ comp = reply.army_composition
    BY <1>4 DEF Get
  <2>3. \A unit \in DOMAIN comp : IsNumber(comp[unit]) => comp[unit] \in ShareValues
    BY <2>2, <1>4 DEF IsDecision
  <2>4. \A unit \in Units : Get(comp, unit, Default[unit]) \in ShareValues
    BY <1>1, <1>2, <2>1, <2>3 DEF Get
  <2> QED  BY <2>1, <2>4
<1> QED  BY <1>3, <1>4

\* What its fields are after build().
LEMMA Built ==
    ASSUME NEW reply
    PROVE  /\ DOMAIN build(reply) = DOMAIN reply \cup {"build_priority", "army_composition",
                              "retreat_threshold", "chat_message", "reasoning"}
           /\ "strategy" \in DOMAIN reply => build(reply).strategy = Strategy(reply)
           /\ build(reply).build_priority = Priorities(reply)
           /\ build(reply).army_composition = Composition(reply)
           /\ "attack_direction" \in DOMAIN reply =>
                build(reply).attack_direction = Direction(reply)
           /\ build(reply).retreat_threshold = Retreat(reply)
           /\ build(reply).chat_message = Chat(reply)
           /\ build(reply).reasoning = Reasoning(reply)
BY DEF build

\* The reasoning is a text in the end, and not too long.
LEMMA ReasoningIsText ==
    ASSUME NEW reply, IsDecision(reply)
    PROVE  Reasoning(reply) \in Texts /\ Reasoning(reply).size <= 500
<1> DEFINE given == Get(reply, "reasoning", [size |-> 0, odd |-> "no"])
<1>1. given \in Texts \cup {Null}
  BY DEF Get, IsDecision, Texts
<1>2. Reasoning(reply) = IF given = Null THEN [size |-> 4, odd |-> "no"]
                         ELSE IF given.size > 500 THEN [given EXCEPT !.size = 500] ELSE given
  BY DEF Reasoning
<1> HIDE DEF given
<1> QED  BY <1>1, <1>2 DEF Texts

\* There is always a priority, and it is a valid one.
LEMMA PrioritiesAreValid ==
    ASSUME NEW reply, IsDecision(reply)
    PROVE  /\ Priorities(reply).form = "list"
           /\ Priorities(reply).items # << >>
           /\ \A i \in 1 .. Len(Priorities(reply).items) :
                Priorities(reply).items[i] \in _VALID_BUILD_PRIORITIES
<1> DEFINE bp    == Get(reply, "build_priority", [form |-> "list", items |-> <<"land">>])
           valid == Among(bp.items, _VALID_BUILD_PRIORITIES)
<1>1. bp.items \in Seq(PriorityNames)
  <2>1. CASE "build_priority" \in DOMAIN reply
    <3>1. bp = reply.build_priority
      BY <2>1 DEF Get
    <3> QED  BY <2>1, <3>1 DEF IsDecision
  <2>2. CASE "build_priority" \notin DOMAIN reply
    <3>1. bp = [form |-> "list", items |-> <<"land">>]
      BY <2>2 DEF Get
    <3>2. bp.items = <<"land">>
      BY <3>1
    <3>3. <<"land">> \in Seq(PriorityNames)
      BY DEF PriorityNames, _VALID_BUILD_PRIORITIES
    <3> QED  BY <3>2, <3>3
  <2> QED  BY <2>1, <2>2
<1>2. \A i \in 1 .. Len(valid) : valid[i] \in _VALID_BUILD_PRIORITIES
  <2>1. Len(bp.items) \in Nat
    BY <1>1
  <2> HIDE DEF bp
  <2>2. valid \in Seq(_VALID_BUILD_PRIORITIES)
    BY <2>1, AmongPlaces
  <2> QED  BY <2>2
<1>3. Priorities(reply) =
        [form |-> "list", items |-> IF valid = << >> THEN <<"land">> ELSE valid]
  BY DEF Priorities
<1> HIDE DEF valid
<1>4. CASE valid = << >>
  <2>1. Priorities(reply).form = "list" /\ Priorities(reply).items = <<"land">>
    BY <1>3, <1>4
  <2> QED  BY <2>1 DEF _VALID_BUILD_PRIORITIES
<1>5. CASE valid # << >>
  BY <1>2, <1>3, <1>5
<1> QED  BY <1>4, <1>5

\* Whatever build() is given, what it returns is valid but for a strategy that is
\* missing and for shares that overflow.
LEMMA BuildIsValid ==
    ASSUME NEW reply, IsDecision(reply), ~build_raises(reply)
    PROVE  /\ FieldsAreValid(build(reply))
           /\ "strategy" \in DOMAIN reply =>
                /\ "strategy" \in DOMAIN build(reply)
                /\ build(reply).strategy \in _VALID_STRATEGIES
           /\ ~Overflows(Given(reply)) =>
                Total(build(reply).army_composition) \in 9890 .. 10110
<1> DEFINE d == build(reply)
<1>0. DOMAIN d = DOMAIN reply \cup {"build_priority", "army_composition",
                                 "retreat_threshold", "chat_message", "reasoning"}
  BY Built
<1>1. "strategy" \in DOMAIN reply =>
         "strategy" \in DOMAIN d /\ d.strategy \in _VALID_STRATEGIES
  <2>1. Strategy(reply) \in _VALID_STRATEGIES
    BY DEF Strategy, _VALID_STRATEGIES
  <2>2. "strategy" \in DOMAIN reply => d.strategy = Strategy(reply)
    BY Built
  <2> HIDE DEF d
  <2> QED  BY <1>0, <2>1, <2>2
<1>2. Get(d, "attack_direction", Null) \in _VALID_DIRECTIONS
  <2>1. Null \in _VALID_DIRECTIONS
    BY DEF _VALID_DIRECTIONS
  <2>2. Direction(reply) \in _VALID_DIRECTIONS
    BY <2>1 DEF Direction
  <2>3. "attack_direction" \in DOMAIN d => "attack_direction" \in DOMAIN reply
    <3> HIDE DEF d
    <3> QED  BY <1>0
  <2>4. "attack_direction" \in DOMAIN d => d.attack_direction \in _VALID_DIRECTIONS
    BY <2>2, <2>3, Built
  <2> HIDE DEF d
  <2> QED  BY <2>1, <2>4 DEF Get
<1>3. d.build_priority = Priorities(reply)
  BY Built
<1>4. ~Overflows(Given(reply)) => Total(d.army_composition) \in 9890 .. 10110
  <2>1. ~Overflows(Given(reply)) => Total(Composition(reply)) \in 9890 .. 10110
    BY SharesGiven, CompositionTotal
  <2>2. d.army_composition = Composition(reply)
    BY Built
  <2> HIDE DEF d
  <2> QED  BY <2>1, <2>2
<1>5. d.retreat_threshold \in 10 .. 90
  <2> DEFINE rt == Get(reply, "retreat_threshold", 30)
  <2>1. rt # Huge
    BY DEF build_raises
  <2>2. rt \notin {Null, Other, Array} => rt \in Int
    BY <2>1 DEF Get, IsDecision, IsNumber
  <2>3. Retreat(reply) = IF rt \in {Null, Other, Array} THEN 30
                       ELSE IF rt < 10 THEN 10 ELSE IF rt > 90 THEN 90 ELSE rt
    BY DEF Retreat
  <2> HIDE DEF rt
  <2>4. Retreat(reply) \in 10 .. 90
    BY <2>2, <2>3
  <2> QED  BY <2>4, Built
<1>6. d.chat_message # Null => d.chat_message.size \in 1 .. 200
  <2> DEFINE chat == Get(reply, "chat_message", Null)
  <2>1. chat # Null => chat \in Texts
    BY DEF Get, IsDecision
  <2>2. Chat(reply) = IF chat = Null THEN Null
                    ELSE IF chat.size = 0 THEN Null
                    ELSE IF chat.size > 200 THEN [chat EXCEPT !.size = 198] ELSE chat
    BY DEF Chat
  <2> HIDE DEF chat
  <2>3. Chat(reply) # Null => Chat(reply).size \in 1 .. 200
    BY <2>1, <2>2 DEF Texts
  <2> QED  BY <2>3, Built
<1>7. d.reasoning \in Texts /\ d.reasoning.size <= 500
  <2>1. d.reasoning = Reasoning(reply)
    BY Built
  <2> HIDE DEF d
  <2> QED  BY <2>1, ReasoningIsText
<1>8. /\ d.build_priority.form = "list" /\ d.build_priority.items # << >>
      /\ \A i \in 1 .. Len(d.build_priority.items) :
           d.build_priority.items[i] \in _VALID_BUILD_PRIORITIES
  <2> HIDE DEF d
  <2> QED  BY <1>3, PrioritiesAreValid
<1> HIDE DEF d
<1>9. FieldsAreValid(d)
  BY <1>2, <1>5, <1>6, <1>7, <1>8 DEF FieldsAreValid
<1> QED  BY <1>1, <1>4, <1>9 DEF d

\* What is complete and valid before build() is the same after it.
LEMMA BuildKeeps ==
    ASSUME NEW reply, IsDecision(reply), IsComplete(reply), IsValid(reply)
    PROVE  build(reply) = reply
<1>1. DOMAIN build(reply) = DOMAIN reply
  BY Built DEF IsComplete
<1>2. Strategy(reply) = reply.strategy
  BY DEF Strategy, IsValid
<1>3. Direction(reply) = reply.attack_direction
  BY DEF Direction, IsValid, FieldsAreValid, IsComplete, Get
<1>4. Priorities(reply) = reply.build_priority
  <2> DEFINE bp == reply.build_priority
  <2>1. "build_priority" \in DOMAIN reply
    BY DEF IsComplete
  <2>2. bp = [form |-> bp.form, items |-> bp.items] /\ bp.items \in Seq(PriorityNames)
    BY <2>1 DEF IsDecision
  <2>3. bp.form = "list" /\ bp.items # << >>
    BY DEF IsValid, FieldsAreValid
  <2>4. Among(bp.items, _VALID_BUILD_PRIORITIES) = bp.items
    BY <2>2, AmongKeeps DEF IsValid, FieldsAreValid
  <2>5. Priorities(reply) = [form |-> "list", items |-> bp.items]
    BY <2>1, <2>3, <2>4 DEF Priorities, Get
  <2> QED  BY <2>2, <2>3, <2>5
<1>5. Composition(reply) = reply.army_composition
  <2> DEFINE comp  == reply.army_composition
             given == Given(reply)
  <2>1. "army_composition" \in DOMAIN reply /\ comp \notin {Null, Other, Array}
    BY DEF IsComplete, IsNumber
  <2>2. DOMAIN comp = Units /\ comp = [unit \in Units |-> comp[unit]]
    BY <2>1 DEF IsDecision, IsComplete
  <2>3. given = comp
    <3>1. given = [unit \in Units |-> comp[unit]]
      BY <2>1, <2>2 DEF Given, Get
    <3> QED  BY <2>2, <3>1
  <2>4. \A unit \in Units : comp[unit] \in Int /\ comp[unit] % 10 = 0
    BY DEF IsComplete
  <2>5. comp.land + comp.air + comp.navy \in 9901 .. 10099
    BY DEF IsValid, Total
  <2> HIDE DEF comp, given
  <2>6. \A unit \in Units : given[unit] \notin {NotANumber, Infinity, Large}
    BY <2>3, <2>4, ValuesAssumption
  <2>7. ~Overflows(given)
    BY <2>6 DEF Overflows
  <2>8. Composition(reply) = [unit \in Units |-> Round3(comp[unit], 1)]
    BY <2>3, <2>5, <2>6, <2>7 DEF Composition, given
  <2>9. \A unit \in Units : Round3(comp[unit], 1) = comp[unit]
    <3> TAKE unit \in Units
    <3>1. PICK k \in Int : comp[unit] = 10 * k
      <4>1. \A x \in Int : x % 10 = 0 => \E k \in Int : x = 10 * k
        <5> TAKE x \in Int
        <5> HAVE x % 10 = 0
        <5>1. x = 10 * (x \div 10) /\ x \div 10 \in Int
          OBVIOUS
        <5> QED  BY <5>1
      <4> QED  BY <2>4, <4>1
    <3>2. Rounded(10 * k, 10 * 1) = k
      BY DEF Rounded
    <3> QED  BY <3>1, <3>2 DEF Round3
  <2> QED  BY <2>2, <2>8, <2>9 DEF comp
<1>6. Retreat(reply) = reply.retreat_threshold
  <2>1. reply.retreat_threshold \in 10 .. 90
    BY DEF IsValid, FieldsAreValid
  <2>2. Get(reply, "retreat_threshold", 30) = reply.retreat_threshold
    BY DEF Get, IsComplete
  <2> QED  BY <2>1, <2>2, ValuesAssumption DEF Retreat
<1>7. Chat(reply) = reply.chat_message
  <2>1. reply.chat_message # Null => reply.chat_message.size \in 1 .. 200
    BY DEF IsValid, FieldsAreValid
  <2>2. Get(reply, "chat_message", Null) = reply.chat_message
    BY DEF Get, IsComplete
  <2> QED  BY <2>1, <2>2 DEF Chat
<1>8. Reasoning(reply) = reply.reasoning
  <2>1. reply.reasoning # Null /\ reply.reasoning \in Texts /\ reply.reasoning.size <= 500
    BY TextsAssumption DEF IsValid, FieldsAreValid
  <2>2. Get(reply, "reasoning", [size |-> 0, odd |-> "no"]) = reply.reasoning
    BY DEF Get, IsComplete
  <2>3. ~(reply.reasoning.size > 500)
    BY <2>1 DEF Texts
  <2> QED  BY <2>1, <2>2, <2>3 DEF Reasoning
<1>9. reply = [key \in DOMAIN reply |-> reply[key]]
  BY DEF IsDecision
<1>10. \A key \in DOMAIN reply : build(reply)[key] = reply[key]
  BY <1>2, <1>3, <1>4, <1>5, <1>6, <1>7, <1>8 DEF build
<1>11. build(reply) = [key \in DOMAIN build(reply) |-> build(reply)[key]]
  BY DEF build
<1> QED  BY <1>1, <1>9, <1>10, <1>11

-----------------------------------------------------------------------------
(* What build() is given *)

\* What is parsed from an answer, however it was cut, is some of its keys.
LEMMA ParsedIsDecision ==
    ASSUME NEW a \in Answers, NEW stop, Decision(a, stop) # Null
    PROVE  IsDecision(Decision(a, stop))
<1> DEFINE text == Cleaned(Response(a, stop))
           seen == {text[i] : i \in 1 .. Len(text)}
           K    == {k \in DOMAIN a.content :
                     \/ k \in seen
                     \/ k = "army_composition" /\ "army_composition_begin" \in seen}
           d    == Decision(a, stop)
<1>1. d = [k \in K |-> a.content[k]]
  <2> HIDE DEF text
  <2>1. d = IF WellFormed(text) THEN Restrict(a.content, K) ELSE Null
    BY DEF Decision, text
  <2> QED  BY <2>1 DEF Restrict
<1>2. IsDecision(a.content)
  BY AnswersAssumption DEF IsAnswer
<1>3. K \subseteq DOMAIN a.content
  OBVIOUS
<1> HIDE DEF K, d, seen, text
<1>4. DOMAIN d = K /\ \A k \in K : d[k] = a.content[k]
  BY <1>1
<1>5. d = [key \in DOMAIN d |-> d[key]]
  BY <1>1
<1>6. \A k \in DOMAIN d : k \in DOMAIN a.content /\ d[k] = a.content[k]
  BY <1>3, <1>4
<1>7. IsDecision(d)
  BY <1>2, <1>5, <1>6 DEF IsDecision
<1> QED  BY <1>7 DEF d

Rules(d) ==
    /\ IsDecision(d) /\ ~build_raises(d)
    /\ d.chat_message = Null /\ d.strategy \in _VALID_STRATEGIES
    /\ d.reasoning \in Texts /\ d.reasoning.odd = "no"
    /\ {"strategy", "chat_message", "reasoning"} \subseteq DOMAIN d

\* The rules' decisions are decisions, of valid strategies, that neither the
\* builder nor the log can fail on.
LEMMA MadeIsDecision ==
    ASSUME NEW strategy \in _VALID_STRATEGIES,
           NEW bp, bp = [form |-> bp.form, items |-> bp.items],
           bp.items \in Seq(PriorityNames),
           NEW shares, shares[1] \in Int, shares[2] \in Int, shares[3] \in Int,
           NEW direction \in {Null, "none", "nearest_enemy"}, NEW retreat \in Int
    PROVE  /\ Rules(_make(strategy, bp, shares, direction, retreat))
           /\ _make(strategy, bp, shares, direction, retreat).strategy = strategy
<1> DEFINE comp == [land |-> shares[1], air |-> shares[2], navy |-> shares[3]]
           d    == _make(strategy, bp, shares, direction, retreat)
<1>1. d = [strategy |-> strategy, build_priority |-> bp,
           army_composition |-> comp, attack_direction |-> direction,
           retreat_threshold |-> retreat, chat_message |-> Null,
           reasoning |-> [size |-> 45, odd |-> "no"]]
  BY DEF _make
<1>2. DOMAIN comp = Units /\ comp = [unit \in DOMAIN comp |-> comp[unit]]
  BY DEF Units
<1>3. \A unit \in Units : comp[unit] \in Int /\ comp[unit] \in ShareValues
  BY DEF Units, ShareValues
<1> HIDE DEF comp
<1>4. d = [key \in DOMAIN d |-> d[key]]
  BY <1>1
<1>5. IsDecision(d)
  <2>1. d.build_priority = bp /\ d.army_composition = comp
    BY <1>1
  <2>2. d.retreat_threshold \in Int /\ d.chat_message = Null /\ d.reasoning \in Texts
    BY <1>1 DEF Texts
  <2> HIDE DEF d
  <2> QED  BY <1>2, <1>3, <1>4, <2>1, <2>2 DEF IsDecision
<1>6. \A unit \in Units : Given(d)[unit] \notin {Null, Other, Array, Huge}
  <2> TAKE unit \in Units
  <2>1. Get(d, "army_composition", Null) = comp
    BY <1>1 DEF Get
  <2>2. Default[unit] \in Int
    BY DEF Default, Units
  <2>3. Given(d)[unit] \in Int
    BY <1>2, <1>3, <2>1, <2>2 DEF Given, Get
  <2> QED  BY <2>3, ValuesAssumption
<1>7. ~build_raises(d)
  <2>1. Get(d, "attack_direction", Null) = direction /\ Get(d, "retreat_threshold", 30) = retreat
    BY <1>1 DEF Get
  <2>2. direction # Array /\ retreat # Huge
    BY ValuesAssumption
  <2> QED  BY <1>6, <2>1, <2>2 DEF build_raises
<1>8. /\ d.chat_message = Null /\ d.strategy = strategy
      /\ d.reasoning \in Texts /\ d.reasoning.odd = "no"
      /\ {"strategy", "chat_message", "reasoning"} \subseteq DOMAIN d
  BY <1>1 DEF Texts
<1> HIDE DEF d
<1>9. Rules(d) /\ d.strategy = strategy
  BY <1>5, <1>7, <1>8 DEF Rules
<1> QED  BY <1>9 DEF d

\* On every snapshot both sets of rules make a decision that build() and log() take.
LEMMA RulesDecide ==
    ASSUME NEW s
    PROVE  /\ Rules(get_command(s))
           /\ Rules(_minimal_fallback(s))
           /\ _minimal_fallback(s).strategy = minimal_strategy(s)
<1> DEFINE Lists == {List(<<"t2_pd", "shield">>), List(<<"t1_mex", "land">>),
                     List(<<"t1_mex", "t2_mex">>), List(<<"land">>),
                     List(<<"land", "t2_mex">>), [form |-> "text", items |-> <<"land">>]}
           Compositions == {<<6000, 3000, 1000>>, <<8000, 1000, 1000>>, <<7000, 2000, 1000>>}
<1>1. \A bp \in Lists : /\ bp = [form |-> bp.form, items |-> bp.items]
                        /\ bp.items \in Seq(PriorityNames)
  <2>1. /\ <<"t2_pd", "shield">> \in Seq(PriorityNames)
        /\ <<"t1_mex", "land">> \in Seq(PriorityNames)
        /\ <<"t1_mex", "t2_mex">> \in Seq(PriorityNames)
        /\ <<"land">> \in Seq(PriorityNames)
        /\ <<"land", "t2_mex">> \in Seq(PriorityNames)
    BY DEF PriorityNames, _VALID_BUILD_PRIORITIES
  <2>2. \A bp \in Lists : \E form : \E items \in Seq(PriorityNames) :
          bp = [form |-> form, items |-> items]
    BY <2>1 DEF List
  <2> HIDE DEF Lists
  <2> QED  BY <2>2
<1>2. \A comp \in Compositions : comp[1] \in Int /\ comp[2] \in Int /\ comp[3] \in Int
  OBVIOUS
<1>3. {"defend", "build_factories", "reclaim", "attack", "balanced"} \subseteq _VALID_STRATEGIES
  BY DEF _VALID_STRATEGIES
<1>4. PICK strategy \in _VALID_STRATEGIES, bp \in Lists, comp \in Compositions,
           direction \in {Null, "none", "nearest_enemy"}, retreat \in Int :
        get_command(s) = _make(strategy, bp, comp, direction, retreat)
  BY <1>3 DEF get_command
<1>5. PICK list \in Lists, parts \in Compositions :
        _minimal_fallback(s) = _make(minimal_strategy(s), list, parts, "nearest_enemy", 30)
  BY DEF _minimal_fallback
<1>6. minimal_strategy(s) \in _VALID_STRATEGIES
  BY <1>3 DEF minimal_strategy
<1> HIDE DEF Lists, Compositions
<1>7. Rules(get_command(s))
  BY <1>1, <1>2, <1>4, MadeIsDecision
<1> QED  BY <1>1, <1>2, <1>5, <1>6, <1>7, MadeIsDecision

-----------------------------------------------------------------------------
(* What the models write *)

\* The tokens that are neither thoughts nor bounds of an object.
Plain == {"strategy", "build_priority", "land", "air", "navy",
          "attack_direction", "retreat_threshold", "chat_message", "reasoning"}
Keys  == Plain \cup {"army_composition"}

\* Where the elements of two sequences are when one follows the other.
LEMMA ConcatAt ==
    ASSUME NEW T, NEW s \in Seq(T), NEW t \in Seq(T)
    PROVE  /\ s \o t \in Seq(T) /\ Len(s \o t) = Len(s) + Len(t)
           /\ \A i \in 1 .. Len(s) : (s \o t)[i] = s[i]
           /\ \A i \in Len(s) + 1 .. Len(s) + Len(t) : (s \o t)[i] = t[i - Len(s)]
OBVIOUS

\* How three are put after one makes no difference.
LEMMA ConcatIsAssociative ==
    ASSUME NEW T, NEW v \in Seq(T), NEW w \in Seq(T), NEW x \in Seq(T), NEW y \in Seq(T)
    PROVE  v \o (w \o x \o y) = v \o w \o x \o y
OBVIOUS

\* What the filter returns is of the items.
LEMMA AmongOfItems ==
    ASSUME NEW T, NEW items \in Seq(T), NEW S
    PROVE  Among(items, S) \in Seq(T)
<1> DEFINE f == Among(items, S)
<1>1. f \in Seq(S) /\ \A k \in 1 .. Len(f) : f[k] \in T
  <2>1. Len(items) \in Nat /\ \A i \in 1 .. Len(items) : items[i] \in T
    OBVIOUS
  <2>2. \A k \in 1 .. Len(f) : \E i \in 1 .. Len(items) : f[k] = items[i]
    BY <2>1, AmongElements
  <2>3. f \in Seq(S)
    BY <2>1, AmongPlaces
  <2> HIDE DEF f
  <2> QED  BY <2>1, <2>2, <2>3
<1> HIDE DEF f
<1>2. f \in [1 .. Len(f) -> T] /\ Len(f) \in Nat
  BY <1>1
<1>3. f \in Seq(T)
  BY <1>2
<1> QED  BY <1>3 DEF f

\* A text that has been opened, with tokens of C after that.
Opened(s, C) ==
    /\ Len(s) \in Nat /\ Len(s) >= 1
    /\ s[1] = "begin" /\ \A i \in 2 .. Len(s) : s[i] \in C

\* A text that has been opened, and in it the object of an army composition.
Composed(s) ==
    /\ Len(s) \in Nat /\ s[1] = "begin"
    /\ \E q \in 2 .. Len(s) :
         /\ s[q] = "army_composition_begin"
         /\ \A i \in 2 .. q - 1 : s[i] \in Plain
         /\ \A i \in q + 1 .. Len(s) : s[i] \in Plain \cup {"end"}

\* A text stays opened when tokens of C follow.
LEMMA OpenedMore ==
    ASSUME NEW T, NEW s \in Seq(T), NEW C, Opened(s, C),
           NEW u \in Seq(T), \A i \in 1 .. Len(u) : u[i] \in C
    PROVE  Opened(s \o u, C)
<1> DEFINE r == s \o u
           m == Len(s)
           n == Len(u)
<1>1. /\ Len(r) = m + n
      /\ \A i \in 1 .. m : r[i] = s[i]
      /\ \A i \in m + 1 .. m + n : r[i] = u[i - m]
  BY ConcatAt
<1>2. n \in Nat /\ \A i \in 1 .. n : u[i] \in C
  OBVIOUS
<1>3. m \in Nat /\ m >= 1 /\ s[1] = "begin" /\ \A i \in 2 .. m : s[i] \in C
  BY DEF Opened
<1> HIDE DEF r, m, n
<1>4. ASSUME NEW i \in 2 .. m + n
      PROVE  r[i] \in C
  <2>1. CASE i <= m
    BY <1>1, <1>3, <2>1
  <2>2. CASE i > m
    <3>1. i \in m + 1 .. m + n /\ i - m \in 1 .. n
      BY <1>2, <1>3, <2>2
    <3> QED  BY <1>1, <1>2, <3>1
  <2> QED  BY <1>3, <2>1, <2>2
<1>5. m + n \in Nat /\ m + n >= 1 /\ r[1] = "begin"
  BY <1>1, <1>2, <1>3
<1>6. Opened(r, C)
  BY <1>1, <1>4, <1>5 DEF Opened
<1> QED  BY <1>6 DEF r

\* It stays composed when keys and "end" follow.
LEMMA ComposedMore ==
    ASSUME NEW T, NEW s \in Seq(T), Composed(s),
           NEW u \in Seq(T), \A i \in 1 .. Len(u) : u[i] \in Plain \cup {"end"}
    PROVE  Composed(s \o u)
<1> DEFINE r == s \o u
           m == Len(s)
           n == Len(u)
           C == Plain \cup {"end"}
<1>1. /\ Len(r) = m + n
      /\ \A i \in 1 .. m : r[i] = s[i]
      /\ \A i \in m + 1 .. m + n : r[i] = u[i - m]
  BY ConcatAt
<1>2. n \in Nat /\ \A i \in 1 .. n : u[i] \in C
  OBVIOUS
<1>3. m \in Nat /\ s[1] = "begin"
  BY DEF Composed
<1>4. PICK q \in 2 .. m :
        /\ s[q] = "army_composition_begin"
        /\ \A i \in 2 .. q - 1 : s[i] \in Plain
        /\ \A i \in q + 1 .. m : s[i] \in C
  BY DEF Composed
<1> HIDE DEF r, m, n, C
<1>5. q \in Int /\ 2 <= q /\ q <= m
  BY <1>3
<1>6. ASSUME NEW i \in q + 1 .. m + n
      PROVE  r[i] \in C
  <2>1. CASE i <= m
    BY <1>1, <1>3, <1>4, <1>5, <2>1
  <2>2. CASE i > m
    <3>1. i \in m + 1 .. m + n /\ i - m \in 1 .. n
      BY <1>2, <1>3, <1>5, <2>2
    <3> QED  BY <1>1, <1>2, <3>1
  <2> QED  BY <1>3, <1>5, <2>1, <2>2
<1>7. m + n \in Nat /\ q \in 2 .. m + n /\ r[1] = "begin" /\ r[q] = "army_composition_begin"
  BY <1>1, <1>2, <1>3, <1>4, <1>5
<1>8. \A i \in 2 .. q - 1 : r[i] \in Plain
  BY <1>1, <1>3, <1>4, <1>5
<1>9. Composed(r)
  BY <1>1, <1>6, <1>7, <1>8 DEF Composed, C
<1> QED  BY <1>9 DEF r

\* The text of a decision is opened, has keys, and is closed by its last token;
\* or its army composition is an object, and no key stands for it.
LEMMA TextShape ==
    ASSUME NEW content
    PROVE  LET t == Text(content)
           IN  /\ t \in Seq(Tokens)
               /\ \/ /\ Get(content, "army_composition", Null) \in {Null, Other, Array}
                     /\ Len(t) >= 2 /\ t[1] = "begin" /\ t[Len(t)] = "end"
                     /\ \A i \in 2 .. Len(t) - 1 : t[i] \in Keys
                  \/ Composed(t)
<1> DEFINE comp == Get(content, "army_composition", Null)
           B == Among(Before, DOMAIN content)
           C == Among(<<"army_composition">>, DOMAIN content)
           U == Among(<<"land", "air", "navy">>, DOMAIN comp)
           A == Among(After, DOMAIN content)
           t == Text(content)
           Words == Keys \cup {"begin", "army_composition_begin", "end"}
           Comp == IF comp \in {Null, Other, Array} THEN C
                   ELSE <<"army_composition_begin">> \o U \o <<"end">>
<1>1. t = <<"begin">> \o B \o Comp \o A \o <<"end">>
  BY DEF Text
<1>2. B \in Seq(Plain) /\ U \in Seq(Plain) /\ A \in Seq(Plain)
  <2>1. Before \in Seq(Plain) /\ After \in Seq(Plain) /\ <<"land", "air", "navy">> \in Seq(Plain)
    BY DEF Before, After, Plain
  <2> QED  BY <2>1, AmongOfItems
<1>3. C \in Seq({"army_composition"})
  <2>1. <<"army_composition">> \in Seq({"army_composition"})
    OBVIOUS
  <2> QED  BY <2>1, AmongOfItems
<1> HIDE DEF B, C, U, A, t
<1>4. /\ \A i \in 1 .. Len(B) : B[i] \in Plain
      /\ \A i \in 1 .. Len(U) : U[i] \in Plain
      /\ \A i \in 1 .. Len(A) : A[i] \in Plain
      /\ \A i \in 1 .. Len(C) : C[i] = "army_composition"
  BY <1>2, <1>3
<1>5. /\ B \in Seq(Words) /\ U \in Seq(Words) /\ A \in Seq(Words) /\ C \in Seq(Words)
      /\ <<"begin">> \in Seq(Words) /\ <<"army_composition_begin">> \in Seq(Words)
      /\ <<"end">> \in Seq(Words)
  <2>1. Plain \subseteq Words /\ {"army_composition"} \subseteq Words
    BY DEF Keys
  <2>2. \A V : V \subseteq Words => Seq(V) \subseteq Seq(Words)
    OBVIOUS
  <2> QED  BY <1>2, <1>3, <2>1, <2>2
<1>6. Words \subseteq Tokens
  <2>1. /\ Range(Before) = {"strategy", "build_priority"}
        /\ Range(After) = {"attack_direction", "retreat_threshold", "chat_message", "reasoning"}
    BY DEF Range, Before, After
  <2> QED  BY <2>1 DEF Words, Keys, Plain, Tokens, Units, Opening
<1> DEFINE s == <<"begin">> \o B
<1>7. s \in Seq(Words) /\ Opened(s, Plain)
  <2>1. Opened(<<"begin">>, Plain)
    BY DEF Opened
  <2> HIDE DEF Words
  <2> QED  BY <1>4, <1>5, <2>1, OpenedMore, ConcatAt
<1> HIDE DEF s, Words
<1>8. CASE comp \in {Null, Other, Array}
  <2> DEFINE r == s \o C \o A
  <2>1. Opened(s, Keys)
    BY <1>7 DEF Opened, Keys
  <2>2. s \o C \in Seq(Words) /\ Opened(s \o C, Keys)
    BY <1>4, <1>5, <1>7, <2>1, OpenedMore, ConcatAt DEF Keys
  <2>3. r \in Seq(Words) /\ Opened(r, Keys)
    <3> DEFINE q == s \o C
    <3>1. q \in Seq(Words) /\ Opened(q, Keys) /\ \A i \in 1 .. Len(A) : A[i] \in Keys
      BY <1>4, <2>2 DEF Keys
    <3> HIDE DEF q
    <3>2. q \o A \in Seq(Words) /\ Opened(q \o A, Keys)
      BY <1>5, <3>1, OpenedMore, ConcatAt
    <3> QED  BY <3>2 DEF q
  <2>4. t = r \o <<"end">>
    BY <1>1, <1>8 DEF s
  <2> HIDE DEF r
  <2>5. /\ t \in Seq(Words) /\ Len(t) = Len(r) + 1 /\ t[Len(r) + 1] = "end"
        /\ \A i \in 1 .. Len(r) : t[i] = r[i]
    BY <1>5, <2>3, <2>4
  <2>6. t \in Seq(Tokens)
    BY <1>6, <2>5
  <2> QED  BY <1>8, <2>3, <2>5, <2>6 DEF Opened, t
<1>9. CASE comp \notin {Null, Other, Array}
  <2> DEFINE O == <<"army_composition_begin">>
             r == s \o O
  <2>1. r \in Seq(Words) /\ Composed(r)
    <3>1. r \in Seq(Words) /\ Len(r) = Len(s) + 1 /\ r[Len(s) + 1] = "army_composition_begin"
          /\ \A i \in 1 .. Len(s) : r[i] = s[i]
      BY <1>5, <1>7
    <3> HIDE DEF r
    <3>2. Len(s) + 1 \in 2 .. Len(r)
      BY <1>7, <3>1 DEF Opened
    <3> QED  BY <1>7, <3>1, <3>2 DEF Opened, Composed
  <2>2. t = r \o U \o <<"end">> \o A \o <<"end">>
    <3>1. Comp = O \o U \o <<"end">>
      BY <1>9
    <3>2. s \in Seq(Words) /\ O \in Seq(Words) /\ U \in Seq(Words) /\ <<"end">> \in Seq(Words)
      BY <1>5, <1>7
    <3>3. s \o (O \o U \o <<"end">>) = s \o O \o U \o <<"end">>
      <4> DEFINE E == <<"end">>
      <4> HIDE DEF O, E
      <4>1. s \o (O \o U \o E) = s \o O \o U \o E
        BY <3>2, ConcatIsAssociative DEF E
      <4> QED  BY <4>1 DEF E
    <3> QED  BY <1>1, <3>1, <3>3 DEF s
  <2> HIDE DEF r
  <2> DEFINE E == <<"end">>
  <2>3. E \in Seq(Words) /\ \A i \in 1 .. Len(E) : E[i] \in Plain \cup {"end"}
    BY <1>5
  <2> HIDE DEF E
  <2>4. r \o U \in Seq(Words) /\ Composed(r \o U)
    BY <1>4, <1>5, <2>1, ComposedMore, ConcatAt
  <2>5. r \o U \o E \in Seq(Words) /\ Composed(r \o U \o E)
    BY <2>3, <2>4, ComposedMore, ConcatAt
  <2>6. r \o U \o E \o A \in Seq(Words) /\ Composed(r \o U \o E \o A)
    BY <1>4, <1>5, <2>5, ComposedMore, ConcatAt
  <2>7. r \o U \o E \o A \o E \in Seq(Words) /\ Composed(r \o U \o E \o A \o E)
    BY <2>3, <2>6, ComposedMore, ConcatAt
  <2>8. t \in Seq(Words) /\ Composed(t)
    BY <2>2, <2>7 DEF E
  <2>9. t \in Seq(Tokens)
    BY <1>6, <2>8
  <2> QED  BY <2>8, <2>9 DEF t
<1> QED  BY <1>8, <1>9

\* What holds of a text however far it has been written: an "end" is that of the
\* army composition or the last token; an army composition is in the first object
\* and before every "end"; only thoughts are before a "begin", and they come
\* first; and an army composition that is a mere key is no object.
Shaped(x, comp) ==
    /\ x \in Seq(Tokens)
    /\ \A i \in 1 .. Len(x) : x[i] = "end" =>
         \/ \E j \in 1 .. i - 1 : x[j] = "army_composition_begin"
         \/ i = Len(x) /\ \A j \in 1 .. Len(x) : x[j] # "part"
    /\ \A i \in 1 .. Len(x) : x[i] = "army_composition_begin" =>
         /\ \E j \in 1 .. i - 1 : x[j] = "begin"
         /\ \A j \in 1 .. i - 1 : x[j] # "end"
    /\ \A i \in 1 .. Len(x) : x[i] = "begin" => \A j \in 1 .. i - 1 : x[j] \in Thoughts
    /\ \A i \in 1 .. Len(x) : x[i] \in Thoughts => i = 1
    /\ \A i \in 1 .. Len(x) : x[i] = "army_composition" => comp \in {Null, Other, Array}

\* This holds of the text of every decision, which has no thoughts and no broken
\* token.
LEMMA TextShaped ==
    ASSUME NEW content
    PROVE  /\ Shaped(Text(content), Get(content, "army_composition", Null))
           /\ \A i \in 1 .. Len(Text(content)) : Text(content)[i] \notin Thoughts \cup {"part"}
<1> DEFINE t    == Text(content)
           comp == Get(content, "army_composition", Null)
           m    == Len(t)
<1>1. t \in Seq(Tokens)
  BY TextShape
<1>2. m \in Nat
  BY <1>1
<1>3. CASE /\ comp \in {Null, Other, Array}
           /\ m >= 2 /\ t[1] = "begin" /\ t[m] = "end"
           /\ \A i \in 2 .. m - 1 : t[i] \in Keys
  <2> HIDE DEF t, m, comp
  <2>1. \A i \in 1 .. m : i = 1 \/ i = m \/ i \in 2 .. m - 1
    BY <1>2
  <2>2. \A i \in 1 .. m : /\ t[i] = "begin" => i = 1
                          /\ t[i] = "end" => i = m
                          /\ t[i] \notin Thoughts \cup {"part", "army_composition_begin"}
    BY <1>3, <2>1 DEF Keys, Plain, Thoughts
  <2>3. \A i \in 1 .. m : t[i] = "begin" => \A j \in 1 .. i - 1 : t[j] \in Thoughts
    BY <2>2
  <2>4. \A i \in 1 .. m : t[i] = "end" => i = m /\ \A j \in 1 .. m : t[j] # "part"
    BY <2>2
  <2> QED  BY <1>1, <1>3, <2>2, <2>3, <2>4 DEF Shaped, m, t, comp
<1>4. CASE Composed(t)
  <2>1. t[1] = "begin"
    BY <1>4 DEF Composed
  <2>2. PICK q \in 2 .. m :
          /\ t[q] = "army_composition_begin"
          /\ \A i \in 2 .. q - 1 : t[i] \in Plain
          /\ \A i \in q + 1 .. m : t[i] \in Plain \cup {"end"}
    BY <1>4 DEF Composed
  <2> HIDE DEF t, m, comp
  <2>3. \A i \in 1 .. m : i = 1 \/ i = q \/ i \in 2 .. q - 1 \/ i \in q + 1 .. m
    BY <1>2
  <2>4. \A i \in 1 .. m : /\ t[i] = "begin" => i = 1
                          /\ t[i] = "end" => q \in 1 .. i - 1
                          /\ t[i] = "army_composition_begin" => i = q
                          /\ t[i] \notin Thoughts \cup {"part", "army_composition"}
    BY <1>2, <2>1, <2>2, <2>3 DEF Plain, Thoughts
  <2>5. \A i \in 1 .. m : t[i] = "begin" => \A j \in 1 .. i - 1 : t[j] \in Thoughts
    BY <2>4
  <2>6. \A j \in 1 .. q - 1 : t[j] # "end" /\ 1 \in 1 .. q - 1
    BY <1>2, <2>4
  <2>7. 1 \in 1 .. q - 1
    BY <1>2
  <2>8. \A i \in 1 .. m : t[i] = "army_composition_begin" =>
          (\E j \in 1 .. i - 1 : t[j] = "begin") /\ \A j \in 1 .. i - 1 : t[j] # "end"
    BY <2>1, <2>4, <2>6, <2>7
  <2> QED  BY <1>1, <2>2, <2>4, <2>5, <2>8 DEF Shaped, m, t, comp
<1> QED  BY <1>3, <1>4, TextShape

\* It still holds with a block of thoughts before it.
LEMMA AfterThoughts ==
    ASSUME NEW t, NEW comp, NEW block \in Thoughts, Shaped(t, comp),
           \A i \in 1 .. Len(t) : t[i] \notin Thoughts \cup {"part"}
    PROVE  /\ Shaped(<<block>> \o t, comp)
           /\ \A i \in 1 .. Len(<<block>> \o t) : (<<block>> \o t)[i] # "part"
<1> DEFINE x == <<block>> \o t
           m == Len(t)
<1>1. /\ t \in Seq(Tokens) /\ <<block>> \in Seq(Tokens) /\ m \in Nat
  BY DEF Shaped, Tokens
<1>2. /\ x \in Seq(Tokens) /\ Len(x) = m + 1 /\ x[1] = block
      /\ \A i \in 2 .. m + 1 : x[i] = t[i - 1]
  BY <1>1
<1>3. block \notin {"end", "part", "begin", "army_composition_begin", "army_composition"}
  BY DEF Thoughts
<1>4. /\ \A i \in 1 .. m : t[i] = "end" =>
           (\E j \in 1 .. i - 1 : t[j] = "army_composition_begin") \/ i = m
      /\ \A i \in 1 .. m : t[i] = "army_composition_begin" =>
           (\E j \in 1 .. i - 1 : t[j] = "begin") /\ \A j \in 1 .. i - 1 : t[j] # "end"
      /\ \A i \in 1 .. m : t[i] = "begin" => i = 1
      /\ \A i \in 1 .. m : t[i] \notin Thoughts /\ t[i] # "part"
      /\ \A i \in 1 .. m : t[i] = "army_composition" => comp \in {Null, Other, Array}
  <2>1. \A i \in 1 .. m : t[i] = "begin" => i = 1
    <3> SUFFICES ASSUME NEW i \in 1 .. m, t[i] = "begin", i # 1
                 PROVE  FALSE
      OBVIOUS
    <3>1. 1 \in 1 .. i - 1 /\ 1 \in 1 .. m
      BY <1>1
    <3>2. \A j \in 1 .. i - 1 : t[j] \in Thoughts
      BY DEF Shaped
    <3> QED  BY <3>1, <3>2
  <2> QED  BY <2>1 DEF Shaped
<1> HIDE DEF x, m
<1>5. ASSUME NEW i \in 2 .. m + 1
      PROVE  /\ i - 1 \in 1 .. m /\ x[i] = t[i - 1]
             /\ \A j \in 1 .. i - 2 : x[j + 1] = t[j] /\ j + 1 \in 1 .. i - 1
  <2>1. i - 1 \in 1 .. m
    BY <1>1
  <2>2. \A j \in 1 .. i - 2 : j + 1 \in 2 .. m + 1 /\ j + 1 - 1 = j /\ j + 1 \in 1 .. i - 1
    BY <1>1
  <2> QED  BY <1>2, <2>1, <2>2
<1>6. \A i \in 1 .. m + 1 : i = 1 \/ i \in 2 .. m + 1
  BY <1>1
<1>7. \A i \in 1 .. m + 1 : x[i] # "part"
  BY <1>2, <1>3, <1>4, <1>5, <1>6
<1>8. \A i \in 1 .. m + 1 : x[i] = "end" =>
        (\E j \in 1 .. i - 1 : x[j] = "army_composition_begin") \/ i = m + 1
  <2> SUFFICES ASSUME NEW i \in 2 .. m + 1, x[i] = "end"
               PROVE  (\E j \in 1 .. i - 1 : x[j] = "army_composition_begin") \/ i = m + 1
    BY <1>2, <1>3, <1>6
  <2>1. t[i - 1] = "end" /\ i - 1 \in 1 .. m
    BY <1>5
  <2>2. CASE i - 1 = m
    BY <1>1, <2>2
  <2>3. CASE i - 1 # m
    <3>1. PICK j \in 1 .. i - 1 - 1 : t[j] = "army_composition_begin"
      BY <1>4, <2>1, <2>3
    <3>2. j \in 1 .. i - 2
      BY <1>1
    <3> QED  BY <1>5, <3>1, <3>2
  <2> QED  BY <2>2, <2>3
<1>9. \A i \in 1 .. m + 1 : x[i] = "army_composition_begin" =>
        (\E j \in 1 .. i - 1 : x[j] = "begin") /\ \A j \in 1 .. i - 1 : x[j] # "end"
  <2> SUFFICES ASSUME NEW i \in 2 .. m + 1, x[i] = "army_composition_begin"
               PROVE  (\E j \in 1 .. i - 1 : x[j] = "begin") /\ \A j \in 1 .. i - 1 : x[j] # "end"
    BY <1>2, <1>3, <1>6
  <2>1. t[i - 1] = "army_composition_begin" /\ i - 1 \in 1 .. m
    BY <1>5
  <2>2. (\E j \in 1 .. i - 1 - 1 : t[j] = "begin") /\ \A j \in 1 .. i - 1 - 1 : t[j] # "end"
    BY <1>4, <2>1
  <2>3. \E j \in 1 .. i - 1 : x[j] = "begin"
    <3>1. PICK j \in 1 .. i - 1 - 1 : t[j] = "begin"
      BY <2>2
    <3>2. j \in 1 .. i - 2
      BY <1>1
    <3> QED  BY <1>5, <3>1, <3>2
  <2>4. ASSUME NEW j \in 1 .. i - 1
        PROVE  x[j] # "end"
    <3>1. CASE j = 1
      BY <1>2, <1>3, <3>1
    <3>2. CASE j # 1
      <4>1. j \in 2 .. m + 1 /\ j - 1 \in 1 .. i - 1 - 1
        BY <1>1, <3>2
      <4> QED  BY <1>5, <2>2, <4>1
    <3> QED  BY <3>1, <3>2
  <2> QED  BY <2>3, <2>4
<1>10. \A i \in 1 .. m + 1 : x[i] = "begin" => \A j \in 1 .. i - 1 : x[j] \in Thoughts
  <2> SUFFICES ASSUME NEW i \in 2 .. m + 1, x[i] = "begin", NEW j \in 1 .. i - 1
               PROVE  x[j] \in Thoughts
    BY <1>2, <1>3, <1>6
  <2>1. i - 1 = 1
    BY <1>4, <1>5
  <2>2. j = 1
    BY <1>1, <2>1
  <2> QED  BY <1>2, <2>2
<1>11. \A i \in 1 .. m + 1 : /\ x[i] \in Thoughts => i = 1
                             /\ x[i] = "army_composition" => comp \in {Null, Other, Array}
  BY <1>2, <1>3, <1>4, <1>5, <1>6
<1> QED  BY <1>2, <1>7, <1>8, <1>9, <1>10, <1>11 DEF Shaped, x

\* Cut where num_predict ends it, with or without a part of the next token.
LEMMA CutShaped ==
    ASSUME NEW y, NEW comp, Shaped(y, comp), \A i \in 1 .. Len(y) : y[i] # "part",
           NEW n \in Nat, n < Len(y), NEW p \in {<< >>, <<"part">>}
    PROVE  Shaped(SubSeq(y, 1, n) \o p, comp)
<1> DEFINE x == SubSeq(y, 1, n) \o p
           l == Len(x)
           m == Len(y)
<1>1. y \in Seq(Tokens) /\ m \in Nat /\ p \in Seq(Tokens)
  <2>1. y \in Seq(Tokens)
    BY DEF Shaped
  <2>2. "part" \in Tokens
    BY DEF Tokens
  <2>3. << >> \in Seq(Tokens) /\ <<"part">> \in Seq(Tokens)
    BY <2>2
  <2>4. m \in Nat
    BY <2>1
  <2> QED  BY <2>1, <2>3, <2>4
<1>2. /\ x \in Seq(Tokens) /\ l \in {n, n + 1}
      /\ \A i \in 1 .. n : x[i] = y[i]
      /\ l = n + 1 => x[n + 1] = "part"
  <2>1. CASE p = << >>
    <3>1. SubSeq(y, 1, n) \in Seq(Tokens) /\ x = SubSeq(y, 1, n) /\ Len(x) = n
      BY <1>1, <2>1
    <3> QED  BY <1>1, <3>1
  <2>2. CASE p = <<"part">>
    <3>1. SubSeq(y, 1, n) \in Seq(Tokens) /\ Len(SubSeq(y, 1, n)) = n
      BY <1>1
    <3> QED  BY <1>1, <2>2, <3>1
  <2> QED  BY <2>1, <2>2
<1>3. /\ \A i \in 1 .. m : y[i] = "end" =>
           (\E j \in 1 .. i - 1 : y[j] = "army_composition_begin") \/ i = m
      /\ \A i \in 1 .. m : y[i] = "army_composition_begin" =>
           (\E j \in 1 .. i - 1 : y[j] = "begin") /\ \A j \in 1 .. i - 1 : y[j] # "end"
      /\ \A i \in 1 .. m : y[i] = "begin" => \A j \in 1 .. i - 1 : y[j] \in Thoughts
      /\ \A i \in 1 .. m : /\ y[i] \in Thoughts => i = 1
                           /\ y[i] = "army_composition" => comp \in {Null, Other, Array}
  BY DEF Shaped
<1>4. n < m
  OBVIOUS
<1> HIDE DEF x, l, m
<1>5. \A i \in 1 .. l : /\ i \in 1 .. n \/ x[i] = "part"
  BY <1>2
<1>6. ASSUME NEW i \in 1 .. n
      PROVE  /\ i \in 1 .. m /\ i # m /\ x[i] = y[i]
             /\ \A j \in 1 .. i - 1 : x[j] = y[j]
  BY <1>1, <1>2, <1>4
<1>7. \A i \in 1 .. n : x[i] = "end" =>
        \E j \in 1 .. i - 1 : x[j] = "army_composition_begin"
  <2> SUFFICES ASSUME NEW i \in 1 .. n, x[i] = "end"
               PROVE  \E j \in 1 .. i - 1 : x[j] = "army_composition_begin"
    OBVIOUS
  <2>1. \E j \in 1 .. i - 1 : y[j] = "army_composition_begin"
    BY <1>3, <1>6
  <2> QED  BY <1>6, <2>1
<1>8. \A i \in 1 .. n : x[i] = "army_composition_begin" =>
        (\E j \in 1 .. i - 1 : x[j] = "begin") /\ \A j \in 1 .. i - 1 : x[j] # "end"
  <2> SUFFICES ASSUME NEW i \in 1 .. n, x[i] = "army_composition_begin"
               PROVE  (\E j \in 1 .. i - 1 : x[j] = "begin") /\ \A j \in 1 .. i - 1 : x[j] # "end"
    OBVIOUS
  <2>1. (\E j \in 1 .. i - 1 : y[j] = "begin") /\ \A j \in 1 .. i - 1 : y[j] # "end"
    BY <1>3, <1>6
  <2> QED  BY <1>6, <2>1
<1>9. \A i \in 1 .. n : x[i] = "begin" => \A j \in 1 .. i - 1 : x[j] \in Thoughts
  <2> SUFFICES ASSUME NEW i \in 1 .. n, x[i] = "begin", NEW j \in 1 .. i - 1
               PROVE  x[j] \in Thoughts
    OBVIOUS
  <2>1. y[j] \in Thoughts
    BY <1>3, <1>6
  <2> QED  BY <1>6, <2>1
<1>10. \A i \in 1 .. n : /\ x[i] \in Thoughts => i = 1
                         /\ x[i] = "army_composition" => comp \in {Null, Other, Array}
  BY <1>3, <1>6
<1>11. "part" \notin Thoughts
  BY DEF Thoughts
<1> QED  BY <1>2, <1>5, <1>7, <1>8, <1>9, <1>10, <1>11 DEF Shaped, x, l

\* So it holds of whatever a model generates.
LEMMA GeneratedShaped ==
    ASSUME NEW a, IsAnswer(a)
    PROVE  Shaped(Generated(a), Get(a.content, "army_composition", Null))
<1> DEFINE comp == Get(a.content, "army_composition", Null)
           t == Text(a.content)
           y == (IF a.thoughts = "none" THEN << >> ELSE <<a.thoughts>>) \o t
           p == IF a.part THEN <<"part">> ELSE << >>
<1>1. Shaped(t, comp) /\ \A i \in 1 .. Len(t) : t[i] \notin Thoughts \cup {"part"}
  BY TextShaped
<1>2. Shaped(y, comp) /\ \A i \in 1 .. Len(y) : y[i] # "part"
  <2>1. CASE a.thoughts = "none"
    <3>1. t \in Seq(Tokens)
      BY <1>1 DEF Shaped
    <3> HIDE DEF t
    <3>2. y = t
      BY <2>1, <3>1
    <3> HIDE DEF y
    <3> QED  BY <1>1, <3>2
  <2>2. CASE a.thoughts # "none"
    <3>1. a.thoughts \in Thoughts /\ y = <<a.thoughts>> \o t
      BY <2>2 DEF IsAnswer
    <3> HIDE DEF t, y
    <3> QED  BY <1>1, <3>1, AfterThoughts
  <2> QED  BY <2>1, <2>2
<1>3. Generated(a) = IF a.n >= Len(y) THEN y ELSE SubSeq(y, 1, a.n) \o p
  BY DEF Generated
<1>4. a.n \in Nat /\ p \in {<< >>, <<"part">>} /\ Len(y) \in Nat
  <2>1. y \in Seq(Tokens)
    BY <1>2 DEF Shaped
  <2> HIDE DEF y
  <2> QED  BY <2>1 DEF IsAnswer
<1> HIDE DEF y, p
<1>5. CASE a.n >= Len(y)
  BY <1>2, <1>3, <1>5
<1>6. CASE ~(a.n >= Len(y))
  <2>1. a.n < Len(y)
    BY <1>4, <1>6
  <2> QED  BY <1>2, <1>3, <1>4, <1>6, <2>1, CutShaped
<1> QED  BY <1>5, <1>6

\* In a set of places that is not empty there is a first one.
LEMMA FirstPlace ==
    ASSUME NEW n \in Nat, NEW S \in SUBSET (1 .. n), S # {}
    PROVE  \E i \in S : \A j \in S : i <= j
<1>1. IsFiniteSet(S) /\ Cardinality(S) \in Nat /\ Cardinality(S) # 0
  <2>1. IsFiniteSet(1 .. n)
    BY CountTo
  <2> QED  BY <2>1, FS_Subset, FS_CardinalityType, FS_EmptySet
<1>2. 1 \in 1 .. Cardinality(S)
  BY <1>1
<1>3. PICK i \in S : Cardinality(S \cap 1 .. i) = 1
  BY <1>2, PlaceOfRank
<1>4. ASSUME NEW j \in S
      PROVE  i <= j
  <2>1. IsFiniteSet(S \cap 1 .. i)
    BY <1>1, FS_Subset
  <2>2. PICK z : S \cap 1 .. i = {z}
    BY <1>3, <2>1, FS_Singleton
  <2>3. i \in S \cap 1 .. i /\ (j < i => j \in S \cap 1 .. i)
    OBVIOUS
  <2>4. ~(j < i)
    BY <2>2, <2>3
  <2> QED  BY <2>4
<1> QED  BY <1>4

\* The stop token: the response is all that was generated if there is no brace in
\* it, and else what is before the first one.
LEMMA StoppedAtBrace ==
    ASSUME NEW a, Generated(a) \in Seq(Tokens)
    PROVE  LET x == Generated(a)
               r == Response(a, TRUE)
           IN  \/ r = x /\ \A i \in 1 .. Len(x) : ~HasBrace(x[i], a.content)
               \/ \E f \in 1 .. Len(x) :
                    /\ HasBrace(x[f], a.content)
                    /\ \A i \in 1 .. f - 1 : ~HasBrace(x[i], a.content) /\ r[i] = x[i]
                    /\ r \in Seq(Tokens)
                    /\ IF x[f] = "end" THEN Len(r) = f - 1
                       ELSE Len(r) = f /\ r[f] = "part"
<1> DEFINE x      == Generated(a)
           m      == Len(x)
           r      == Response(a, TRUE)
           braces == {i \in 1 .. m : HasBrace(x[i], a.content)}
           f      == CHOOSE i \in braces : \A j \in braces : i <= j
<1>1. r = IF braces = {} THEN x
          ELSE SubSeq(x, 1, f - 1) \o (IF x[f] = "end" THEN << >> ELSE <<"part">>)
  BY DEF Response
<1>2. m \in Nat /\ braces \in SUBSET (1 .. m) /\ x \in Seq(Tokens)
  OBVIOUS
<1>3. \A i \in 1 .. m : i \in braces <=> HasBrace(x[i], a.content)
  OBVIOUS
<1>4. CASE braces = {}
  BY <1>1, <1>3, <1>4
<1>5. CASE braces # {}
  <2>1. f \in braces /\ \A j \in braces : f <= j
    <3>1. \E i \in braces : \A j \in braces : i <= j
      BY <1>2, <1>5, FirstPlace
    <3> QED  BY <3>1
  <2> DEFINE p == IF x[f] = "end" THEN << >> ELSE <<"part">>
  <2>2. r = SubSeq(x, 1, f - 1) \o p
    BY <1>1, <1>5
  <2> HIDE DEF f, x, m, braces, r
  <2>3. f \in 1 .. m
    BY <1>2, <2>1
  <2>4. \A i \in 1 .. f - 1 : i \in 1 .. m /\ i \notin braces
    BY <1>2, <2>1, <2>3
  <2>5. /\ SubSeq(x, 1, f - 1) \in Seq(Tokens) /\ Len(SubSeq(x, 1, f - 1)) = f - 1
        /\ \A i \in 1 .. f - 1 : SubSeq(x, 1, f - 1)[i] = x[i]
    BY <1>2, <2>3 DEF m
  <2>6. "part" \in Tokens
    BY DEF Tokens
  <2>7. /\ r \in Seq(Tokens)
        /\ \A i \in 1 .. f - 1 : r[i] = x[i]
        /\ IF x[f] = "end" THEN Len(r) = f - 1 ELSE Len(r) = f /\ r[f] = "part"
    <3> DEFINE s == SubSeq(x, 1, f - 1)
    <3>1. p \in Seq(Tokens) /\ (IF x[f] = "end" THEN Len(p) = 0 ELSE Len(p) = 1 /\ p[1] = "part")
      BY <2>6
    <3>2. s \in Seq(Tokens) /\ Len(s) = f - 1 /\ \A i \in 1 .. f - 1 : s[i] = x[i]
      BY <2>5
    <3>3. r = s \o p
      BY <2>2
    <3> HIDE DEF p, s
    <3>4. /\ s \o p \in Seq(Tokens) /\ Len(s \o p) = Len(s) + Len(p)
          /\ \A i \in 1 .. Len(s) : (s \o p)[i] = s[i]
          /\ \A i \in Len(s) + 1 .. Len(s) + Len(p) : (s \o p)[i] = p[i - Len(s)]
      BY <3>1, <3>2, ConcatAt
    <3>5. /\ s \o p \in Seq(Tokens) /\ Len(s \o p) = f - 1 + Len(p)
          /\ \A i \in 1 .. f - 1 : (s \o p)[i] = s[i]
          /\ \A i \in f - 1 + 1 .. f - 1 + Len(p) : (s \o p)[i] = p[i - (f - 1)]
      BY <3>2, <3>4
    <3>6. f - 1 + 1 = f /\ f - (f - 1) = 1 /\ f - 1 + 0 = f - 1 /\ f \in f .. f
      BY <2>3
    <3> QED  BY <3>1, <3>2, <3>5, <3>3, <3>6
  <2>8. HasBrace(x[f], a.content) /\ \A i \in 1 .. f - 1 : ~HasBrace(x[i], a.content)
    BY <1>3, <2>1, <2>3, <2>4
  <2> QED  BY <2>3, <2>7, <2>8 DEF x, m, r
<1> QED  BY <1>4, <1>5

\* So there is no "end" in it, and it is made of what was generated, or broken off.
LEMMA NoEndInResponse ==
    ASSUME NEW a, IsAnswer(a)
    PROVE  LET x == Generated(a)
               r == Response(a, TRUE)
           IN  /\ x \in Seq(Tokens) /\ r \in Seq(Tokens)
               /\ \A i \in 1 .. Len(r) : /\ r[i] # "end"
                                         /\ r[i] = "part" \/ \E j \in 1 .. Len(x) : x[j] = r[i]
<1> DEFINE x == Generated(a)
           r == Response(a, TRUE)
<1>1. x \in Seq(Tokens)
  BY GeneratedShaped DEF Shaped
<1>2. CASE r = x /\ \A i \in 1 .. Len(x) : ~HasBrace(x[i], a.content)
  BY <1>1, <1>2 DEF HasBrace
<1>3. ASSUME NEW f \in 1 .. Len(x),
             \A i \in 1 .. f - 1 : ~HasBrace(x[i], a.content) /\ r[i] = x[i],
             r \in Seq(Tokens),
             IF x[f] = "end" THEN Len(r) = f - 1 ELSE Len(r) = f /\ r[f] = "part"
      PROVE  \A i \in 1 .. Len(r) : /\ r[i] # "end"
                                    /\ r[i] = "part" \/ \E j \in 1 .. Len(x) : x[j] = r[i]
  <2> DEFINE m == Len(x)
  <2>1. m \in Nat /\ f \in Int /\ 1 <= f /\ f <= m
    BY <1>1
  <2> HIDE DEF x, r, m
  <2>2. \A i \in 1 .. Len(r) : i \in 1 .. f - 1 \/ r[i] = "part"
    BY <1>3, <2>1
  <2>3. \A i \in 1 .. f - 1 : x[i] # "end" /\ i \in 1 .. m
    BY <1>3, <2>1 DEF HasBrace
  <2> QED  BY <1>3, <2>2, <2>3 DEF m
<1> QED  BY <1>1, <1>2, <1>3, StoppedAtBrace

\* The response to a flat answer opens one object, with its first token after the
\* thoughts, and no other.
LEMMA FlatResponse ==
    ASSUME NEW a, IsAnswer(a), IsFlat(a)
    PROVE  LET r == Response(a, TRUE)
           IN  /\ r \in Seq(Tokens)
               /\ \A i \in 1 .. Len(r) : r[i] \notin {"part", "army_composition_begin", "end"}
               /\ \E p \in 1 .. Len(r) : r[p] = "begin"
               /\ \A i \in 1 .. Len(r) : r[i] = "begin" => \A j \in 1 .. i - 1 : r[j] \in Thoughts
<1> DEFINE x == Generated(a)
           m == Len(x)
           r == Response(a, TRUE)
           comp == Get(a.content, "army_composition", Null)
<1>1. Shaped(x, comp)
  BY GeneratedShaped
<1>2. x \in Seq(Tokens) /\ m \in Nat /\ r \in Seq(Tokens)
  <2>1. x \in Seq(Tokens) /\ r \in Seq(Tokens)
    BY NoEndInResponse
  <2> HIDE DEF x, r
  <2> QED  BY <2>1
<1>3. /\ \E p \in 1 .. m : x[p] = "begin"
      /\ \A i \in 1 .. m : x[i] \notin {"part", "thoughts_end", "army_composition_begin"}
      /\ \A i \in 1 .. m : HasBrace(x[i], a.content) => x[i] = "end"
  <2> HIDE DEF x
  <2>1. \A y : y \in Range(x) <=> \E i \in 1 .. m : x[i] = y
    BY <1>2 DEF Range
  <2>2. /\ "begin" \in Range(x)
        /\ Range(x) \cap {"part", "thoughts_end", "army_composition_begin"} = {}
        /\ \A key \in Range(x) \cap {"chat_message", "reasoning"} :
             a.content[key] # Null => a.content[key].odd # "brace"
    BY DEF IsFlat, x
  <2> HIDE DEF m
  <2> QED  BY <2>1, <2>2 DEF HasBrace
<1> HIDE DEF x, r, comp
<1>4. \A i \in 1 .. m : x[i] = "end" => i = m
  <2> SUFFICES ASSUME NEW i \in 1 .. m, x[i] = "end"
               PROVE  i = m
    OBVIOUS
  <2>1. \A j \in 1 .. i - 1 : j \in 1 .. m
    BY <1>2
  <2> QED  BY <1>1, <1>3, <2>1 DEF Shaped
<1>5. \A i \in 1 .. m : x[i] = "begin" => \A j \in 1 .. i - 1 : x[j] \in Thoughts
  BY <1>1 DEF Shaped
<1>6. CASE r = x /\ \A i \in 1 .. m : ~HasBrace(x[i], a.content)
  BY <1>2, <1>3, <1>5, <1>6 DEF HasBrace, r
<1>7. ASSUME NEW f \in 1 .. m, HasBrace(x[f], a.content),
             \A i \in 1 .. f - 1 : ~HasBrace(x[i], a.content) /\ r[i] = x[i],
             r \in Seq(Tokens),
             IF x[f] = "end" THEN Len(r) = f - 1 ELSE Len(r) = f /\ r[f] = "part"
      PROVE  /\ \A i \in 1 .. Len(r) : r[i] \notin {"part", "army_composition_begin", "end"}
             /\ \E p \in 1 .. Len(r) : r[p] = "begin"
             /\ \A i \in 1 .. Len(r) : r[i] = "begin" => \A j \in 1 .. i - 1 : r[j] \in Thoughts
  <2>1. x[f] = "end" /\ f = m
    BY <1>3, <1>4, <1>7
  <2>2. Len(r) = m - 1 /\ \A i \in 1 .. m - 1 : r[i] = x[i]
    BY <1>7, <2>1
  <2> HIDE DEF m
  <2>3. \A i \in 1 .. m - 1 : i \in 1 .. m /\ i # m /\ \A j \in 1 .. i - 1 : j \in 1 .. m - 1
    BY <1>2
  <2>4. \A i \in 1 .. m : i \in 1 .. m - 1 \/ i = m
    BY <1>2
  <2>5. \E p \in 1 .. m - 1 : x[p] = "begin"
    BY <1>3, <2>1, <2>4
  <2> QED  BY <1>3, <1>4, <1>5, <2>2, <2>3, <2>5
<1> QED  BY <1>2, <1>6, <1>7, StoppedAtBrace DEF x, r, m

\* The response to any other answer ends in a broken token, or opens no object, or
\* opens two.
LEMMA OtherResponse ==
    ASSUME NEW a, IsAnswer(a), ~IsFlat(a)
    PROVE  LET r == Response(a, TRUE)
           IN  \/ \E i \in 1 .. Len(r) : r[i] = "part"
               \/ \A i \in 1 .. Len(r) : r[i] \notin Opening
               \/ \E p, q \in 1 .. Len(r) : r[p] = "begin" /\ r[q] = "army_composition_begin"
<1> DEFINE x == Generated(a)
           m == Len(x)
           r == Response(a, TRUE)
           comp == Get(a.content, "army_composition", Null)
           Goal == \/ \E i \in 1 .. Len(r) : r[i] = "part"
                   \/ \A i \in 1 .. Len(r) : r[i] \notin Opening
                   \/ \E p, q \in 1 .. Len(r) : r[p] = "begin" /\ r[q] = "army_composition_begin"
<1>1. Shaped(x, comp)
  BY GeneratedShaped
<1>2. /\ x \in Seq(Tokens) /\ m \in Nat /\ r \in Seq(Tokens)
      /\ \A i \in 1 .. Len(r) : r[i] = "part" \/ \E j \in 1 .. m : x[j] = r[i]
  <2>1. /\ x \in Seq(Tokens) /\ r \in Seq(Tokens)
        /\ \A i \in 1 .. Len(r) : r[i] = "part" \/ \E j \in 1 .. m : x[j] = r[i]
    BY NoEndInResponse
  <2> HIDE DEF x, r
  <2> QED  BY <2>1
<1>3. \/ \A i \in 1 .. m : x[i] # "begin"
      \/ \E i \in 1 .. m : x[i] = "part"
      \/ \E i \in 1 .. m : x[i] = "thoughts_end"
      \/ \E i \in 1 .. m : x[i] = "army_composition_begin"
      \/ \E i \in 1 .. m : x[i] \in {"chat_message", "reasoning"} /\ HasBrace(x[i], a.content)
  <2> HIDE DEF x
  <2>1. \A y : y \in Range(x) <=> \E i \in 1 .. m : x[i] = y
    BY <1>2 DEF Range
  <2>2. \/ "begin" \notin Range(x)
        \/ "part" \in Range(x) \/ "thoughts_end" \in Range(x)
        \/ "army_composition_begin" \in Range(x)
        \/ \E key \in Range(x) \cap {"chat_message", "reasoning"} : HasBrace(key, a.content)
    BY DEF IsFlat, HasBrace, x
  <2> HIDE DEF m
  <2> QED  BY <2>1, <2>2
<1>4. /\ \A i \in 1 .. m : x[i] = "end" =>
           \/ \E j \in 1 .. i - 1 : x[j] = "army_composition_begin"
           \/ i = m /\ \A j \in 1 .. m : x[j] # "part"
      /\ \A i \in 1 .. m : x[i] = "army_composition_begin" =>
           (\E j \in 1 .. i - 1 : x[j] = "begin") /\ \A j \in 1 .. i - 1 : x[j] # "end"
      /\ \A i \in 1 .. m : x[i] \in Thoughts => i = 1
  BY <1>1 DEF Shaped
<1> HIDE DEF x, r, comp, m
<1>5. \A i \in 1 .. m : \A j \in 1 .. i - 1 : j \in 1 .. m
  BY <1>2
<1>6. ASSUME r = x, \A i \in 1 .. m : ~HasBrace(x[i], a.content)
      PROVE  Goal
  <2>1. Len(r) = m /\ \A i \in 1 .. m : r[i] = x[i]
    BY <1>6 DEF m
  <2>2. CASE \A i \in 1 .. m : x[i] # "begin"
    <3>1. \A i \in 1 .. m : x[i] \notin Opening
      BY <1>4, <1>5, <2>2 DEF Opening
    <3> QED  BY <2>1, <3>1
  <2>3. CASE \E i \in 1 .. m : x[i] = "army_composition_begin"
    <3>1. PICK q \in 1 .. m : x[q] = "army_composition_begin"
      BY <2>3
    <3>2. PICK p \in 1 .. q - 1 : x[p] = "begin"
      BY <1>4, <3>1
    <3>3. p \in 1 .. m
      BY <1>5
    <3> QED  BY <2>1, <3>1, <3>2, <3>3
  <2>4. CASE \E i \in 1 .. m : x[i] = "part"
    BY <2>1, <2>4
  <2> QED  BY <1>3, <1>6, <2>2, <2>3, <2>4 DEF HasBrace
<1>7. ASSUME NEW f \in 1 .. m, HasBrace(x[f], a.content),
             \A i \in 1 .. f - 1 : ~HasBrace(x[i], a.content) /\ r[i] = x[i],
             r \in Seq(Tokens),
             IF x[f] = "end" THEN Len(r) = f - 1 ELSE Len(r) = f /\ r[f] = "part"
      PROVE  Goal
  <2>1. f \in Int /\ 1 <= f /\ f <= m
    BY <1>2
  <2>2. CASE x[f] # "end"
    <3>1. Len(r) = f /\ r[f] = "part" /\ f \in 1 .. f
      BY <1>7, <2>1, <2>2
    <3> QED  BY <3>1
  <2>3. CASE x[f] = "end"
    <3>1. \A i \in 1 .. f - 1 : i \in 1 .. m
      BY <1>2, <2>1
    <3>2. CASE \A i \in 1 .. m : x[i] # "begin"
      <4>1. \A i \in 1 .. m : x[i] \notin Opening
        BY <1>4, <1>5, <3>2 DEF Opening
      <4>2. "part" \notin Opening
        BY DEF Opening
      <4> QED  BY <1>2, <4>1, <4>2
    <3>3. CASE \E i \in 1 .. m : x[i] = "army_composition_begin"
      <4>1. PICK q \in 1 .. m : x[q] = "army_composition_begin"
        BY <3>3
      <4>2. PICK p \in 1 .. q - 1 : x[p] = "begin"
        BY <1>4, <4>1
      <4>3. ~(f \in 1 .. q - 1) /\ f # q
        BY <1>4, <2>3, <4>1
      <4>4. q \in 1 .. f - 1 /\ p \in 1 .. f - 1
        BY <1>2, <2>1, <4>3
      <4>5. r[p] = "begin" /\ r[q] = "army_composition_begin" /\ Len(r) = f - 1
        BY <1>7, <2>3, <4>1, <4>2, <4>4
      <4> QED  BY <4>4, <4>5
    <3>4. CASE \A i \in 1 .. m : x[i] # "army_composition_begin"
      <4>1. f = m /\ \A j \in 1 .. m : x[j] # "part"
        BY <1>4, <1>5, <2>3, <3>4
      <4>2. ASSUME NEW i \in 1 .. m, HasBrace(x[i], a.content)
            PROVE  i = f
        <5>1. i \in 1 .. f - 1 \/ i = f
          BY <1>2, <4>1
        <5> QED  BY <1>7, <4>2, <5>1
      <4>3. \A i \in 1 .. m : /\ x[i] \in {"chat_message", "reasoning"}
                                   => ~HasBrace(x[i], a.content)
                              /\ x[i] # "thoughts_end"
        BY <2>3, <4>2 DEF HasBrace
      <4>4. \A i \in 1 .. m : x[i] # "begin"
        BY <1>3, <3>4, <4>1, <4>3
      <4> QED  BY <3>2, <4>4
    <3> QED  BY <3>3, <3>4
  <2> QED  BY <2>2, <2>3
<1>8. Goal
  BY <1>6, <1>7, StoppedAtBrace, <1>2 DEF x, r, m
<1> QED  BY <1>8 DEF r

\* Of a response without an "end", cleaning keeps what are no thoughts, and puts
\* an "end" after it.
LEMMA CleanedShape ==
    ASSUME NEW r \in Seq(Tokens), \A i \in 1 .. Len(r) : r[i] # "end"
    PROVE  LET f == Among(r, Tokens \ Thoughts)
           IN  /\ f \in Seq(Tokens) /\ \A k \in 1 .. Len(f) : f[k] # "end"
               /\ Cleaned(r) = Append(f, "end")
<1> DEFINE f == Among(r, Tokens \ Thoughts)
<1>1. f \in Seq(Tokens)
  BY AmongOfItems
<1>2. \A k \in 1 .. Len(f) : f[k] # "end"
  <2>1. Len(r) \in Nat
    OBVIOUS
  <2>2. \A k \in 1 .. Len(f) : \E i \in 1 .. Len(r) : f[k] = r[i]
    BY <2>1, AmongElements
  <2> HIDE DEF f
  <2> QED  BY <2>2
<1>3. Cleaned(r) = IF f # << >> /\ f[Len(f)] = "end" THEN f ELSE Append(f, "end")
  BY DEF Cleaned
<1> HIDE DEF f
<1>4. f # << >> => Len(f) \in 1 .. Len(f)
  BY <1>1
<1>5. Cleaned(r) = Append(f, "end")
  BY <1>2, <1>3, <1>4
<1> QED  BY <1>1, <1>2, <1>5 DEF f

\* json.loads accepts a text that begins with a "begin", has no other token that
\* opens an object, and one "end", its last token.
LEMMA FlatIsWellFormed ==
    ASSUME NEW f \in Seq(Tokens), Len(f) >= 1, f[1] = "begin",
           \A k \in 2 .. Len(f) : f[k] \notin Opening,
           \A k \in 1 .. Len(f) : f[k] \notin {"end", "part"}
    PROVE  WellFormed(Append(f, "end"))
<1> DEFINE c == Append(f, "end")
           n == Len(f)
<1>1. /\ n \in Nat /\ n >= 1 /\ Len(c) = n + 1 /\ c[n + 1] = "end"
      /\ \A i \in 1 .. n : c[i] = f[i]
  OBVIOUS
<1> HIDE DEF c, n
<1>2. \A i \in 1 .. n : i = 1 \/ i \in 2 .. n
  BY <1>1
<1>3. /\ \A i \in 1 .. n : /\ c[i] \in Opening => i = 1
                           /\ c[i] \notin {"end", "part"}
      /\ c[1] = "begin" /\ 1 \in 1 .. n
  BY <1>1, <1>2 DEF n
<1>4. \A i \in 1 .. n + 1 : i \in 1 .. n \/ i = n + 1
  BY <1>1
<1>5. "begin" \in Opening /\ "end" \notin Opening
  BY DEF Opening
<1>6. \A k \in 1 .. n + 1 : Cardinality({i \in 1 .. k : c[i] \in Opening}) = 1
  <2> TAKE k \in 1 .. n + 1
  <2>1. \A i \in 1 .. k : i \in 1 .. n + 1
    BY <1>1
  <2>2. 1 \in 1 .. k
    BY <1>1
  <2>3. {i \in 1 .. k : c[i] \in Opening} = {1}
    BY <1>1, <1>3, <1>4, <1>5, <2>1, <2>2
  <2> QED  BY <2>3, FS_Singleton
<1>7. \A k \in 1 .. n : Cardinality({i \in 1 .. k : c[i] = "end"}) = 0
  <2> TAKE k \in 1 .. n
  <2>1. \A i \in 1 .. k : i \in 1 .. n
    BY <1>1
  <2>2. {i \in 1 .. k : c[i] = "end"} = {}
    BY <1>3, <2>1
  <2> QED  BY <2>2, FS_EmptySet
<1>8. Cardinality({i \in 1 .. n + 1 : c[i] = "end"}) = 1
  <2>1. {i \in 1 .. n + 1 : c[i] = "end"} = {n + 1}
    BY <1>1, <1>3, <1>4
  <2> QED  BY <2>1, FS_Singleton
<1>9. \A k \in 1 .. n : Depth(c, k) > 0
  BY <1>1, <1>6, <1>7 DEF Depth
<1>10. Depth(c, n + 1) = 0
  BY <1>1, <1>6, <1>8 DEF Depth
<1>11. \A i \in 1 .. n + 1 : c[i] # "part"
  BY <1>1, <1>3, <1>4
<1>12. n + 1 - 1 = n
  BY <1>1
<1>13. WellFormed(c)
  BY <1>1, <1>9, <1>10, <1>11, <1>12 DEF WellFormed
<1> QED  BY <1>13 DEF c

\* It refuses one that opens none, or two, and closes one.
LEMMA OneEndNeedsOneOpening ==
    ASSUME NEW f \in Seq(Tokens), \A k \in 1 .. Len(f) : f[k] # "end",
           \/ \A k \in 1 .. Len(f) : f[k] \notin Opening
           \/ \E j, k \in 1 .. Len(f) : f[j] = "begin" /\ f[k] = "army_composition_begin"
    PROVE  ~WellFormed(Append(f, "end"))
<1> DEFINE c == Append(f, "end")
           n == Len(f)
           O == {i \in 1 .. n + 1 : c[i] \in Opening}
<1>1. /\ n \in Nat /\ Len(c) = n + 1 /\ c[n + 1] = "end"
      /\ \A i \in 1 .. n : c[i] = f[i]
  OBVIOUS
<1>2. /\ \A i \in 1 .. n : c[i] # "end"
      /\ \/ \A i \in 1 .. n : c[i] \notin Opening
         \/ \E j, k \in 1 .. n : c[j] = "begin" /\ c[k] = "army_composition_begin"
  BY <1>1
<1> HIDE DEF c, n
<1>3. \A i \in 1 .. n + 1 : i \in 1 .. n \/ i = n + 1
  BY <1>1
<1>4. Cardinality({i \in 1 .. n + 1 : c[i] = "end"}) = 1
  <2>1. n + 1 \in 1 .. n + 1
    BY <1>1
  <2>2. {i \in 1 .. n + 1 : c[i] = "end"} = {n + 1}
    BY <1>1, <1>2, <1>3, <2>1
  <2> QED  BY <2>2, FS_Singleton
<1>5. IsFiniteSet(O) /\ Cardinality(O) \in Nat
  <2>1. IsFiniteSet(1 .. n + 1)
    BY <1>1, CountTo
  <2> QED  BY <2>1, FS_Subset, FS_CardinalityType
<1>6. Cardinality(O) # 1
  <2>1. CASE \A i \in 1 .. n : c[i] \notin Opening
    <3>1. O = {}
      BY <1>1, <1>3, <2>1 DEF Opening
    <3> HIDE DEF O
    <3>2. Cardinality(O) = 0
      BY <3>1, FS_EmptySet
    <3> QED  BY <3>2
  <2>2. CASE \E j, k \in 1 .. n : c[j] = "begin" /\ c[k] = "army_composition_begin"
    <3>1. PICK j, k \in 1 .. n : c[j] = "begin" /\ c[k] = "army_composition_begin"
      BY <2>2
    <3>2. j # k /\ j \in 1 .. n + 1 /\ k \in 1 .. n + 1
      BY <1>1, <3>1
    <3>3. j \in O /\ k \in O
      BY <3>1, <3>2 DEF Opening
    <3> HIDE DEF O
    <3>4. ~\E z : O = {z}
      BY <3>2, <3>3
    <3> QED  BY <1>5, <3>4, FS_Singleton
  <2> QED  BY <1>2, <2>1, <2>2
<1>7. Depth(c, n + 1) = Cardinality(O) - 1
  BY <1>4 DEF Depth
<1> HIDE DEF O
<1>8. Depth(c, n + 1) # 0
  BY <1>5, <1>6, <1>7
<1>9. ~WellFormed(c)
  BY <1>1, <1>8 DEF WellFormed
<1> QED  BY <1>9 DEF c

\* With the stop token the text of an answer is accepted if and only if it is flat.
LEMMA AcceptedIffFlat ==
    ASSUME NEW a, IsAnswer(a)
    PROVE  WellFormed(Cleaned(Response(a, TRUE))) <=> IsFlat(a)
<1> DEFINE r == Response(a, TRUE)
           S == Tokens \ Thoughts
           f == Among(r, S)
<1>1. r \in Seq(Tokens) /\ \A i \in 1 .. Len(r) : r[i] # "end"
  BY NoEndInResponse
<1>2. r \in Seq(Tokens) /\ Len(r) \in Nat /\ \A i \in 1 .. Len(r) : r[i] \in Tokens
  <2> HIDE DEF r
  <2> QED  BY <1>1
<1>3. CASE IsFlat(a)
  <2>1. /\ \A i \in 1 .. Len(r) : r[i] \notin {"part", "army_composition_begin", "end"}
        /\ \E p \in 1 .. Len(r) : r[p] = "begin"
        /\ \A i \in 1 .. Len(r) : r[i] = "begin" => \A j \in 1 .. i - 1 : r[j] \in Thoughts
    BY <1>3, FlatResponse
  <2> HIDE DEF r
  <2>2. f \in Seq(Tokens) /\ Cleaned(r) = Append(f, "end")
    BY <1>1, CleanedShape
  <2>3. PICK place :
          /\ \A k \in 1 .. Len(f) :
               place[k] \in 1 .. Len(r) /\ f[k] = r[place[k]] /\ f[k] \in S
          /\ \A j, k \in 1 .. Len(f) : j < k => place[j] < place[k]
          /\ \A i \in 1 .. Len(r) : r[i] \in S => \E k \in 1 .. Len(f) : place[k] = i
    <3> HIDE DEF S
    <3>1. PICK place : Reads(f, r, S, place)
      BY <1>2, AmongPlaces
    <3> HIDE DEF f
    <3> QED  BY <3>1 DEF Reads
  <2> HIDE DEF f
  <2>4. PICK p \in 1 .. Len(r) : r[p] = "begin"
    BY <2>1
  <2>5. "begin" \in S
    BY <1>2, <2>4 DEF Thoughts
  <2>6. PICK k \in 1 .. Len(f) : place[k] = p
    BY <2>3, <2>4, <2>5
  <2>7. \A j \in 1 .. Len(f) : f[j] = "begin" => j = 1
    <3> SUFFICES ASSUME NEW j \in 1 .. Len(f), f[j] = "begin", j # 1
                 PROVE  FALSE
      OBVIOUS
    <3>1. 1 \in 1 .. Len(f) /\ 1 < j
      BY <2>2
    <3>2. place[1] < place[j] /\ place[1] \in 1 .. Len(r) /\ place[j] \in 1 .. Len(r)
      BY <2>3, <3>1
    <3>3. place[1] \in 1 .. place[j] - 1
      BY <1>2, <3>2
    <3>4. r[place[1]] \in Thoughts
      BY <2>1, <2>3, <3>2, <3>3
    <3> QED  BY <2>3, <3>1, <3>4
  <2>8. f[1] = "begin" /\ Len(f) >= 1
    <3>1. k = 1
      BY <2>3, <2>4, <2>6, <2>7
    <3> QED  BY <2>2, <2>3, <2>4, <2>6, <3>1
  <2>9. \A j \in 1 .. Len(f) : f[j] \notin {"end", "part", "army_composition_begin"}
    BY <2>1, <2>3
  <2>10. \A j \in 2 .. Len(f) : f[j] \notin Opening
    <3> SUFFICES ASSUME NEW j \in 2 .. Len(f)
                 PROVE  f[j] \notin Opening
      OBVIOUS
    <3>1. j \in 1 .. Len(f) /\ j # 1
      BY <2>2
    <3> QED  BY <2>7, <2>9, <3>1 DEF Opening
  <2>11. WellFormed(Append(f, "end"))
    BY <2>2, <2>8, <2>9, <2>10, FlatIsWellFormed
  <2> QED  BY <1>3, <2>2, <2>11 DEF r
<1>4. CASE ~IsFlat(a)
  <2>1. \/ \E i \in 1 .. Len(r) : r[i] = "part"
        \/ \A i \in 1 .. Len(r) : r[i] \notin Opening
        \/ \E p, q \in 1 .. Len(r) : r[p] = "begin" /\ r[q] = "army_composition_begin"
    BY <1>4, OtherResponse
  <2> HIDE DEF r
  <2>2. /\ f \in Seq(Tokens) /\ Cleaned(r) = Append(f, "end")
        /\ \A k \in 1 .. Len(f) : f[k] # "end"
    BY <1>1, CleanedShape
  <2>3. /\ \A k \in 1 .. Len(f) : \E i \in 1 .. Len(r) : f[k] = r[i]
        /\ \A i \in 1 .. Len(r) : r[i] \in S => \E k \in 1 .. Len(f) : f[k] = r[i]
    <3> HIDE DEF S
    <3> QED  BY <1>2, AmongElements
  <2>4. \A i \in 1 .. Len(r) :
          r[i] \in {"part", "begin", "army_composition_begin"} =>
            \E k \in 1 .. Len(f) : f[k] = r[i]
    BY <1>2, <2>3 DEF Thoughts
  <2> HIDE DEF f
  <2>5. CASE \E i \in 1 .. Len(r) : r[i] = "part"
    <3>1. PICK k \in 1 .. Len(f) : f[k] = "part"
      BY <2>4, <2>5
    <3> DEFINE c == Append(f, "end")
    <3>2. k \in 1 .. Len(c) /\ c[k] = "part"
      BY <2>2, <3>1
    <3> HIDE DEF c
    <3>3. ~WellFormed(c)
      BY <3>2 DEF WellFormed
    <3> QED  BY <1>4, <2>2, <3>3 DEF c, r
  <2>6. CASE \A i \in 1 .. Len(r) : r[i] \notin Opening
    <3>1. \A k \in 1 .. Len(f) : f[k] \notin Opening
      BY <2>3, <2>6
    <3>2. ~WellFormed(Append(f, "end"))
      BY <2>2, <3>1, OneEndNeedsOneOpening
    <3> QED  BY <1>4, <2>2, <3>2 DEF r
  <2>7. CASE \E p, q \in 1 .. Len(r) : r[p] = "begin" /\ r[q] = "army_composition_begin"
    <3>1. \E j, k \in 1 .. Len(f) : f[j] = "begin" /\ f[k] = "army_composition_begin"
      BY <2>4, <2>7
    <3>2. ~WellFormed(Append(f, "end"))
      BY <2>2, <3>1, OneEndNeedsOneOpening
    <3> QED  BY <1>4, <2>2, <3>2 DEF r
  <2> QED  BY <2>1, <2>5, <2>6, <2>7
<1> QED  BY <1>3, <1>4

\* And then it is used.
LEMMA UsedIffFlat ==
    ASSUME NEW a, IsAnswer(a)
    PROVE  Decision(a, TRUE) # Null <=> IsFlat(a)
<1> DEFINE text == Cleaned(Response(a, TRUE))
           seen == {text[i] : i \in 1 .. Len(text)}
           K    == {k \in DOMAIN a.content :
                     \/ k \in seen
                     \/ k = "army_composition" /\ "army_composition_begin" \in seen}
<1>1. Decision(a, TRUE) = IF WellFormed(text) THEN Restrict(a.content, K) ELSE Null
  BY DEF Decision
<1>2. K \in SUBSET DOMAIN a.content
  OBVIOUS
<1>3. WellFormed(text) <=> IsFlat(a)
  BY AcceptedIffFlat
<1> HIDE DEF K, text
<1>4. Restrict(a.content, K) # Null
  BY <1>2 DEF IsAnswer
<1> QED  BY <1>1, <1>3, <1>4

\* Of a flat answer no army composition that is an object is used, so build() takes
\* its own.
LEMMA FlatComposition ==
    ASSUME NEW a, IsAnswer(a), IsFlat(a)
    PROVE  Composition(Decision(a, TRUE)) = Default
<1> DEFINE r    == Response(a, TRUE)
           x    == Generated(a)
           text == Cleaned(r)
           seen == {text[i] : i \in 1 .. Len(text)}
           K    == {k \in DOMAIN a.content :
                     \/ k \in seen
                     \/ k = "army_composition" /\ "army_composition_begin" \in seen}
           d    == Decision(a, TRUE)
<1>1. d = [k \in K |-> a.content[k]]
  <2>1. WellFormed(text)
    BY AcceptedIffFlat
  <2> HIDE DEF text
  <2> QED  BY <2>1 DEF Decision, Restrict, text
<1>2. \A y \in seen : y = "end" \/ \E i \in 1 .. Len(r) : y = r[i]
  <2> DEFINE f == Among(r, Tokens \ Thoughts)
  <2>1. r \in Seq(Tokens) /\ \A i \in 1 .. Len(r) : r[i] # "end"
    BY NoEndInResponse
  <2>2. Len(r) \in Nat
    <3> HIDE DEF r
    <3> QED  BY <2>1
  <2> HIDE DEF r
  <2>3. f \in Seq(Tokens) /\ text = Append(f, "end")
    BY <2>1, CleanedShape
  <2>4. \A k \in 1 .. Len(f) : \E i \in 1 .. Len(r) : f[k] = r[i]
    BY <2>2, AmongElements
  <2> HIDE DEF f, text
  <2>5. \A k \in 1 .. Len(text) : (k \in 1 .. Len(f) /\ text[k] = f[k]) \/ text[k] = "end"
    BY <2>3
  <2> QED  BY <2>4, <2>5
<1>3. \A i \in 1 .. Len(r) : r[i] # "part" /\ r[i] # "army_composition_begin"
  BY FlatResponse
<1>4. \A i \in 1 .. Len(r) : r[i] = "part" \/ \E j \in 1 .. Len(x) : x[j] = r[i]
  BY NoEndInResponse
<1>5. \A j \in 1 .. Len(x) : x[j] = "army_composition" =>
        Get(a.content, "army_composition", Null) \in {Null, Other, Array}
  BY GeneratedShaped DEF Shaped
<1> HIDE DEF r, x, text, seen
<1>6. "army_composition" \in K =>
        "army_composition" \in DOMAIN a.content
          /\ a.content["army_composition"] \in {Null, Other, Array}
  <2>1. "army_composition_begin" \notin seen
    BY <1>2, <1>3
  <2>2. "army_composition" \in K =>
          "army_composition" \in DOMAIN a.content /\ "army_composition" \in seen
    BY <2>1
  <2>3. "army_composition" \in seen => \E j \in 1 .. Len(x) : x[j] = "army_composition"
    BY <1>2, <1>3, <1>4
  <2> QED  BY <1>5, <2>2, <2>3 DEF Get
<1> HIDE DEF K, d
<1>7. Get(d, "army_composition", Null) \in {Null, Other, Array}
  BY <1>1, <1>6 DEF Get
<1>8. Given(d) = [unit \in Units |-> Default[unit]]
  BY <1>7 DEF Given
<1>9. Given(d) = Default
  BY <1>8 DEF Default, Units
<1>10. Default.land = 7000 /\ Default.air = 2000 /\ Default.navy = 1000
  BY DEF Default
<1>11. \A unit \in Units : Default[unit] \in Int /\ Round3(Default[unit], 1) = Default[unit]
  BY <1>10 DEF Units, Round3, Rounded
<1>12. \A unit \in Units : Default[unit] \notin {NotANumber, Infinity, Large}
  BY <1>11, ValuesAssumption
<1>13. Composition(d) = [unit \in Units |-> Round3(Default[unit], 1)]
  <2>1. ~Overflows(Default)
    BY <1>12 DEF Overflows
  <2>2. Default.land + Default.air + Default.navy \in 9901 .. 10099
    BY <1>10
  <2> QED  BY <1>9, <1>12, <2>1, <2>2 DEF Composition
<1>14. Default = [unit \in Units |-> Default[unit]]
  BY <1>8, <1>9
<1> QED  BY <1>11, <1>13, <1>14 DEF d

-----------------------------------------------------------------------------
(* Every pass *)

\* A command is what the builder, when it is loaded, makes of the decision that
\* is kept beside it, which it did not fail on.
IInv ==
    command # Null =>
      /\ IsDecision(raw)
      /\ IF "command_builder" \in loaded
         THEN ~build_raises(raw) /\ command = build(raw)
         ELSE command = raw

\* Decide queues what build() made of the decision, and only if it did not raise.
LEMMA DecideKeeps ==
    ASSUME NEW d, IsDecision(d), Decide(d), UNCHANGED loaded
    PROVE  IInv'
BY DEF Decide, IInv

\* No other action touches the command that was put last.
LEMMA StepIInv ==
    ASSUME IInv, [Next]_vars
    PROVE  IInv'
<1>1. CASE Take
  BY <1>1 DEF Take, IInv
<1>2. ASSUME NEW a \in Answers, ModelDecides(a)
      PROVE  IInv'
  BY <1>2, ParsedIsDecision, DecideKeeps DEF ModelDecides
<1>3. ASSUME NEW a, FallbackDecides(a)
      PROVE  IInv'
  BY <1>3, RulesDecide, DecideKeeps DEF FallbackDecides, Rules
<1>4. CASE Put
  BY <1>4 DEF Put, IInv
<1>5. CASE UNCHANGED vars
  BY <1>5 DEF vars, IInv
<1> QED  BY <1>1, <1>2, <1>3, <1>4, <1>5 DEF Next

\* Every command comes from a decision of the kinds that the models and the
\* rules give, by one call of build() that did not fail, or unchecked when the
\* builder could not be imported (_decision_loop).
THEOREM Invariance == Spec => []IInv
<1>1. Init => IInv
  BY DEF Init, IInv
<1> QED  BY <1>1, StepIInv, PTL DEF Spec

\* With the builder loaded, every command that leaves is valid but for a strategy
\* that was not given and for shares that overflow, and its other shares total 1.0
\* within 0.011: for any answers of the models, cut anywhere, and any snapshots.
THEOREM CommandIsValidHolds == Spec => []CommandIsValid
<1>1. IInv => CommandIsValid
  BY BuildIsValid DEF IInv, CommandIsValid
<1> QED  BY <1>1, Invariance, PTL

\* build() leaves a decision that is complete and valid as it is.
THEOREM ValidIsKeptHolds == Spec => []ValidIsKept
<1>1. IInv => ValidIsKept
  BY BuildKeeps DEF IInv, ValidIsKept
<1> QED  BY <1>1, Invariance, PTL

\* With the stop token the model decided if and only if its answer was flat, and
\* then what is kept beside the answer is what it is parsed to.
FlatInv ==
    /\ stops \in BOOLEAN
    /\ answer # Null => IsAnswer(answer)
    /\ stops /\ answer # Null =>
         /\ source = "model" <=> IsFlat(answer)
         /\ source = "model" => raw = Decision(answer, TRUE)

\* Every pass decides anew, on the answer that it keeps.
LEMMA StepFlatInv ==
    ASSUME FlatInv, [Next]_vars
    PROVE  FlatInv'
<1>1. CASE Take
  BY <1>1 DEF Take, FlatInv
<1>2. ASSUME NEW a \in Answers, ModelDecides(a)
      PROVE  FlatInv'
  <2>1. /\ answer' = a /\ source' = "model" /\ stops' = stops
        /\ Decision(a, stops) # Null /\ raw' = Decision(a, stops)
    BY <1>2 DEF ModelDecides, Decide
  <2>2. IsAnswer(a)
    BY AnswersAssumption
  <2>3. stops => IsFlat(a)
    <3> SUFFICES ASSUME stops
                 PROVE  IsFlat(a)
      OBVIOUS
    <3>1. stops = TRUE
      BY DEF FlatInv
    <3> QED  BY <2>1, <2>2, <3>1, UsedIffFlat
  <2>4. stops => raw' = Decision(a, TRUE)
    <3> SUFFICES ASSUME stops
                 PROVE  raw' = Decision(a, TRUE)
      OBVIOUS
    <3>1. stops = TRUE
      BY DEF FlatInv
    <3> QED  BY <2>1, <3>1
  <2> QED  BY <2>1, <2>2, <2>3, <2>4 DEF FlatInv
<1>3. ASSUME NEW a, a \in Answers \cup {Null}, FallbackDecides(a)
      PROVE  FlatInv'
  <2>1. /\ answer' = a /\ source' = "fallback" /\ stops' = stops
        /\ a # Null => Decision(a, stops) = Null
    BY <1>3 DEF FallbackDecides
  <2>2. a # Null => IsAnswer(a)
    BY <1>3, AnswersAssumption
  <2>3. stops /\ a # Null => ~IsFlat(a)
    <3> SUFFICES ASSUME stops, a # Null
                 PROVE  ~IsFlat(a)
      OBVIOUS
    <3>1. stops = TRUE
      BY DEF FlatInv
    <3> QED  BY <2>1, <2>2, <3>1, UsedIffFlat
  <2> QED  BY <2>1, <2>2, <2>3 DEF FlatInv
<1>4. CASE Put
  BY <1>4 DEF Put, FlatInv
<1>5. CASE UNCHANGED vars
  BY <1>5 DEF vars, FlatInv
<1> QED  BY <1>1, <1>2, <1>3, <1>4, <1>5 DEF Next

\* With the stop token an answer is used if and only if nothing in it but the last
\* token is a "}": for any decision, cut anywhere, after thoughts or not; so with
\* the builder no army composition that the model chooses reaches the game.
THEOREM OnlyFlatAnswersUsedHolds == Spec => []OnlyFlatAnswersUsed
<1>1. Init => FlatInv
  BY DEF Init, FlatInv
<1>2. IInv /\ FlatInv => OnlyFlatAnswersUsed
  <2> SUFFICES ASSUME IInv, FlatInv, stops, answer # Null
               PROVE  /\ source = "model" <=> IsFlat(answer)
                      /\ source = "model" /\ command # Null /\ "command_builder" \in loaded
                           => command.army_composition = Default
    BY DEF OnlyFlatAnswersUsed
  <2>1. /\ source = "model" <=> IsFlat(answer)
        /\ IsAnswer(answer) /\ (source = "model" => raw = Decision(answer, TRUE))
    BY DEF FlatInv
  <2>2. ASSUME source = "model", command # Null, "command_builder" \in loaded
        PROVE  command.army_composition = Default
    <3>1. command = build(raw)
      BY <2>2 DEF IInv
    <3>2. Composition(raw) = Default
      BY <2>1, <2>2, FlatComposition
    <3> QED  BY <3>1, <3>2, Built
  <2> QED  BY <2>1, <2>2
<1> QED  BY <1>1, <1>2, Invariance, StepFlatInv, PTL DEF Spec

\* When the models fail a command goes out, whichever modules are loaded, with
\* the strategy of get_command but for the two differences of its stand-in.
THEOREM FallbackAlwaysDecidesHolds == Spec => FallbackAlwaysDecides
<1>1. ASSUME [Next]_vars, pc = "query", pc' # pc, source' = "fallback"
      PROVE  /\ pc' = "put"
             /\ \/ command'.strategy = get_command(snapshot).strategy
                \/ /\ "fallback_strategy" \notin loaded
                   /\ \/ snapshot.near_base > 50
                      \/ snapshot.land_military > 20 /\ snapshot.mass_income < 3
  <2>1. PICK a : FallbackDecides(a)
    BY <1>1 DEF Next, Take, ModelDecides, Put, vars
  <2> DEFINE d == IF "fallback_strategy" \in loaded THEN get_command(snapshot)
                                                    ELSE _minimal_fallback(snapshot)
             built == IF "command_builder" \in loaded THEN build(d) ELSE d
  <2>2. Decide(d)
    BY <2>1 DEF FallbackDecides
  <2>3. Rules(d)
    BY RulesDecide
  <2>4. d.strategy = get_command(snapshot).strategy
          \/ /\ "fallback_strategy" \notin loaded
             /\ \/ snapshot.near_base > 50
                \/ snapshot.land_military > 20 /\ snapshot.mass_income < 3
    <3>1. CASE "fallback_strategy" \in loaded
      BY <3>1
    <3>2. CASE "fallback_strategy" \notin loaded
      <4>1. d.strategy = minimal_strategy(snapshot)
        BY <3>2, RulesDecide
      <4> HIDE DEF d
      <4> QED  BY <3>2, <4>1 DEF minimal_strategy, get_command, _make
    <3> QED  BY <3>1, <3>2
  <2> HIDE DEF d
  <2>5. /\ built.strategy = d.strategy /\ built.chat_message = Null
        /\ built.reasoning \in Texts /\ built.reasoning.odd = "no"
    <3>1. Strategy(d) = d.strategy /\ Chat(d) = Null
      BY <2>3 DEF Rules, Strategy, Chat, Get
    <3>2. build(d).strategy = d.strategy /\ build(d).chat_message = Null
      BY <2>3, <3>1, Built DEF Rules
    <3>3. Reasoning(d) \in Texts /\ Reasoning(d).odd = "no"
      <4>1. d.reasoning \in Texts /\ d.reasoning.odd = "no"
            /\ Get(d, "reasoning", [size |-> 0, odd |-> "no"]) = d.reasoning
        BY <2>3 DEF Rules, Get
      <4>2. [d.reasoning EXCEPT !.size = 500].odd = d.reasoning.odd
        BY <4>1 DEF Texts
      <4>3. Reasoning(d) \in Texts
        BY <2>3, ReasoningIsText DEF Rules
      <4> QED  BY <4>1, <4>2, <4>3 DEF Reasoning
    <3>4. build(d).reasoning = Reasoning(d)
      BY Built
    <3> QED  BY <2>3, <3>2, <3>3, <3>4 DEF Rules
  <2>6. ~log_raises(built)
    BY <2>5, TextsAssumption DEF log_raises
  <2>7. pc' = "put" /\ command' = built
    BY <2>2, <2>3, <2>6 DEF Decide, Rules
  <2> HIDE DEF built
  <2> QED  BY <2>4, <2>5, <2>7
<1>2. [Next]_vars => [pc = "query" /\ pc' # pc /\ source' = "fallback" =>
         /\ pc' = "put"
         /\ \/ command'.strategy = get_command(snapshot).strategy
            \/ /\ "fallback_strategy" \notin loaded
               /\ \/ snapshot.near_base > 50
                  \/ snapshot.land_military > 20 /\ snapshot.mass_income < 3]_vars
  BY <1>1
<1> QED  BY <1>2, PTL DEF Spec, FallbackAlwaysDecides
=============================================================================
