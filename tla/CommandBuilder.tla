--------------------------- MODULE CommandBuilder ---------------------------
(* CommandBuilder.build of server/command_builder.py.                         *)
(*                                                                            *)
(* A decision is a record with the keys that the JSON object has; any may be  *)
(* missing.  Of the values                                                    *)
(*   - army_composition has those of the three shares that are given, in ten  *)
(*     thousandths, and retreat_threshold is in hundredths (a finer one or an *)
(*     infinite one comes out in the same range);                             *)
(*   - build_priority is a list or a single text, [form, items], of the code's*)
(*     names, "other" ones, or "" (an empty text, null, 0);                   *)
(*   - chat_message and reasoning are [size, odd], the length (when stripped) *)
(*     and whether what may be kept of it has a "}" ("brace") or half a       *)
(*     surrogate pair ("surrogate");                                          *)
(* and most may also be of another type.  build() is always given an object.  *)
(* Keys that the prompt does not name stay as they are and are left out here. *)
EXTENDS Integers, Sequences, FiniteSets

CONSTANTS Null,    \* JSON's null
          Other,   \* a text that is no number and none of the code's names
          Array,   \* a list: no number, and not hashable
          Huge,    \* an integer that no float can hold
          Large,   \* a float; the sum of two like it is infinite
          Infinity,  \* "1e999" is read as that
          NotANumber \* NaN (as a share of the answer: or minus infinity)

ASSUME ValuesAssumption ==
    /\ \A x \in {Null, Other, Array, Huge, Large, Infinity, NotANumber} : x \notin Int
    /\ Large \notin {Infinity, NotANumber} /\ Infinity # NotANumber
    /\ Array \notin {Null, "none", "nearest_enemy"}

_VALID_STRATEGIES ==
    {"land_rush", "tech_up", "turtle", "balanced", "air", "naval", "defend",
     "build_factories", "reclaim", "attack"}
_VALID_DIRECTIONS == {"north", "south", "east", "west", "none", Null}
_VALID_BUILD_PRIORITIES ==
    {"land", "air", "navy", "t1", "t2", "t3", "t2_factory", "t3_factory",
     "shield", "t2_mex", "t1_mex", "pgen", "t2_pgen", "arty", "t2_pd"}

Units   == {"land", "air", "navy"}
Default == [land |-> 7000, air |-> 2000, navy |-> 1000]

IsNumber(x) == x \notin {Null, Other, Array, Huge}

\* A share that float() takes; an Int is far below Large.
ShareValues == Int \cup {Large, Infinity, NotANumber}

PriorityNames == _VALID_BUILD_PRIORITIES \cup {"other", ""}
Texts         == [size : Nat, odd : {"no", "brace", "surrogate"}]

ASSUME TextsAssumption == Null \notin Texts

\* What a decision is, before and after build(): an object as above.
IsDecision(raw) ==
    LET comp == raw.army_composition
        bp   == raw.build_priority
        rt   == raw.retreat_threshold
        chat == raw.chat_message
    IN  /\ raw = [key \in DOMAIN raw |-> raw[key]]
        /\ "build_priority" \in DOMAIN raw =>
             bp = [form |-> bp.form, items |-> bp.items] /\ bp.items \in Seq(PriorityNames)
        /\ "army_composition" \in DOMAIN raw /\ comp \notin {Null, Other, Array} =>
             /\ DOMAIN comp \subseteq Units /\ comp = [unit \in DOMAIN comp |-> comp[unit]]
             /\ \A unit \in DOMAIN comp : IsNumber(comp[unit]) => comp[unit] \in ShareValues
        /\ "retreat_threshold" \in DOMAIN raw => (IsNumber(rt) => rt \in Int)
        /\ "chat_message" \in DOMAIN raw => chat \in Texts \cup {Null}
        /\ "reasoning" \in DOMAIN raw => raw.reasoning \in Texts \cup {Null}

\* raw.get(key, default)
Get(raw, key, default) == IF key \in DOMAIN raw THEN raw[key] ELSE default

\* Mutant: the strategies are those that the model chooses from.
MutStrategy(raw) ==
    IF raw.strategy \in {"land_rush", "tech_up", "turtle", "balanced", "air", "naval"}
    THEN raw.strategy ELSE "balanced"

Strategy(raw) == IF raw.strategy \in _VALID_STRATEGIES THEN raw.strategy ELSE "balanced"

\* The items that are in S, in their order: the k-th of them is the one that is at
\* a place up to which there are k.
Among(items, S) ==
    LET kept == {i \in 1 .. Len(items) : items[i] \in S}
    IN  [k \in 1 .. Cardinality(kept) |->
           items[CHOOSE i \in kept : Cardinality(kept \cap 1 .. i) = k]]

\* A value that is no list becomes a list of one.
Priorities(raw) ==
    LET bp    == Get(raw, "build_priority", [form |-> "list", items |-> <<"land">>])
        valid == Among(bp.items, _VALID_BUILD_PRIORITIES)
    IN  [form |-> "list", items |-> IF valid = << >> THEN <<"land">> ELSE valid]

\* The three shares before they are looked at.
Given(raw) ==
    LET comp == Get(raw, "army_composition", Null)
    IN  [unit \in Units |-> IF comp \in {Null, Other, Array}
                            THEN Default[unit] ELSE Get(comp, unit, Default[unit])]

\* a / b to the nearest integer.  (Which one a tie goes to is of no account.)
Rounded(a, b) == (2 * a + b) \div (2 * b)

\* round(x, 3) of a / b, which is in ten thousandths as a is when b is 1.
Round3(a, b) == 10 * Rounded(a, 10 * b)

\* The shares add up to infinity.
Overflows(comp) ==
    \/ \E unit \in Units : comp[unit] = Infinity
    \/ \E unit, other \in Units : unit # other /\ comp[unit] = Large /\ comp[other] = Large

\* Shares that are 1.0 in all, within 0.01, are only rounded; others are divided
\* by their total when that is above 0.  (In doubles 1.01 - 1.0 and 1.0 - 0.99
\* are more than 0.01.)  Infinity by infinity is not a number, all else is 0.
Composition(raw) ==
    LET comp  == Given(raw)
        total == comp.land + comp.air + comp.navy
    IN  IF \E unit \in Units : comp[unit] = NotANumber THEN Default
        ELSE IF Overflows(comp)
          THEN [unit \in Units |-> IF comp[unit] = Infinity THEN NotANumber ELSE 0]
        ELSE IF \E unit \in Units : comp[unit] = Large
          THEN [unit \in Units |-> IF comp[unit] = Large THEN 10000 ELSE 0]
        ELSE IF total \in 9901 .. 10099 THEN [unit \in Units |-> Round3(comp[unit], 1)]
        ELSE IF total > 0 THEN [unit \in Units |-> Round3(10000 * comp[unit], total)]
        ELSE Default

Direction(raw) ==
    IF raw.attack_direction \in _VALID_DIRECTIONS THEN raw.attack_direction ELSE Null

Retreat(raw) ==
    LET rt == Get(raw, "retreat_threshold", 30)
    IN  IF rt \in {Null, Other, Array} THEN 30
        ELSE IF rt < 10 THEN 10
        ELSE IF rt > 90 THEN 90 ELSE rt

\* Mutant: 200 characters are left of a long message, and the mark.
MutChat(raw) ==
    LET chat == Get(raw, "chat_message", Null)
    IN  IF chat = Null THEN Null
        ELSE IF chat.size = 0 THEN Null
        ELSE IF chat.size > 200 THEN [chat EXCEPT !.size = 201] ELSE chat

\* 197 characters are left of a long message, and a mark.
Chat(raw) ==
    LET chat == Get(raw, "chat_message", Null)
    IN  IF chat = Null THEN Null
        ELSE IF chat.size = 0 THEN Null
        ELSE IF chat.size > 200 THEN [chat EXCEPT !.size = 198] ELSE chat

\* str() makes a text of what is none.
Reasoning(raw) ==
    LET reasoning == Get(raw, "reasoning", [size |-> 0, odd |-> "no"])
    IN  IF reasoning = Null THEN [size |-> 4, odd |-> "no"]
        ELSE IF reasoning.size > 500 THEN [reasoning EXCEPT !.size = 500] ELSE reasoning

\* float() has no value for a share or for the threshold (only an overflow is
\* not caught there), or the direction cannot be looked up in a set.
build_raises(raw) ==
    \/ \E unit \in Units : Given(raw)[unit] \in {Null, Other, Array, Huge}
    \/ Get(raw, "attack_direction", Null) = Array
    \/ Get(raw, "retreat_threshold", 30) = Huge

\* A strategy or direction that is missing is taken for a valid one, and stays
\* missing; the other keys are always set.
build(raw) ==
    [key \in DOMAIN raw \cup {"build_priority", "army_composition",
                              "retreat_threshold", "chat_message", "reasoning"} |->
       CASE key = "strategy"          -> Strategy(raw)
         [] key = "build_priority"    -> Priorities(raw)
         [] key = "army_composition"  -> Composition(raw)
         [] key = "attack_direction"  -> Direction(raw)
         [] key = "retreat_threshold" -> Retreat(raw)
         [] key = "chat_message"      -> Chat(raw)
         [] key = "reasoning"         -> Reasoning(raw)
         [] OTHER                     -> raw[key]]
=============================================================================
