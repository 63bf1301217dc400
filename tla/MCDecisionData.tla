--------------------------- MODULE MCDecisionData ---------------------------
EXTENDS DecisionData

Text_(size, odd) == [size |-> size, odd |-> odd]

\* A decision in the form that the prompt asks for.
Obedient ==
    [strategy |-> "attack", build_priority |-> List(<<"t2_mex", "land">>),
     army_composition |-> [land |-> 5000, air |-> 4000, navy |-> 1050],
     attack_direction |-> "north", retreat_threshold |-> 45,
     chat_message |-> Text_(80, "no"), reasoning |-> Text_(120, "no")]

Values ==
    [strategy          |-> {"tech_up", Null, Other, Array},
     build_priority    |-> {List(<< >>), List(<<"other">>), List(<<"other", "t3">>),
                            [form |-> "text", items |-> <<"">>],
                            [form |-> "text", items |-> <<"air">>]},
     army_composition  |-> {Null, Other, Array, << >>, [land |-> 9000],
                            [land |-> 3333, air |-> 3333, navy |-> 3333],
                            [land |-> 7036, air |-> 2036, navy |-> 1027],
                            [land |-> 6964, air |-> 1964, navy |-> 973],
                            [land |-> 5000, air |-> 4000, navy |-> 1100],
                            [land |-> 15000, air |-> -5000, navy |-> 0],
                            [land |-> 20, air |-> -10, navy |-> 10],
                            [land |-> 0, air |-> 0, navy |-> 0],
                            [land |-> Large, air |-> 40], [land |-> Large, air |-> Large],
                            [air |-> Infinity], [land |-> NotANumber, air |-> Infinity],
                            [land |-> 7000, air |-> Null], [navy |-> Huge]},
     attack_direction  |-> {"none", Null, Other, Array},
     retreat_threshold |-> {0, 10, 91, Null, Array, Huge},
     chat_message      |-> {Null} \cup {Text_(n, "no") : n \in {0, 200, 201}}
                             \cup {Text_(9, odd) : odd \in {"brace", "surrogate"}},
     reasoning         |-> {Null} \cup {Text_(n, "no") : n \in {0, 500, 501}}
                             \cup {Text_(9, odd) : odd \in {"brace", "surrogate"}}]

Without(content, key) == [k \in DOMAIN content \ {key} |-> content[k]]

\* The obedient decision, with one key changed or missing, and flat or not.
Contents ==
    LET changed(d) == UNION {{[d EXCEPT ![k] = v] : v \in Values[k]} : k \in DOMAIN d}
        omitted(d) == {Without(d, k) : k \in DOMAIN d}
        flat == Without(Obedient, "army_composition")
    IN  {Obedient, flat} \cup changed(Obedient) \cup changed(flat)
          \cup omitted(Obedient) \cup omitted(flat)

\* Every decision whole; two of them, after thoughts or not, cut anywhere.
MCAnswers ==
    [content : Contents, thoughts : {"none"}, n : {14}, part : {FALSE}]
      \cup [content : {Obedient, [Without(Obedient, "army_composition") EXCEPT
                                    !.chat_message = Text_(9, "brace")]},
            thoughts : {"none", "thoughts", "thoughts_end"}, n : 0 .. 13, part : BOOLEAN]

MCSnapshots ==
    [near_base : {50, 51}, factories : {2, 3}, mass_income : {2, 3}, land_military : {20, 21}]
=============================================================================
