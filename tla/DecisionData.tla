---------------------------- MODULE DecisionData ----------------------------
(* What _decision_loop of server/bridge_server.py makes of a snapshot: the    *)
(* data that DecisionLoop leaves out.  The model answers, or does not and the *)
(* fallback decides; build() checks the decision; the log writes it.          *)
EXTENDS FallbackStrategy, LLMAnswer

CONSTANTS Snapshots,  \* of a snapshot, what the rules look at
          Answers,    \* what the models may answer
          LogEnabled  \* debug.log_enabled of the configuration

ASSUME SnapshotsAssumption ==
    Snapshots \subseteq [{"near_base", "factories", "mass_income", "land_military"} -> Int]
ASSUME AnswersAssumption == \A a \in Answers : IsAnswer(a)
ASSUME LogAssumption == LogEnabled \in BOOLEAN

VARIABLES
    loaded,    \* which modules could be imported
    stops,     \* does the models' server honour the stop token?
    pc,        \* "get", "query" or "put": what the loop awaits
    snapshot,  \* the one it works on
    answer,    \* what the model's answer was when it came to this, or Null
    raw,       \* the decision before build()
    source,    \* who decided: "model" or "fallback"
    command    \* what it waits to put, or Null if an exception ended the pass

vars == <<loaded, stops, pc, snapshot, answer, raw, source, command>>

\* main: a module that cannot be imported is left out.
Init ==
    /\ loaded \in SUBSET {"command_builder", "fallback_strategy", "decision_logger"}
    /\ stops \in BOOLEAN
    /\ pc = "get"
    /\ snapshot \in Snapshots
    /\ answer = Null
    /\ raw = Null
    /\ source = "fallback"
    /\ command = Null

Take ==
    /\ pc = "get"
    /\ pc' = "query"
    /\ snapshot' \in Snapshots
    /\ answer' = Null
    /\ raw' = Null
    /\ source' = "fallback"
    /\ command' = Null
    /\ UNCHANGED <<loaded, stops>>

\* Only an OSError is caught: half a surrogate pair has no UTF-8.  (Null stands for
\* every reasoning that has no length.)
log_raises(decision) ==
    /\ "decision_logger" \in loaded /\ LogEnabled
    /\ \/ "reasoning" \in DOMAIN decision /\ decision.reasoning = Null
       \/ \E key \in {"chat_message", "reasoning"} \cap DOMAIN decision :
            decision[key] # Null /\ decision[key].odd = "surrogate"

\* From the result of the query to the put, or to the next get().
Decide(decision) ==
    LET built == IF "command_builder" \in loaded THEN build(decision) ELSE decision
    IN  /\ raw' = decision
        /\ IF \/ "command_builder" \in loaded /\ build_raises(decision)
              \/ log_raises(built)
           THEN pc' = "get" /\ command' = Null
           ELSE pc' = "put" /\ command' = built

ModelDecides(a) ==
    /\ pc = "query"
    /\ Decision(a, stops) # Null
    /\ answer' = a
    /\ source' = "model"
    /\ Decide(Decision(a, stops))
    /\ UNCHANGED <<loaded, stops, snapshot>>

\* Of no use any more, the snapshot stays: it is what the fallback decided on.
FallbackDecides(a) ==
    /\ pc = "query"
    /\ a # Null => Decision(a, stops) = Null
    /\ answer' = a
    /\ source' = "fallback"
    /\ Decide(IF "fallback_strategy" \in loaded THEN get_command(snapshot)
                                                ELSE _minimal_fallback(snapshot))
    /\ UNCHANGED <<loaded, stops, snapshot>>

Put ==
    /\ pc = "put"
    /\ pc' = "get"
    /\ UNCHANGED <<loaded, stops, snapshot, answer, raw, source, command>>

Next ==
    \/ Take
    \/ \E a \in Answers : ModelDecides(a) \/ FallbackDecides(a)
    \/ FallbackDecides(Null)  \* no answer came, or no client is loaded
    \/ Put

Spec == Init /\ [][Next]_vars

-----------------------------------------------------------------------------
(* Properties *)

Total(comp) == comp.land + comp.air + comp.navy

\* What data-model.md:83-87 and the comments of build() say of a decision but for its
\* strategy and its shares.
FieldsAreValid(d) ==
    /\ Get(d, "attack_direction", Null) \in _VALID_DIRECTIONS
    /\ d.build_priority.form = "list" /\ d.build_priority.items # << >>
    /\ \A i \in 1 .. Len(d.build_priority.items) :
         d.build_priority.items[i] \in _VALID_BUILD_PRIORITIES
    /\ d.retreat_threshold \in 10 .. 90
    /\ d.chat_message # Null => d.chat_message.size \in 1 .. 200
    /\ d.reasoning \in Texts /\ d.reasoning.size <= 500

IsValid(d) ==
    /\ FieldsAreValid(d)
    /\ "strategy" \in DOMAIN d /\ d.strategy \in _VALID_STRATEGIES
    /\ Total(d.army_composition) \in 9901 .. 10099

\* With the builder loaded, whatever the model answers, however it is cut, and
\* whatever rules decide: the fields of the command are valid, its strategy is
\* unless none was given, and its shares total 1.0 within the tolerance and the
\* rounding of three of them, unless those that were given overflow.
CommandIsValid ==
    command # Null /\ "command_builder" \in loaded =>
      /\ FieldsAreValid(command)
      /\ "strategy" \in DOMAIN raw =>
           "strategy" \in DOMAIN command /\ command.strategy \in _VALID_STRATEGIES
      /\ ~Overflows(Given(raw)) => Total(command.army_composition) \in 9890 .. 10110

\* Every key is there, with a value of its own type, and of a share three decimals.
IsComplete(d) ==
    /\ {"strategy", "build_priority", "army_composition", "attack_direction",
         "retreat_threshold", "chat_message", "reasoning"} \subseteq DOMAIN d
    /\ IsNumber(d.army_composition) /\ Units \subseteq DOMAIN d.army_composition
    /\ \A unit \in Units :
         d.army_composition[unit] \in Int /\ d.army_composition[unit] % 10 = 0
    /\ IsNumber(d.retreat_threshold)
    /\ d.chat_message # Null => d.chat_message.size > 0

\* The builder leaves alone what is complete and valid: of what the contract lets
\* the model and the rules ask for, nothing is bent on its way to the game.  (What
\* is not valid is: the rules' "nearest_enemy" leaves as no direction.)
ValidIsKept ==
    command # Null /\ IsComplete(raw) => (IsValid(raw) => command = raw)

\* Whenever the models fail a command goes out (tests/integration/
\* test_pipe_roundtrip.py:206-209), with the strategy of get_command; what
\* stands in for it differs only for a base under attack and for an army that
\* is large without income.
FallbackAlwaysDecides ==
    [][pc = "query" /\ pc' # pc /\ source' = "fallback" =>
         /\ pc' = "put"
         /\ \/ command'.strategy = get_command(snapshot).strategy
            \/ /\ "fallback_strategy" \notin loaded
               /\ \/ snapshot.near_base > 50
                  \/ snapshot.land_military > 20 /\ snapshot.mass_income < 3]_vars

\* What the model had written of its answer holds no "}" before the last one.
IsFlat(a) ==
    LET told == Range(Generated(a))
    IN  /\ "begin" \in told
        /\ told \cap {"part", "thoughts_end", "army_composition_begin"} = {}
        /\ \A key \in told \cap {"chat_message", "reasoning"} :
             a.content[key] # Null => a.content[key].odd # "brace"

\* With the stop token an answer is used if and only if it is flat; so no army
\* composition that the model chooses ever reaches the game.
OnlyFlatAnswersUsed ==
    stops /\ answer # Null =>
      /\ source = "model" <=> IsFlat(answer)
      /\ source = "model" /\ command # Null /\ "command_builder" \in loaded
           => command.army_composition = Default

-----------------------------------------------------------------------------
(* What the contract says *)

\* contracts/python-llm-server.md:85: the stop token is there to "ensure JSON
\* termination".  So an answer that is complete and in the form that the prompt
\* asks for becomes the decision.
ObedientAnswerUsed ==
    /\ stops /\ answer # Null
    /\ answer.thoughts = "none" /\ answer.n >= Len(Text(answer.content))
    /\ IsComplete(answer.content) /\ IsValid(answer.content)
    => source = "model"
=============================================================================
