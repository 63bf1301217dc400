----------------------------- MODULE LLMAnswer -----------------------------
(* From the text of a model's answer to a decision: what Ollama returns for   *)
(* the request of LLMClient._query_model (server/llm_client.py), and how that *)
(* is cleaned and parsed.                                                     *)
(*                                                                            *)
(* A text is a sequence of tokens: "begin" and "end", the braces of an        *)
(* object; a key with its value; "army_composition_begin", that key with the  *)
(* brace its value begins with; a block of thoughts, with a "}" in it if it   *)
(* is "thoughts_end"; and "part", what is left of a token broken off.         *)
EXTENDS CommandBuilder, Functions

Before   == <<"strategy", "build_priority">>
After    == <<"attack_direction", "retreat_threshold", "chat_message", "reasoning">>
Opening  == {"begin", "army_composition_begin"}
Thoughts == {"thoughts", "thoughts_end"}
Tokens   == Range(Before) \cup Range(After) \cup Units \cup {"army_composition"}
              \cup Opening \cup {"end", "part"} \cup Thoughts

\* The text of a decision, its keys in the order of the instruction.
Text(content) ==
    LET of(keys, raw) == Among(keys, DOMAIN raw)
        comp == Get(content, "army_composition", Null)
    IN  <<"begin">> \o of(Before, content)
          \o (IF comp \in {Null, Other, Array}
              THEN of(<<"army_composition">>, content)
              ELSE <<"army_composition_begin">>
                     \o of(<<"land", "air", "navy">>, comp) \o <<"end">>)
          \o of(After, content) \o <<"end">>

-----------------------------------------------------------------------------
(* Ollama *)

\* An answer is the text of a decision after some thoughts, of which the model
\* generates n tokens, and perhaps a part of the next, before num_predict ends
\* it.  (An object is not null, whichever of its keys it has.)
IsAnswer(a) ==
    /\ IsDecision(a.content)
    /\ \A keys \in SUBSET DOMAIN a.content : Restrict(a.content, keys) # Null
    /\ a.thoughts \in Thoughts \cup {"none"} /\ a.n \in Nat /\ a.part \in BOOLEAN

\* All that it writes when nothing stops it.
Generated(a) ==
    LET text == (IF a.thoughts = "none" THEN << >> ELSE <<a.thoughts>>) \o Text(a.content)
    IN  IF a.n >= Len(text) THEN text
        ELSE SubSeq(text, 1, a.n) \o (IF a.part THEN <<"part">> ELSE << >>)

HasBrace(token, content) ==
    \/ token \in {"end", "thoughts_end"}
    \/ /\ token \in {"chat_message", "reasoning"}
       /\ content[token] # Null /\ content[token].odd = "brace"

\* options.stop: the response ends before the first "}", wherever it is.  A
\* server that does not honour it returns everything.
Response(a, stops) ==
    LET text   == Generated(a)
        braces == {i \in 1 .. Len(text) : HasBrace(text[i], a.content)}
        first  == CHOOSE i \in braces : \A j \in braces : i <= j
    IN  IF ~stops \/ braces = {} THEN text
        ELSE SubSeq(text, 1, first - 1)
               \o (IF text[first] = "end" THEN << >> ELSE <<"part">>)

-----------------------------------------------------------------------------
(* _query_model *)

\* Mutant: the text is taken as it came.
MutCleaned(text) == Among(text, Tokens \ Thoughts)

\* Whole thoughts are removed, and a "}" that is not there is put back.
Cleaned(text) ==
    LET stripped == Among(text, Tokens \ Thoughts)
    IN  IF stripped # << >> /\ stripped[Len(stripped)] = "end"
        THEN stripped ELSE Append(stripped, "end")

\* How many objects are open after the first k tokens.
Depth(text, k) ==
    Cardinality({i \in 1 .. k : text[i] \in Opening})
      - Cardinality({i \in 1 .. k : text[i] = "end"})

\* json.loads accepts it: one object, closed by its last token.
WellFormed(text) ==
    /\ \A i \in 1 .. Len(text) : text[i] # "part"
    /\ \A k \in 1 .. Len(text) - 1 : Depth(text, k) > 0
    /\ Depth(text, Len(text)) = 0

\* The decision that the text is parsed to, or Null.
Decision(a, stops) ==
    LET text == Cleaned(Response(a, stops))
        seen == {text[i] : i \in 1 .. Len(text)}
    IN  IF WellFormed(text)
        THEN Restrict(a.content, {k \in DOMAIN a.content :
               \/ k \in seen
               \/ k = "army_composition" /\ "army_composition_begin" \in seen})
        ELSE Null
=============================================================================
