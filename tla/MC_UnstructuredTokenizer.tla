---------------------- MODULE MC_UnstructuredTokenizer ----------------------
(***************************************************************************)
(* UnstructuredTokenizer on texts of a word w, the joiner u, a blank b and *)
(* a nine-digit number n, and two policies: a hybrid one that keeps tokens *)
(* for ever, and a deterministic one with another key, redaction and       *)
(* expiry that also knows a second system.                                 *)
(***************************************************************************)
EXTENDS UnstructuredTokenizer, TLC

CONSTANTS s1, s2, k1, k2, w, low, u, b, n, c1, c2, c3

MCSymbolLength(symbol) ==
    CASE symbol \in {w, low} -> 6
      [] symbol = n          -> 9
      [] symbol \in {u, b}   -> 1
      [] symbol \in Redaction -> 20
      [] OTHER               -> 36

Span(i) == [start |-> i - 1, end |-> i]
Spans(text, S) == LET at == SetToSortSeq({i \in DOMAIN text : text[i] \in S}, <)
                  IN  [k \in DOMAIN at |-> Span(at[k])]

\* A number is matched next to anything but digits, a token at a word boundary.
MCMatchesOf(type, text) ==
    IF type = "AFM_GR" THEN Spans(text, {n})
    ELSE SelectSeq(Spans(text, UuidToken),
                   LAMBDA span : span.start = 0 \/ text[span.start] \notin {w, low, u, n})

DetRule(type, action) ==
    [type |-> type, detection |-> {"deterministic"}, action |-> action, minConfidence |-> Unset]
Person == [type |-> "PERSON", detection |-> {"semantic"}, action |-> "tokenize", minConfidence |-> 9]

Hybrid == [detector |-> "hybrid", maxLength |-> 60, minLength |-> 8,
           semantic |-> [threshold |-> 5, enabledFor |-> {"PERSON"}],
           entities |-> <<DetRule("AFM_GR", "tokenize"), Person>>, ttl |-> Unset, key |-> k1]
Strict == [detector |-> "deterministic", maxLength |-> 100, minLength |-> 8, semantic |-> Unset,
           entities |-> <<DetRule("AFM_GR", "redact"), DetRule("UUID", "tokenize")>>,
           ttl |-> 1, key |-> k2]

MCPolicies == {(s1 :> Hybrid), (s1 :> Strict @@ s2 :> Strict)}

\* Too short for the hybrid policy's prefilter, a value glued to a word, a
\* name of two words before a number.
MCTexts   == {<<b, w>>, <<w, u, n>>, <<w, b, w, b, n>>}
MCForeign == {<<w, b>>}

Entity(label, score, start, end, word) ==
    [label |-> label, score |-> score, start |-> start, end |-> end, word |-> word]

\* The model finds nothing, or a person, below the threshold or not, whose span
\* meets a number's or not and whose word is the span's text or not.
MCNerAnswers(text) ==
    CASE text = <<w, u, n>> ->
            {NoModel,
             <<Entity("PER", 9, 0, 1, <<low>>), Entity("ORG", 9, 0, 1, <<w>>)>>,
             <<Entity("PER", 8, 0, 1, <<w>>), Entity("PER", 9, 0, 3, <<w, u, n>>)>>}
      [] text = <<w, b, w, b, n>> -> {<<Entity("PER", 9, 0, 3, <<w, b, w>>)>>}
      [] OTHER -> {<<>>}

MCToken == UuidToken \cup [glued : UuidToken]
MCText  == {<<n>>, <<low>>, <<w, u, n>>, <<w, b, w>>} \cup {<<token>> : token \in UuidToken}
MCTextLength == [text \in MCText |-> Length(text)]

Symmetry == Permutations(AnonymizeCalls)
=============================================================================
