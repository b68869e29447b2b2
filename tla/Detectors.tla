------------------------------ MODULE Detectors ------------------------------
(***************************************************************************)
(* core/detectors/: which findings a policy takes from a text.  What a     *)
(* regular expression matches and what the NER model answers are external; *)
(* how rules, labels, thresholds and stages select from them is kept.      *)
(*                                                                         *)
(* A text is a sequence of symbols, and a span [start, end) of it is       *)
(* 0-based and half-open, as in the code.                                  *)
(***************************************************************************)
EXTENDS Naturals, SequencesExt

CONSTANTS Blank,            \* the symbols strip() removes
          SymbolLength(_),  \* characters of a symbol
          PatternType,      \* the entity types PATTERNS has an expression for
          MatchesOf(_, _),  \* finditer: (type, text) -> sequence of spans
          NoModel,          \* the NER pipeline cannot be loaded
          Unset             \* an absent semantic section, an absent min_confidence

Length(text) == FoldLeft(LAMBDA n, symbol : n + SymbolLength(symbol), 0, text)

\* text[start:end], clipped to the text.
Slice(text, start, end) ==
    SubSeq(text, start + 1, IF end <= Len(text) THEN end ELSE Len(text))

Stripped(text) ==
    LET inner == {i \in DOMAIN text : text[i] \notin Blank}
    IN  IF inner = {} THEN <<>> ELSE SubSeq(text, Min(inner), Max(inner))

LabelMapping == [PER |-> "PERSON", PERSON |-> "PERSON", ORG |-> "ORG",
                 GPE |-> "LOCATION", LOC |-> "LOCATION"]

Canonical(label) == IF label \in DOMAIN LabelMapping THEN LabelMapping[label] ELSE label

\* The rules of a policy that ask for one kind of detection; of several rules
\* with one type the last one counts.
RulesFor(cfg, kind) == SelectSeq(cfg.entities, LAMBDA rule : kind \in rule.detection)

HasRule(rules, type) == \E i \in DOMAIN rules : rules[i].type = type

RuleOf(rules, type) == rules[SelectLastInSeq(rules, LAMBDA rule : rule.type = type)]

Finding(type, value, span, action) ==
    [type |-> type, value |-> value, start |-> span.start, end |-> span.end, action |-> action]

\* DeterministicDetector.detect: every match of every type that has a rule and
\* an expression, types in the order of their first rules.
Deterministic(text, cfg) ==
    LET rules   == RulesFor(cfg, "deterministic")
        IsFirst(i) == \A j \in 1..(i - 1) : rules[j].type # rules[i].type
        Found(type) ==
            LET spans == MatchesOf(type, text)
            IN  [k \in DOMAIN spans |->
                    Finding(type, Slice(text, spans[k].start, spans[k].end), spans[k],
                            RuleOf(rules, type).action)]
    IN  FlattenSeq([i \in DOMAIN rules |->
                       IF IsFirst(i) /\ rules[i].type \in PatternType
                       THEN Found(rules[i].type) ELSE <<>>])

SemanticEnabled(cfg) == cfg.semantic # Unset /\ cfg.semantic.enabledFor # {}

\* GreekNERDetector.detect on the model's answer: labels become types, types
\* that are not enabled and scores below the threshold are dropped, and the
\* value is the model's word for the span, not the text's.
Semantic(cfg, ner) ==
    LET rules == RulesFor(cfg, "semantic")
        Threshold(type) ==
            IF HasRule(rules, type) /\ RuleOf(rules, type).minConfidence # Unset
            THEN RuleOf(rules, type).minConfidence ELSE cfg.semantic.threshold
        Accepted(e) == /\ Canonical(e.label) \in cfg.semantic.enabledFor
                       /\ e.score >= Threshold(Canonical(e.label))
        Action(type) == IF HasRule(rules, type) THEN RuleOf(rules, type).action ELSE "tokenize"
        accepted == SelectSeq(ner, Accepted)
    IN  IF ~SemanticEnabled(cfg) THEN <<>>
        ELSE [i \in DOMAIN accepted |->
                 LET type == Canonical(accepted[i].label)
                 IN  Finding(type, accepted[i].word, accepted[i], Action(type))]

\* HybridDetector.detect's prefilter (min_length 0 when it is disabled).
Prefiltered(text, cfg) == Length(Stripped(text)) < cfg.minLength

\* Which stages run (_get_detector_for_config, HybridDetector.detect).
Stages(text, cfg) ==
    CASE cfg.detector = "deterministic" -> {"deterministic"}
      [] cfg.detector = "semantic"      -> {"semantic"}
      [] OTHER -> IF Prefiltered(text, cfg) THEN {}
                  ELSE {kind \in {"deterministic", "semantic"} : RulesFor(cfg, kind) # <<>>}

\* The model is needed and cannot be loaded: detect raises.
DetectRaises(text, cfg, ner) ==
    "semantic" \in Stages(text, cfg) /\ SemanticEnabled(cfg) /\ ner = NoModel

\* The findings of the stages, deterministic ones first, of the configured
\* types (anonymize_text's filter).
Detected(text, cfg, ner) ==
    LET found == (IF "deterministic" \in Stages(text, cfg) THEN Deterministic(text, cfg) ELSE <<>>)
                 \o (IF "semantic" \in Stages(text, cfg) THEN Semantic(cfg, ner) ELSE <<>>)
    IN  SelectSeq(found, LAMBDA f : HasRule(cfg.entities, f.type))
=============================================================================
