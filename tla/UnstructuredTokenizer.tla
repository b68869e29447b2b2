------------------------ MODULE UnstructuredTokenizer ------------------------
(***************************************************************************)
(* core/unstructured_tokenizer.py and the two HTTP handlers over it: free  *)
(* text is anonymized and de-anonymized by coroutines, each of which       *)
(* captures the policy and the key of its system, works on the text, and   *)
(* awaits one call of the token store.  A coroutine is named by that call, *)
(* and its answer is a function of what it captured and of the call.       *)
(***************************************************************************)
EXTENDS TokenStore, CryptoEngine, Detectors, Enumeration

CONSTANTS Char,            \* the symbols of a text that are no token
          WordChar,        \* those that \w matches, the joiner excepted
          Joiner,          \* "_"
          NoConfig,        \* system unknown, or without an unstructured section
          NoTask,
          AnonymizeCalls, DeanonymizeCalls,
          Policies,        \* the contents the policy file may have
          Texts,           \* the texts clients send for anonymization
          NerAnswers(_),   \* what the NER model may answer for a text
          Foreign          \* texts sent for de-anonymization that were never anonymized

VARIABLES policy,  \* the loaded policy: system -> config with its key
          task     \* what each coroutine captured when it started

vars == <<storeVars, policy, task>>

-----------------------------------------------------------------------------
\* uuid4 never repeats: a token is named by its coroutine and its position
\* among that coroutine's findings.
UuidToken == [call: Call, at: Position]

\* What a finding that is not tokenized is replaced by.
Redaction == [redacted: STRING]

Symbol == Char \cup UuidToken \cup Redaction

Rule == [type: STRING, detection: SUBSET {"deterministic", "semantic"},
         action: {"tokenize", "redact"}, minConfidence: Nat \cup {Unset}]

Config == [detector: {"deterministic", "semantic", "hybrid"}, maxLength: Nat, minLength: Nat,
           semantic: [threshold: Nat, enabledFor: SUBSET STRING] \cup {Unset},
           entities: Seq(Rule), ttl: Nat \cup {Unset}, key: EncKey]

\* validate_entity_configuration: a pure detector has no rule of the other
\* kind, and semantic rules without a semantic section get a default one.
IsConfig(cfg) ==
    /\ cfg \in Config
    /\ cfg.detector = "deterministic" => RulesFor(cfg, "semantic") = <<>>
    /\ cfg.detector = "semantic" => RulesFor(cfg, "deterministic") = <<>>
    /\ RulesFor(cfg, "semantic") # <<>> => cfg.semantic # Unset

ASSUME PoliciesAssumption ==
    \A p \in Policies : DOMAIN p \subseteq System /\ \A s \in DOMAIN p : IsConfig(p[s])
ASSUME InputsAssumption == Texts \subseteq Seq(Char) /\ Foreign \subseteq Seq(Symbol)
ASSUME JoinerAssumption == Joiner \in Char \ WordChar /\ WordChar \subseteq Char
ASSUME SymbolsAssumption == \A x \in Char : x \notin UuidToken \cup Redaction
ASSUME CallsAssumption == AnonymizeCalls \cup DeanonymizeCalls \subseteq Call
ASSUME TokenAssumption == UuidToken \cup [glued: UuidToken] \subseteq Token
ASSUME TextAssumption == Text \subseteq Seq(Symbol)
ASSUME BlobAssumption == \A text \in Text, key \in EncKey : Encrypt(text, key, "str") \in Blob

\* get_system_config and get_encryption_key, which raise for NoConfig.
ConfigOf(s) == IF s \in DOMAIN policy THEN policy[s] ELSE NoConfig

\* Fault: the TTL of a structured section that may be absent.
TokenTtlOfStructured(cfg) == cfg.ttl

\* token_ttl_seconds of the structured section, 0 without one.
TokenTtl(cfg) == IF cfg.ttl = Unset THEN 0 ELSE cfg.ttl

-----------------------------------------------------------------------------
\* Fault: the last position of a finding is not marked.
OverlapsButLast(f, g) == f.start < g.end /\ g.start < f.end - 1

Overlaps(f, g) == f.start < g.end /\ g.start < f.end

\* resolve_findings' sort: longest first, then leftmost, then as they came.
LongestFirst(findings) ==
    LET size(f)      == f.end - f.start
        Before(f, g) == size(f) > size(g) \/ (size(f) = size(g) /\ f.start < g.start)
    IN  {p \in (DOMAIN findings) \X (DOMAIN findings) :
            \/ Before(findings[p[1]], findings[p[2]])
            \/ ~Before(findings[p[2]], findings[p[1]]) /\ p[1] < p[2]}

\* resolve_findings: a finding is kept unless one already kept has a position
\* of it.
Resolve(findings) ==
    LET order == Listed(DOMAIN findings, LongestFirst(findings))
        Keep(kept, i) == IF \E k \in DOMAIN kept : Overlaps(kept[k], findings[i])
                         THEN kept ELSE Append(kept, findings[i])
    IN  FoldLeft(Keep, <<>>, order)

FindingType == [type: STRING, value: Text, start: Nat, end: Nat, action: {"tokenize", "redact"}]

\* Bound: a text has at most as many findings, and as many tokens, as there
\* are positions in a list.
IsBounded(list) == DOMAIN list \subseteq Index

\* What the expressions and the model may answer (external): non-empty spans
\* of the text, with values that hold no token the text does not.
IsFindings(findings, text) ==
    /\ findings \in Seq(FindingType) /\ IsBounded(findings)
    /\ \A i \in DOMAIN findings : /\ findings[i].start < findings[i].end
                                 /\ findings[i].end <= Len(text)
                                 /\ ToSet(findings[i].value) \cap UuidToken \subseteq ToSet(text)

TokenOf(c, k) == [call |-> c, at |-> <<1, k>>]

Replacement(c, findings, k) ==
    IF findings[k].action = "tokenize" THEN TokenOf(c, k) ELSE [redacted |-> findings[k].type]

\* Fault: replacements are spliced in from the left.
SpliceOrderForward(findings) ==
    {p \in (DOMAIN findings) \X (DOMAIN findings) : findings[p[1]].start < findings[p[2]].start}

\* apply_transformations sorts its replacements in descending order.
SpliceOrder(findings) ==
    {p \in (DOMAIN findings) \X (DOMAIN findings) : findings[p[1]].start > findings[p[2]].start}

\* apply_transformations: one splice per finding into the text so far.
Transformed(c, text, findings) ==
    LET Splice(result, k) ==
            Slice(result, 0, findings[k].start)
            \o <<Replacement(c, findings, k)>>
            \o Slice(result, findings[k].end, Len(result))
    IN  FoldLeft(Splice, text, Listed(DOMAIN findings, SpliceOrder(findings)))

\* A token is glued to a word that ends in "_" right before it: the prefixed
\* pattern of extract_tokens takes both for one token.
Glued(text, i) == i > 2 /\ text[i - 1] = Joiner /\ text[i - 2] \in WordChar \cup {Joiner}

\* extract_tokens, from left to right.
ExtractTokens(text) ==
    LET places == Ascending({i \in DOMAIN text : text[i] \in UuidToken})
    IN  [n \in DOMAIN places |->
            IF Glued(text, places[n]) THEN [glued |-> text[places[n]]] ELSE text[places[n]]]

\* str.replace of a token.
ReplaceToken(text, token, value) ==
    FlattenSeq([i \in DOMAIN text |-> IF text[i] = token THEN value ELSE <<text[i]>>])

-----------------------------------------------------------------------------
Init ==
    /\ StoreInit
    /\ policy \in Policies
    /\ task = [c \in Call |-> NoTask]

\* anonymize_text raises before it touches the store.
Refused(cfg, text, ner) ==
    IF cfg = NoConfig THEN TRUE
    ELSE Length(text) > cfg.maxLength \/ DetectRaises(text, cfg, ner)

\* The mappings of the findings to tokenize, keyed by their positions.
Mappings(c, s, cfg, kept) ==
    [p \in {<<1, k>> : k \in {n \in DOMAIN kept : kept[n].action = "tokenize"}} |->
        [system |-> s, token |-> TokenOf(c, p[2]),
         blob |-> Encrypt(kept[p[2]].value, cfg.key, "str"), ttl |-> TokenTtl(cfg)]]

\* The locals of a coroutine: filtered_findings and resolved_findings are the
\* findings it detected and kept.
Capture(c, op, s, text, refused, detected) ==
    task' = [task EXCEPT ![c] =
                [op |-> op, system |-> s, config |-> ConfigOf(s), text |-> text,
                 refused |-> refused, detected |-> detected, kept |-> Resolve(detected)]]

\* anonymize_text up to its only await that suspends (the detectors' do not).
AnonymizeText(c, s, text, ner) ==
    LET refused  == Refused(ConfigOf(s), text, ner)
        detected == IF refused THEN <<>> ELSE Detected(text, ConfigOf(s), ner)
    IN  /\ IsFindings(detected, text)
        /\ StoreBatch(c, IF refused THEN Nothing
                         ELSE Mappings(c, s, ConfigOf(s), Resolve(detected)))
        /\ Capture(c, "anonymize", s, text, refused, detected)
        /\ UNCHANGED policy

\* deanonymize_text up to its only await; without tokens it returns at once.
DeanonymizeText(c, s, text) ==
    /\ Capture(c, "deanonymize", s, text, ConfigOf(s) = NoConfig, <<>>)
    /\ LET tokens == ExtractTokens(text)
       IN  /\ IsBounded(tokens)
           /\ RetrieveBatch(c, IF ConfigOf(s) = NoConfig THEN Nothing
                               ELSE [n \in DOMAIN tokens |-> BuildKey(s, tokens[n])])
    /\ UNCHANGED policy

\* reload_policy on the loop: it never yields, and a file that fails to load
\* changes nothing.
Reload ==
    /\ \E p \in Policies : policy' = p
    /\ UNCHANGED <<storeVars, task>>

-----------------------------------------------------------------------------
Anonymizer(c) == task[c] # NoTask /\ task[c].op = "anonymize"
Deanonymizer(c) == task[c] # NoTask /\ task[c].op = "deanonymize"

\* Fault: an exception of store_batch does not leave anonymize_text.
SucceededRegardless(c) ==
    /\ task[c] # NoTask
    /\ status[c] \in {"done", "failed"}
    /\ ~task[c].refused

\* Fault: the text is answered before the store has replied.
SucceededUnawaited(c) ==
    /\ task[c] # NoTask
    /\ status[c] # "failed"
    /\ ~task[c].refused

\* The handlers answer with a text; any exception is status 500.
Succeeded(c) ==
    /\ task[c] # NoTask
    /\ status[c] = "done"
    /\ ~task[c].refused

AnonymizedText(c) == Transformed(c, task[c].text, task[c].kept)

\* The entity_map of the answer, without the types.
EntityMap(c) ==
    LET F == {k \in DOMAIN task[c].kept : task[c].kept[k].action = "tokenize"}
    IN  [token \in {TokenOf(c, k) : k \in F} |-> task[c].kept[token.at[2]]]

\* Fault: the key is looked up again after the await.
KeyOfCurrentPolicy(c) ==
    IF ConfigOf(task[c].system) = NoConfig THEN task[c].config.key ELSE ConfigOf(task[c].system).key

\* The key captured before the await.
KeyInUse(c) == task[c].config.key

\* What retrieve_batch and decrypt make of the n-th token of a text.
Retrieved(c, n) ==
    LET blob == Answer(c, query[c][n])
    IN  IF blob = NotFound THEN Corrupted ELSE Decrypt(blob, KeyInUse(c))

\* deanonymize_text after the await: each token that was found and decrypted
\* is replaced wherever it occurs in the text as it is by then.  All of them
\* are as long as a uuid, so they go in the order of their first occurrences.
DeanonymizedText(c) ==
    LET tokens == ExtractTokens(task[c].text)
        Restore(result, n) ==
            IF Retrieved(c, n).ok /\ \A m \in 1..(n - 1) : tokens[m] # tokens[n]
            THEN ReplaceToken(result, tokens[n], Retrieved(c, n).text) ELSE result
    IN  FoldLeft(Restore, task[c].text, [n \in DOMAIN tokens |-> n])

-----------------------------------------------------------------------------
\* The texts clients were given; they may anonymize them again, and send them
\* back as they are or one after the other.
Given == {AnonymizedText(c) : c \in {a \in Call : Anonymizer(a) /\ Succeeded(a)}}

Next ==
    \/ \E c \in AnonymizeCalls, s \in System : \E text \in Texts \cup Given :
          \E ner \in NerAnswers(text) : AnonymizeText(c, s, text, ner)
    \/ \E c \in DeanonymizeCalls, s \in System : \E text \in Given \cup Foreign :
          DeanonymizeText(c, s, text)
    \/ \E c \in DeanonymizeCalls, s \in System : \E text1, text2 \in Given :
          DeanonymizeText(c, s, text1 \o text2)
    \/ Reload
    \/ StoreStep /\ UNCHANGED <<policy, task>>

Spec == Init /\ [][Next]_vars
-----------------------------------------------------------------------------
TaskType == [op: {"anonymize", "deanonymize"}, system: System, config: Config \cup {NoConfig},
             text: Seq(Symbol), refused: BOOLEAN, detected: Seq(FindingType), kept: Seq(FindingType)]

ASSUME NoTaskAssumption == NoTask \notin TaskType

\* Every variable has its type, and a coroutine is as far as its call.
TypeOK ==
    /\ StoreTypeOK
    /\ policy \in Policies
    /\ task \in [Call -> TaskType \cup {NoTask}]
    /\ \A c \in Call : task[c] = NoTask <=> status[c] = "idle"

\* The findings a text is anonymized by are what "longest first" promises:
\* no two overlap, and each detected finding that is left out overlaps one
\* that is kept and comes before it (resolve_findings, line 95).
ResolutionIsLongestFirst ==
    \A c \in Call : Anonymizer(c) /\ Succeeded(c) =>
        LET kept     == task[c].kept
            detected == task[c].detected
        IN  /\ \A j, k \in DOMAIN kept : j # k =>
                   kept[j].end <= kept[k].start \/ kept[k].end <= kept[j].start
            /\ \A i \in DOMAIN detected :
                   \/ \E k \in DOMAIN kept : kept[k] = detected[i]
                   \/ \E k \in DOMAIN kept :
                         /\ kept[k].end - kept[k].start >= detected[i].end - detected[i].start
                         /\ kept[k].start < detected[i].end /\ detected[i].start < kept[k].end

\* What the text reads in one pass from the left: a kept finding becomes its
\* replacement, everything else stays.
InPlace(c) ==
    LET text == task[c].text
        Covering(i) == {k \in DOMAIN task[c].kept :
                           task[c].kept[k].start < i /\ i <= task[c].kept[k].end}
        Piece(i) == IF Covering(i) = {} THEN <<text[i]>>
                    ELSE LET k == CHOOSE j \in Covering(i) : TRUE
                         IN  IF task[c].kept[k].start + 1 = i
                             THEN <<Replacement(c, task[c].kept, k)>> ELSE <<>>
    IN  FlattenSeq([i \in DOMAIN text |-> Piece(i)])

\* Successive splices at offsets of the original text change each finding's
\* own span and nothing else (apply_transformations, line 146).
ReplacedInPlace ==
    \A c \in Call : Anonymizer(c) /\ Succeeded(c) => AnonymizedText(c) = InPlace(c)

\* No value is lost: every token of a text that was answered is in its entity
\* map, and the server has that entity's value under it, readable with the key
\* that was in force, until it expires (anonymize_text, line 242).
TextValuesRecoverable ==
    \A c \in Call : Anonymizer(c) /\ Succeeded(c) =>
        \A i \in DOMAIN AnonymizedText(c) :
            LET token == AnonymizedText(c)[i]
                key   == BuildKey(task[c].system, token)
            IN  token \in UuidToken /\ token.call = c =>
                    /\ token \in DOMAIN EntityMap(c)
                    /\ \/ key \in expired
                       \/ /\ key \in DOMAIN db
                          /\ Decrypt(db[key].blob, task[c].config.key).ok
                          /\ Decrypt(db[key].blob, task[c].config.key).text = EntityMap(c)[token].value

HoldsToken(text) == \E i \in DOMAIN text : text[i] \in UuidToken

\* Whether de-anonymization d can restore the token at place i of c's text.
Restorable(d, c, i) ==
    /\ task[d].system = task[c].system
    /\ task[d].config.key = task[c].config.key
    /\ ~Glued(task[d].text, i)
    /\ Answer(d, BuildKey(task[d].system, task[d].text[i])) # NotFound

\* De-anonymizing an answered text puts back each finding's value, and only
\* that, wherever its token is not glued to a word, was found, and is read with
\* the key it was written with; every other symbol stays as it is.  It is
\* stated for texts and values without tokens, since replacement is repeated in
\* the changing text (deanonymize_text, line 362).
RestoreInvertsAnonymize ==
    \A d, c \in Call :
        /\ Deanonymizer(d) /\ Succeeded(d)
        /\ Anonymizer(c) /\ Succeeded(c)
        /\ ~HoldsToken(task[c].text)
        /\ task[d].text = AnonymizedText(c)
        => LET text == task[d].text
               Piece(i) == IF text[i] \in DOMAIN EntityMap(c) /\ Restorable(d, c, i)
                           THEN EntityMap(c)[text[i]].value ELSE <<text[i]>>
           IN  DeanonymizedText(d) = FlattenSeq([i \in DOMAIN text |-> Piece(i)])

\* A token in a text that a client already holds is found when it is looked
\* up, unless it has expired: no text is answered ahead of its writes
\* (anonymize_text awaits store_batch, line 345).
AnsweredTokensAreFound ==
    [][\A d \in Call : \A n \in DOMAIN got'[d] \ DOMAIN got[d] :
          got'[d][n] = NotFound =>
              \A c \in Call : Anonymizer(c) /\ Succeeded(c) =>
                  \A token \in DOMAIN EntityMap(c) :
                      BuildKey(task[c].system, token) = query[d][n] => query[d][n] \in expired]_vars

\* What comes back is of the text's own system: each symbol of it was in the
\* text, or is of a value that was anonymized for this system under a token
\* of the text; systems that share a key do not read each other's tokens
\* (build_key), however often a restored value is replaced again.
RestoredTextIsOfSystem ==
    \A d \in Call : Deanonymizer(d) /\ Succeeded(d) =>
        LET bound == {c \in Call : /\ Anonymizer(c)
                                   /\ ~task[c].refused
                                   /\ task[c].system = task[d].system}
            given == ToSet(task[d].text)
        IN  \A symbol \in ToSet(DeanonymizedText(d)) \ given :
                \E c \in bound : \E token \in DOMAIN EntityMap(c) \cap given :
                    symbol \in ToSet(EntityMap(c)[token].value)
=============================================================================
