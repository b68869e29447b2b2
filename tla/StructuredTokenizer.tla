------------------------ MODULE StructuredTokenizer ------------------------
(***************************************************************************)
(* core/structured_tokenizer.py: records are anonymized and de-anonymized  *)
(* by coroutines on one event loop, each of which captures the policy and  *)
(* the key of its system, works on the record, and awaits one call of the  *)
(* token store; the policy may be reloaded, and other coroutines run,      *)
(* while it waits.  A coroutine is named by its call of the store, and     *)
(* what it returns is a function of what it captured and of that call.     *)
(***************************************************************************)
EXTENDS TokenStore, CryptoEngine, Sequences

CONSTANTS Field,      \* dotted paths of the PII fields of the policies
          Nested,     \* the paths with a dot
          Prefix,     \* token prefixes, NoPrefix among them
          NoPrefix,
          Null,       \* the value of a field that is absent or null
          Broken,     \* a path that runs through something that is no object
          NotADict,   \* a JSON document that is no object
          NoConfig,   \* system unknown, or without a structured section
          NoTask,
          AnonymizeCalls,    \* the calls requests to anonymize may make
          DeanonymizeCalls,  \* the calls requests to de-anonymize may make
          Policies,   \* the contents the policy file may have
          Records,    \* the records clients send for anonymization
          Lists,      \* the lists of records clients send as one batch
          Foreign     \* records sent for de-anonymization that hold no token

VARIABLES policy,  \* the loaded policy: system -> config with its key
          task     \* what each coroutine captured when it started

vars == <<storeVars, policy, task>>

-----------------------------------------------------------------------------
\* PIIField and StructuredConfig, with the key get_encryption_key returns.
FieldConfig == [name: Field, format: {"uuid", "deterministic", "prefixed"},
                deterministic: BOOLEAN, prefix: Prefix, nullable: BOOLEAN]

Config == [fields: Seq(FieldConfig), ttl: Nat, key: EncKey]

\* get_system_config and get_encryption_key, which raise for NoConfig.
ConfigOf(s) == IF s \in DOMAIN policy THEN policy[s] ELSE NoConfig

\* A value other than a string, number or boolean is stored as its str().
ValueType == TypeName \cup {"other"}

\* uuid4 never repeats, and HMAC-SHA256 is injective in the key and the text.
\* A uuid is named by the coroutine and the position it was drawn for.
UuidToken == [prefix: Prefix, call: Call, at: Position]
HmacToken == [prefix: Prefix, key: EncKey, text: Text]

TokenString == Text \cup UuidToken \cup HmacToken

\* A record maps each path to its value; clients send texts for anonymization,
\* and anything that may be a token for de-anonymization.
InputRecord == [Field -> [text: Text, type: ValueType] \cup {Null, Broken}]
Record == [Field -> [text: TokenString, type: ValueType] \cup {Null, Broken}]

IsPolicy(p) == /\ DOMAIN p \subseteq System /\ p \in [DOMAIN p -> Config]
               /\ \A s \in DOMAIN p : DOMAIN p[s].fields \subseteq Index

IsList(recs) == recs \in Seq(InputRecord \cup {NotADict}) /\ DOMAIN recs \subseteq Index

ASSUME CallsAssumption == AnonymizeCalls \cup DeanonymizeCalls \subseteq Call
ASSUME TokenAssumption == TokenString \subseteq Token /\ NoPrefix \in Prefix
ASSUME BlobAssumption ==
    \A text \in Text, key \in EncKey, type \in TypeName : Encrypt(text, key, type) \in Blob
ASSUME PoliciesAssumption == \A p \in Policies : IsPolicy(p)
ASSUME InputsAssumption == /\ Records \subseteq InputRecord \cup {NotADict} /\ 1 \in Index
                           /\ \A recs \in Lists : IsList(recs)
                           /\ Foreign \subseteq Record

\* Fault: a keyed token that does not depend on the value.
GenerateTokenForPrefix(f, key, text, c, at) ==
    [prefix |-> f.prefix, key |-> key, text |-> CHOOSE t \in Text : TRUE]

\* generate_token: the flag counts for the prefixed format only.
GenerateToken(f, key, text, c, at) ==
    LET prefix == IF f.format = "prefixed" THEN f.prefix ELSE NoPrefix
        keyed  == f.format = "deterministic" \/ (f.format = "prefixed" /\ f.deterministic)
    IN  IF keyed THEN [prefix |-> prefix, key |-> key, text |-> text]
                 ELSE [prefix |-> prefix, call |-> c, at |-> at]

-----------------------------------------------------------------------------
\* extract_field_value raises, or the field is null and may not be.
FieldFails(rec, f) == rec[f.name] = Broken \/ (rec[f.name] = Null /\ ~f.nullable)

RecordFails(rec, cfg) == \E i \in DOMAIN cfg.fields : FieldFails(rec, cfg.fields[i])

\* The fields that got a token: the loop over pii_fields stops at the first
\* field that fails, and skips nulls.
Tokenized(rec, cfg) ==
    {i \in DOMAIN cfg.fields :
        /\ rec[cfg.fields[i].name] # Null
        /\ \A j \in 1..i : ~FieldFails(rec, cfg.fields[j])}

\* The token of field i of record r.
TokenAt(c, cfg, recs, r, i) ==
    GenerateToken(cfg.fields[i], cfg.key, recs[r][cfg.fields[i].name].text, c, <<r, i>>)

\* The list of TokenMappings of a batch, failed records' first fields included.
Mappings(c, s, cfg, recs) ==
    [p \in {q \in (DOMAIN recs) \X (DOMAIN cfg.fields) : q[2] \in Tokenized(recs[q[1]], cfg)} |->
        LET value == recs[p[1]][cfg.fields[p[2]].name]
        IN  [system |-> s,
             token  |-> TokenAt(c, cfg, recs, p[1], p[2]),
             blob   |-> Encrypt(value.text, cfg.key, value.type),
             ttl    |-> cfg.ttl]]

\* Record r with the tokens of the fields in F set, as strings.
WithTokens(c, cfg, recs, r, F) ==
    [n \in Field |->
        IF \E i \in F : cfg.fields[i].name = n
        THEN [text |-> TokenAt(c, cfg, recs, r, CHOOSE i \in F : cfg.fields[i].name = n),
              type |-> "str"]
        ELSE recs[r][n]]

\* record.copy() is shallow: set_field_value on a nested path writes through
\* to the object the caller's record holds, which error_record copies again.
ErrorRecord(c, cfg, recs, r) ==
    WithTokens(c, cfg, recs, r,
               {i \in Tokenized(recs[r], cfg) : cfg.fields[i].name \in Nested})

-----------------------------------------------------------------------------
Init ==
    /\ StoreInit
    /\ policy \in Policies
    /\ task = [c \in Call |-> NoTask]

Capture(c, op, s, input) ==
    task' = [task EXCEPT ![c] =
                [op |-> op, system |-> s, config |-> ConfigOf(s), input |-> input]]

\* anonymize_record up to its only await: a record that fails stores nothing.
AnonymizeRecord(c, s, rec) ==
    /\ Capture(c, "record", s, <<rec>>)
    /\ StoreBatch(c, IF ConfigOf(s) = NoConfig \/ rec = NotADict
                     THEN Nothing
                     ELSE IF RecordFails(rec, ConfigOf(s))
                          THEN Nothing
                          ELSE Mappings(c, s, ConfigOf(s), <<rec>>))
    /\ UNCHANGED policy

\* anonymize_batch up to its only await: the mappings of all records go into
\* one store_batch; a document that is no object raises out of the loop.
AnonymizeBatch(c, s, recs) ==
    /\ Capture(c, "batch", s, recs)
    /\ StoreBatch(c, IF ConfigOf(s) = NoConfig \/ \E r \in DOMAIN recs : recs[r] = NotADict
                     THEN Nothing
                     ELSE Mappings(c, s, ConfigOf(s), recs))
    /\ UNCHANGED policy

\* deanonymize_record up to its only await: the tokens of all fields with a
\* value are looked up in one retrieve_batch.
DeanonymizeRecord(c, s, rec) ==
    /\ Capture(c, "deanonymize", s, <<rec>>)
    /\ LET cfg == ConfigOf(s)
       IN  RetrieveBatch(c, IF cfg = NoConfig THEN Nothing
                            ELSE [i \in {j \in DOMAIN cfg.fields :
                                            rec[cfg.fields[j].name] \notin {Null, Broken}} |->
                                     BuildKey(s, rec[cfg.fields[i].name].text)])
    /\ UNCHANGED policy

\* reload_policy on the loop: it never yields, and a file that fails to load
\* changes nothing.
Reload ==
    /\ \E p \in Policies : policy' = p
    /\ UNCHANGED <<storeVars, task>>

-----------------------------------------------------------------------------
\* Fault: the call of the store is not awaited.
AnsweredUnawaited(c) == status[c] # "idle"

\* What the coroutines return.
Answered(c) == status[c] \in {"done", "failed"}

Anonymizer(c) == task[c] # NoTask /\ task[c].op \in {"record", "batch"}
Deanonymizer(c) == task[c] # NoTask /\ task[c].op = "deanonymize"

\* The error path itself fails on a document that is no object.
Raises(c) == \E r \in DOMAIN task[c].input : task[c].input[r] = NotADict

\* Fault: a failed store_batch goes unnoticed.
HasErrorUnlessStored(c, r) ==
    task[c].config = NoConfig \/ RecordFails(task[c].input[r], task[c].config)

\* Fault: one record that fails is an error of its whole batch.
HasErrorIfAnyFails(c, r) ==
    \/ task[c].config = NoConfig
    \/ status[c] = "failed"
    \/ \E q \in DOMAIN task[c].input : RecordFails(task[c].input[q], task[c].config)

\* Result r of anonymize_record or anonymize_batch carries an error.
HasError(c, r) ==
    \/ task[c].config = NoConfig
    \/ status[c] = "failed"
    \/ RecordFails(task[c].input[r], task[c].config)

\* AnonymizedRecord.record of result r.
ResultRecord(c, r) ==
    LET t == task[c]
    IN  IF t.config = NoConfig
        THEN t.input[r]
        ELSE IF HasError(c, r)
             THEN ErrorRecord(c, t.config, t.input, r)
             ELSE WithTokens(c, t.config, t.input, r, Tokenized(t.input[r], t.config))

\* The results clients take for anonymized records.
Succeeded(c, r) ==
    /\ Anonymizer(c) /\ Answered(c) /\ ~Raises(c)
    /\ r \in DOMAIN task[c].input
    /\ ~HasError(c, r)

\* What deanonymize_record does with field i: [ok, text, type] or an entry of
\* its errors.  A failed retrieve returns the record as it came.
Restored(c, i) ==
    LET blob == Answer(c, query[c][i])
    IN  IF blob = NotFound THEN [ok |-> FALSE, error |-> "missing"]
        ELSE LET plain == Decrypt(blob, task[c].config.key)
             IN  IF plain.ok THEN plain ELSE [ok |-> FALSE, error |-> "undecryptable"]

\* The fields of a de-anonymized record that were looked up.
LookedUp(c) == IF Deanonymizer(c) /\ status[c] = "done" THEN DOMAIN query[c] ELSE {}

-----------------------------------------------------------------------------
\* Clients de-anonymize what they were given, or records never anonymized.
ReturnedRecords ==
    UNION {{ResultRecord(c, r) : r \in {q \in DOMAIN task[c].input : Succeeded(c, q)}} :
              c \in {a \in Call : Anonymizer(a)}}

Next ==
    \/ \E c \in AnonymizeCalls, s \in System, rec \in Records : AnonymizeRecord(c, s, rec)
    \/ \E c \in AnonymizeCalls, s \in System, recs \in Lists : AnonymizeBatch(c, s, recs)
    \/ \E c \in DeanonymizeCalls, s \in System : \E rec \in ReturnedRecords \cup Foreign :
          DeanonymizeRecord(c, s, rec)
    \/ Reload
    \/ StoreStep /\ UNCHANGED <<policy, task>>

Spec == Init /\ [][Next]_vars
-----------------------------------------------------------------------------
TaskType == [op: {"record", "batch", "deanonymize"}, system: System,
             config: Config \cup {NoConfig}, input: Seq(Record \cup {NotADict})]

ASSUME NoTaskAssumption == NoTask \notin TaskType

TypeOK ==
    /\ StoreTypeOK
    /\ IsPolicy(policy)
    /\ task \in [Call -> TaskType \cup {NoTask}]
    /\ \A c \in Call : task[c] = NoTask <=> status[c] = "idle"

\* Input value of field i of record r of an anonymizing coroutine.
Original(c, r, i) == task[c].input[r][task[c].config.fields[i].name]

IssuedKey(c, r, i) ==
    BuildKey(task[c].system, TokenAt(c, task[c].config, task[c].input, r, i))

\* No PII value is lost: in a record returned without error every PII field
\* that was not null holds a string under which the server has the value,
\* readable with the key that was in force, until its TTL ends; whatever other
\* coroutines stored, resent or were told meanwhile (anonymize_record,
\* anonymize_batch).
AnonymizedValuesRecoverable ==
    \A c \in Call : \A r \in IF Anonymizer(c) THEN DOMAIN task[c].input ELSE {} :
        Succeeded(c, r) =>
            LET cfg    == task[c].config
                result == ResultRecord(c, r)
            IN  \A i \in {j \in DOMAIN cfg.fields : Original(c, r, j) # Null} :
                    LET key == BuildKey(task[c].system, result[cfg.fields[i].name].text)
                    IN  \/ key \in expired
                        \/ /\ key \in DOMAIN db
                           /\ Decrypt(db[key].blob, cfg.key).ok
                           /\ Decrypt(db[key].blob, cfg.key).text = Original(c, r, i).text

\* De-anonymizing a token that was returned for a value gives that value, or
\* reports the token missing, or undecryptable if a reload has replaced the
\* key in between; never another value (deanonymize_record).
DeanonymizeInvertsAnonymize ==
    \A d \in Call : \A f \in LookedUp(d) :
        \A c \in Call : \A r \in IF Anonymizer(c) THEN DOMAIN task[c].input ELSE {} :
            Succeeded(c, r) =>
                \A i \in Tokenized(task[c].input[r], task[c].config) :
                    IssuedKey(c, r, i) = query[d][f] =>
                        LET value == Restored(d, f)
                        IN  IF value.ok
                            THEN value.text = Original(c, r, i).text
                            ELSE value.error = "undecryptable" =>
                                     task[d].config.key # task[c].config.key

\* A token that a client already holds is found when it is looked up, unless
\* it has expired: no result is returned ahead of the write it stands for.
ReturnedTokensAreFound ==
    [][\A d \in Call : \A f \in DOMAIN got'[d] \ DOMAIN got[d] :
          got'[d][f] = NotFound =>
              \A c \in Call : \A r \in IF Anonymizer(c) THEN DOMAIN task[c].input ELSE {} :
                  Succeeded(c, r) =>
                      \A i \in Tokenized(task[c].input[r], task[c].config) :
                          IssuedKey(c, r, i) = query[d][f] => query[d][f] \in expired]_vars

\* A value that deanonymize_record restores was anonymized by some request
\* for the same system under that very token: systems that share a key or a
\* token never see each other's values (build_key).
RestoredValuesBelongToSystem ==
    \A d \in Call : \A f \in LookedUp(d) :
        Restored(d, f).ok =>
            \E c \in Call : /\ Anonymizer(c)
                           /\ task[c].system = task[d].system
                           /\ \E p \in DOMAIN batch[c] :
                                 /\ KeyOf(batch[c][p]) = query[d][f]
                                 /\ Original(c, p[1], p[2]).text = Restored(d, f).text

\* What the requirements say of a record that fails: it is returned as it came
\* (anonymize_record's and anonymize_batch's error_record).
ErrorRecordsUnmodified ==
    \A c \in Call : \A r \in IF Anonymizer(c) THEN DOMAIN task[c].input ELSE {} :
        Answered(c) /\ ~Raises(c) /\ HasError(c, r) => ResultRecord(c, r) = task[c].input[r]

\* What the type byte is for: a restored value has the type it had when the
\* token was returned for it (anonymize_record, deanonymize_record).
TypesPreserved ==
    \A d \in Call : \A f \in LookedUp(d) :
        Restored(d, f).ok =>
            \A c \in Call : \A r \in IF Anonymizer(c) THEN DOMAIN task[c].input ELSE {} :
                Succeeded(c, r) =>
                    \A i \in Tokenized(task[c].input[r], task[c].config) :
                        IssuedKey(c, r, i) = query[d][f] /\ Original(c, r, i).type \in TypeName
                            => Restored(d, f).type = Original(c, r, i).type

-----------------------------------------------------------------------------
\* The promise the tokenizer implements: the vault's bindings are the blobs'
\* plaintexts, read from the server or, for a key that has expired, from the
\* request that stored it; its promises are the tokens of returned results.
PlainTextOf(k) ==
    IF k \in DOMAIN db THEN db[k].blob.text
    ELSE LET c == CHOOSE a \in Call : \E p \in DOMAIN batch[a] : KeyOf(batch[a][p]) = k
         IN  batch[c][CHOOSE p \in DOMAIN batch[c] : KeyOf(batch[c][p]) = k].blob.text

ReturnedKeys ==
    UNION {UNION {{IssuedKey(c, r, i) : i \in Tokenized(task[c].input[r], task[c].config)} :
                     r \in {q \in DOMAIN task[c].input : Succeeded(c, q)}} :
              c \in {a \in Call : Anonymizer(a)}}

Vault == INSTANCE TokenVault
         WITH bound    <- [k \in DOMAIN db \cup expired |-> PlainTextOf(k)],
              live     <- DOMAIN db,
              gone     <- expired,
              promised <- ReturnedKeys

\* The tokenizer over its store implements the vault: no step ever changes
\* what a token stands for, drops it other than by expiry, or returns it
\* before it is stored.
ImplementsVault == Vault!VaultSpec
=============================================================================
