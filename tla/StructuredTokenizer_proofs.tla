--------------------- MODULE StructuredTokenizer_proofs ---------------------
(***************************************************************************)
(* The structured tokenizer over its store, for every set of systems,      *)
(* keys, policies, records and concurrent requests: its types, and that    *)
(* what it restores is what was anonymized, what it returns is stored, and *)
(* it implements TokenVault.                                               *)
(***************************************************************************)
EXTENDS StructuredTokenizer, TokenStore_proofs

-----------------------------------------------------------------------------
(* Fields, tokens and mappings. *)

\* A config of a loaded policy.
IsConfig(cfg) == cfg \in Config /\ DOMAIN cfg.fields \subseteq Index

Value == [text: Text, type: ValueType]

\* A field that gets a token exists and has a value.
LEMMA TokenizedValue ==
    ASSUME NEW cfg \in Config, NEW rec \in InputRecord, NEW i \in Tokenized(rec, cfg)
    PROVE  /\ i \in DOMAIN cfg.fields
           /\ cfg.fields[i] \in FieldConfig
           /\ cfg.fields[i].name \in Field
           /\ rec[cfg.fields[i].name] \in Value
<1>1. i \in DOMAIN cfg.fields /\ cfg.fields \in Seq(FieldConfig) /\ i \in 1..i
  BY DEF Tokenized, Config
<1>2. cfg.fields[i] \in FieldConfig
  BY <1>1
<1>5. cfg.fields[i].name \in Field
  BY <1>2 DEF FieldConfig
<1>3. /\ rec[cfg.fields[i].name] # Null
      /\ rec[cfg.fields[i].name] # Broken
  BY <1>1 DEF Tokenized, FieldFails
<1>4. rec[cfg.fields[i].name] \in Value
  BY <1>5, <1>3 DEF InputRecord, Value
<1>. QED BY <1>1, <1>2, <1>4, <1>5

\* generate_token makes tokens.
LEMMA TokenType ==
    ASSUME NEW c \in Call, NEW f \in FieldConfig, NEW key \in EncKey, NEW text \in Text,
           NEW at \in Position
    PROVE  GenerateToken(f, key, text, c, at) \in TokenString
BY TokenAssumption DEF GenerateToken, FieldConfig, TokenString, UuidToken, HmacToken

\* Equal tokens stand for the same text under the same key: a uuid is drawn
\* once, and a keyed token determines both.
LEMMA OneTokenOneText ==
    ASSUME NEW c, NEW f, NEW key, NEW text, NEW at,
           NEW d, NEW g, NEW key2, NEW text2, NEW at2,
           GenerateToken(f, key, text, c, at) = GenerateToken(g, key2, text2, d, at2)
    PROVE  \/ key = key2 /\ text = text2
           \/ c = d /\ at = at2
BY DEF GenerateToken

\* The key and the text of a blob are those it was made from.
LEMMA SealedWith ==
    ASSUME NEW text \in Text, NEW key \in EncKey, NEW type \in ValueType, NEW other
    PROVE  /\ Encrypt(text, key, type) \in Blob
           /\ Encrypt(text, key, type).text = text
           /\ Encrypt(text, key, type).key = key
           /\ Decrypt(Encrypt(text, key, type), other).ok <=> other = key
           /\ other = key => Decrypt(Encrypt(text, key, type), other).text = text
<1>1. ~(Encrypt(text, key, type).size < MinLength)
  BY EncryptedIsLong
<1>2. Encrypt(text, key, type) = Encrypt(text, key, IF type \in TypeName THEN type ELSE "str")
  BY DEF Encrypt, TypeName
<1>3. Encrypt(text, key, type) \in Blob
  BY <1>2, BlobAssumption DEF TypeName
<1>. QED BY <1>1, <1>3 DEF Encrypt, Decrypt, Plain, Corrupted

\* The mappings of a batch are one per tokenized field, each with that field's
\* token and blob.
LEMMA MappingsOfBatch ==
    ASSUME NEW c \in Call, NEW s \in System, NEW cfg, IsConfig(cfg), NEW recs,
           DOMAIN recs \subseteq Index, \A r \in DOMAIN recs : recs[r] \in InputRecord
    PROVE  /\ IsBatch(Mappings(c, s, cfg, recs))
           /\ \A r \in DOMAIN recs : \A i \in Tokenized(recs[r], cfg) :
                 <<r, i>> \in DOMAIN Mappings(c, s, cfg, recs)
           /\ \A p \in DOMAIN Mappings(c, s, cfg, recs) :
                 /\ p \in (DOMAIN recs) \X (DOMAIN cfg.fields)
                 /\ p[2] \in Tokenized(recs[p[1]], cfg)
<1>. DEFINE M == Mappings(c, s, cfg, recs)
            P == {q \in (DOMAIN recs) \X (DOMAIN cfg.fields) :
                     q[2] \in Tokenized(recs[q[1]], cfg)}
<1>1. DOMAIN M = P
  BY DEF Mappings
<1>2. P \subseteq Position
  BY DEF Position, IsConfig
<1>3. ASSUME NEW p \in P PROVE M[p] \in Mapping
  <2>. DEFINE value == recs[p[1]][cfg.fields[p[2]].name]
              f == cfg.fields[p[2]]
  <2>1. /\ p[1] \in DOMAIN recs /\ p[2] \in DOMAIN cfg.fields
        /\ p = <<p[1], p[2]>>
        /\ recs[p[1]] \in InputRecord
    OBVIOUS
  <2>2. f \in FieldConfig /\ value \in Value
    BY <2>1, TokenizedValue DEF IsConfig
  <2>3. cfg.key \in EncKey /\ cfg.ttl \in Nat /\ <<p[1], p[2]>> \in Position
    BY <1>2, <2>1 DEF IsConfig, Config
  <2>4. value.text \in Text /\ value.type \in ValueType
    BY <2>2 DEF Value
  <2>5. Encrypt(value.text, cfg.key, value.type) \in Blob
    <3>. HIDE DEF value
    <3>. QED BY <2>3, <2>4, SealedWith
  <2>6. TokenAt(c, cfg, recs, p[1], p[2]) \in Token
    <3>1. GenerateToken(f, cfg.key, value.text, c, <<p[1], p[2]>>) \in TokenString
      <4>. HIDE DEF f, value
      <4>. QED BY <2>2, <2>3, <2>4, TokenType
    <3>. QED BY <3>1, TokenAssumption DEF TokenAt
  <2>7. M[p] = [system |-> s, token |-> TokenAt(c, cfg, recs, p[1], p[2]),
                blob |-> Encrypt(value.text, cfg.key, value.type), ttl |-> cfg.ttl]
    BY DEF Mappings
  <2>. HIDE DEF M, value
  <2>. QED BY <2>3, <2>5, <2>6, <2>7 DEF Mapping
<1>4. M \in [P -> Mapping]
  <2>1. M = [p \in P |-> M[p]]
    BY DEF Mappings
  <2>. HIDE DEF M, P
  <2>. QED BY <1>3, <2>1
<1>5. \A r \in DOMAIN recs : \A i \in Tokenized(recs[r], cfg) : <<r, i>> \in P
  BY DEF Tokenized
<1>. HIDE DEF M
<1>6. IsBatch(M)
  BY <1>1, <1>2, <1>4 DEF IsBatch
<1>. QED BY <1>1, <1>5, <1>6 DEF M

\* What mapping <<r, i>> of a batch holds.
LEMMA MappingAt ==
    ASSUME NEW c, NEW s, NEW cfg, NEW recs, NEW r \in DOMAIN recs,
           NEW i \in DOMAIN cfg.fields, i \in Tokenized(recs[r], cfg)
    PROVE  /\ KeyOf(Mappings(c, s, cfg, recs)[<<r, i>>]) =
                 BuildKey(s, TokenAt(c, cfg, recs, r, i))
           /\ Mappings(c, s, cfg, recs)[<<r, i>>].blob =
                 Encrypt(recs[r][cfg.fields[i].name].text, cfg.key,
                         recs[r][cfg.fields[i].name].type)
<1>. DEFINE m == [system |-> s, token |-> TokenAt(c, cfg, recs, r, i),
                  blob |-> Encrypt(recs[r][cfg.fields[i].name].text, cfg.key,
                                   recs[r][cfg.fields[i].name].type),
                  ttl |-> cfg.ttl]
<1>1. Mappings(c, s, cfg, recs)[<<r, i>>] = m
  BY DEF Mappings
<1>. QED BY <1>1 DEF KeyOf

-----------------------------------------------------------------------------
(* The inductive invariant of the tokenizer. *)

\* The mappings a request to anonymize stores, given what it captured.
BatchFor(c, t) ==
    IF t.config = NoConfig \/ \E r \in DOMAIN t.input : t.input[r] = NotADict THEN Nothing
    ELSE IF t.op = "record" /\ RecordFails(t.input[1], t.config) THEN Nothing
    ELSE Mappings(c, t.system, t.config, t.input)

IsTask(t) == /\ t \in TaskType
             /\ t.config # NoConfig => IsConfig(t.config)
             /\ DOMAIN t.input \subseteq Index

\* The call of the store of each coroutine is the one its task makes.
AnonymizerInOrder(c) ==
    /\ IsList(task[c].input)
    /\ task[c].op = "record" => DOMAIN task[c].input = {1}
    /\ DOMAIN query[c] = {}
    /\ batch[c] = BatchFor(c, task[c])

DeanonymizerInOrder(c) ==
    /\ DOMAIN batch[c] = {}
    /\ DOMAIN query[c] # {} => task[c].config # NoConfig
    /\ \A f \in DOMAIN query[c] : query[c][f][1] = task[c].system
    /\ status[c] = "done" => DOMAIN got[c] = DOMAIN query[c]

TasksInOrder ==
    \A c \in Call :
        /\ task[c] # NoTask => IsTask(task[c])
        /\ task[c] = NoTask => DOMAIN query[c] = {}
        /\ Anonymizer(c) => AnonymizerInOrder(c)
        /\ Deanonymizer(c) => DeanonymizerInOrder(c)

TokenizerInv == StoreInv /\ TypeOK /\ TasksInOrder /\ ReadsOriginate

-----------------------------------------------------------------------------
(* The steps preserve it. *)

\* Initially no coroutine has started and nothing is stored.
LEMMA TokenizerInitInv == Init => TokenizerInv
<1>. SUFFICES ASSUME Init PROVE TokenizerInv
  OBVIOUS
<1>1. StoreInv
  BY StoreInitInv DEF Init
<1>2. /\ status = [c \in Call |-> "idle"]
      /\ query = [c \in Call |-> Nothing]
      /\ got = [c \in Call |-> Nothing]
      /\ expired = {}
      /\ task = [c \in Call |-> NoTask]
      /\ policy \in Policies
      /\ DOMAIN Nothing = {}
  BY DEF Init, StoreInit, Nothing
<1>3. TypeOK
  BY <1>1, <1>2, PoliciesAssumption DEF TypeOK, StoreInv
<1>4. TasksInOrder
  BY <1>2 DEF TasksInOrder, Anonymizer, Deanonymizer
<1>5. ReadsOriginate
  BY <1>2 DEF ReadsOriginate
<1>. QED BY <1>1, <1>3, <1>4, <1>5 DEF TokenizerInv

\* A request to anonymize starts: its batch is that of its task.
LEMMA AnonymizeInv ==
    ASSUME TokenizerInv, NEW c \in Call, NEW t, IsTask(t),
           t.op \in {"record", "batch"}, IsList(t.input),
           t.op = "record" => DOMAIN t.input = {1},
           task' = [task EXCEPT ![c] = t],
           StoreBatch(c, BatchFor(c, t)),
           UNCHANGED policy
    PROVE  TokenizerInv'
<1>. USE DEF TokenizerInv
<1>1. IsBatch(BatchFor(c, t))
  <2>1. IsBatch(Nothing)
    <3>1. DOMAIN Nothing = {} /\ Nothing \in [{} -> Mapping]
      BY DEF Nothing
    <3>. QED BY <3>1 DEF IsBatch
  <2>2. CASE t.config # NoConfig /\ \A r \in DOMAIN t.input : t.input[r] # NotADict
    <3>1. IsConfig(t.config) /\ t.system \in System /\ DOMAIN t.input \subseteq Index
      BY <2>2 DEF IsTask, TaskType
    <3>2. \A r \in DOMAIN t.input : t.input[r] \in InputRecord
      BY <2>2 DEF IsList
    <3>3. IsBatch(Mappings(c, t.system, t.config, t.input))
      BY <3>1, <3>2, MappingsOfBatch
    <3>. QED BY <2>1, <3>3 DEF BatchFor
  <2>. QED BY <2>1, <2>2 DEF BatchFor
<1>2. StoreInv'
  <2>. DEFINE b == BatchFor(c, t)
  <2>. HIDE DEF b
  <2>1. StoreBatch(c, b) /\ IsBatch(b) /\ StoreInv
    BY <1>1 DEF b
  <2>. QED BY <2>1, StoreBatchInv
<1>3. /\ status[c] = "idle"
      /\ batch' = [batch EXCEPT ![c] = BatchFor(c, t)]
      /\ status' \in {[status EXCEPT ![c] = "done"], [status EXCEPT ![c] = "writing"]}
      /\ UNCHANGED <<db, expired, query, got>>
  BY DEF StoreBatch
<1>4. t \in TaskType /\ t # NoTask
  BY NoTaskAssumption DEF IsTask
<1>5. /\ status \in [Call -> {"idle", "writing", "reading", "done", "failed"}]
      /\ task \in [Call -> TaskType \cup {NoTask}]
      /\ DOMAIN batch = Call
  BY DEF TypeOK, StoreInv, StoreTypeOK
<1>6. TypeOK'
  <2>1. task' \in [Call -> TaskType \cup {NoTask}]
    BY <1>4, <1>5
  <2>2. \A a \in Call : task'[a] = NoTask <=> status'[a] = "idle"
    BY <1>3, <1>4, <1>5 DEF TypeOK
  <2>3. IsPolicy(policy)'
    BY DEF TypeOK
  <2>. QED BY <1>2, <2>1, <2>2, <2>3 DEF TypeOK, StoreInv
<1>7. DOMAIN batch[c] = {} /\ DOMAIN got[c] = {} /\ DOMAIN query[c] = {}
  BY <1>3 DEF StoreInv, CallsInOrder, TypeOK, TasksInOrder
<1>8. TasksInOrder'
  <2>1. ASSUME NEW a \in Call, a # c
        PROVE  /\ task'[a] = task[a] /\ status'[a] = status[a] /\ batch'[a] = batch[a]
               /\ query'[a] = query[a] /\ got'[a] = got[a]
    BY <2>1, <1>3, <1>5
  <2>2. /\ task'[c] = t /\ batch'[c] = BatchFor(c, t) /\ DOMAIN query'[c] = {}
    BY <1>3, <1>5, <1>7
  <2>3. Anonymizer(c)' /\ ~Deanonymizer(c)'
    BY <1>4, <2>2 DEF Anonymizer, Deanonymizer
  <2>. QED BY <1>4, <2>1, <2>2, <2>3 DEF TasksInOrder, AnonymizerInOrder, DeanonymizerInOrder,
        Anonymizer, Deanonymizer
<1>9. ReadsOriginate'
  BY <1>3, <1>5, <1>7, ReadsOriginateKept
<1>. QED BY <1>2, <1>6, <1>8, <1>9

\* A coroutine captures a config of the loaded policy, or none.
LEMMA ConfigOfType ==
    ASSUME TypeOK, NEW s \in System
    PROVE  ConfigOf(s) # NoConfig => IsConfig(ConfigOf(s))
BY DEF TypeOK, IsPolicy, ConfigOf, IsConfig

\* A single record is anonymized: AnonymizeInv with its task.
LEMMA AnonymizeRecordInv ==
    ASSUME TokenizerInv, NEW c \in Call, NEW s \in System, NEW rec \in Records,
           AnonymizeRecord(c, s, rec)
    PROVE  TokenizerInv'
<1>. DEFINE t == [op |-> "record", system |-> s, config |-> ConfigOf(s), input |-> <<rec>>]
<1>1. t.input = <<rec>> /\ DOMAIN t.input = {1} /\ t.input[1] = rec
  OBVIOUS
<1>2. rec \in InputRecord \cup {NotADict} /\ InputRecord \subseteq Record /\ 1 \in Index
  BY InputsAssumption DEF InputRecord, Record, TokenString
<1>3. ConfigOf(s) \in Config \cup {NoConfig}
  BY ConfigOfType DEF TokenizerInv, IsConfig
<1>4. IsTask(t) /\ IsList(t.input)
  <2>1. t \in TaskType
    <3>1. <<rec>> \in Seq(Record \cup {NotADict})
      BY <1>2
    <3>. HIDE DEF TokenizerInv
    <3>. QED BY <1>3, <3>1 DEF TaskType
  <2>2. t.config # NoConfig => IsConfig(t.config)
    BY ConfigOfType DEF TokenizerInv
  <2>3. DOMAIN t.input \subseteq Index
    BY <1>1, <1>2
  <2>4. t.input \in Seq(InputRecord \cup {NotADict})
    BY <1>2
  <2>. QED BY <2>1, <2>2, <2>3, <2>4 DEF IsTask, IsList
<1>5. StoreBatch(c, BatchFor(c, t))
  <2>1. /\ ConfigOf(s) = NoConfig \/ rec = NotADict => BatchFor(c, t) = Nothing
        /\ ConfigOf(s) # NoConfig /\ rec # NotADict =>
              BatchFor(c, t) = IF RecordFails(rec, ConfigOf(s)) THEN Nothing
                               ELSE Mappings(c, s, ConfigOf(s), <<rec>>)
    BY <1>1 DEF BatchFor
  <2>. HIDE DEF t
  <2>. QED BY <2>1 DEF AnonymizeRecord
<1>6. /\ task' = [task EXCEPT ![c] = t]
      /\ UNCHANGED policy
  BY DEF AnonymizeRecord, Capture
<1>7. t.op = "record"
  OBVIOUS
<1>. HIDE DEF t
<1>. QED BY <1>1, <1>4, <1>5, <1>6, <1>7, AnonymizeInv

\* A batch is anonymized: AnonymizeInv with its task.
LEMMA AnonymizeBatchInv ==
    ASSUME TokenizerInv, NEW c \in Call, NEW s \in System, NEW recs \in Lists,
           AnonymizeBatch(c, s, recs)
    PROVE  TokenizerInv'
<1>. DEFINE t == [op |-> "batch", system |-> s, config |-> ConfigOf(s), input |-> recs]
<1>1. IsList(recs) /\ InputRecord \subseteq Record
  BY InputsAssumption DEF InputRecord, Record, TokenString
<1>2. ConfigOf(s) \in Config \cup {NoConfig}
  BY ConfigOfType DEF TokenizerInv, IsConfig
<1>3. IsTask(t) /\ IsList(t.input)
  <2>1. recs \in Seq(Record \cup {NotADict})
    BY <1>1 DEF IsList
  <2>2. t \in TaskType
    BY <1>2, <2>1 DEF TaskType
  <2>3. t.config # NoConfig => IsConfig(t.config)
    BY ConfigOfType DEF TokenizerInv
  <2>. QED BY <1>1, <2>2, <2>3 DEF IsTask, IsList
<1>4. StoreBatch(c, BatchFor(c, t))
  <2>1. /\ (ConfigOf(s) = NoConfig \/ \E r \in DOMAIN recs : recs[r] = NotADict) =>
              BatchFor(c, t) = Nothing
        /\ ~(ConfigOf(s) = NoConfig \/ \E r \in DOMAIN recs : recs[r] = NotADict) =>
              BatchFor(c, t) = Mappings(c, s, ConfigOf(s), recs)
    BY DEF BatchFor
  <2>. HIDE DEF t
  <2>. QED BY <2>1 DEF AnonymizeBatch
<1>5. /\ task' = [task EXCEPT ![c] = t]
      /\ UNCHANGED policy
  BY DEF AnonymizeBatch, Capture
<1>6. t.op = "batch"
  OBVIOUS
<1>. HIDE DEF t
<1>. QED BY <1>3, <1>4, <1>5, <1>6, AnonymizeInv

\* A reload changes what later requests capture, not what earlier ones did.
LEMMA ReloadInv == TokenizerInv /\ Reload => TokenizerInv'
<1>. SUFFICES ASSUME TokenizerInv, Reload PROVE TokenizerInv'
  OBVIOUS
<1>1. UNCHANGED <<storeVars, task>> /\ policy' \in Policies
  BY DEF Reload
<1>2. StoreInv'
  BY <1>1, StoreStutterInv DEF TokenizerInv
<1>3. UNCHANGED <<status, batch, query, got, expired, task>>
  BY <1>1 DEF storeVars
<1>4. TypeOK'
  BY <1>1, <1>2, <1>3, PoliciesAssumption DEF TokenizerInv, TypeOK, StoreInv, storeVars
<1>5. TasksInOrder'
  BY <1>3 DEF TokenizerInv, TasksInOrder, AnonymizerInOrder, DeanonymizerInOrder,
        Anonymizer, Deanonymizer
<1>6. ReadsOriginate'
  BY <1>3 DEF TokenizerInv, ReadsOriginate, Stored
<1>. QED BY <1>2, <1>4, <1>5, <1>6 DEF TokenizerInv

-----------------------------------------------------------------------------
(* Records returned to clients. *)

\* What a result without error tells of its request: its config, its mappings,
\* that they are written, and that no field failed.
LEMMA SuccessMeans ==
    ASSUME TokenizerInv, NEW c \in Call, NEW r, Succeeded(c, r)
    PROVE  /\ IsConfig(task[c].config) /\ task[c].system \in System
           /\ DOMAIN task[c].input \subseteq Index /\ r \in DOMAIN task[c].input
           /\ \A q \in DOMAIN task[c].input : task[c].input[q] \in InputRecord
           /\ status[c] = "done"
           /\ ~RecordFails(task[c].input[r], task[c].config)
           /\ batch[c] = Mappings(c, task[c].system, task[c].config, task[c].input)
           /\ ResultRecord(c, r) =
                 WithTokens(c, task[c].config, task[c].input, r,
                            Tokenized(task[c].input[r], task[c].config))
<1>1. /\ Anonymizer(c) /\ Answered(c) /\ ~Raises(c) /\ ~HasError(c, r)
      /\ r \in DOMAIN task[c].input
  BY DEF Succeeded
<1>2. /\ task[c] # NoTask /\ IsTask(task[c])
      /\ IsList(task[c].input)
      /\ task[c].op = "record" => DOMAIN task[c].input = {1}
      /\ batch[c] = BatchFor(c, task[c])
  BY <1>1 DEF TokenizerInv, TasksInOrder, AnonymizerInOrder, Anonymizer
<1>3. task[c].config # NoConfig /\ IsConfig(task[c].config)
  BY <1>1, <1>2 DEF HasError, IsTask
<1>4. task[c].system \in System /\ DOMAIN task[c].input \subseteq Index
  BY <1>2 DEF IsTask, TaskType
<1>5. \A q \in DOMAIN task[c].input : task[c].input[q] # NotADict
  BY <1>1 DEF Raises
<1>6. \A q \in DOMAIN task[c].input : task[c].input[q] \in InputRecord
  BY <1>2, <1>5 DEF IsList
<1>7. status[c] = "done"
  BY <1>1 DEF Answered, HasError
<1>8. ~RecordFails(task[c].input[r], task[c].config)
  BY <1>1 DEF HasError
<1>9. task[c].op = "record" => r = 1
  BY <1>1, <1>2
<1>10. batch[c] = Mappings(c, task[c].system, task[c].config, task[c].input)
  BY <1>2, <1>3, <1>5, <1>8, <1>9 DEF BatchFor
<1>11. ResultRecord(c, r) =
         WithTokens(c, task[c].config, task[c].input, r,
                    Tokenized(task[c].input[r], task[c].config))
  BY <1>1, <1>3 DEF ResultRecord
<1>. QED BY <1>1, <1>3, <1>4, <1>6, <1>7, <1>8, <1>10, <1>11

\* In a record without a failing field, the fields with a value got a token.
LEMMA TokenizedUnlessNull ==
    ASSUME NEW cfg, IsConfig(cfg), NEW rec, ~RecordFails(rec, cfg)
    PROVE  Tokenized(rec, cfg) = {i \in DOMAIN cfg.fields : rec[cfg.fields[i].name] # Null}
<1>1. cfg.fields \in Seq(FieldConfig)
  BY DEF IsConfig, Config
<1>2. \A i \in DOMAIN cfg.fields : \A j \in 1..i : j \in DOMAIN cfg.fields
  BY <1>1
<1>. QED BY <1>2 DEF Tokenized, RecordFails

\* The token of a tokenized field is a token.
LEMMA TokenAtType ==
    ASSUME NEW c \in Call, NEW cfg, IsConfig(cfg), NEW recs, DOMAIN recs \subseteq Index,
           NEW r \in DOMAIN recs, recs[r] \in InputRecord, NEW i \in Tokenized(recs[r], cfg)
    PROVE  TokenAt(c, cfg, recs, r, i) \in TokenString
<1>. DEFINE f == cfg.fields[i]
            text == recs[r][f.name].text
<1>1. f \in FieldConfig /\ text \in Text /\ i \in DOMAIN cfg.fields
  BY TokenizedValue DEF IsConfig, Value
<1>2. <<r, i>> \in Position /\ cfg.key \in EncKey
  BY <1>1 DEF Position, IsConfig, Config
<1>3. GenerateToken(f, cfg.key, text, c, <<r, i>>) \in TokenString
  <2>. HIDE DEF f, text
  <2>. QED BY <1>1, <1>2, TokenType
<1>. QED BY <1>3 DEF TokenAt

\* A record with its tokens is a record that may be sent for de-anonymization.
LEMMA ReturnedRecordType ==
    ASSUME TokenizerInv, NEW rec \in ReturnedRecords
    PROVE  rec \in Record
<1>1. PICK c \in Call : /\ Anonymizer(c)
                       /\ rec \in {ResultRecord(c, r) :
                                     r \in {q \in DOMAIN task[c].input : Succeeded(c, q)}}
  BY DEF ReturnedRecords
<1>2. PICK r \in DOMAIN task[c].input : Succeeded(c, r) /\ rec = ResultRecord(c, r)
  BY <1>1
<1>. DEFINE cfg == task[c].config
            recs == task[c].input
            F == Tokenized(recs[r], cfg)
<1>3. /\ IsConfig(cfg) /\ DOMAIN recs \subseteq Index /\ recs[r] \in InputRecord
      /\ rec = WithTokens(c, cfg, recs, r, F)
  BY <1>2, SuccessMeans
<1>. HIDE DEF cfg, recs
<1>4. ASSUME NEW n \in Field
      PROVE  rec[n] \in [text: TokenString, type: ValueType] \cup {Null, Broken}
  <2>1. CASE \E i \in F : cfg.fields[i].name = n
    <3>. DEFINE j == CHOOSE i \in F : cfg.fields[i].name = n
    <3>1. j \in F
      BY <2>1
    <3>2. rec[n] = [text |-> TokenAt(c, cfg, recs, r, j), type |-> "str"]
      BY <1>3, <2>1 DEF WithTokens
    <3>. HIDE DEF j
    <3>3. TokenAt(c, cfg, recs, r, j) \in TokenString
      BY <1>2, <1>3, <3>1, TokenAtType DEF recs
    <3>. QED BY <3>2, <3>3 DEF ValueType, TypeName
  <2>2. CASE ~\E i \in F : cfg.fields[i].name = n
    <3>1. rec[n] = recs[r][n]
      BY <1>3, <2>2 DEF WithTokens
    <3>. QED BY <1>3, <3>1 DEF InputRecord, TokenString
  <2>. QED BY <2>1, <2>2
<1>5. rec = [n \in Field |-> rec[n]]
  BY <1>3 DEF WithTokens
<1>. QED BY <1>4, <1>5 DEF Record

-----------------------------------------------------------------------------
(* De-anonymization and the store's steps. *)

\* The keys a request to de-anonymize looks up are keys of its system.
LEMMA LookupsOfRecord ==
    ASSUME NEW s \in System, NEW cfg, IsConfig(cfg), NEW rec \in Record,
           NEW q, q = [i \in {j \in DOMAIN cfg.fields :
                                 rec[cfg.fields[j].name] \notin {Null, Broken}} |->
                          BuildKey(s, rec[cfg.fields[i].name].text)]
    PROVE  IsQuery(q) /\ \A i \in DOMAIN q : q[i][1] = s
<1>. DEFINE D == {j \in DOMAIN cfg.fields : rec[cfg.fields[j].name] \notin {Null, Broken}}
<1>1. DOMAIN q = D /\ D \subseteq Index
  BY DEF IsConfig
<1>2. ASSUME NEW i \in D
      PROVE  q[i] \in StoreKey /\ q[i][1] = s
  <2>1. cfg.fields \in Seq(FieldConfig)
    BY DEF IsConfig, Config
  <2>2. cfg.fields[i] \in FieldConfig
    BY <2>1
  <2>3. cfg.fields[i].name \in Field
    BY <2>2 DEF FieldConfig
  <2>4. rec[cfg.fields[i].name].text \in TokenString
    BY <2>3 DEF Record
  <2>. QED BY <2>4, TokenAssumption DEF BuildKey, StoreKey
<1>3. q \in [D -> StoreKey]
  <2>1. q = [i \in D |-> q[i]]
    OBVIOUS
  <2>. HIDE DEF D
  <2>. QED BY <1>2, <2>1
<1>. QED BY <1>1, <1>2, <1>3 DEF IsQuery

\* A request to de-anonymize starts: its query is that of its task.
LEMMA DeanonymizeRecordInv ==
    ASSUME TokenizerInv, NEW c \in Call, NEW s \in System,
           NEW rec \in ReturnedRecords \cup Foreign, DeanonymizeRecord(c, s, rec)
    PROVE  TokenizerInv'
<1>. DEFINE t == [op |-> "deanonymize", system |-> s, config |-> ConfigOf(s), input |-> <<rec>>]
            cfg == ConfigOf(s)
<1>1. rec \in Record
  BY ReturnedRecordType, InputsAssumption
<1>2. PICK q : /\ RetrieveBatch(c, q)
               /\ IsQuery(q)
               /\ DOMAIN q # {} => cfg # NoConfig
               /\ \A i \in DOMAIN q : q[i][1] = s
  <2>1. CASE cfg = NoConfig
    <3>1. RetrieveBatch(c, Nothing)
      BY <2>1 DEF DeanonymizeRecord
    <3>2. DOMAIN Nothing = {} /\ Nothing \in [{} -> StoreKey]
      BY DEF Nothing
    <3>. QED BY <3>1, <3>2 DEF IsQuery
  <2>2. CASE cfg # NoConfig
    <3>. DEFINE q == [i \in {j \in DOMAIN cfg.fields :
                                rec[cfg.fields[j].name] \notin {Null, Broken}} |->
                         BuildKey(s, rec[cfg.fields[i].name].text)]
    <3>1. RetrieveBatch(c, q)
      BY <2>2 DEF DeanonymizeRecord
    <3>2. IsConfig(cfg)
      BY <2>2, ConfigOfType DEF TokenizerInv
    <3>. HIDE DEF cfg
    <3>3. IsQuery(q) /\ \A i \in DOMAIN q : q[i][1] = s
      BY <1>1, <3>2, LookupsOfRecord, SMTT(30)
    <3>. HIDE DEF q
    <3>. QED BY <2>2, <3>1, <3>3
  <2>. QED BY <2>1, <2>2
<1>3. /\ task' = [task EXCEPT ![c] = t]
      /\ UNCHANGED policy
  BY DEF DeanonymizeRecord, Capture
<1>4. IsTask(t) /\ t # NoTask /\ t.op = "deanonymize" /\ t.system = s /\ t.config = cfg
  <2>1. ConfigOf(s) # NoConfig => IsConfig(ConfigOf(s))
    BY ConfigOfType DEF TokenizerInv
  <2>2. <<rec>> \in Seq(Record \cup {NotADict}) /\ DOMAIN t.input \subseteq Index
    BY <1>1, InputsAssumption
  <2>3. t \in TaskType
    BY <2>1, <2>2 DEF TaskType, IsConfig
  <2>. QED BY <2>1, <2>2, <2>3, NoTaskAssumption DEF IsTask
<1>. HIDE DEF t, cfg
<1>5. StoreInv'
  BY <1>2, RetrieveBatchInv DEF TokenizerInv
<1>6. /\ status[c] = "idle"
      /\ query' = [query EXCEPT ![c] = q]
      /\ \/ status' = [status EXCEPT ![c] = "done"] /\ DOMAIN q = {}
         \/ status' = [status EXCEPT ![c] = "reading"]
      /\ UNCHANGED <<db, expired, batch, got>>
  BY <1>2 DEF RetrieveBatch
<1>7. /\ status \in [Call -> {"idle", "writing", "reading", "done", "failed"}]
      /\ task \in [Call -> TaskType \cup {NoTask}]
      /\ DOMAIN query = Call
  BY DEF TokenizerInv, TypeOK, StoreInv, StoreTypeOK
<1>8. TypeOK'
  <2>1. task' \in [Call -> TaskType \cup {NoTask}]
    BY <1>3, <1>4, <1>7 DEF IsTask
  <2>2. \A a \in Call : task'[a] = NoTask <=> status'[a] = "idle"
    BY <1>3, <1>4, <1>6, <1>7 DEF TokenizerInv, TypeOK
  <2>3. IsPolicy(policy)'
    BY <1>3 DEF TokenizerInv, TypeOK
  <2>. QED BY <1>5, <2>1, <2>2, <2>3 DEF TypeOK, StoreInv
<1>9. DOMAIN batch[c] = {} /\ DOMAIN got[c] = {}
  BY <1>6 DEF TokenizerInv, StoreInv, CallsInOrder
<1>10. TasksInOrder'
  <2>1. ASSUME NEW a \in Call, a # c
        PROVE  /\ task'[a] = task[a] /\ status'[a] = status[a] /\ batch'[a] = batch[a]
               /\ query'[a] = query[a] /\ got'[a] = got[a]
    BY <2>1, <1>3, <1>6, <1>7
  <2>2. /\ task'[c] = t /\ query'[c] = q /\ DOMAIN batch'[c] = {} /\ DOMAIN got'[c] = {}
        /\ status'[c] = "done" => DOMAIN q = {}
    BY <1>3, <1>6, <1>7, <1>9
  <2>3. ~Anonymizer(c)' /\ Deanonymizer(c)'
    BY <1>4, <2>2 DEF Anonymizer, Deanonymizer
  <2>4. DeanonymizerInOrder(c)'
    <3>1. \A f \in DOMAIN q : q[f][1] = t.system
      BY <1>2, <1>4
    <3>. QED BY <1>2, <1>4, <2>2, <3>1 DEF DeanonymizerInOrder
  <2>5. ASSUME NEW a \in Call, a # c
        PROVE  /\ Anonymizer(a)' => AnonymizerInOrder(a)'
               /\ Deanonymizer(a)' => DeanonymizerInOrder(a)'
    <3>1. Anonymizer(a)' <=> Anonymizer(a)
      BY <2>1, <2>5 DEF Anonymizer
    <3>2. Deanonymizer(a)' <=> Deanonymizer(a)
      BY <2>1, <2>5 DEF Deanonymizer
    <3>3. AnonymizerInOrder(a)' <=> AnonymizerInOrder(a)
      BY <2>1, <2>5 DEF AnonymizerInOrder
    <3>4. DeanonymizerInOrder(a)' <=> DeanonymizerInOrder(a)
      BY <2>1, <2>5 DEF DeanonymizerInOrder
    <3>. QED BY <3>1, <3>2, <3>3, <3>4 DEF TokenizerInv, TasksInOrder
  <2>6. \A a \in Call : /\ task'[a] # NoTask => IsTask(task'[a])
                        /\ task'[a] = NoTask => DOMAIN query'[a] = {}
    BY <1>4, <2>1, <2>2 DEF TokenizerInv, TasksInOrder
  <2>. QED BY <2>3, <2>4, <2>5, <2>6 DEF TasksInOrder
<1>11. ReadsOriginate'
  BY <1>6, <1>7, <1>9, ReadsOriginateKept DEF TokenizerInv
<1>. QED BY <1>5, <1>8, <1>10, <1>11 DEF TokenizerInv

\* The store and the server proceed, on behalf of coroutines that wait.
LEMMA StoreStepTokenizerInv ==
    ASSUME TokenizerInv, StoreStep, UNCHANGED <<policy, task>>
    PROVE  TokenizerInv'
<1>. USE DEF TokenizerInv
<1>1. StoreInv' /\ StoreStepEffect
  BY StoreStepInv, StoreStepHasEffect
<1>2. UNCHANGED <<batch, query, policy, task>>
  BY <1>1 DEF StoreStepEffect
<1>3. TypeOK'
  BY <1>1, <1>2 DEF TypeOK, StoreInv, StoreStepEffect
<1>4. TasksInOrder'
  BY <1>1, <1>2 DEF TasksInOrder, AnonymizerInOrder, DeanonymizerInOrder,
        Anonymizer, Deanonymizer, StoreStepEffect
<1>5. ReadsOriginate'
  BY StoreStepOrigins
<1>. QED BY <1>1, <1>3, <1>4, <1>5

\* Every step of the tokenizer, the policy and the store preserves the invariant.
LEMMA TokenizerStepInv == TokenizerInv /\ [Next]_vars => TokenizerInv'
<1>. SUFFICES ASSUME TokenizerInv, [Next]_vars PROVE TokenizerInv'
  OBVIOUS
<1>. USE CallsAssumption
<1>1. CASE \E c \in AnonymizeCalls, s \in System, rec \in Records : AnonymizeRecord(c, s, rec)
  BY <1>1, AnonymizeRecordInv
<1>2. CASE \E c \in AnonymizeCalls, s \in System, recs \in Lists : AnonymizeBatch(c, s, recs)
  BY <1>2, AnonymizeBatchInv
<1>3. CASE \E c \in DeanonymizeCalls, s \in System : \E rec \in ReturnedRecords \cup Foreign :
              DeanonymizeRecord(c, s, rec)
  BY <1>3, DeanonymizeRecordInv
<1>4. CASE Reload
  BY <1>4, ReloadInv
<1>5. CASE StoreStep /\ UNCHANGED <<policy, task>>
  BY <1>5, StoreStepTokenizerInv
<1>6. CASE UNCHANGED vars
  <2>1. UNCHANGED storeVars /\ UNCHANGED <<policy, task>>
    BY <1>6 DEF vars
  <2>2. UNCHANGED <<status, batch, query, got, expired, task, policy>>
    BY <2>1 DEF storeVars
  <2>3. StoreInv'
    BY <2>1, StoreStutterInv DEF TokenizerInv
  <2>4. TypeOK'
    BY <2>2, <2>3 DEF TokenizerInv, TypeOK, StoreInv
  <2>5. TasksInOrder'
    BY <2>2 DEF TokenizerInv, TasksInOrder, AnonymizerInOrder, DeanonymizerInOrder,
        Anonymizer, Deanonymizer
  <2>6. ReadsOriginate'
    BY <2>2 DEF TokenizerInv, ReadsOriginate, Stored
  <2>. QED BY <2>3, <2>4, <2>5, <2>6 DEF TokenizerInv
<1>. QED BY <1>1, <1>2, <1>3, <1>4, <1>5, <1>6 DEF Next

\* The coroutines, their captures and the store stay consistent
\* (structured_tokenizer.py:238-709).
THEOREM TokenizerInvariant == Spec => []TokenizerInv
<1>. QED BY TokenizerInitInv, TokenizerStepInv, PTL DEF Spec

\* Every variable of the tokenizer and its store keeps its type.
THEOREM TokenizerTypeCorrect == Spec => []TypeOK
<1>1. TokenizerInv => TypeOK
  BY DEF TokenizerInv
<1>. QED BY <1>1, TokenizerInvariant, PTL

-----------------------------------------------------------------------------
(* What is restored is what was anonymized. *)

\* A token stands for one text, sealed with one key, whoever issued it.
LEMMA OneKeyOneText ==
    ASSUME NEW c \in Call, NEW r, NEW i, NEW d \in Call, NEW q, NEW j,
           IssuedKey(c, r, i) = IssuedKey(d, q, j)
    PROVE  /\ Original(c, r, i).text = Original(d, q, j).text
           /\ task[c].config.key = task[d].config.key
<1>1. TokenAt(c, task[c].config, task[c].input, r, i) =
         TokenAt(d, task[d].config, task[d].input, q, j)
  BY DEF IssuedKey, BuildKey
<1>2. \/ /\ task[c].config.key = task[d].config.key
         /\ Original(c, r, i).text = Original(d, q, j).text
      \/ c = d /\ <<r, i>> = <<q, j>>
  <2>. DEFINE tc == Original(c, r, i).text
              td == Original(d, q, j).text
              f == task[c].config.fields[i]
              g == task[d].config.fields[j]
              kc == task[c].config.key
              kd == task[d].config.key
  <2>1. GenerateToken(f, kc, tc, c, <<r, i>>) = GenerateToken(g, kd, td, d, <<q, j>>)
    BY <1>1 DEF TokenAt, Original
  <2>. HIDE DEF tc, td, f, g, kc, kd
  <2>2. \/ kc = kd /\ tc = td
        \/ c = d /\ <<r, i>> = <<q, j>>
    BY ONLY <2>1, OneTokenOneText
  <2>. QED BY <2>2 DEF tc, td, kc, kd
<1>. QED BY <1>2

\* blob opens under the key own only, and gives text.
OpensAs(blob, key, own, text) ==
    /\ Decrypt(blob, key).ok <=> key = own
    /\ Decrypt(blob, key).ok => Decrypt(blob, key).text = text

\* What a request stored at a position: the value of that field of its input,
\* sealed with its key, under the token of that field.
LEMMA StoredValue ==
    ASSUME TokenizerInv, NEW c \in Call, NEW p \in DOMAIN batch[c]
    PROVE  /\ Anonymizer(c)
           /\ KeyOf(batch[c][p]) = IssuedKey(c, p[1], p[2])
           /\ batch[c][p].blob.text = Original(c, p[1], p[2]).text
           /\ \A key : OpensAs(batch[c][p].blob, key, task[c].config.key,
                               Original(c, p[1], p[2]).text)
<1>. DEFINE t == task[c]
            r == p[1]
            i == p[2]
            value == t.input[r][t.config.fields[i].name]
<1>1. Anonymizer(c)
  <2>1. task[c] # NoTask
    BY DEF TokenizerInv, TypeOK, StoreInv, CallsInOrder
  <2>2. ~Deanonymizer(c)
    BY DEF TokenizerInv, TasksInOrder, DeanonymizerInOrder
  <2>3. task[c].op \in {"record", "batch", "deanonymize"}
    BY <2>1 DEF TokenizerInv, TasksInOrder, IsTask, TaskType
  <2>. QED BY <2>1, <2>2, <2>3 DEF Anonymizer, Deanonymizer
<1>2. batch[c] = BatchFor(c, t) /\ IsTask(t) /\ IsList(t.input)
  BY <1>1 DEF TokenizerInv, TasksInOrder, AnonymizerInOrder, Anonymizer
<1>3. /\ t.config # NoConfig
      /\ \A q \in DOMAIN t.input : t.input[q] # NotADict
      /\ batch[c] = Mappings(c, t.system, t.config, t.input)
  <2>1. DOMAIN Nothing = {}
    BY DEF Nothing
  <2>2. batch[c] # Nothing
    BY <2>1
  <2>. QED BY <1>2, <2>2 DEF BatchFor
<1>4. /\ IsConfig(t.config) /\ t.system \in System /\ DOMAIN t.input \subseteq Index
      /\ \A q \in DOMAIN t.input : t.input[q] \in InputRecord
  BY <1>2, <1>3 DEF IsTask, TaskType, IsList
<1>. HIDE DEF t
<1>5. /\ p \in (DOMAIN t.input) \X (DOMAIN t.config.fields)
      /\ p[2] \in Tokenized(t.input[p[1]], t.config)
  BY <1>3, <1>4, MappingsOfBatch
<1>6. p = <<r, i>> /\ r \in DOMAIN t.input /\ i \in DOMAIN t.config.fields
      /\ i \in Tokenized(t.input[r], t.config)
  BY <1>5
<1>. HIDE DEF r, i
<1>7. /\ KeyOf(batch[c][p]) = BuildKey(t.system, TokenAt(c, t.config, t.input, r, i))
      /\ batch[c][p].blob = Encrypt(value.text, t.config.key, value.type)
  BY <1>3, <1>6, MappingAt
<1>8. value.text \in Text /\ value.type \in ValueType /\ t.config.key \in EncKey
  BY <1>4, <1>6, TokenizedValue DEF IsConfig, Config, Value
<1>. DEFINE blob == batch[c][p].blob
            text == value.text
            type == value.type
            own == t.config.key
<1>9. blob = Encrypt(text, own, type) /\ text \in Text /\ type \in ValueType /\ own \in EncKey
  BY <1>7, <1>8
<1>. HIDE DEF blob, text, type, own
<1>10. /\ blob.text = text
       /\ \A key : OpensAs(blob, key, own, text)
  BY ONLY <1>9, SealedWith DEF OpensAs
<1>11. /\ KeyOf(batch[c][p]) = IssuedKey(c, r, i)
       /\ text = Original(c, r, i).text
       /\ own = task[c].config.key
  BY <1>7 DEF IssuedKey, Original, t, text, own
<1>. QED BY <1>1, <1>10, <1>11 DEF blob, r, i

\* What a restored field holds: the text and key of a request that stored it
\* under the key that was looked up.
LEMMA RestoredFrom ==
    ASSUME TokenizerInv, NEW d \in Call, NEW f \in LookedUp(d)
    PROVE  \/ Restored(d, f) = [ok |-> FALSE, error |-> "missing"]
           \/ \E c \in Call : \E p \in DOMAIN batch[c] :
                 /\ Anonymizer(c)
                 /\ KeyOf(batch[c][p]) = query[d][f]
                 /\ query[d][f] = IssuedKey(c, p[1], p[2])
                 /\ task[c].system = task[d].system
                 /\ IF task[d].config.key = task[c].config.key
                    THEN /\ Restored(d, f).ok
                         /\ Restored(d, f).text = Original(c, p[1], p[2]).text
                    ELSE Restored(d, f) = [ok |-> FALSE, error |-> "undecryptable"]
<1>. DEFINE k == query[d][f]
            blob == Answer(d, k)
            key == task[d].config.key
<1>1. /\ Deanonymizer(d) /\ status[d] = "done" /\ f \in DOMAIN query[d]
      /\ DOMAIN got[d] = DOMAIN query[d]
      /\ k[1] = task[d].system
      /\ IsQuery(query[d])
  BY DEF LookedUp, TokenizerInv, TasksInOrder, DeanonymizerInOrder, StoreInv, StoreTypeOK
<1>2. PICK q \in DOMAIN query[d] : query[d][q] = k /\ blob = got[d][q]
  BY <1>1, AnswerWasRead
<1>3. CASE blob = NotFound
  BY <1>3 DEF Restored
<1>4. CASE blob # NotFound
  <2>1. Stored(k, blob)
    BY <1>1, <1>2, <1>4 DEF TokenizerInv, ReadsOriginate
  <2>2. PICK c \in Call : \E p \in DOMAIN batch[c] :
           KeyOf(batch[c][p]) = k /\ batch[c][p].blob = blob
    BY <2>1 DEF Stored
  <2>3. PICK p \in DOMAIN batch[c] : KeyOf(batch[c][p]) = k /\ batch[c][p].blob = blob
    BY <2>2
  <2>4. /\ Anonymizer(c)
        /\ k = IssuedKey(c, p[1], p[2])
        /\ OpensAs(blob, key, task[c].config.key, Original(c, p[1], p[2]).text)
    <3>. HIDE DEF blob, key, k
    <3>. QED BY <2>3, StoredValue
  <2>5. task[c].system = task[d].system
    BY <1>1, <2>4 DEF IssuedKey, BuildKey
  <2>6. Restored(d, f) = IF Decrypt(blob, key).ok THEN Decrypt(blob, key)
                         ELSE [ok |-> FALSE, error |-> "undecryptable"]
    BY <1>4 DEF Restored
  <2>. HIDE DEF blob, key
  <2>7. IF key = task[c].config.key
        THEN Restored(d, f).ok /\ Restored(d, f).text = Original(c, p[1], p[2]).text
        ELSE Restored(d, f) = [ok |-> FALSE, error |-> "undecryptable"]
    BY <2>4, <2>6 DEF OpensAs
  <2>. QED BY <2>3, <2>4, <2>5, <2>7 DEF key, k
<1>. QED BY <1>3, <1>4

\* A restored value was anonymized for the same system under that very token
\* (build_key, deanonymize_record).
THEOREM RestoredValuesAreOfSystem == Spec => []RestoredValuesBelongToSystem
<1>1. ASSUME TokenizerInv PROVE RestoredValuesBelongToSystem
  <2>. SUFFICES ASSUME NEW d \in Call, NEW f \in LookedUp(d), Restored(d, f).ok
                PROVE  \E c \in Call :
                          /\ Anonymizer(c)
                          /\ task[c].system = task[d].system
                          /\ \E p \in DOMAIN batch[c] :
                                /\ KeyOf(batch[c][p]) = query[d][f]
                                /\ Original(c, p[1], p[2]).text = Restored(d, f).text
    BY DEF RestoredValuesBelongToSystem
  <2>1. Restored(d, f) # [ok |-> FALSE, error |-> "missing"]
        /\ Restored(d, f) # [ok |-> FALSE, error |-> "undecryptable"]
    OBVIOUS
  <2>. QED BY <1>1, <2>1, RestoredFrom
<1>. QED BY <1>1, TokenizerInvariant, PTL

\* De-anonymizing a returned token gives the value it was returned for, or
\* nothing; a mere change of key is the only reason for which it is unreadable
\* (generate_token, deanonymize_record).
THEOREM DeanonymizeInverts == Spec => []DeanonymizeInvertsAnonymize
<1>1. ASSUME TokenizerInv,
             NEW d \in Call, NEW f \in LookedUp(d),
             NEW c \in Call, NEW r, NEW i, IssuedKey(c, r, i) = query[d][f]
      PROVE  IF Restored(d, f).ok
             THEN Restored(d, f).text = Original(c, r, i).text
             ELSE Restored(d, f).error = "undecryptable" =>
                      task[d].config.key # task[c].config.key
  <2>1. CASE Restored(d, f) = [ok |-> FALSE, error |-> "missing"]
    BY <2>1
  <2>2. CASE Restored(d, f) # [ok |-> FALSE, error |-> "missing"]
    <3>1. PICK a \in Call : \E p \in DOMAIN batch[a] :
             /\ query[d][f] = IssuedKey(a, p[1], p[2])
             /\ IF task[d].config.key = task[a].config.key
                THEN /\ Restored(d, f).ok
                     /\ Restored(d, f).text = Original(a, p[1], p[2]).text
                ELSE Restored(d, f) = [ok |-> FALSE, error |-> "undecryptable"]
      BY <1>1, <2>2, RestoredFrom
    <3>2. PICK p \in DOMAIN batch[a] :
             /\ query[d][f] = IssuedKey(a, p[1], p[2])
             /\ IF task[d].config.key = task[a].config.key
                THEN /\ Restored(d, f).ok
                     /\ Restored(d, f).text = Original(a, p[1], p[2]).text
                ELSE Restored(d, f) = [ok |-> FALSE, error |-> "undecryptable"]
      BY <3>1
    <3>. DEFINE q == p[1]
                j == p[2]
    <3>. HIDE DEF q, j
    <3>3. IssuedKey(c, r, i) = IssuedKey(a, q, j)
      BY <1>1, <3>2 DEF q, j
    <3>4. /\ Original(c, r, i).text = Original(a, q, j).text
          /\ task[c].config.key = task[a].config.key
      BY <3>3, OneKeyOneText
    <3>. QED BY <3>2, <3>4 DEF q, j
  <2>. QED BY <2>1, <2>2
<1>2. TokenizerInv => DeanonymizeInvertsAnonymize
  BY <1>1 DEF DeanonymizeInvertsAnonymize
<1>. QED BY <1>2, TokenizerInvariant, PTL

-----------------------------------------------------------------------------
(* What is returned is stored. *)

\* The token of a tokenized field of a returned record is in the server, under
\* the value it stands for, or has expired.
LEMMA IssuedKeyIsStored ==
    ASSUME TokenizerInv, NEW c \in Call, NEW r, Succeeded(c, r),
           NEW i \in Tokenized(task[c].input[r], task[c].config)
    PROVE  LET k == IssuedKey(c, r, i)
           IN  /\ \E p \in DOMAIN batch[c] : KeyOf(batch[c][p]) = k
               /\ k \in DOMAIN db \cup expired
               /\ k \in DOMAIN db =>
                     OpensAs(db[k].blob, task[c].config.key, task[c].config.key,
                             Original(c, r, i).text)
<1>. DEFINE t == task[c]
            k == IssuedKey(c, r, i)
<1>1. /\ IsConfig(t.config) /\ t.system \in System
      /\ DOMAIN t.input \subseteq Index /\ r \in DOMAIN t.input
      /\ \A q \in DOMAIN t.input : t.input[q] \in InputRecord
      /\ status[c] = "done"
      /\ batch[c] = Mappings(c, t.system, t.config, t.input)
  BY SuccessMeans
<1>2. i \in DOMAIN t.config.fields
  BY DEF Tokenized
<1>3. <<r, i>> \in DOMAIN batch[c]
  <2>. HIDE DEF t
  <2>. QED BY <1>1, MappingsOfBatch DEF t
<1>4. KeyOf(batch[c][<<r, i>>]) = k
  <2>. HIDE DEF k
  <2>1. KeyOf(Mappings(c, t.system, t.config, t.input)[<<r, i>>]) =
           BuildKey(t.system, TokenAt(c, t.config, t.input, r, i))
    BY <1>1, <1>2, MappingAt
  <2>. QED BY <1>1, <2>1 DEF k, IssuedKey
<1>5. k \in DOMAIN db \cup expired
  <2>. HIDE DEF t, k
  <2>. QED BY <1>1, <1>3, <1>4, StoreInvImpliesPersistence
       DEF TokenizerInv, AcknowledgedWritesPersist
<1>6. ASSUME k \in DOMAIN db
      PROVE  OpensAs(db[k].blob, t.config.key, t.config.key, Original(c, r, i).text)
  <2>. HIDE DEF k
  <2>1. PICK a \in Call : \E p \in DOMAIN batch[a] :
           KeyOf(batch[a][p]) = k /\ db[k].blob = batch[a][p].blob
    BY <1>6 DEF TokenizerInv, StoreInv, EntriesComeFromBatches
  <2>2. PICK p \in DOMAIN batch[a] : KeyOf(batch[a][p]) = k /\ db[k].blob = batch[a][p].blob
    BY <2>1
  <2>. DEFINE q == p[1]
              j == p[2]
              own == t.config.key
  <2>3. /\ KeyOf(batch[a][p]) = IssuedKey(a, q, j)
        /\ \A key : OpensAs(db[k].blob, key, task[a].config.key, Original(a, q, j).text)
    BY <2>2, StoredValue
  <2>. HIDE DEF q, j
  <2>4. IssuedKey(c, r, i) = IssuedKey(a, q, j)
    BY <2>2, <2>3 DEF k
  <2>5. /\ Original(c, r, i).text = Original(a, q, j).text
        /\ own = task[a].config.key
    BY <2>4, OneKeyOneText
  <2>. HIDE DEF own
  <2>6. OpensAs(db[k].blob, own, task[a].config.key, Original(a, q, j).text)
    BY <2>3
  <2>. QED BY <2>5, <2>6 DEF own
<1>. QED BY <1>3, <1>4, <1>5, <1>6

\* A field with a value of a returned record holds an issued token of that
\* value; when two fields have one path it may be the other field's.
LEMMA ResultHoldsToken ==
    ASSUME TokenizerInv, NEW c \in Call, NEW r, Succeeded(c, r),
           NEW i \in DOMAIN task[c].config.fields, Original(c, r, i) # Null
    PROVE  \E j \in Tokenized(task[c].input[r], task[c].config) :
              /\ Original(c, r, j) = Original(c, r, i)
              /\ BuildKey(task[c].system, ResultRecord(c, r)[task[c].config.fields[i].name].text)
                    = IssuedKey(c, r, j)
<1>. DEFINE cfg == task[c].config
            recs == task[c].input
            F == Tokenized(recs[r], cfg)
            n == cfg.fields[i].name
            j == CHOOSE l \in F : cfg.fields[l].name = n
<1>1. /\ IsConfig(cfg) /\ ~RecordFails(recs[r], cfg)
      /\ ResultRecord(c, r) = WithTokens(c, cfg, recs, r, F)
  BY SuccessMeans
<1>2. i \in F
  <2>. HIDE DEF cfg, recs, F
  <2>1. F = {l \in DOMAIN cfg.fields : recs[r][cfg.fields[l].name] # Null}
    BY <1>1, TokenizedUnlessNull DEF F
  <2>. QED BY <2>1 DEF Original, cfg, recs
<1>3. j \in F /\ cfg.fields[j].name = n
  BY <1>2
<1>4. n \in Field
  <2>1. cfg.fields \in Seq(FieldConfig)
    BY <1>1 DEF IsConfig, Config
  <2>2. cfg.fields[i] \in FieldConfig
    BY <2>1
  <2>. QED BY <2>2 DEF FieldConfig
<1>5. WithTokens(c, cfg, recs, r, F)[n] = [text |-> TokenAt(c, cfg, recs, r, j), type |-> "str"]
  <2>. HIDE DEF cfg, recs, F
  <2>. QED BY <1>2, <1>4 DEF WithTokens
<1>. HIDE DEF j
<1>6. ResultRecord(c, r)[n].text = TokenAt(c, cfg, recs, r, j)
  BY <1>1, <1>5
<1>. QED BY <1>3, <1>6 DEF Original, IssuedKey

\* No anonymized value is lost: every PII field of a record returned without
\* error holds a token under which the server has the value, readable with the
\* key in force, until its TTL ends (anonymize_record, anonymize_batch).
THEOREM AnonymizedValuesAreRecoverable == Spec => []AnonymizedValuesRecoverable
<1>1. ASSUME TokenizerInv, NEW c \in Call, NEW r, Succeeded(c, r),
             NEW i \in DOMAIN task[c].config.fields, Original(c, r, i) # Null
      PROVE  LET key == BuildKey(task[c].system,
                                 ResultRecord(c, r)[task[c].config.fields[i].name].text)
             IN  \/ key \in expired
                 \/ /\ key \in DOMAIN db
                    /\ Decrypt(db[key].blob, task[c].config.key).ok
                    /\ Decrypt(db[key].blob, task[c].config.key).text = Original(c, r, i).text
  <2>. DEFINE key == BuildKey(task[c].system,
                              ResultRecord(c, r)[task[c].config.fields[i].name].text)
  <2>1. PICK j \in Tokenized(task[c].input[r], task[c].config) :
           Original(c, r, j) = Original(c, r, i) /\ key = IssuedKey(c, r, j)
    BY <1>1, ResultHoldsToken
  <2>2. /\ key \in DOMAIN db \cup expired
        /\ key \in DOMAIN db =>
              OpensAs(db[key].blob, task[c].config.key, task[c].config.key,
                      Original(c, r, i).text)
    <3>. HIDE DEF key
    <3>. QED BY <1>1, <2>1, IssuedKeyIsStored
  <2>. HIDE DEF key
  <2>3. key \in DOMAIN db =>
           /\ Decrypt(db[key].blob, task[c].config.key).ok
           /\ Decrypt(db[key].blob, task[c].config.key).text = Original(c, r, i).text
    BY <2>2 DEF OpensAs
  <2>. QED BY <2>2, <2>3 DEF key
<1>2. TokenizerInv => AnonymizedValuesRecoverable
  BY <1>1 DEF AnonymizedValuesRecoverable
<1>. QED BY <1>2, TokenizerInvariant, PTL

\* A token a client already holds is found when it is looked up, unless it has
\* expired (anonymize_record, anonymize_batch, deanonymize_record).
THEOREM ReturnedTokensFound == Spec => ReturnedTokensAreFound
<1>1. ASSUME TokenizerInv, ReadSeesWrites,
             NEW d \in Call, NEW f \in DOMAIN got'[d] \ DOMAIN got[d], got'[d][f] = NotFound,
             NEW c \in Call, NEW r, Succeeded(c, r),
             NEW i \in Tokenized(task[c].input[r], task[c].config),
             IssuedKey(c, r, i) = query[d][f]
      PROVE  query[d][f] \in expired
  <2>1. \E p \in DOMAIN batch[c] : KeyOf(batch[c][p]) = query[d][f]
    BY <1>1, IssuedKeyIsStored
  <2>2. status[c] = "done"
    BY <1>1, SuccessMeans
  <2>. QED BY <1>1, <2>1, <2>2 DEF ReadSeesWrites
<1>2. TokenizerInv /\ [Next]_vars => [ReadSeesWrites]_vars
  <2>. SUFFICES ASSUME TokenizerInv, Next PROVE ReadSeesWrites
    OBVIOUS
  <2>1. CASE StoreStep
    BY <2>1, StoreStepReads DEF TokenizerInv
  <2>2. CASE got' = got
    BY <2>2 DEF ReadSeesWrites
  <2>3. StoreStep \/ got' = got
    BY ZenonT(40) DEF Next, AnonymizeRecord, AnonymizeBatch, DeanonymizeRecord, Reload,
           StoreBatch, RetrieveBatch, storeVars
  <2>. QED BY <2>1, <2>2, <2>3
<1>3. TokenizerInv /\ [ReadSeesWrites]_vars =>
         [\A d \in Call : \A f \in DOMAIN got'[d] \ DOMAIN got[d] :
             got'[d][f] = NotFound =>
                 \A c \in Call : \A r \in IF Anonymizer(c) THEN DOMAIN task[c].input ELSE {} :
                     Succeeded(c, r) =>
                         \A i \in Tokenized(task[c].input[r], task[c].config) :
                             IssuedKey(c, r, i) = query[d][f] => query[d][f] \in expired]_vars
  BY <1>1
<1>. QED BY <1>2, <1>3, TokenizerInvariant, PTL DEF Spec, ReturnedTokensAreFound

-----------------------------------------------------------------------------
(* The tokenizer implements the vault. *)

\* What no step takes back: what a coroutine captured, that it is done, and
\* what it gave the store.
StepKeeps ==
    \A c \in Call : /\ task[c] # NoTask => task'[c] = task[c]
                    /\ status[c] = "done" => status'[c] = "done"
                    /\ DOMAIN batch[c] = {} \/ batch'[c] = batch[c]

\* Every step keeps them.
LEMMA StepsKeep == TokenizerInv /\ [Next]_vars => StepKeeps
<1>. SUFFICES ASSUME TokenizerInv, [Next]_vars PROVE StepKeeps
  OBVIOUS
<1>. USE DEF StepKeeps
<1>1. /\ status \in [Call -> {"idle", "writing", "reading", "done", "failed"}]
      /\ task \in [Call -> TaskType \cup {NoTask}]
      /\ DOMAIN batch = Call
      /\ \A c \in Call : status[c] = "idle" => task[c] = NoTask /\ DOMAIN batch[c] = {}
  BY DEF TokenizerInv, TypeOK, StoreInv, StoreTypeOK, CallsInOrder
<1>2. ASSUME NEW c \in Call, NEW op, NEW s, NEW input, Capture(c, op, s, input),
             \/ \E b : StoreBatch(c, b)
             \/ \E q : RetrieveBatch(c, q)
      PROVE  StepKeeps
  <2>1. status[c] = "idle"
    BY <1>2 DEF StoreBatch, RetrieveBatch
  <2>2. \A a \in Call : a # c => task'[a] = task[a]
    BY <1>1, <1>2 DEF Capture
  <2>3. \A a \in Call : a # c => status'[a] = status[a] /\ batch'[a] = batch[a]
    BY <1>1, <1>2 DEF StoreBatch, RetrieveBatch
  <2>. QED BY <1>1, <2>1, <2>2, <2>3
<1>3. CASE \E c \in AnonymizeCalls, s \in System, rec \in Records : AnonymizeRecord(c, s, rec)
  BY <1>2, <1>3, CallsAssumption DEF AnonymizeRecord
<1>4. CASE \E c \in AnonymizeCalls, s \in System, recs \in Lists : AnonymizeBatch(c, s, recs)
  BY <1>2, <1>4, CallsAssumption DEF AnonymizeBatch
<1>5. CASE \E c \in DeanonymizeCalls, s \in System : \E rec \in ReturnedRecords \cup Foreign :
              DeanonymizeRecord(c, s, rec)
  BY <1>2, <1>5, CallsAssumption DEF DeanonymizeRecord
<1>6. CASE Reload
  BY <1>6 DEF Reload, storeVars
<1>7. CASE StoreStep /\ UNCHANGED <<policy, task>>
  BY <1>7, StoreStepHasEffect DEF TokenizerInv, StoreStepEffect
<1>8. CASE UNCHANGED vars
  BY <1>8 DEF vars, storeVars
<1>. QED BY <1>3, <1>4, <1>5, <1>6, <1>7, <1>8 DEF Next

\* What a bound key stands for is what any request stored under it.
BindingsAreStored ==
    \A k \in DOMAIN db \cup expired :
        /\ \E c \in Call : \E p \in DOMAIN batch[c] : KeyOf(batch[c][p]) = k
        /\ \A c \in Call : \A p \in DOMAIN batch[c] :
              KeyOf(batch[c][p]) = k => PlainTextOf(k) = batch[c][p].blob.text

\* In every reachable state it is.
LEMMA BindingsStored == TokenizerInv => BindingsAreStored
<1>. SUFFICES ASSUME TokenizerInv, NEW k \in DOMAIN db \cup expired
     PROVE  /\ \E c \in Call : \E p \in DOMAIN batch[c] : KeyOf(batch[c][p]) = k
            /\ \A c \in Call : \A p \in DOMAIN batch[c] :
                  KeyOf(batch[c][p]) = k => PlainTextOf(k) = batch[c][p].blob.text
  BY DEF BindingsAreStored
<1>1. \E c \in Call : \E p \in DOMAIN batch[c] : KeyOf(batch[c][p]) = k
  BY DEF TokenizerInv, StoreInv, EntriesComeFromBatches, ReadsOriginate
<1>2. \E c \in Call : \E p \in DOMAIN batch[c] :
         KeyOf(batch[c][p]) = k /\ PlainTextOf(k) = batch[c][p].blob.text
  <2>1. CASE k \in DOMAIN db
    BY <2>1 DEF TokenizerInv, StoreInv, EntriesComeFromBatches, PlainTextOf
  <2>2. CASE k \notin DOMAIN db
    <3>. DEFINE c == CHOOSE a \in Call : \E p \in DOMAIN batch[a] : KeyOf(batch[a][p]) = k
                p == CHOOSE q \in DOMAIN batch[c] : KeyOf(batch[c][q]) = k
    <3>1. c \in Call /\ \E q \in DOMAIN batch[c] : KeyOf(batch[c][q]) = k
      BY <1>1
    <3>2. PlainTextOf(k) = batch[c][p].blob.text
      BY <2>2 DEF PlainTextOf
    <3>. HIDE DEF c
    <3>3. p \in DOMAIN batch[c] /\ KeyOf(batch[c][p]) = k
      BY <3>1
    <3>. HIDE DEF p
    <3>. QED BY <3>1, <3>2, <3>3
  <2>. QED BY <2>1, <2>2
<1>3. ASSUME NEW c \in Call, NEW p \in DOMAIN batch[c], KeyOf(batch[c][p]) = k,
             NEW d \in Call, NEW q \in DOMAIN batch[d], KeyOf(batch[d][q]) = k
      PROVE  batch[c][p].blob.text = batch[d][q].blob.text
  <2>. DEFINE r == p[1]
              i == p[2]
              s == q[1]
              j == q[2]
  <2>1. /\ KeyOf(batch[c][p]) = IssuedKey(c, r, i)
        /\ batch[c][p].blob.text = Original(c, r, i).text
        /\ KeyOf(batch[d][q]) = IssuedKey(d, s, j)
        /\ batch[d][q].blob.text = Original(d, s, j).text
    BY StoredValue
  <2>. HIDE DEF r, i, s, j
  <2>2. IssuedKey(c, r, i) = IssuedKey(d, s, j)
    BY <1>3, <2>1
  <2>. QED BY <2>1, <2>2, OneKeyOneText
<1>. QED BY <1>1, <1>2, <1>3

\* The same of the next state.
LEMMA NextBindingsStored == TokenizerInv' => BindingsAreStored'
BY BindingsStored, PTL

\* A key that stays known keeps what it stands for.
LEMMA BindingKept ==
    ASSUME BindingsAreStored, BindingsAreStored', StepKeeps,
           NEW k \in DOMAIN db \cup expired, k \in DOMAIN db' \cup expired'
    PROVE  PlainTextOf(k)' = PlainTextOf(k)
<1>1. PICK c \in Call : \E p \in DOMAIN batch[c] : KeyOf(batch[c][p]) = k
  BY DEF BindingsAreStored
<1>2. PICK p \in DOMAIN batch[c] : KeyOf(batch[c][p]) = k
  BY <1>1
<1>3. batch'[c] = batch[c]
  BY <1>2 DEF StepKeeps
<1>4. PlainTextOf(k) = batch[c][p].blob.text
  BY <1>2 DEF BindingsAreStored
<1>5. PlainTextOf(k)' = batch'[c][p].blob.text
  BY <1>2, <1>3 DEF BindingsAreStored
<1>. QED BY <1>3, <1>4, <1>5

\* Every token a client was given is in the server or has expired.
LEMMA ReturnedKeysAreKnown == TokenizerInv => ReturnedKeys \subseteq DOMAIN db \cup expired
<1>. SUFFICES ASSUME TokenizerInv, NEW k \in ReturnedKeys PROVE k \in DOMAIN db \cup expired
  OBVIOUS
<1>1. PICK c \in Call : \E r \in DOMAIN task[c].input :
         /\ Succeeded(c, r)
         /\ \E i \in Tokenized(task[c].input[r], task[c].config) : k = IssuedKey(c, r, i)
  BY DEF ReturnedKeys
<1>. QED BY <1>1, IssuedKeyIsStored

\* The same of the next state.
LEMMA NextReturnedKeysAreKnown ==
    TokenizerInv' => (ReturnedKeys \subseteq DOMAIN db \cup expired)'
BY ReturnedKeysAreKnown, PTL

\* A result that was returned stays returned.
LEMMA ReturnedKeysKept == StepKeeps => ReturnedKeys \subseteq ReturnedKeys'
<1>. SUFFICES ASSUME StepKeeps, NEW k \in ReturnedKeys PROVE k \in ReturnedKeys'
  OBVIOUS
<1>1. PICK c \in Call : \E r \in DOMAIN task[c].input :
         /\ Anonymizer(c) /\ Succeeded(c, r)
         /\ \E i \in Tokenized(task[c].input[r], task[c].config) : k = IssuedKey(c, r, i)
  BY DEF ReturnedKeys
<1>2. PICK r \in DOMAIN task[c].input :
         /\ Anonymizer(c) /\ Succeeded(c, r)
         /\ \E i \in Tokenized(task[c].input[r], task[c].config) : k = IssuedKey(c, r, i)
  BY <1>1
<1>3. PICK i \in Tokenized(task[c].input[r], task[c].config) : k = IssuedKey(c, r, i)
  BY <1>2
<1>4. task'[c] = task[c] /\ status[c] = "done" /\ status'[c] = "done"
  BY <1>2 DEF StepKeeps, Anonymizer, Succeeded, Answered, HasError
<1>5. Anonymizer(c)'
  BY <1>2, <1>4 DEF Anonymizer
<1>6. Succeeded(c, r)'
  BY <1>2, <1>4 DEF Succeeded, Anonymizer, Answered, Raises, HasError
<1>7. k = IssuedKey(c, r, i)'
  BY <1>3, <1>4 DEF IssuedKey
<1>8. i \in Tokenized(task'[c].input[r], task'[c].config) /\ r \in DOMAIN task'[c].input
  BY <1>4
<1>. QED BY <1>5, <1>6, <1>7, <1>8 DEF ReturnedKeys

-----------------------------------------------------------------------------
(* What each kind of step is to the vault. *)

\* The vault's bindings.
Bound == [k \in DOMAIN db \cup expired |-> PlainTextOf(k)]

\* A step that neither writes nor expires an entry may promise keys, and
\* changes nothing else of the vault.
LEMMA QuietStepPromises ==
    ASSUME BindingsAreStored, BindingsAreStored', StepKeeps,
           ReturnedKeys' \subseteq DOMAIN db' \cup expired',
           UNCHANGED <<db, expired>>
    PROVE  Vault!Promise
<1>1. Bound' = Bound
  <2>1. \A k \in DOMAIN db \cup expired : PlainTextOf(k)' = PlainTextOf(k)
    BY BindingKept
  <2>. QED BY <2>1 DEF Bound
<1>2. ReturnedKeys \subseteq ReturnedKeys'
  BY ReturnedKeysKept
<1>. QED BY <1>1, <1>2 DEF Vault!Promise, Bound

\* A write binds keys, lets keys answer again, or changes nothing.
LEMMA ExecuteBinds ==
    ASSUME TokenizerInv, BindingsAreStored, BindingsAreStored', StepKeeps,
           NEW m \in wire, Execute(m), UNCHANGED <<policy, task>>
    PROVE  Vault!Bind \/ UNCHANGED Vault!vaultVars
<1>1. /\ db' = WriteGroup(batch[m[1]], m[2])
      /\ UNCHANGED <<expired, status, batch, query, got>>
  BY DEF Execute
<1>2. DOMAIN db \subseteq DOMAIN db'
  BY <1>1 DEF WriteGroup
<1>3. ReturnedKeys' = ReturnedKeys
  BY <1>1 DEF ReturnedKeys, Succeeded, Anonymizer, Answered, Raises, HasError, IssuedKey
<1>4. \A k \in DOMAIN db \cup expired : PlainTextOf(k)' = PlainTextOf(k)
  BY <1>1, <1>2, BindingKept
<1>5. /\ DOMAIN Bound = DOMAIN db \cup expired
      /\ DOMAIN Bound' = DOMAIN db' \cup expired
      /\ \A k \in DOMAIN Bound : Bound'[k] = Bound[k]
  BY <1>1, <1>2, <1>4 DEF Bound
<1>6. CASE DOMAIN db' = DOMAIN db
  <2>1. Bound' = Bound
    BY <1>1, <1>4, <1>6 DEF Bound
  <2>. QED BY <1>1, <1>3, <1>6, <2>1 DEF Vault!vaultVars, Bound
<1>7. CASE DOMAIN db' # DOMAIN db
  <2>. HIDE DEF Bound
  <2>1. /\ DOMAIN Bound \subseteq DOMAIN Bound'
        /\ DOMAIN Bound' \ DOMAIN Bound \subseteq DOMAIN db'
        /\ DOMAIN db' \subseteq DOMAIN Bound'
    BY <1>2, <1>5
  <2>2. /\ \A k \in DOMAIN Bound : Bound'[k] = Bound[k]
        /\ UNCHANGED <<expired, ReturnedKeys>>
    BY <1>1, <1>3, <1>5
  <2>. QED BY <1>2, <1>7, <2>1, <2>2 DEF Vault!Bind, Bound
<1>. QED BY <1>6, <1>7

\* An expiry makes a key lapse.
LEMMA ExpireLapses ==
    ASSUME TokenizerInv, BindingsAreStored, BindingsAreStored', StepKeeps,
           NEW k \in DOMAIN db, Expire(k), UNCHANGED <<policy, task>>
    PROVE  Vault!Lapse
<1>1. /\ DOMAIN db' = DOMAIN db \ {k}
      /\ expired' = expired \cup {k}
      /\ UNCHANGED <<status, batch, query, got>>
  BY DEF Expire
<1>2. DOMAIN db' \cup expired' = DOMAIN db \cup expired
  BY <1>1
<1>3. ReturnedKeys' = ReturnedKeys
  BY <1>1 DEF ReturnedKeys, Succeeded, Anonymizer, Answered, Raises, HasError, IssuedKey
<1>4. Bound' = Bound
  <2>1. \A j \in DOMAIN db \cup expired : PlainTextOf(j)' = PlainTextOf(j)
    BY <1>2, BindingKept
  <2>. QED BY <1>2, <2>1 DEF Bound
<1>. QED BY <1>1, <1>3, <1>4 DEF Vault!Lapse, Bound

\* The tokenizer over its store implements the vault: whatever is reloaded,
\* resent, late or expired, no step changes what a token stands for, drops it
\* other than by expiry, or returns it before it is stored
\* (structured_tokenizer.py:238-709, token_store.py:125-268).
THEOREM TokenizerImplementsVault == Spec => ImplementsVault
<1>1. Init => Vault!VaultInit
  <2>. SUFFICES ASSUME Init PROVE Vault!VaultInit
    OBVIOUS
  <2>1. /\ db = Nothing /\ DOMAIN Nothing = {} /\ expired = {}
        /\ \A c \in Call : task[c] = NoTask
    BY DEF Init, StoreInit, Nothing
  <2>2. ReturnedKeys = {}
    BY <2>1 DEF ReturnedKeys, Anonymizer
  <2>3. Bound = [k \in {} |-> k]
    BY <2>1 DEF Bound
  <2>. QED BY <2>1, <2>2, <2>3 DEF Vault!VaultInit, Bound
<1>2. TokenizerInv /\ TokenizerInv' /\ [Next]_vars => [Vault!VaultNext]_(Vault!vaultVars)
  <2>. SUFFICES ASSUME TokenizerInv, TokenizerInv', [Next]_vars
                PROVE  Vault!VaultNext \/ UNCHANGED Vault!vaultVars
    OBVIOUS
  <2>1. /\ BindingsAreStored /\ BindingsAreStored' /\ StepKeeps
        /\ ReturnedKeys' \subseteq DOMAIN db' \cup expired'
    BY BindingsStored, NextBindingsStored, StepsKeep, NextReturnedKeysAreKnown
  <2>2. CASE UNCHANGED <<db, expired>>
    BY <2>1, <2>2, QuietStepPromises DEF Vault!VaultNext
  <2>3. CASE ~UNCHANGED <<db, expired>>
    <3>1. StoreStep /\ UNCHANGED <<policy, task>>
      BY <2>3, ZenonT(40) DEF Next, AnonymizeRecord, AnonymizeBatch, DeanonymizeRecord, Reload,
                  StoreBatch, RetrieveBatch, vars, storeVars
    <3>2. (\E m \in wire : Execute(m)) \/ (\E k \in DOMAIN db : Expire(k))
      BY <2>3, <3>1 DEF StoreStep, StoreProgress, Refuse, Acknowledge, ReadNext, ReturnRead, TimeOut, Abandon
    <3>3. CASE \E m \in wire : Execute(m)
      BY <2>1, <3>1, <3>3, ExecuteBinds DEF Vault!VaultNext
    <3>4. CASE \E k \in DOMAIN db : Expire(k)
      BY <2>1, <3>1, <3>4, ExpireLapses DEF Vault!VaultNext
    <3>. QED BY <3>2, <3>3, <3>4
  <2>. QED BY <2>2, <2>3
<1>. QED BY <1>1, <1>2, TokenizerInvariant, PTL DEF Spec, ImplementsVault, Vault!VaultSpec
=============================================================================
