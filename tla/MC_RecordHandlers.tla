-------------------------- MODULE MC_RecordHandlers --------------------------
(***************************************************************************)
(* RecordHandlers with two handlers of up to two records each, and two     *)
(* policies: the second lists the phone only, has another key and lets     *)
(* tokens expire.  The email of Long is an integer of more than 64 bits,   *)
(* that of Tower an object that orjson reads and cannot write: it stays    *)
(* in the anonymized record under the second policy.                       *)
(***************************************************************************)
EXTENDS RecordHandlers, TLC

CONSTANTS s1, k1, k2, v1, v2, email, phone, h1, h2

MCCall       == Handler \X (1..MaxItems)
MCTextLength == [t \in {v1, v2} |-> IF t = v1 THEN 0 ELSE 30]

Email == [name |-> email, format |-> "uuid", deterministic |-> FALSE,
          prefix |-> NoPrefix, nullable |-> FALSE]
Phone == [name |-> phone, format |-> "uuid", deterministic |-> FALSE,
          prefix |-> NoPrefix, nullable |-> TRUE]

Conf(fields, ttl, key) == [fields |-> fields, ttl |-> ttl, key |-> key]

MCPolicies == {(s1 :> Conf(<<Email, Phone>>, 0, k1)), (s1 :> Conf(<<Phone>>, 1, k2))}

Str(t) == [text |-> t, type |-> "str"]
Rec(e, p) == (email :> e @@ phone :> p)

Full    == Rec(Str(v1), Str(v2))
Long    == Rec([text |-> v2, type |-> "int"], Null)
Missing == Rec(Null, Str(v1))
Tower   == Rec([text |-> v2, type |-> "other"], Str(v1))

MCRecords == {Full, Long}
MCLists   == {<<Full>>, <<Missing, Full>>, <<Full, NotADict>>, <<Full, Tower>>}

Ask(op, items) == [op |-> op, system |-> s1, items |-> items]

MCAnonymizeRequests ==
    {Ask("anonymizeBatch", <<Unparsable, Full>>), Ask("anonymizeBatch", <<Missing, Full>>),
     Ask("anonymizeBatch", <<Full, NotADict>>), Ask("anonymizeBatch", <<Full, Tower>>),
     Ask("anonymizeBatch", <<Unparsable>>),
     Ask("anonymizeLines", <<Long, Full>>)}

MCToken == Text \cup [prefix: {NoPrefix}, call: Call, at: (1..2) \X (1..2)]
                \cup [prefix: {NoPrefix}, key: EncKey, text: Text]
=============================================================================
