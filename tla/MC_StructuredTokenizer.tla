----------------------- MODULE MC_StructuredTokenizer -----------------------
(***************************************************************************)
(* StructuredTokenizer on two fields, two systems that share a key, and    *)
(* two policies: the second has another key and lets tokens expire.  The   *)
(* email of Odd is a JSON value that is no string, number or boolean.      *)
(***************************************************************************)
EXTENDS StructuredTokenizer, TLC

CONSTANTS s1, s2, k1, k2, v1, v2, email, phone, pE, c1, c2, c3

MCTextLength == [t \in {v1, v2} |-> IF t = v1 THEN 0 ELSE 7]

\* email: top level, deterministic; phone: nested, uuid, may be null.
Email == [name |-> email, format |-> "prefixed", deterministic |-> TRUE,
          prefix |-> pE, nullable |-> FALSE]
Phone == [name |-> phone, format |-> "uuid", deterministic |-> FALSE,
          prefix |-> NoPrefix, nullable |-> TRUE]

Conf(fields, ttl, key) == [fields |-> fields, ttl |-> ttl, key |-> key]

MCPolicies == {(s1 :> Conf(<<Email, Phone>>, 0, k1) @@ s2 :> Conf(<<Email>>, 0, k1)),
               (s1 :> Conf(<<Phone, Email>>, 1, k2))}

Str(t) == [text |-> t, type |-> "str"]
Rec(e, p) == (email :> e @@ phone :> p)

Full    == Rec(Str(v1), Str(v2))
Odd     == Rec([text |-> v1, type |-> "other"], Null)
Twisted == Rec(Str(v2), Broken)
Missing == Rec(Null, Str(v1))

MCRecords == {Full, Twisted}
MCLists   == {<<Odd, Missing>>, <<Full, NotADict>>}
MCForeign == {Twisted}

\* A text and a number with the same str().
MCTypedRecords == {Rec(Str(v1), Null), Rec([text |-> v1, type |-> "int"], Null)}

\* Every string a request can look up.
MCToken == Text \cup [prefix: {pE, NoPrefix}, call: Call, at: (1..2) \X (1..2)]
                \cup [prefix: {pE, NoPrefix}, key: EncKey, text: Text]

Symmetry == Permutations(AnonymizeCalls)
=============================================================================
