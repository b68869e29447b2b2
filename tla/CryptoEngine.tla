---------------------------- MODULE CryptoEngine ----------------------------
(***************************************************************************)
(* core/crypto_engine.py.  AES-256-GCM is external: a sealed blob is the   *)
(* record of what went into it, and opening it succeeds exactly when the   *)
(* key is the sealing key and the ciphertext starts where the reader       *)
(* expects it.  What the class itself decides is kept: the type byte, the  *)
(* blob's length, and the branch on the length that decrypt takes.         *)
(***************************************************************************)
EXTENDS Naturals

CONSTANTS EncKey,       \* 32-byte keys (their length is checked when a policy loads)
          Text,         \* str(value) of the PII values
          TextLength    \* bytes of the UTF-8 encoding of a text

ASSUME TextLengthAssumption == TextLength \in [Text -> Nat]

NonceSize == 12
TagSize   == 16
MinLength == NonceSize + 1 + TagSize

\* The types that have a type byte (type_map).
TypeName == {"str", "int", "float", "bool"}

\* typed: a type byte sits between the nonce and the ciphertext.
SealedBlob == [typed: BOOLEAN, type: TypeName, key: EncKey, text: Text, size: Nat]

\* Fault: a type without a type byte is sealed as it is.
EncryptAnyType(text, key, type) ==
    [typed |-> TRUE, type |-> type, key |-> key, text |-> text,
     size |-> NonceSize + 1 + TextLength[text] + TagSize]

\* encrypt: nonce || type byte || ciphertext || tag; an unknown type is "str".
Encrypt(text, key, type) ==
    [typed |-> TRUE,
     type  |-> IF type \in TypeName THEN type ELSE "str",
     key   |-> key,
     text  |-> text,
     size  |-> NonceSize + 1 + TextLength[text] + TagSize]

\* What an earlier release wrote: no type byte ("legacy format").
LegacyEncrypt(text, key) ==
    [typed |-> FALSE, type |-> "str", key |-> key, text |-> text,
     size |-> NonceSize + TextLength[text] + TagSize]

Corrupted == [ok |-> FALSE]
Plain(text, type) == [ok |-> TRUE, text |-> text, type |-> type]

\* decrypt.  Below MinLength only the legacy layout is tried; from MinLength
\* on, byte 12 is always taken for a type byte, so a legacy blob's tag does
\* not verify there.
Decrypt(blob, key) ==
    IF blob.size < MinLength
    THEN IF blob.size >= NonceSize + TagSize /\ ~blob.typed /\ blob.key = key
         THEN Plain(blob.text, "str")
         ELSE Corrupted
    ELSE IF blob.typed /\ blob.key = key
         THEN Plain(blob.text, blob.type)
         ELSE Corrupted
=============================================================================
