---------------------------- MODULE MCLocalCore ----------------------------
(* Small instances of LocalCore for TLC.                                   *)
EXTENDS LocalCore, TLC

CONSTANTS
  plain, marked,        \* contents; marked starts with a byte order mark
  inOwn, inOther,       \* inputs with our key_ref and with that of otherKey
  inNone, inBad,        \* an input with an empty key_ref, one that is invalid
  otherKey              \* the key of a client or of another node

MCKeyRef == [i \in Input |-> CASE i = inNone  -> None
                              [] i = inOther -> otherKey
                              [] OTHER       -> ServerKey]

(* TextDecoder drops a leading byte order mark.                            *)
MCDecode == [b \in Body |-> IF b = marked THEN plain ELSE b]

(* What another node has exported: a signed memory without a key_ref, and  *)
(* one without a signature; and a bundle whose content was damaged on the  *)
(* way, so that it is not the one its memory object names.                 *)
Keyless  == RecordOf(plain, inNone, otherKey)
Unsigned == [RecordOf(plain, inOwn, otherKey) EXCEPT !.memory.signed = None]
MCForeignBundle ==
  { [record |-> Keyless,  body |-> plain],
    [record |-> Unsigned, body |-> plain],
    [record |-> Keyless,  body |-> Torn] }

NoForeignBundle == {}

Symmetry == Permutations(Worker)
=============================================================================
