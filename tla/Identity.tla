------------------------------ MODULE Identity ------------------------------
(***************************************************************************)
(* The identity of a memory object: the canonical form that is hashed and  *)
(* signed, in TypeScript (packages/hashing, packages/signer and the part   *)
(* of packages/sdk that uses them) and in Rust (rust/polana-core), and     *)
(* what the other one says of it when it has been carried there.           *)
(*                                                                         *)
(* Abstracted: SHA-256, base32 and Ed25519 are injective, so that hash, id *)
(* and signed payload are the canonical form; of the fields of an object   *)
(* there are one or two of each sort; numbers and booleans are left out;   *)
(* a text is one letter (0 is a space) with or without an accent, which    *)
(* Unicode writes in two ways, and with or without a character that        *)
(* collation ignores, as a zero-width joiner.                              *)
(***************************************************************************)
EXTENDS Integers, Sequences, FiniteSets

CONSTANTS
  Value,              \* the JSON values that occur
  Object,             \* memory objects without id and integrity, as JSON
  ServiceKey,         \* the public key of the signer, as a text
  None,               \* no memory, no signer, no signature, no name
  Canonical(_, _, _), \* the canonical form, by CanonicalAssumption below
  Inside(_)           \* a value and all values inside it, by InsideAssumption

Side == {"ts", "rust"}

-----------------------------------------------------------------------------
(* Texts.                                                                  *)

Accent == {"none", "composed", "decomposed"}
Text == [letter : 0 .. 9, upper : BOOLEAN, accent : Accent, hidden : BOOLEAN]

Nfc(t) == IF t.accent = "decomposed" THEN [t EXCEPT !.accent = "composed"] ELSE t

(* normalizeString, and normalize_string with the nfc() of polana-core,    *)
(* which hands out the characters as they are.                             *)
Normal(side, t) == IF side = "ts" THEN Nfc(t) ELSE t

(* localeCompare: letters, then accents, then case; the rest is ignored.   *)
LocaleRank(t) ==
  4 * t.letter + (IF t.accent = "none" THEN 0 ELSE 2) + (IF t.upper THEN 1 ELSE 0)

(* Code points: ASCII capitals, small letters, then letters with accents;  *)
(* a combining accent comes before the characters that are ignored.        *)
CodePointRank(t) ==
  LET first == t.letter + (IF t.upper THEN 0 ELSE 10)
                        + (IF t.accent = "composed" THEN 20 ELSE 0)
  IN  4 * first + CASE t.accent = "decomposed" -> IF t.hidden THEN 2 ELSE 1
                    [] OTHER                   -> IF t.hidden THEN 3 ELSE 0

TextRank(side, t) == IF side = "ts" THEN LocaleRank(t) ELSE CodePointRank(t)

(* Field names as Rust orders them: by code point.  "note~" stands for     *)
(* note with a zero-width joiner behind it, "cafe'" for cafe with a        *)
(* combining accent on its e and "cafe^" for it with a composed letter:    *)
(* only what is at the end of a path is normalized, names never are.       *)
CodePointOrder ==
  <<"10", "9", "anchors", "cafe'", "cafe^", "key_ref", "model_name", "note", "note~",
    "origin", "producer", "provenance", "relations", "tags", "userId", "userbase">>

(* As JSON.stringify writes them after the sort by localeCompare: those    *)
(* that are integers first, as numbers; then case matters last, and names  *)
(* that differ only in what localeCompare ignores have the same place.     *)
TsOrder ==
  <<{"9"}, {"10"}, {"anchors"}, {"cafe'", "cafe^"}, {"key_ref"}, {"model_name"},
    {"note", "note~"}, {"origin"}, {"producer"}, {"provenance"}, {"relations"},
    {"tags"}, {"userbase"}, {"userId"}>>

Name == {CodePointOrder[i] : i \in DOMAIN CodePointOrder}
NameRank(side, k) ==
  IF side = "ts" THEN CHOOSE i \in DOMAIN TsOrder : k \in TsOrder[i]
                 ELSE CHOOSE i \in DOMAIN CodePointOrder : k = CodePointOrder[i]

-----------------------------------------------------------------------------
(* JSON values.                                                            *)

Null      == [kind |-> "null"]
TextOf(t) == [kind |-> "text", text |-> t]
List(s)   == [kind |-> "list", items |-> s]
Map(f)    == [kind |-> "map", fields |-> f]     \* a sequence of <<key, value>>

KeysOf(m) == {m.fields[i][1] : i \in DOMAIN m.fields}
At(m, k)  == m.fields[CHOOSE i \in DOMAIN m.fields : m.fields[i][1] = k][2]
Has(m, k) == k \in KeysOf(m)

(* The items of s whose places have a rank, by rank and then by place:     *)
(* what a filter and a sort leave, and what compares equal keeps its order.*)
Ahead(rank, i) ==
  {j \in DOMAIN rank : rank[j] < rank[i] \/ (rank[j] = rank[i] /\ j < i)}
Nth(rank, n) == CHOOSE i \in DOMAIN rank : Cardinality(Ahead(rank, i)) = n - 1
Ranked(s, rank) == [n \in 1 .. Cardinality(DOMAIN rank) |-> s[Nth(rank, n)]]

Without(m, k) ==
  Map(Ranked(m.fields, [i \in {j \in DOMAIN m.fields : m.fields[j][1] # k} |-> 0]))
With(m, k, v) ==
  IF Has(m, k)
    THEN Map([i \in DOMAIN m.fields |-> IF m.fields[i][1] = k THEN <<k, v>> ELSE m.fields[i]])
    ELSE Map(Append(m.fields, <<k, v>>))

IsEmpty(v) == v = List(<<>>) \/ v = Map(<<>>)

(* The values in a value, each with the last name of its path.             *)
Children(v, key) ==
  CASE v.kind = "list" -> [i \in DOMAIN v.items |-> <<v.items[i], key>>]
    [] v.kind = "map"  -> [i \in DOMAIN v.fields |-> <<v.fields[i][2], v.fields[i][1]>>]
    [] OTHER           -> <<>>

-----------------------------------------------------------------------------
(* How Rust ranks a tag that is no text, as_str being None, and TypeScript *)
(* a map, which String writes "[object Object]": before all texts.         *)
TagRank(side, v) == IF v.kind = "text" THEN TextRank(side, v.text) ELSE -1

(* Mutant of Canonicalized: what is empty is dropped before it is looked   *)
(* into.                                                                   *)
PruneFirst(side, v, key, next) ==
  CASE v.kind = "text" -> TextOf(Normal(side, v.text))
    [] v.kind = "list" -> List(next)
    [] v.kind = "map"  ->
         LET kept == {i \in DOMAIN v.fields :
                        v.fields[i][2] # Null /\ ~IsEmpty(v.fields[i][2])}
         IN  Map(Ranked([i \in DOMAIN v.fields |-> <<v.fields[i][1], next[i]>>],
                        [i \in kept |-> NameRank(side, v.fields[i][1])]))
    [] OTHER -> v

(* canonicalize and canonicalize_value, copies of each other but for the   *)
(* operators that take a side.  next is what they return for the children, *)
(* key the last name of the path.                                          *)
Canonicalized(side, v, key, next) ==
  CASE v.kind = "text" -> TextOf(Normal(side, v.text))
    [] v.kind = "list" ->
         List(IF key = "tags"
                THEN Ranked(next, [i \in DOMAIN next |-> TagRank(side, next[i])])
                ELSE next)
    [] v.kind = "map" ->
         LET kept == {i \in DOMAIN v.fields : v.fields[i][2] # Null /\ ~IsEmpty(next[i])}
         IN  Map(Ranked([i \in DOMAIN v.fields |-> <<v.fields[i][1], next[i]>>],
                        [i \in kept |-> NameRank(side, v.fields[i][1])]))
    [] OTHER -> v

(* memory_id and integrity are not part of an Object here.                 *)
Reduced(o) == Without(o, "anchors")

(* hashCanonicalMemoryObject, and the payload that is signed.              *)
TsForm(o) == Canonical("ts", Reduced(o), None)

Known == <<"provenance", "producer", "anchors", "tags", "relations">>

Typed(o, names) ==
  Map([i \in DOMAIN names |->
        <<names[i], IF Has(o, names[i]) THEN At(o, names[i]) ELSE Null>>])

(* Mutant of Struct: a field is missing in the Rust struct.                *)
StructTooShort(o) == Typed(o, <<"provenance", "producer", "anchors", "tags">>)

(* What serde makes of an object: its unknown fields are ignored, and an   *)
(* optional field it has not is None, which is written as null.            *)
Struct(o) == Typed(o, Known)

(* reduced_memory_object_value.                                            *)
RustForm(o) == Canonical("rust", Reduced(Struct(o)), None)

Form(side, o) == IF side = "ts" THEN TsForm(o) ELSE RustForm(o)

-----------------------------------------------------------------------------
(* Validation.                                                             *)

TextsOnly(v) == v.kind = "list" /\ \A i \in DOMAIN v.items : v.items[i].kind = "text"

(* assertValidMemoryObject: only undefined stands for "not given".         *)
ValidTs(o) ==
  /\ At(At(o, "provenance"), "model_name").kind = "text"
  /\ Has(o, "tags") => TextsOnly(At(o, "tags"))
  /\ \A k \in {"anchors", "relations"} : Has(o, k) => At(o, k).kind = "list"

(* from_str and MemoryObject::validate: null is "not given" as well, and a *)
(* required string must not be blank.                                      *)
ValidRust(o) ==
  LET name == At(At(o, "provenance"), "model_name") IN
  /\ name.kind = "text" /\ name.text.letter # 0
  /\ Has(o, "tags") => At(o, "tags") = Null \/ TextsOnly(At(o, "tags"))
  /\ \A k \in {"anchors", "relations"} :
       Has(o, k) => At(o, k) = Null \/ At(o, k).kind = "list"

-----------------------------------------------------------------------------
VARIABLES
  memory,   \* the memory object that is carried about, or None
  maker,    \* the side that built it, or None
  origin,   \* its object as it was built, or None
  given     \* the key_ref that the producer gave, or None

vars == <<memory, maker, origin, given>>

Init == memory = None /\ maker = None /\ origin = None /\ given = None

GivenKey(o) ==
  LET producer == At(o, "producer") IN
  IF Has(producer, "key_ref") THEN At(producer, "key_ref") ELSE None

SetKey(o, v) == With(o, "producer", With(At(o, "producer"), "key_ref", v))

(* key_ref: input.producer.key_ref ?? input.signer?.public_key_pem, and an *)
(* undefined key_ref is not written.                                       *)
KeyedTs(o, signer) ==
  IF GivenKey(o) \notin {None, Null} THEN o
  ELSE IF signer # None THEN SetKey(o, TextOf(signer))
  ELSE With(o, "producer", Without(At(o, "producer"), "key_ref"))

(* entry("key_ref").or_insert(...): a null that is there stays there.      *)
KeyedRust(o, signer) ==
  IF GivenKey(o) = None /\ signer # None THEN SetKey(o, TextOf(signer)) ELSE o

(* signPayloadEd25519, sign_memory_payload.                                *)
Signature(form, signer) ==
  IF signer = None THEN None ELSE [payload |-> form, key |-> signer]

Build(side, input, o, form, signature) ==
  /\ memory' = [object |-> o, hash |-> form, signature |-> signature]
  /\ maker' = side
  /\ origin' = o
  /\ given' = GivenKey(input)

(* Mutant of BuildTs: the key_ref is added to what has been hashed.        *)
BuildTsKeyedLater(o, signer) ==
  /\ memory = None
  /\ ValidTs(o)
  /\ Build("ts", o, KeyedTs(o, signer), TsForm(o), Signature(TsForm(o), signer))

(* createMemoryObjectWithDerivedIdentity and the signature, as             *)
(* createAndRecordMemoryObject calls them.                                 *)
BuildTs(o, signer) ==
  LET keyed == KeyedTs(o, signer) IN
  /\ memory = None
  /\ ValidTs(keyed)
  /\ Build("ts", o, keyed, TsForm(keyed), Signature(TsForm(keyed), signer))

(* build_memory_object, and the text of its result: a signature that is    *)
(* None is written as null.                                                *)
BuildRust(o, signer) ==
  LET keyed == KeyedRust(Struct(o), signer) IN
  /\ memory = None
  /\ ValidRust(keyed)
  /\ Build("rust", o, keyed, RustForm(keyed),
           IF signer = None THEN Null ELSE Signature(RustForm(keyed), signer))

(* Other programs read the object and write it again: fields and tags in   *)
(* another order, accents composed or not, optional fields null, empty or  *)
(* left out, anchors added - or something else altogether.                 *)
Carry(o) ==
  /\ memory # None
  /\ memory' = [memory EXCEPT !.object = o]
  /\ UNCHANGED <<maker, origin, given>>

Next ==
  \E o \in Object :
    \/ \E signer \in {None, ServiceKey} : BuildTs(o, signer) \/ BuildRust(o, signer)
    \/ Carry(o)

Spec == Init /\ [][Next]_vars

-----------------------------------------------------------------------------
(* What the two sides say of a memory.                                     *)

Signed(m) == m.signature \notin {None, Null}

(* A key_ref that is no text, or null, or not there, is no key.           *)
Verifies(side, m) ==
  /\ GivenKey(m.object) = TextOf(m.signature.key)
  /\ m.signature.payload = Form(side, m.object)

(* verifyRecordedMemoryObject, past what it asks of ledger and store.      *)
VerdictTs(m) ==
  CASE ~ValidTs(m.object) \/ m.signature = Null -> "invalid"
    [] TsForm(m.object) # m.hash                -> "hash mismatch"
    [] Signed(m) /\ ~Verifies("ts", m)          -> "bad signature"
    [] OTHER                                    -> "ok"

(* polana-submitter verify-memory; it does not recompute the hash.         *)
VerdictRust(m) ==
  CASE ~ValidRust(m.object)                      -> "invalid"
    [] ~Signed(m) \/ ~Verifies("rust", m)        -> "bad signature"
    [] OTHER                                     -> "ok"

Verdict(side, m) == IF side = "ts" THEN VerdictTs(m) ELSE VerdictRust(m)

-----------------------------------------------------------------------------
(* What is assumed of the constants.  JSON values are finite trees, and    *)
(* Canonical goes down them.                                               *)
IsText(v) == v.kind = "text" /\ v = TextOf(v.text) /\ v.text \in Text
IsList(v) == v.kind = "list" /\ v = List(v.items) /\ v.items \in Seq(Value)
IsMap(v)  ==
  /\ v.kind = "map" /\ v = Map(v.fields) /\ v.fields \in Seq(Name \X Value)
  /\ \A i, j \in DOMAIN v.fields : v.fields[i][1] = v.fields[j][1] => i = j

Forms(side, v, key) ==
  [i \in DOMAIN Children(v, key) |->
     Canonical(side, Children(v, key)[i][1], Children(v, key)[i][2])]
Parts(v) == {Children(v, None)[i][1] : i \in DOMAIN Children(v, None)}

(* The objects that clients hand in and those that are built from them.    *)
Carried ==
  Object \cup UNION {{KeyedTs(o, signer), KeyedRust(Struct(o), signer)} :
                       o \in Object, signer \in {None, ServiceKey}}

ASSUME NoneAssumption == None \notin Name
ASSUME KeyAssumption == ServiceKey \in Text /\ ServiceKey.accent = "none"
ASSUME ValueAssumption == \A v \in Value : v = Null \/ IsText(v) \/ IsList(v) \/ IsMap(v)
ASSUME ObjectAssumption ==
  /\ \A o \in Object :
       /\ Has(o, "provenance") /\ IsMap(At(o, "provenance"))
       /\ Has(At(o, "provenance"), "model_name")
       /\ Has(o, "producer") /\ IsMap(At(o, "producer"))
  /\ \A o \in Carried : IsMap(o) /\ {o, Reduced(o), Reduced(Struct(o))} \subseteq Value
ASSUME InsideAssumption ==
  \A v \in Value :
    /\ IsFiniteSet(Inside(v))
    /\ Inside(v) = {v} \cup UNION {Inside(w) : w \in Parts(v)}
    /\ \A w \in Parts(v) : v \notin Inside(w)
ASSUME CanonicalAssumption ==
  \A side \in Side, v \in Value, key \in Name \cup {None} :
    /\ Canonical(side, v, key) \in Value
    /\ Canonical(side, v, key) = Canonicalized(side, v, key, Forms(side, v, key))

-----------------------------------------------------------------------------
(* Objects to which the two sides do the same: known fields only and none  *)
(* of them null, and inside it accents composed, and names and tags that   *)
(* both orders sort alike.                                                 *)
SameOrder(S, rank) ==
  \A i, j \in S : rank["ts"][i] < rank["ts"][j] <=> rank["rust"][i] < rank["rust"][j]

PlainTags(v) ==
  v.kind = "list" =>
    /\ \A i \in DOMAIN v.items : v.items[i].kind = "text"
    /\ SameOrder(DOMAIN v.items,
         [side \in Side |-> [i \in DOMAIN v.items |-> TextRank(side, v.items[i].text)]])

PlainNode(v) ==
  /\ v.kind = "text" => v.text.accent # "decomposed"
  /\ v.kind = "map" =>
       /\ SameOrder(DOMAIN v.fields,
            [side \in Side |-> [i \in DOMAIN v.fields |-> NameRank(side, v.fields[i][1])]])
       /\ \A i \in DOMAIN v.fields : v.fields[i][1] = "tags" => PlainTags(v.fields[i][2])

Plain(o) ==
  /\ \A k \in KeysOf(o) : At(o, k) # Null /\ \E i \in DOMAIN Known : Known[i] = k
  /\ \A v \in Inside(o) : PlainNode(v)

-----------------------------------------------------------------------------
(* What was signed where it was built verifies there exactly if it names   *)
(* the signer's key: because the producer gave that one or none - or, in   *)
(* TypeScript, null, which Rust leaves where it is.                        *)
BuiltVerifies ==
  memory # None /\ memory.object = origin /\ Signed(memory) =>
    (Verdict(maker, memory) = "ok"
       <=> given \in {None, TextOf(ServiceKey)} \/ (maker = "ts" /\ given = Null))

(* Submitters are given what the SDK has signed.  Where the object is      *)
(* plain they agree with it: they accept what it accepts, blanks apart,    *)
(* and beyond that only objects whose hash they do not recompute.          *)
SubmitterAgrees ==
  memory # None /\ maker = "ts" /\ Signed(memory) /\ Plain(memory.object) =>
    /\ VerdictTs(memory) = "ok" /\ ValidRust(memory.object) => VerdictRust(memory) = "ok"
    /\ VerdictRust(memory) = "ok" => VerdictTs(memory) \in {"ok", "hash mismatch"}

=============================================================================
