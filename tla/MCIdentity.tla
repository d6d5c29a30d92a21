---------------------------- MODULE MCIdentity ----------------------------
(***************************************************************************)
(* Identity with objects that differ in one or two respects from each      *)
(* other: tags, relations, provenance, producer, anchors, order of fields. *)
(***************************************************************************)
EXTENDS IdentityMeaning, SequencesExt

(* The values are finite trees, so that the equations of Canonical, Inside *)
(* and Leaves have these solutions: what calls itself for the children.    *)
RECURSIVE CanonicalOf(_, _, _)
CanonicalOf(side, v, key) ==
  Canonicalized(side, v, key,
    [i \in DOMAIN Children(v, key) |->
       CanonicalOf(side, Children(v, key)[i][1], Children(v, key)[i][2])])

RECURSIVE InsideOf(_)
InsideOf(v) == {v} \cup UNION {InsideOf(w) : w \in Parts(v)}

RECURSIVE LeavesOf(_, _, _)
LeavesOf(side, v, key) ==
  Said(side, v, key,
    [i \in DOMAIN Children(v, key) |->
       LeavesOf(side, Children(v, key)[i][1], Children(v, key)[i][2])])

-----------------------------------------------------------------------------
Letter(n) == [letter |-> n, upper |-> FALSE, accent |-> "none", hidden |-> FALSE]
Capital(n) == [Letter(n) EXCEPT !.upper = TRUE]
Accented(n) == [Letter(n) EXCEPT !.accent = "composed"]
Combined(n) == [Letter(n) EXCEPT !.accent = "decomposed"]
Hidden(n) == [Letter(n) EXCEPT !.hidden = TRUE]

MCServiceKey == Letter(9)

MapOf(k, v) == Map(<< <<k, v>> >>)

Reversed(m) == Map(Reverse(m.fields))

(* An object with two mandatory groups and some optional fields.           *)
Base(provenance, producer) ==
  Map(<< <<"provenance", provenance>>, <<"producer", producer>> >>)

Model(t) == MapOf("model_name", TextOf(t))
Keyed == MapOf("key_ref", TextOf(MCServiceKey))
Usual == Base(Model(Letter(1)), Keyed)

BothWays(S) == S \cup {Reversed(o) : o \in S}

TagLists ==
  LET T == {Letter(1), Capital(2), Hidden(1), Accented(1), Combined(1)} IN
  {<<>>, <<Letter(1)>>} \cup (T \X T) \cup {<<Letter(1), Capital(2), Letter(1)>>}

Tagged == {With(Usual, "tags", List([i \in DOMAIN s |-> TextOf(s[i])])) : s \in TagLists}

(* Names that localeCompare cannot tell apart, and the same with only one  *)
(* of the two fields given.                                                *)
TiedNames ==
  {With(MapOf(names[1], TextOf(Letter(1))), names[2], v) :
     names \in {<<"note", "note~">>, <<"cafe'", "cafe^">>},
     v \in {TextOf(Letter(1)), Null}}

Related ==
  {With(Usual, "relations", List(s)) :
     s \in {<<>>, <<Null>>, <<Map(<<>>)>>, <<MapOf("note", Null)>>,
            <<MapOf("note", MapOf("note", Map(<<>>)))>>,
            <<MapOf("9", TextOf(Letter(1))), MapOf("10", TextOf(Letter(1)))>>,
            <<MapOf("10", TextOf(Letter(1))), MapOf("9", TextOf(Letter(1)))>>,
            <<With(MapOf("userId", TextOf(Letter(1))), "userbase", TextOf(Combined(1)))>>,
            <<With(MapOf("userbase", TextOf(Accented(1))), "userId", TextOf(Letter(1)))>>,
            <<With(MapOf("9", TextOf(Letter(1))), "10", Null)>>,
            <<With(MapOf("9", TextOf(Letter(1))), "10", TextOf(Letter(1)))>>} \cup
            {<<m>> : m \in BothWays(TiedNames)}}

Grouped ==
  {Base(p, k) :
     p \in {Model(Letter(0)), Model(Accented(1)), Model(Combined(1)),
            With(Model(Letter(1)), "note", Null),
            With(Model(Letter(1)), "note", MapOf("note", Null)),
            With(Model(Letter(1)), "note", MapOf("note", TextOf(Letter(1))))},
     k \in {Keyed, Map(<<>>), MapOf("key_ref", Null), MapOf("key_ref", TextOf(Letter(8)))}}

Extended ==
  {With(Usual, "anchors", List(s)) : s \in {<<>>, <<TextOf(Letter(1))>>}} \cup
  {With(Usual, "origin", TextOf(Letter(1))), With(Usual, "tags", Null),
   With(Usual, "relations", Null), Usual}

MCObject == Tagged \cup BothWays(Related) \cup Grouped \cup BothWays(Extended)

Occurring ==
  UNION {InsideOf(o) \cup InsideOf(Reduced(o)) \cup InsideOf(Reduced(Struct(o))) :
           o \in Carried}

(* With their canonical forms, of which the forms are there as well.       *)
Canonicals ==
  Occurring \cup
  UNION {InsideOf(CanonicalOf(side, v, key)) :
           side \in Side, v \in Occurring, key \in {"tags", None}}

(* TLC keeps the value of a definition, and evaluates what a constant is   *)
(* replaced by whenever it meets the constant.                             *)
MCValue == Canonicals

=============================================================================
