-------------------------- MODULE IdentityMeaning --------------------------
(***************************************************************************)
(* What the canonical form is for: what an object says, without any order  *)
(* or pruning, and that two objects have the same form exactly if they say *)
(* the same.                                                               *)
(***************************************************************************)
EXTENDS Identity

CONSTANT Leaves(_, _, _)   \* the texts in a value, by LeavesAssumption below

-----------------------------------------------------------------------------
(* A leaf is a path and what is at its end; a path that goes on is a step  *)
(* and the rest of it.                                                     *)
Step(k, n) == [key |-> k, index |-> n]
End(v) == {[path |-> <<>>, value |-> v]}
Behind(step, leaves) == {[path |-> <<step, l.path>>, value |-> l.value] : l \in leaves}

(* What a value says, next being what its children say.  Of a list that is *)
(* not of tags the position counts, of tags how often each occurs; a list  *)
(* keeps its empty items.                                                  *)
Said(side, v, key, next) ==
  CASE v.kind = "map" ->
         UNION {Behind(Step(v.fields[i][1], 0), next[i]) :
                  i \in {j \in DOMAIN v.fields : v.fields[j][2] # Null}}
    [] v.kind = "list" /\ key = "tags" /\ TextsOnly(v) ->
         LET tag(i) == Normal(side, v.items[i].text)
             times(i) == Cardinality({j \in DOMAIN v.items : tag(j) = tag(i)})
         IN  UNION {Behind(Step(None, times(i)), End(TextOf(tag(i)))) : i \in DOMAIN v.items}
    [] v.kind = "list" /\ ~(key = "tags" /\ TextsOnly(v)) ->
         UNION {Behind(Step(None, i),
                       IF next[i] # {} THEN next[i] ELSE End([kind |-> v.items[i].kind])) :
                  i \in DOMAIN v.items}
    [] v.kind = "text" -> End(TextOf(Normal(side, v.text)))
    [] OTHER -> End(v)

Sayings(side, v, key) ==
  [i \in DOMAIN Children(v, key) |->
     Leaves(side, Children(v, key)[i][1], Children(v, key)[i][2])]

ASSUME LeavesAssumption ==
  \A side \in Side, v \in Value, key \in Name \cup {None} :
    Leaves(side, v, key) = Said(side, v, key, Sayings(side, v, key))

(* What is hashed of an object, and what it says.                          *)
Hashed(side, o) == Reduced(IF side = "ts" THEN o ELSE Struct(o))
Meaning(side, o) == Leaves(side, Hashed(side, o), None)

(* Tags that say by their order what the sort leaves of it: those that are *)
(* no texts, and texts that differ only in what localeCompare ignores.     *)
ClearTags(side, v) ==
  v.kind = "list" =>
    /\ TextsOnly(v)
    /\ \A i, j \in DOMAIN v.items :
         LET tag(n) == Normal(side, v.items[n].text) IN
         TextRank(side, tag(i)) = TextRank(side, tag(j)) => tag(i) = tag(j)

(* Fields that say by their names what the sort leaves of them: no two     *)
(* that are given have names that differ only in what localeCompare        *)
(* ignores, which would stay in the order in which they came.              *)
NamesApart(side, v) ==
  \A i, j \in {n \in DOMAIN v.fields : v.fields[n][2] # Null} :
    NameRank(side, v.fields[i][1]) = NameRank(side, v.fields[j][1]) => i = j

Clear(side, v) ==
  \A w \in Inside(v) :
    w.kind = "map" =>
      /\ NamesApart(side, w)
      /\ \A i \in DOMAIN w.fields : w.fields[i][1] = "tags" => ClearTags(side, w.fields[i][2])

-----------------------------------------------------------------------------
(* The hash under which a memory was built is the hash of what it has      *)
(* become exactly if it still says the same: neither the order of fields   *)
(* and tags, nor how accents are written, nor what is null or empty, nor   *)
(* an anchor added later makes it another memory, and nothing else goes    *)
(* unnoticed.  An object with tags or with fields that collation cannot    *)
(* tell apart is left out: in TypeScript their order is in its hash.       *)
IdentityIsMeaning ==
  memory # None /\ Clear(maker, Hashed(maker, origin)) =>
    (Form(maker, memory.object) = memory.hash
       <=> Meaning(maker, memory.object) = Meaning(maker, origin))

(* What is canonical stays as it is when it is canonicalized again.        *)
FormIsStable ==
  memory # None =>
    \A side \in Side :
      LET form == Form(side, memory.object) IN Canonical(side, form, None) = form

(* A hash can be recomputed by whoever holds an object, or only its        *)
(* canonical form, and says what the object says and nothing else.         *)
CanonicalForm == IdentityIsMeaning /\ FormIsStable

-----------------------------------------------------------------------------
(* What a document says and the code does not do.                          *)

(* docs/canonicalization.md:168: all strings must be normalized with NFC.  *)
RustNormalizes ==
  memory # None =>
    \A l \in Leaves("rust", RustForm(memory.object), None) :
      l.value.kind = "text" => l.value.text.accent # "decomposed"

=============================================================================
