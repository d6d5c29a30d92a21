---------------------------- MODULE MCLifecycle ----------------------------
(* Small instances of Lifecycle for TLC.                                   *)
EXTENDS Lifecycle, TLC

CONSTANTS given      \* a name clients and other nodes use in their ids

Core(type, name) == [prefix |-> PrefixOf[type], body |-> "alnum", name |-> name]

Binding(id, status, stamps) ==
  [kind |-> "binding", id |-> id, subject_type |-> "owner",
   subject |-> Core("owner", given), issuer_type |-> None, issuer |-> None,
   filled |-> TRUE, status |-> status, stamps |-> stamps]

Attestation(id, subject_type, subject, status, stamps) ==
  [kind |-> "attestation", id |-> id, subject_type |-> subject_type,
   subject |-> subject, issuer_type |-> "owner", issuer |-> Core("owner", given),
   filled |-> TRUE, status |-> status, stamps |-> stamps]

Claimed  == Binding(Core("binding", given), "claimed", {})
Revoked  == Binding(Core("binding", given), "revoked", {"verified_at", "revoked_at"})
Reviewed == Attestation(Core("attestation", given), "binding",
                        Core("binding", given), "issued", {})

(* A claim with a new id and one with a chosen id, its revocation, one     *)
(* that has no date, one on a chain address; an attestation.               *)
MCDraft ==
  { [Claimed EXCEPT !.id = None], Claimed, Revoked,
    [Revoked EXCEPT !.stamps = {}],
    [Claimed EXCEPT !.subject.body = "spelled"],
    Reviewed }

(* What other nodes have sent: a verified binding, the same with another   *)
(* binding's entry, one whose body was damaged, and a revoked attestation  *)
(* that lacks its date.                                                    *)
Verified == Binding(Core("binding", given), "verified", {"verified_at"})
Sent(o, e, body) == [record |-> [entry |-> e, object |-> o], body |-> body]
MCForeignBundle ==
  { Sent(Verified, EntryOf(Verified), Verified),
    Sent(Verified, EntryOf(Claimed), Claimed),
    Sent(Verified, EntryOf(Verified), Torn),
    LET r == [Reviewed EXCEPT !.status = "revoked"] IN Sent(r, EntryOf(r), r) }

Symmetry == Permutations(Worker)
=============================================================================
