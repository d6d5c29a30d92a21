------------------------------ MODULE Archive ------------------------------
(***************************************************************************)
(* What the recorded-memory ledger promises its readers, said without      *)
(* files, workers or requests: an archive in which a record is written     *)
(* once under its memory_id and never changes, and in which every id the   *)
(* service has acknowledged is known.  A Lossy archive may lose all of it  *)
(* at once, and then knows nothing for ever.  LocalCore implements it.     *)
(***************************************************************************)
CONSTANTS Id,        \* memory ids
          Entry,     \* records
          Unknown,   \* what a lookup answers when there is no record
          Lossy      \* TRUE when the medium may fail

VARIABLES known,     \* [Id -> Entry \cup {Unknown}]: the answer of a lookup
          promised,  \* ids acknowledged to a client as recorded
          lost       \* the archive has become unreadable

vars == <<known, promised, lost>>

Init ==
  /\ known = [id \in Id |-> Unknown]
  /\ promised = {}
  /\ lost = FALSE

(* Some record is written under an id that has none; the client may or may *)
(* not get to hear of it.                                                  *)
Write(id) ==
  /\ ~lost
  /\ known[id] = Unknown
  /\ known'[id] \in Entry
  /\ known' = [known EXCEPT ![id] = known'[id]]
  /\ promised' \in {promised, promised \cup {id}}
  /\ UNCHANGED lost

(* An id is acknowledged: it has a record, or nothing has any more.        *)
Promise(id) ==
  /\ lost \/ known[id] # Unknown
  /\ promised' = promised \cup {id}
  /\ UNCHANGED <<known, lost>>

(* The medium fails, possibly under the very request it then acknowledges. *)
Lose ==
  /\ Lossy
  /\ ~lost
  /\ known' = [id \in Id |-> Unknown]
  /\ lost' = TRUE
  /\ \/ UNCHANGED promised
     \/ \E id \in Id : promised' = promised \cup {id}

Next ==
  \/ \E id \in Id : Write(id)
  \/ \E id \in Id : Promise(id)
  \/ Lose

Spec == Init /\ [][Next]_vars

=============================================================================
