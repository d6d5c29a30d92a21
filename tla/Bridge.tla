------------------------------- MODULE Bridge -------------------------------
(***************************************************************************)
(* The way of an anchor from chain to chain: the memory registry pallet,   *)
(* poll-substrate-once of the relayer, its relay to the JSONL sink (the    *)
(* module Relay), the Solana RPC sink and the memory mirror program.       *)
(*                                                                         *)
(* Nothing under src/ connects the last two to the rest: an operator, who  *)
(* is external, gives the records of the JSONL sink to the Solana sink one *)
(* by one, each with the configuration of some mirror account.             *)
(*                                                                         *)
(* Abstracted: an anchor is an Envelope, of which the checks see only      *)
(* what Malformed and Undecodable say; a block is finalized when sealed.   *)
(* The outbox has whole lines.                                             *)
(***************************************************************************)
EXTENDS JsonlFile, FiniteSets

CONSTANTS
  Relayer,
  Envelope, MemoryId,
  IdOf,         \* [Envelope -> MemoryId]
  Malformed,    \* anchors that the ensure!s or the field limit refuse
  Undecodable,  \* anchors with a field that is not UTF-8
  Account,      \* mirror accounts that configurations name
  Status,       \* values of consumption_status but 0
  None,
  StartBlock,   \* start_block of the poll configuration
  CountLimit,   \* u64::MAX
  MaxBlocks,    \* bound: blocks
  MaxSink,      \* bound: no relay starts on a sink of that many lines
  MaxCrashes,   \* bound: polls and relays that die
  MaxRetries    \* bound: sends whose error is not final

ASSUME EnvelopeAssumption ==
  /\ IdOf \in [Envelope -> MemoryId] /\ Garbled \notin Envelope
  /\ Malformed \subseteq Envelope /\ Undecodable \subseteq Envelope
ASSUME MirrorAssumption ==
  /\ None \notin [anchor : Envelope, status : Status \cup {0}]
  /\ None \notin [account : Account, anchor : Envelope]
ASSUME BoundAssumption ==
  /\ MaxSink \in Nat /\ MaxCrashes \in Nat /\ MaxRetries \in Nat
  /\ StartBlock \in Nat /\ CountLimit \in Nat

VARIABLES
  anchors,     \* Anchors: memory_id -> anchor, of the ids registered
  count,       \* MemoryCount
  building,    \* events of the block that is being built
  blocks,      \* finalized blocks: the events, and Anchors at each
  alike,       \* external: an account prints alike in event and storage
  poll,        \* [Relayer -> the block its poll looks at next, 0 for none]
  watched,     \* numbers of the blocks that a poll looked at
  sink, checkpoint, pc, batch, cursor, seen, written, crashes,    \* of Relay
  next,        \* the operator's position in the sink
  sending,     \* the transaction that the Solana sink is about to send
  outbox,      \* transactions in the outbox file
  accounts,    \* [Account -> mirror account or None]
  retries,     \* records given to the Solana sink again
  statusLost   \* an upsert has set a status other than 0 back to 0

chain == <<anchors, count, building, blocks, alike>>
watching == <<poll, watched>>
relay == <<sink, checkpoint, pc, batch, cursor, seen, written, crashes>>
mirror == <<next, sending, outbox, accounts, retries, statusLost>>
vars == <<chain, watching, relay, mirror>>

(* No relay-anchor-source here: the relayer's input is what was polled.    *)
R == INSTANCE Relay WITH source <- [lines |-> <<>>, open |-> FALSE], MaxSource <- 0

Registered == DOMAIN anchors
Ids(events) == {IdOf[events[k]] : k \in DOMAIN events}
Transaction == [account : Account, anchor : Envelope]
MirrorAccount == [anchor : Envelope, status : Status \cup {0}]

Init ==
  /\ anchors = [id \in {} |-> None]
  /\ count = 0
  /\ building = <<>>
  /\ blocks = <<>>
  /\ alike \in BOOLEAN
  /\ poll = [r \in Relayer |-> 0]
  /\ watched = {}
  /\ R!Init
  /\ next = 1
  /\ sending = None
  /\ outbox = {}
  /\ accounts = [a \in Account |-> None]
  /\ retries = 0
  /\ statusLost = FALSE

-----------------------------------------------------------------------------
(* Mutants of Counted: addition beyond u64, or that wraps.                 *)
CountedUnchecked(n) == n + 1

CountedWrapping(n) == (n + 1) % (CountLimit + 1)

Counted(n) == IF n >= CountLimit THEN CountLimit ELSE n + 1

(* Mutant of Insertable: an anchor may be registered again.                *)
WellFormed(e) == e \notin Malformed

Insertable(e) == e \notin Malformed /\ IdOf[e] \notin Registered

(* register_memory.  A call that fails a check changes nothing.            *)
Register(e) ==
  /\ Len(blocks) < MaxBlocks
  /\ Insertable(e)
  /\ anchors' = [id \in Registered \cup {IdOf[e]} |->
                   IF id = IdOf[e] THEN e ELSE anchors[id]]
  /\ count' = Counted(count)
  /\ building' = Append(building, e)
  /\ UNCHANGED <<blocks, alike, watching, relay, mirror>>

Seal ==
  /\ Len(blocks) < MaxBlocks
  /\ blocks' = Append(blocks, [events |-> building, anchors |-> anchors])
  /\ building' = <<>>
  /\ UNCHANGED <<anchors, count, alike, watching, relay, mirror>>

-----------------------------------------------------------------------------
(* poll-substrate-once subscribes to finalized blocks: the first it is     *)
(* given is the newest there is (block 0 has no events).                   *)
Subscribe(r) ==
  /\ pc[r] = "idle" /\ poll[r] = 0
  /\ poll' = [poll EXCEPT ![r] = IF blocks = <<>> THEN 1 ELSE Len(blocks)]
  /\ UNCHANGED <<chain, watched, relay, mirror>>

Looks(r) == poll[r] > 0 /\ poll[r] <= Len(blocks)

(* Mutant of Passes: only blocks after start_block are looked at.          *)
PassesStart(b) == b <= StartBlock \/ blocks[b].events = <<>>

Passes(b) == b < StartBlock \/ blocks[b].events = <<>>

Pass(r) ==
  /\ Looks(r) /\ Passes(poll[r])
  /\ poll' = [poll EXCEPT ![r] = @ + 1]
  /\ watched' = watched \cup {poll[r]}
  /\ UNCHANGED <<chain, relay, mirror>>

(* An event or anchor of the block does not decode, or the submitter of    *)
(* the first event is not that of its anchor: the poll ends, for all       *)
(* events of the block.                                                    *)
Decodes(b) == alike /\ \A k \in DOMAIN blocks[b].events :
                blocks[b].anchors[IdOf[blocks[b].events[k]]] \notin Undecodable

GiveUp(r) ==
  /\ Looks(r) /\ ~Passes(poll[r]) /\ ~Decodes(poll[r])
  /\ poll' = [poll EXCEPT ![r] = 0]
  /\ watched' = watched \cup {poll[r]}
  /\ UNCHANGED <<chain, relay, mirror>>

(* Mutant of BatchOf: one event per block is taken.                        *)
FirstOf(b) == <<blocks[b].anchors[IdOf[blocks[b].events[1]]]>>

(* For each event, the anchor that the registry had at that block.         *)
BatchOf(b) ==
  [k \in DOMAIN blocks[b].events |-> blocks[b].anchors[IdOf[blocks[b].events[k]]]]

(* The first block with events: the poll is over, its events are relayed.  *)
Take(r) ==
  /\ Looks(r) /\ ~Passes(poll[r]) /\ Decodes(poll[r])
  /\ R!Start(r, BatchOf(poll[r]))
  /\ poll' = [poll EXCEPT ![r] = 0]
  /\ watched' = watched \cup {poll[r]}
  /\ UNCHANGED <<chain, mirror>>

(* The connection is lost, or the process killed.                          *)
Interrupt(r) ==
  /\ poll[r] > 0
  /\ crashes < MaxCrashes
  /\ crashes' = crashes + 1
  /\ poll' = [poll EXCEPT ![r] = 0]
  /\ UNCHANGED <<chain, watched, sink, checkpoint, pc, batch, cursor, seen, written, mirror>>

Relaying(r) ==
  /\ R!Proceed(r) \/ R!Crash(r)
  /\ UNCHANGED <<chain, watching, mirror>>

-----------------------------------------------------------------------------
(* A line of the sink that the operator can parse.                         *)
Readable(k) == k <= Len(sink.lines) /\ sink.lines[k] # Garbled

(* Mutant of Prepare: the transaction is noted when it has been sent.      *)
PrepareUnnoted(a) ==
  /\ sending = None /\ Readable(next)
  /\ sending' = [account |-> a, anchor |-> sink.lines[next]]
  /\ UNCHANGED <<chain, watching, relay, next, outbox, accounts, retries, statusLost>>

(* write_instruction_record of the Solana sink: the transaction is built   *)
(* and signed, and appended to the outbox.                                 *)
Prepare(a) ==
  /\ sending = None /\ Readable(next)
  /\ sending' = [account |-> a, anchor |-> sink.lines[next]]
  /\ outbox' = outbox \cup {sending'}
  /\ UNCHANGED <<chain, watching, relay, next, accounts, retries, statusLost>>

(* External: the operator passes over a line that does not parse.          *)
SkipGarbled ==
  /\ sending = None
  /\ next <= Len(sink.lines) /\ sink.lines[next] = Garbled
  /\ next' = next + 1
  /\ UNCHANGED <<chain, watching, relay, sending, outbox, accounts, retries, statusLost>>

(* Mutant of Matches: an account takes any memory.                         *)
MatchesAny(a, e) == TRUE

(* account_matches_memory_id.                                              *)
Matches(a, e) == accounts[a] # None => IdOf[accounts[a].anchor] = IdOf[e]

(* apply_instruction, UpsertMemory: all of the account is new.             *)
Upsert(a, e) ==
  /\ Matches(a, e)
  /\ accounts' = [accounts EXCEPT ![a] = [anchor |-> e, status |-> 0]]
  /\ statusLost' = (statusLost \/ (accounts[a] # None /\ accounts[a].status # 0))

(* The answer to sendTransaction: the operator goes on with the next line, *)
(* or after an error takes this one again.                                 *)
Answered == sending' = None /\ next' = next + 1 /\ UNCHANGED retries
Again ==
  /\ retries < MaxRetries
  /\ retries' = retries + 1
  /\ sending' = None
  /\ UNCHANGED next

(* An error may come of a transaction that the chain executes.             *)
Send ==
  /\ sending # None
  /\ \/ Upsert(sending.account, sending.anchor) /\ (Answered \/ Again)
     \/ UNCHANGED <<accounts, statusLost>> /\ (Answered \/ Again)
  /\ UNCHANGED <<chain, watching, relay, outbox>>

(* Whoever signs: the account's authority is not compared with anything.   *)
SetConsumptionStatus(a, s) ==
  /\ accounts[a] # None
  /\ accounts' = [accounts EXCEPT ![a].status = s]
  /\ UNCHANGED <<chain, watching, relay, next, sending, outbox, retries, statusLost>>

-----------------------------------------------------------------------------
Next ==
  \/ \E e \in Envelope : Register(e)
  \/ Seal
  \/ \E r \in Relayer :
       \/ Subscribe(r) \/ Pass(r) \/ GiveUp(r) \/ Take(r) \/ Interrupt(r)
       \/ Relaying(r)
  \/ \E a \in Account : Prepare(a) \/ \E s \in Status : SetConsumptionStatus(a, s)
  \/ SkipGarbled
  \/ Send

Spec == Init /\ [][Next]_vars

(* Blocks are made; a run that is not killed goes on.                      *)
FairSpec ==
  /\ Spec
  /\ WF_vars(Seal)
  /\ \A r \in Relayer :
       /\ WF_vars(Pass(r) \/ GiveUp(r) \/ Take(r))
       /\ WF_vars(R!Proceed(r) /\ UNCHANGED <<chain, watching, mirror>>)

-----------------------------------------------------------------------------
(* Every variable has its type, those of the relay as Relay has them.      *)
TypeOK ==
  /\ Registered \subseteq MemoryId
  /\ anchors \in [Registered -> Envelope]
  /\ count \in 0 .. CountLimit
  /\ building \in Seq(Envelope)
  /\ \A b \in DOMAIN blocks : blocks[b].events \in Seq(Envelope)
  /\ alike \in BOOLEAN
  /\ poll \in [Relayer -> Nat]
  /\ watched \subseteq DOMAIN blocks
  /\ R!TypeOK
  /\ next \in Nat \ {0}
  /\ sending \in Transaction \cup {None}
  /\ outbox \subseteq Transaction
  /\ accounts \in [Account -> MirrorAccount \cup {None}]
  /\ retries \in 0 .. MaxRetries
  /\ statusLost \in BOOLEAN

(* The counter of the pallet is the number of its anchors, or u64::MAX.    *)
CountAgrees ==
  LET n == Cardinality(Registered) IN
  count = IF n < CountLimit THEN n ELSE CountLimit

(* Whatever dies or is repeated on the way: what a mirror account says of  *)
(* a memory is what the registry says of it, as is every sink record.      *)
Holds(e) == IdOf[e] \in Registered /\ anchors[IdOf[e]] = e

MirrorFaithful ==
  /\ \A a \in Account : accounts[a] # None => Holds(accounts[a].anchor)
  /\ \A k \in DOMAIN sink.lines : sink.lines[k] # Garbled => Holds(sink.lines[k])

(* With one relayer, every block that a poll has looked at from            *)
(* start_block on is relayed whole, if it decodes and nothing has died.    *)
Due(b) == b >= StartBlock /\ blocks[b].events # <<>> /\ Decodes(b)

WatchedIsRelayed ==
  \A b \in watched :
    R!Alone /\ Due(b) =>
      \/ crashes > 0
      \/ \E r \in Relayer : pc[r] # "idle"
      \/ Ids(blocks[b].events) \subseteq written

(* No account has what the outbox does not: nothing is sent unnoted.       *)
OutboxFirst ==
  \A a \in Account : accounts[a] # None =>
    [account |-> a, anchor |-> accounts[a].anchor] \in outbox

(* With one relayer, a consumption status is lost only if some relay was   *)
(* killed, and repeated a record, or some record was sent again.           *)
StatusLostNeedsRepeat ==
  R!Alone /\ statusLost => crashes > 0 \/ retries > 0

(* With one relayer, what is registered while a poll waits, with nothing   *)
(* between, comes to the sink unless something dies or an anchor of the    *)
(* block does not decode.                                                  *)
Awaited(r, id) ==
  /\ id \in Ids(building)
  /\ poll[r] > 0
  /\ \A b \in poll[r] .. Len(blocks) : Passes(b)
  /\ Len(blocks) + 1 >= StartBlock

AwaitedIsRelayed ==
  \A r \in Relayer, id \in MemoryId :
    R!Alone /\ Awaited(r, id) ~>
      \/ id \in written
      \/ crashes > 0 \/ ~alike
      \/ \E other \in Registered : anchors[other] \in Undecodable
=============================================================================
