# TLA+ specifications of Polana

This directory holds TLA+ models of the parts of Polana that keep state or decide what a
memory object is, the TLC configurations that model-check them on small instances, and
TLAPS proofs of what matters most for every instance. Every definition is a translation of
code under `src/`; where a document says something else, the model follows the code, and
the differences are listed below.

```
tlc -workers 2 -config LocalCore.cfg MCLocalCore.tla     # model-check
tlapm LocalCoreProofs.tla                                # check the proofs
```

## 1. Inventory

Polana records the output of AI systems as *memory objects*. Content goes to a content
store, a signed description of it to a ledger, and a compact anchor to a Substrate chain
(chain A), from which a relayer mirrors it to Solana (chain B).

| component | state | operations | talks to |
|---|---|---|---|
| content store `packages/storage-client` | one file per cid, the cid being the hash of the content | `put`, `get`, `has` | file system |
| memory ledger `packages/ledger` | `records.jsonl`, append only | `append`, `get`, `list` | file system |
| binding and attestation ledgers `packages/ledger` | `bindings.jsonl`, `attestations.jsonl` | as above | file system |
| SDK `packages/sdk` | none of its own | create, import, verify, export, list; the same for bindings and attestations | store, ledgers, hashing, signer |
| hashing `packages/hashing` | none | canonical JSON, hash, memory_id | - |
| signer `packages/signer` | none | key pair, sign, verify | - |
| schema `packages/memory-schema` | none | validation, lifecycle transitions | - |
| ingestion API `apps/ingestion-api` | a key file | HTTP routes over the SDK | SDK, `.polana` files |
| core client `apps/core-client` | a key file; in the browser two drawers, a selection, URL and localStorage | create flow, attest, import, details; a page | SDK, the same `.polana` files |
| demo CLI `apps/demo-cli` | a key file, the last ids | create, verify, import, export | SDK, the same `.polana` files |
| relayer, local pipeline `rust/polana-relayer` | `mirror-sink.jsonl`, `checkpoint.json` | `relay-memory`, `relay-anchor-source` | JSONL source |
| relayer, Substrate source | where a poll has got to | `poll-substrate-once` | chain A |
| relayer, Solana sink | outbox file | send a transaction | chain B |
| registry `rust/pallet-memory-registry` | `Anchors`, `MemoryCount` | `register_memory` | events on chain A |
| mirror program `rust/solana-memory-mirror` | one account per memory | upsert, set status | chain B |
| core types `rust/polana-core` | none | the Rust twins of schema, hashing, signer | - |
| submitter `rust/polana-submitter` | none | verify a memory, print an anchor | core types |
| runtime, node | none (configuration, unwired skeleton) | - | - |

Who shares what: the API, the core client and the CLI are separate processes on the *same*
content store and ledgers, without a lock; within a process every request gives way at each
`await`. The relayer is a command that runs, stops and is run again; two of them may overlap.

What is hard, and what would be correct:

* **Store and ledger.** Creates and imports of the same content overlap, a request dies
  between two awaits, an append or a `writeFile` stops half way. Correct: no record without
  content; an acknowledged memory can be read; an answer, once given, stands; verification
  neither cries wolf nor misses damage.
* **Bindings and attestations.** Records of one id follow each other with changing status,
  and the first one wins. Correct: only legal objects are recorded and what was answered is
  found.
* **Signing keys and flows.** Two first requests each create a key; a flow fails after its
  first effect and is made again. Correct: what is signed verifies with the key that stays,
  "201" means all of it, whoever asks again is served.
* **The page.** A late answer fills the drawer of another memory, tabs share a storage.
  Correct: buttons, headline, detail and URL speak of the same thing.
* **Identity.** Objects are rewritten by other programs and hashed by two implementations.
  Correct: the hash changes exactly when the meaning does, on either side.
* **Relayer.** It dies between the sink and the checkpoint, or inside either; two runs
  overlap. Correct: nothing is checkpointed before it is written, nothing is passed over,
  nothing is written twice, everything published is mirrored.
* **Chain to chain.** An event and the storage record it refers to must belong together, a
  poll sees some blocks and not others, a repeated upsert meets an account that has moved
  on. Correct: what is mirrored is what was registered.

`PROJECT.json` lists the same components with their status, and every hazard at its line
with the properties that would catch it.

## 2. What is modelled

| module | what it is |
|---|---|
| `JsonlFile` | a file of JSON lines that is only appended to, shared by ledgers and relayer |
| `LocalCore` | SDK, content store and memory ledger |
| `Archive` | what a ledger promises its readers, without files or requests |
| `Lifecycle` | bindings and attestations: objects, ids, both ledgers |
| `Apps` | what API, client and CLI do around the SDK: keys, flows, last ids |
| `Page` | the page of the core client: drawers, selection, URL, storage, late answers |
| `Identity` | canonical form, hash and signature in TypeScript and in Rust |
| `IdentityMeaning` | what an object says, and that its form says the same |
| `Relay` | the local relay pipeline |
| `Bridge` | registry, poll, `Relay`, Solana sink and mirror program, composed |
| `MC...` | an instance of each for TLC |
| `JsonlFileProofs`, `LocalCoreProofs`, `LifecycleProofs`, `AppsProofs`, `PageProofs`, `IdentityProofs`, `RelayProofs`, `BridgeProofs` | theorems |

Which uses which: LocalCore, Lifecycle, Relay and Bridge extend `JsonlFile`. LocalCore
implements `Archive`, Lifecycle implements it twice. Bridge has the variables of `Relay`
and takes its actions from an instance of it (`R`), with a batch in place of the source file.
Apps rests on what LocalCore and Lifecycle show of a recording and does it in one step.

### JsonlFile

A file is `[lines, open]`: the lines, and whether the last one lacks its newline. That flag
is the whole point. What a torn append leaves is harmless until the *next* append continues
on the same line, so that a record written in full is lost with the fragment. `CutAppend` is
everything a stopped append can leave: nothing, a fragment, or the record without its newline.

### LocalCore

A *worker* is a request to the API or the core client, or a run of the CLI. `pc[w]` is the
await it stands at, `job[w]` its local variables; a step runs from one await to the next:

| action | code |
|---|---|
| `Create`, `Import`, `Query` | the handlers up to their first await, with the checks `importRecordedMemoryBundle` makes before it |
| `PutTruncate`, `PutWrite` | the two halves of `writeFile` in `put`, then what the SDK does with the cid: validate and sign (create), compare (import) |
| `LookUp`, `AppendRecord` | `ledger.get` and `ledger.append` of import; create appends without looking |
| `FetchForVerify`, `HasContent` | `ledger.get`, then `storage.has` and all checks after it, in the order of the code |
| `FetchForExport`, `ReadContent` | `ledger.get`, then `storage.get` and `TextDecoder` |
| `Fail` | the process dies at an await, or the write it awaits fails part of the way |

Abstracted: SHA-256 is injective, so a cid is the content and a canonical hash is the pair
of content and the other hashed fields (`Input`); the memory_id is derived from the hash and
is the hash. A signature is what was signed and with which key. Which inputs validate is the
set `ValidInput`. `Decode` is what `TextDecoder` makes of content that is then encoded
again; it is a parameter, and in `LocalCore.cfg` it drops a byte order mark. `store`,
`ledger` are the files; `bundles`, `acked`, `verdicts` remember what clients were given.

A ledger that does not parse answers `[]` (`Listed`), as the `catch` in `list` makes it.

### Archive

An abstract write-once archive: `Write` puts a record under an id that has none, `Promise`
acknowledges an id that has one, and a `Lossy` archive may `Lose` everything at once. The
mapping: known is the ledger's `get`, promised the acknowledged ids, lost a ledger that does
not parse. It says in one formula that two records of one id never change places, that an
acknowledged id is known, and that loss is total and needs a failed write.

### Lifecycle

Both kinds run through the same actions with a `kind` in the job. An object has its id, a
subject with its type, an issuer, its status and the dates it has (`stamps`); an id is a
prefix and what its body is made of, which is all that the patterns see. `Valid` is
`assertValidBindingObject` and `assertValidAttestationObject`, `Completed` what
`createBindingObject` and its counterpart fill in, `CreateWith` the two
`createAndRecord...Object`, `Import`, `Export`, `LookUp`, `AppendRecord` and the rest the
steps of the SDK as in LocalCore. The entry, the object and the stored body are three
things: create derives them from one object, import takes them from a bundle as they come.
`ClientAttest` is the client's attest route, whose issuer no pattern accepts. `MayFollow` is
`assertValidBindingTransition`, which no code calls.

### Apps

`keyfile` is the key file of each program, `memories`, `medium` and `bindings` what is in the
ledgers and whether they can be read, `last` the id files of the CLI. A worker goes through
`ReadKey`, `TruncateKey`, `WriteKey` (`loadOrCreateSigningKey`, three copies in the code),
`Record`, `ReadBack`, `Bind` (`handleCreateFlow` and its simpler relatives), `TruncateLast`,
`WriteLast` and `Answer`. `Fail` is a system call that fails and is answered 400, `Crash` a
process that dies - of the servers, with all its requests. An import looks its id up
(`LookUp`) an await before it appends. People make a request again when it was refused
(`Submit`), and nothing in the page or the CLI keeps them from making one that is under way
or served (`SubmitAgain`: a second click, a second run, a bundle imported again). `tries`
counts both, `again` the latter. `rekeyed` remembers that two requests made a key at once or
that a key file could not be read, which is when a key may be replaced, and `blind` that an
import found the ledger unreadable, which to it is an empty one.

### Page

A step is what the browser runs without giving way. `OpenIn` is `openDetail` up to its
`await`, `Fill` and `FillError` what it does with the answer, `Submit` and `FlowAnswer` the
create form and the import box, `RefreshAnswer` the reload of the lists, `Close` the close
buttons, `Persist` everything else that stores the state, `Load` the start of the script from
URL or localStorage, `Visit` and `Reload` the server's route. Requests are answered in any
order (`pending` is a set). `newest` and `late` are history: the number of the newest detail
request, and that an older one was answered after it.

### Identity

`memory` is an object with the hash and the signature it was given, `origin` the object as
built, `maker` the side that built it, `given` the key_ref its producer asked for. `BuildTs`
and `BuildRust` are the two builders; `Carry` is any other program, which may turn the object
into any other. `Canonicalized(side, v, key, next)` is one call of `canonicalize` or
`canonicalize_value`, `next` being what the calls for the children return. The two functions
are copies of each other but for three operators that take a side: `Normal` (Rust's `nfc`
returns the characters as they are), `TextRank` (`localeCompare` against code points) and
`NameRank` (`localeCompare`, and JavaScript's integers first, against code points). Names are
never normalized, and `localeCompare` finds some of them equal that are not: such names are
in one set of `TsOrder`, here `note` with and without a zero-width joiner behind it
(`note~`) and `cafe` with a combined and with a composed accent (`cafe'`, `cafe^`). A filter
and a stable sort are one operator, `Ranked`: items by rank, then by place. `Struct` is what
serde makes of an object: unknown fields are dropped, `None` is written as null. `ValidTs` and
`ValidRust` keep what the two validations think of a field that is not given, with one
required text for all. `VerdictTs` and `VerdictRust` are the SDK's verify and
`polana-submitter verify-memory`.

The whole canonical form is a constant operator, `Canonical`, of which `CanonicalAssumption`
says that it is `Canonicalized` at every value; so are `Inside` (a value and all in it) and
`Leaves` (`IdentityMeaning`: what a value says, the set of its texts with their paths; of
tags, how often each occurs). The recursive operators that solve these equations are in
`MCIdentity`, which gives them to TLC as the constants' values, and TLC evaluates the
equations on all values that occur, their canonical forms among them. That keeps `RECURSIVE`
out of the modules that theorems are about, and the theorems hold for whatever solves them.

Abstracted: hash, base32 and Ed25519 are injective; a text is a letter with its case, its
accent, composed or not, and perhaps a character that collation ignores. Numbers and
booleans are left out: JavaScript and serde_json do not write all numbers alike (1.0, 1e-6
and integers beyond 2^53 are written in different ways), and nothing is said here of objects
that hold such numbers. Tags that are no
texts, which validation keeps out of an object's own `tags`, rank before all texts.

### Relay

A *relayer* is a process; a step is one system call. `writeln!` on an unbuffered `File` is
two writes (`WriteRecord`, `WriteNewline`), `fs::write` an open with truncation and a write
(`TruncateCheckpoint`, `SaveCheckpoint`). `LoadCheckpoint` reads the checkpoint anew for
every envelope, as the code does; a checkpoint that does not parse ends the run. `Crash`
ends a run anywhere, also in the middle of a write. The source is a file too: `Publish`
(external) may stop half way, and `RelaySource` starts no run on a source with a line that
does not parse, wherever it stands. With two runs `SaveCheckpoint` may write
over a longer text that the other has written since the truncation. `written` remembers
which ids have been written to the sink in full, glued to a fragment or not; `InSink` are
those a reader finds, and `Lost` those that are in the checkpoint and that no reader finds.

### Bridge

| actions | code |
|---|---|
| `Register`, `Seal` | the pallet's `register_memory`; block production (external) |
| `Subscribe`, `Pass`, `GiveUp`, `Take`, `Interrupt` | `poll_source_once`: subscribe to finalized blocks, pass over a block, end with an error, hand over the batch of one block; a connection or process that dies |
| `Relaying` | the actions of `Relay` on that batch |
| `Prepare`, `Send`, `SkipGarbled` | `SolanaRpcMirrorSink`: outbox line, then the transaction, which may arrive although an error is answered; an operator who repeats it or goes on |
| `Upsert`, `SetConsumptionStatus` | the mirror program on one account |

Nothing in `src/` but tests constructs the Solana sink, so its user is an external operator
who feeds it the JSONL sink. The outbox is optional in the code; the model has it configured.
`alike` is external: the poll compares the *text* of an account id in the event with that in
storage, and whether the two forms ever agree depends on the chain's client library.

## 3. What the runs check

| run | question | instance |
|---|---|---|
| `local_core` | do the invariants of LocalCore and the refinement of Archive hold? | 2 workers, 4 requests, 1 failure, 2 contents, 3 inputs of which one is invalid, 2 keys, 3 foreign bundles |
| `lifecycle` | are both ledgers legal, complete and write-once? | 2 workers, 3 requests, 1 failure, 6 drafts, 4 foreign bundles |
| `apps` | keys, flows, retries and double requests | 2 workers of the client, 1 of the CLI, 3 intents (a flow and an import in the client, a binding in the CLI), 1 failure, 1 repeat |
| `page` | do selection, headline, detail and URL agree? | 2 tabs, 2 memories, 1 binding, 3 fetches, 1 network failure |
| `identity` | is the hash the meaning, and do the sides agree? | 102 objects that differ in one or two respects, each rewritten to each |
| `relay_overlap` | is the order of sink and checkpoint safe when runs overlap and crash? | 2 relayers, 2 lines published whole or not, 1 crash, 3 lines before the last start |
| `relay_alone` | is one run at a time replay-safe and complete? | 1 relayer, 2 lines published whole or not, 2 crashes |
| `bridge` | from registration to mirror account | 4 anchors of 3 ids, 3 blocks, 1 relayer, 1 account, 1 crash, 1 repeat |
| `local_core_torn_ledger`, `attest_refused`, `binding_revoke`, `identity_nfc` | what a document says and the code does not do | smallest instances that show it |

The properties:

* LocalCore. `ContentBeforeRecord`: whatever line the ledger holds, its content has been
  stored. `AckedReadable`: while the ledger parses, an acknowledged memory is found by its
  id, and with the entry that was acknowledged, as far as foreign bundles are honest.
  `AnswersStable`: a record once answered stays the record of its id, although nothing stops
  two lines with one id. `NoFalseAlarm`: verify reports nothing missing or mismatched that
  was recorded here or came in honest bundles, and blames a signature only where key_ref is
  missing or is not the key that signed. `DamageNeedsFailure`: until a write fails, the
  ledger parses and a content file is partial only while a request is writing it.
  `ImplementsArchive`: the refinement.
* Lifecycle. `RecordedIsLegal`: only objects whose dates agree with their status, under core
  ids, in the file of their kind. `ContentBeforeRecord`, `AckedFound`, as above for both
  kinds, `IndexAgrees`: entry and object of a record agree unless it was imported that way.
  `DamageStaysInKind`: a failed append touches no other ledger. `ImplementsArchives`.
* Apps. `SignedWithKeptKey`: what a program has signed is signed with the key in its file,
  unless requests raced to make it or the file was not readable. `AnsweredWhole`: 201 means
  all of a flow, and no binding is without its memory. `LinesAccountedFor`: while the ledger
  can be read, an intent has beyond its first line at most one for each failure and one for
  each request made although another was under way or served; an import that could read the
  ledger has more only for the latter. `LastIsRecorded`: the noted id exists.
  `EventuallyServed`: whoever keeps asking gets 201, unless the memory ledger is lost.
* Page. `SelectionIsTitle`: what Export, Copy Export and the attestation button act on, the
  selection, is what the headline of the open drawer names. Copy Content and Copy Binding
  act on the latest detail instead, and of them speaks `MismatchNeedsLateAnswer`: a drawer
  shows, and they copy, another detail only after an older request was answered late -
  which can happen, since answers are not matched with requests. `UrlNamesOpenMemory`: while
  the memory drawer shows a detail, the URL names the selection, and the memory shown unless
  an answer was late: then the two may differ. `LoadingEnds`: no drawer says
  "loading" for ever unless a fetch failed on the network - which leaves it so, since
  `openDetail` does not catch.
* Identity. `CanonicalForm`: the hash of an object changes exactly if its meaning does
  (defined without order or pruning, as the set of its texts with their paths), and a
  canonical form is stable. Left out are objects with tags or names which the sort of their
  maker cannot tell apart, since in TypeScript the order in which these came is in the hash,
  and with tags that are no texts (`Clear`). `BuiltVerifies`: what was signed
  verifies where it was built exactly if it names the signer's key, since the producer gave
  that one or none - or null, in TypeScript only.
  `SubmitterAgrees`: about what the SDK has signed and both sides treat alike (`Plain`), the
  submitter says what the SDK says, but that it does not recompute the hash.
* Relay. `WrittenFirst`: an id is in the checkpoint, or behind a run's cursor, only after a
  whole record of it was written. `ReplaySafeAlone`: one relayer that has not crashed has
  each checkpointed id on exactly one line that parses. `CrashCostsOneLine`: a crash of such a
  relayer costs at most one line, be it a repeat, a fragment, or a record that was glued to a
  fragment and is lost to every reader. `MirroredUnlessTorn`: a published anchor comes to
  stand, for good, on a line that parses, unless it was lost in that way, a crash has torn the
  checkpoint, or the source does not parse.
* Bridge. `CountAgrees`: the counter is the number of anchors until it saturates.
  `MirrorFaithful`: what sink and accounts hold is what the registry holds.
  `WatchedIsRelayed`: with one relayer, a block that a poll has looked at is relayed whole
  unless something has died. `OutboxFirst`: nothing reaches chain B that the outbox does not
  show. `StatusLostNeedsRepeat`: a consumption status is reset only by a repeat.
  `AwaitedIsRelayed`: what is registered while a poll waits comes to the sink.

### Bounds

Two workers are enough for every race the code can have on one file: an overwriting `put`, a
double import, a query across an append. Four requests reach a create, its export, an import
of that bundle and a verification; one failure tears a line, and the next append completes
it. All invariants of that run are also proved, for any number of failures. Requests are
bounded in LocalCore, Lifecycle and Apps, fetches in Page, blocks and sink lines in Bridge,
starts in `relay_overlap`: these systems stop when a bound is used up, and deadlock is not
checked there. In `relay_alone` and `identity` no bound stops the system and deadlock is
checked. Lifecycle's drafts have a claim with a new and one with a chosen id, its
revocation, one without its date, a chain address and an attestation; its bundles one that
is good, one with another's entry, one with a damaged body, one not valid. Two requests of
the client and one of the CLI reach a race for a key, a double click, two imports of one
bundle between each other's lookup and append, and a crash that takes two requests; the
memory commands of the CLI and the API are in the module and not in the instance, and the
theorems about Apps cover them. Three fetches reach two open requests and a late answer to
the first. `CountLimit` is 2 and stands for u64::MAX, `StartBlock` 2 of three blocks, so
that a block before it, one at it and one after it occur. Four anchors of three ids reach
the duplicate, the block of two events and one that does not decode. Symmetry is used only
in runs without liveness.

### Fairness

In Relay, a run that is not killed goes on, and the operator runs `relay-anchor-source` again
and again (strong fairness of `RelaySource`, since other commands may keep the relayer busy
in between); the command is one-shot and nothing restarts it, so this is an assumption about
its user. In Apps, a settled await is resumed, which the event loop guarantees, and people
who were refused ask again. In Page, the fetch of a detail ends, with an answer or with an
error, as browsers guarantee. In Bridge, blocks are made and a poll or relay that is not
killed goes on; nobody is assumed to poll, so `AwaitedIsRelayed` speaks of polls under way.

Every property has a mutant of the code, an operator beside the one it stands for, under
which TLC finds it violated: a newline forgotten, an append that is a rewrite, `findLast` for
`find`, a cursor moved twice, a counter that wraps, a drawer that is not cleared.

### Where code and documents differ

| run | what TLC shows |
|---|---|
| `local_core_torn_ledger` | one append stops half way and every memory acknowledged before becomes "not found" |
| `attest_refused` | every attestation asked for in the client is answered 400: `prod_core_client_attestor` is no producer_id |
| `binding_revoke` | a revocation of a claimed binding is recorded, and the claim goes on being answered |
| `identity_nfc` | Rust hashes decomposed accents as they are, where the documents ask for NFC |

Met while modelling, and visible in the models without a run of their own:

* Two tags that differ only in ignorable characters compare equal under `localeCompare`, and
  so do two names, which moreover are not normalized and may differ in how an accent is
  composed. The sorts are stable, so their order of insertion reaches the hash (`ClearTags`,
  `NamesApart`): for such objects the order of fields does matter. Names are ordered by
  locale and integers first in TypeScript, by code point in Rust and in the documents
  (docs/canonicalization.md:34): objects with such names have two hashes.
* polana-core writes `null` for every optional field it has not, and the TypeScript
  validation accepts only a field that is missing: what Rust has built and written cannot be
  imported. It also keeps a `key_ref` that is null where TypeScript puts the signer's key, and
  refuses blank texts that TypeScript accepts. `verify-memory` does not recompute the hash.
* Reloading a page whose URL names its selection is answered 404: the server knows only `/`
  (`NotFound`), although README.md:193 promises the URL for revisit. Details of bindings are
  never stored in the URL. A binding bundle given to the page's import box goes to the memory
  route and is refused. "Export latest" exports the first item of the *filtered* list.
* Verify asks whether the content file exists and does not read it. A second `put` of the same
  content truncates the file, and an export in that moment carries the rest. A create that
  names its own key_ref never verifies. Content that starts with a byte order mark cannot be
  exported and imported again, since `TextDecoder` drops the mark.
* A crash between sink and checkpoint makes the next run write the memory again; between a
  line and its newline it glues the next record to it, which is then checkpointed and on no
  line that parses; while `checkpoint.json` is truncated it
  stops every later run. With two relayers a run exits when it meets the other's truncated
  checkpoint, and the block it had polled is lost: hence `R!Alone` in `WatchedIsRelayed`.
* Nothing keeps the page from sending a flow or an import again while the first is under way:
  two clicks on the create form make two memories, with no failure.
* Rust's binding validation checks a subject by its own prefix, not by `subject_type`.

## 4. What is proved

All theorems hold for every value of the constants under the named assumptions of the
modules: parameters are of their types, sentinels such as `Garbled`, `None`, `Absent` are no
data, bounds are natural numbers. TLC evaluates the assumptions in every run.

`JsonlFileProofs` says what appends do: one that completes on a file that still parses
afterwards found a file that parses and put its record on a line of its own; a garbled line
never goes away. `LeastIndex` and `AppendLength` are what `find` and counting lines rest on.

`LocalCoreProofs`:
* `LocalCoreTypeCorrect`. `TypeInv` adds to the type which locals of a job are set at which
  await; without that, `PutWrite` would read a record that is not there.
* `LocalCoreContentBeforeRecord`. `StoreInv` adds that a worker at `write` has its file, that
  one at `lookup` or `append` has stored the content *its record names*, and that create
  stores the content its record names. The ledger invariant alone is not inductive: it says
  nothing of a worker about to append.
* `LocalCoreAnswersStable`. From `GetAfterAppend` (a record appended on its own line is found
  unless its id already was, and changes no other answer). `AnswerInv` adds that a query
  which has fetched a record and awaits the store holds what `ledger.get` still answers.
* `LocalCoreNoFalseAlarm`, `LocalCoreAckedReadable`. `SoundInv` adds that every record on its
  way into the ledger, in it, or held by a query has its entry and hash derived from its
  memory object, while exported bundles keep at least the entry.
* `LocalCoreDamageNeedsFailure`. Inductive with the type alone.
* `LocalCoreImplementsArchive`. Every step maps: a step that writes the ledger to `Write` when
  its record is the first of its id, to `Lose` when it spoils the ledger (which takes a file
  left open, hence a failure), otherwise to `Promise` or a stutter.

`LifecycleProofs`, for both kinds at once:
* `LifecycleTypeCorrect`. `JobInv` adds that what stands between a request and a ledger is a
  validated object of the kind of the request, and that create stores what its entry names.
* `LifecycleRecordedIsLegal` (`LegalInv`): so every line is a valid object of the kind of its
  file. That valid objects have the dates of their status is the lemma below it.
* `LifecycleContentBeforeRecord` (`StoreInv`), by the argument of LocalCore, and
  `LifecycleDamageStaysInKind` (`DamageInv`): only `AppendRecord` and `Fail` touch a file.
* `LifecycleIndexAgrees`. `PlayInv` looks at every record in play: in a ledger, in a worker's
  locals, in a bundle. Each agrees with its object unless another node sent it otherwise, and
  an id generated here names one record and no later request. Of a ledger alone this is not
  inductive, since an import takes its record from a bundle.
* `LifecycleAckedFound` (`AckedInv`): with one record per generated id, the line that `get`
  finds first holds the entry that was acknowledged.
* `LifecycleImplementsArchives` (`ArchiveInv`): a step of one kind is a step or a stutter of
  its archive and a stutter of the other.

They assume of drafts and foreign bundles that no id in them is one that `randomBytes` is yet
to return: 128 random bits are not guessed, and `GeneratedId` has no other source.

`AppsProofs`:
* `AppsTypeCorrect`. `JobInv` adds that a busy worker has an intent of its program and a
  request for it, and a key while it writes one.
* `AppsSignedWithKeptKey`. `KeyInv(a)`: recorded keys, and the key of a worker about to
  record, are the one in the file; while one worker makes a key the file holds none, and no
  other makes one. The last part is what a second maker breaks, and with it `~rekeyed`.
* `AppsAnsweredWhole`. `WholeInv` says at each await what must already be recorded: the
  memory at `readback` and at the `bind` of a flow, everything from `lasttruncate` on.
* `AppsLinesAccountedFor`. `CountInv` balances, for each intent, what there is against what
  may be: requests under way that have yet to append, and one to come while its owner has not
  been served (`Due`), count like lines. Requests of one intent may overlap: `Submit` needs an
  owner who was told nothing or 400, so each further one under way is in `again`. For imports
  that could read the ledger a second balance leaves the failures out: a worker about to
  append found no line when it looked, so that each line is one of the requests under way.
* `AppsLastIsRecorded`. `NotedInv` adds that a command which stands at its last-id file has
  recorded what it is about to note; records are never taken back.

`PageProofs`:
* `PageTypeCorrect`, and `PageSelectionIsTitle`, which is inductive: every step opens a
  drawer, closes it, empties both or leaves the selection alone (`SelectionSteps`).
* `PageMismatchNeedsLateAnswer`. `OrderInv`: a request under way that is at least as new as
  the newest of its drawer is for what the headline names. Without it the answer to the
  newest request might fill in anything.
* `PageUrlNamesOpenMemory`. `UrlIsSelection`: a detail is stored in the step in which it is
  shown, and what changes the selection later clears the drawer or stores. That the selection
  is the memory shown unless an answer was late follows from the other two theorems.

`RelayProofs`:
* `RelayTypeCorrect`, and `RelayWritesBeforeCheckpoint` for any number of overlapping runs and
  crashes: `WriteInv` adds that what a run has loaded, and what it is about to save, has been
  written.
* `RelayReplaySafeAlone`: with one relayer that has not crashed, checkpoint and sink agree up
  to the envelope in flight.
* `RelayCrashCostsOneLine`, with as many crashes as one likes. `LinesInv`: the lines, and the
  ids accounted for that no line shows, are together at most the ids accounted for plus the
  crashes. Accounted are the checkpoint's ids and, between its write and its save, the
  current one. A crash there takes one id out of the account; one inside a line leaves a
  fragment, and the record glued to that makes no line of its own (`OpenLineInv`).

`BridgeProofs` takes the lemmas of `RelayProofs` through an instance of it (`RP`):
* `BridgeTypeCorrect`. `ChainInv` adds that the events of a block have anchors in that block
  and that an anchor, once in a block, never changes.
* `BridgeMirrorFaithful`. `FaithInv`: not only sink and accounts but the batch of a run and
  the transaction about to be sent hold what the registry holds.
* `BridgeOutboxFirst`: so is the transaction about to be sent in the outbox.
* `BridgeCountAgrees`, from the cardinality of a finite set that grows by one.
* `BridgeWatchedIsRelayed`. `PollInv`: with one relayer and no crash, every due block looked
  at is written or in the batch, and the checkpoint can be loaded whenever a run wants to
  (`Loadable`), so that no run ends before its batch does.
* `BridgeStatusLostNeedsRepeat`. `RepeatInv` joins both halves of the way: while nothing
  has crashed each id is on one line of the outbox (`OnceInv`), and while nothing was sent
  again every account's memory is on a line before `next` (`SentInv`). So an upsert whose
  account has a status already would be a second line of its id.

`IdentityProofs`, for values of every size and shape:
* What is assumed: the constants solve their equations, a value contains finitely many others
  and is not inside its own parts (JSON is a finite tree), `Value` has what canonicalizing
  and reducing make of its members, keys of a map are distinct.
* Induction over values takes no axiom. `SmallestValue`: any set of values has one none of
  whose parts is in it, because parts have fewer values inside. Each theorem takes the set of
  its counterexamples.
* Sorting. `NthFacts` and `NthOnto` say that ranks number the places one to one;
  `RankedMoved` that two sequences are sorted alike if the places of one move to those of the
  other with ranks and ties kept; `RankedSorted` that what is in order stays.
* `IdentityBuiltVerifies`. `BuiltInv`: hash and signed payload are the form of the object as
  built, and which key_ref it got follows from the one given. The canonical form itself does
  not matter, only which fields go into it, and when.
* `IdentityCanonicalForm`, from two theorems about canonicalizing alone.
  `IdentityCanonicalIsStable`: doing it twice is doing it once, because what is kept is not
  empty, is its own form, and stands in order. `IdentitySaysTheSame`: values have one form
  exactly if they are of one kind and have the same leaves, where names and tags are told
  apart by the sort (`ClearFor`). Maps: a field is kept exactly if it says something
  (`EmptyIsSilent`), and what is kept has one order if no two names rank alike
  (`KeptForms`). Lists: an item says at least its kind, and places tell items apart. Tags:
  equal counts give a bijection of places that keeps ties (`MoveExists`), so the sorted tags
  are equal; sorting keeps counts (`RankedCounts`), so equal sorted tags have equal counts.
* `IdentitySubmitterAgrees`, from `IdentityPlainFormsAgree`: of a plain object both sides
  hash the same form. Serde may reorder its fields, which `IdentityFieldsInAnyOrder` allows
  for names that the sort tells apart - by code point all are (`RustNamesApart`) - and
  inside it every name and tag is ranked alike by both (`PlainAlike`).

Only model-checked: liveness (`MirroredUnlessTorn`, `EventuallyServed`, `LoadingEnds`,
`AwaitedIsRelayed`), which like `ENABLED` is out of the prover's reach. Every other property
of the passing runs is a theorem. That the recursive operators of `MCIdentity` solve the
equations for every finite tree is their definition and not proved: tlapm has no induction
that would define them.

## 5. Not modelled, and the plan

Left out for good: HTML, CSS, the timeline and terminal output; HTTP parsing; transaction
encoding (borsh, Solana crates); SHA-256 and Ed25519 themselves; the query filters of `list`
and of the page, which are pure; the runtime's configuration and the node skeleton, which
runs nothing. The Rust checks of bindings, attestations, ids and anchors repeat those of
`packages/memory-schema` (modelled in Lifecycle) and are called by tests only. Of the CLI,
`import-binding` notes an id like the commands that are modelled. `prepare-anchor` prints
what it reads.

Next: the page's visit to its own URL, once the server knows more than `/`; the filters of the
list routes, if they come to depend on what other requests change; `prepare-anchor` and the
runtime, once the anchors it prints are submitted by code in `src/`.
