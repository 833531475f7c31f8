# Verification of oa-libs

`oa-libs` is the set of Rust libraries the services of a club's office system
share: an event bus on Redis Streams with a transactional outbox, object
storage, the verification of access tokens, and common types. This directory
holds TLA+ models of what those libraries do, the configurations with which TLC
checks them on small instances, and proofs, checked by TLAPS, of the properties
that matter most for instances of any size. Every definition is translated from
the code; `PROJECT.json` (`map`) says from which lines.

Paths below are relative to `crates/`.

## 1. Inventory

| component | code | state it keeps | operations | talks to |
|---|---|---|---|---|
| transactional outbox | `bus/src/outbox.rs` | table `outbox`: status, attempts, available_at, last_error | `enqueue`, `fetch_due`, `mark_sent`, `mark_retry`, `drain_once` | PostgreSQL; `Bus::publish` |
| bus client | `bus/src/client.rs` | none of its own; streams, cursors and pending entries of groups in Redis; one shared connection | `publish`, `ensure_group`, `read_group`, `ack`, `ping` | Redis |
| reply parsing | `bus/src/message.rs` | none | `stream_name`, `parse_stream_reply` | called by the client |
| change log | `bus/src/audit.rs` | table `change_log` (append only) | `record`, `find`, `list_for` | PostgreSQL |
| local disk storage | `storage/src/local.rs` | files and directories under a root | `put`, `get`, `delete`, `exists`, `validate_key`, download signatures | the file system |
| S3 storage | `storage/src/s3.rs` | objects in a bucket | `put`, `get`, `delete`, `exists`, `presign_*` | an S3 service |
| storage interface | `storage/src/traits.rs` | none | the trait both implement | |
| access tokens and key sets | `auth-sdk/src/jwt.rs`, `jwks.rs` | none (key sets are cached by services) | encode, decode, choice of the key by kid | token issuer |
| claims, extractors, guard | `auth-sdk/src/claims.rs`, `extract.rs`, `guard.rs` | none | permission predicates, `AuthUser`, `OptionalAuthUser`, `guard_bot_request` | axum |
| service tokens | `auth-sdk/src/service_token.rs` | none | sign, verify in a time window | other services |
| errors, ids, pagination, validation | `common/src/*.rs` | none | conversions and predicates | |

The services themselves are not in the repository: they call `enqueue` in their
handlers, run `drain_once` in a background task in every replica, run a consumer
loop (`bus/src/lib.rs:5`: read, handle, `XACK` after success), and store files.

### What is hard, and what correct means

* **Outbox.** Every `await` of `drain_once` is a point where another replica, a
  crash or a failure comes in between. `fetch_due` takes no lock, `mark_retry`
  and `mark_sent` write by id without looking at what the row has become, the
  attempts written back were read a publication earlier, and a call that fails
  may have been done. Correct: no event is lost (`SentWasPublished`,
  `EventuallySent`), sent is final (`SentIsFinal`), repetitions are paid for
  (`DuplicatesBounded`), retries wait (`RetriesBackOff`), order (`OldestFirst`),
  and altogether at-least-once delivery (`ImplementsReliableDelivery`).
* **Consumer group.** A reply may be lost after Redis has moved the cursor; a
  consumer may stop between handling and acknowledging; broken entries arrive
  with good ones; a group that starts at `$` misses what came before. Correct:
  `NothingLost`, `HandledOnce`, `OrphansStay`, `EventuallySettled`,
  `EventuallyHandled`.
* **Shared connection.** Blocking reads and other calls are answered in order on
  one connection; when it breaks, Redis may go on with what it has got. Correct: `DelayBounded`, `NothingMissed`, `EveryCallReturns`.
* **Storage.** A local `put` is a series of system calls that overlap with those
  of other tasks, may stop anywhere, and go on in the blocking pool when the
  future is dropped; keys are paths, so that one key can be the directory of
  another. A request to S3 may be carried out after its caller has given up. The
  two backends must be exchangeable. Correct: `ImplementsObjectStore`,
  `PiecesHaveACause`, `AnswersAgree`, `PutsFailForACause`.
* **Tokens and permissions.** Stateless decisions about data that may be stale
  when they are made: claims embedded in a token, cached key sets, clocks. Correct:
  `StaleRightsBounded`, `GoodTokenAccepted`.
* **Signed calls, links and URLs.** Windows of time between two clocks, whole
  seconds against instants, arithmetic at the ends of an i64. Correct:
  `AcceptedWasSigned`, `InTimeIsAccepted`, `LinksEnd`.
* **Change log.** A change and its entry are two transactions, entries are sorted
  by a time the handler took when its request began, and handlers overlap.
  Correct: `MissingHasACause`, `UndoTakesBackTheLast`.
* **Texts from outside.** Pure functions whose rules must fit together: what is
  validated and what is stored, what is a key for each backend, what is written to
  a stream and what is read, where pages begin. Correct: `AccountRules`, `KeysNameObjects`,
  `EventsFindTheirReaders`, `PagesLieSideBySide`.

The list of hazards with their lines and properties is in `PROJECT.json`.

## 2. Modules

| module | models | how |
|---|---|---|
| `Backoff` | `backoff_seconds` | an operator with the base, the cap and the largest exponent as constants |
| `Outbox` | `outbox.rs` | one action per await of `drain_once`, per drainer; `enqueue`; time; crashes |
| `OutboxHistory` | the same | adds history variables for properties that compare steps |
| `ReliableDelivery` | the promise of the outbox: each accepted event delivered, a bounded number of times, and settled | abstract specification with its liveness; `Outbox` refines it |
| `ServiceWrite` | `enqueue` against the transaction of its caller | one action per step of a handler |
| `StreamGroup` | `client.rs`, `message.rs` | one action per call, the loop of a service around them |
| `EventPipeline` | all of the above together | instances of `ServiceWrite`, `Outbox`, `StreamGroup` that share the table and the stream |
| `SharedConnection` | the connection inside `Bus` | a queue of requests that Redis answers in order |
| `ObjectStore` | `traits.rs`, the promise of the storage interface | abstract specification; both backends refine it |
| `LocalStore`, `MCLocalStore` | `local.rs` | one action per kind of system call; instances |
| `S3Store` | `s3.rs` | one request per operation, carried out by the object store |
| `Storage`, `MCStorage` | a service's choice of backend | one of the two, and the refinement mapping; instance |
| `AccessControl` | `guard.rs`, `extract.rs`, `claims.rs`, `jwt.rs`, `jwks.rs` | pure decisions, in a world where rights, keys and time change |
| `SignedRequests` | `service_token.rs`, signatures of `local.rs`, presigned URLs of `s3.rs` | pure decisions, under two clocks |
| `ChangeLog` | `audit.rs` | one action per transaction and call of a handler that edits or undoes |
| `Validate`, `StorageKeys`, `StreamReply`, `Pagination` | `validate.rs`; keys of `local.rs` and `s3.rs`; `message.rs`; `pagination.rs` | operators on texts and numbers |
| `Text` | `str::split`, `str::trim`, `Iterator::filter` | operators the others share |
| `Inputs` | | a state machine that types every text, and what is claimed of the operators |
| `OutboxProofs`, `StreamGroupProofs`, `EventPipelineProofs`, `SharedConnectionProofs`, `StorageProofs`, `SignedRequestsProofs`, `ChangeLogProofs`, `RequestProofs` | | theorems and proofs, for `OutboxHistory` and `Storage` with what they extend, and the other modules of these names; `RequestProofs` for `AccessControl` and `Inputs` |

**Outbox.** `status`, `attempts`, `wait`, `last_error` are the columns of the
table, as functions of the row. `log` is the Redis stream. `pc[d]`, `rows[d]`
and `age[d]` are the local state of the `drain_once` of drainer `d`: which await
it is at, the rows of its loop still to do with the attempts it has read, and
how long ago its `now` was taken. `DrainFetch` is line 173, `DrainPublish` 176,
`DrainMarkSent` 178, `DrainMarkRetry` 181-190. Publishing and updating each have
three outcomes: done, not done and reported as failed, done and reported as
failed. A failed UPDATE leaves the round (`?`), a failed publication does not.
`created_at`, `sent_at`, `event_type` and the payload are left out: nothing reads
them to decide anything; all events go to one stream. Timestamps are kept as
distances from the current instant, so that time needs no bound: `wait[e]` is how far
`available_at` lies ahead, and 0 stands for all that is past, which the code does not
tell apart either. `now` is taken together with the SELECT; the code takes it just
before it awaits that. `OutboxHistory` remembers what a row owes for its failures as a
delay that is doubled and capped, and not as a power of two of the attempts.

**StreamGroup.** `stream` are the entries, `last` the group's last-delivered-id,
`pending` its pending entries per consumer, as Redis keeps them for the commands
the library sends. `read_group` delivers up to `Count` entries of *each* stream,
as `XREADGROUP` does with several streams. `inbox` and `done` are what the
process of a consumer holds. Reads that fail (`NOGROUP`) or find nothing change
nothing and have no action.

**SharedConnection.** `queue` holds the requests not yet answered. A request that
need not block is answered before time passes (`Tick` is disabled), so the only
waiting is behind reads that block. `queue` has one entry per connection: `Break`
ends the calls that wait, all with an error, and leaves Redis a prefix of their
requests, which it goes on to carry out for nobody until it learns of the break
(`Close`). Opening the next connection takes no time.

**LocalStore.** A key is a sequence of segments; `disk` maps paths to files,
`dirs` is the set of directories. A file is the sequence of the writers of its
blocks, so that what a reader gets shows who wrote it. `opened[c]` says whether
the file that `c` writes is still the one at its path (a `delete` takes it away).
`put` is `Start`, `MakeDirs` (one directory at a time), `CreateFile` (truncates),
`WriteBlock` and `Finish`; `Abort` is a system call that fails or a stopped
process. Bodies have at least one block, since without one a complete file and one
just created are the same. `Drop` is a dropped future: the put makes no new call, but the one under
way is finished by tokio's blocking pool at some later time (`Late`), and then it
is over (`Close`).

**S3Store.** `request`, `served` and `given_up` follow the request of a put: it is
sent, carried out as a whole (`Serve`), and answered, or given up, before or after
it is carried out. The object store and the network are external. `put`s of one
client follow each other; two clients overlap in every way.

**Storage** has `driver`, as the interface has, and the variables of both; the ones
of the other backend stay as they are. `Object(k)` and `Putting(c)` map them to
`ObjectStore`: an object is the client whose body it is, or in pieces. What
`ObjectStore` says of a put that returns Ok is that its body is stored unless
another put or a delete got at the object since; a put that was given up counts
until it is over. `begun` is history: the keys on which a put of the local backend has
begun, of which one may be the directory of another (`Crossed`).

**AccessControl.** The library keeps no state, so the variables are the world
around it: the accounts and their rights, the issuer's keys and key set, the copy
of it in a service, and one token. `AuthUser` and `OptionalAuthUser` are the
answers to a request, the guard before them included; the properties quantify
over every request that could be made in a state. `lost` is history: how long ago
an account last had a right. A right is an entry of the permission matrix for the
guarded module (`read`, `write`), a role or a scope. A token keeps the key that signed
it and the `kid` it names apart, as the two arguments of `encode_access_token` are; the
issuer passes its own.

**SignedRequests.** Likewise: two clocks, a signature, and every request that can
be made with it. A signature is the message it is the HMAC of, which keeps what is
bound by it (call and timestamp; key and second of expiry). Clocks count half
seconds, because `verify_download` compares instants while `sign_download` signs
seconds. `now - timestamp` is computed in integers up to `MaxI64`, with both
outcomes of an overflow (`Wrap` of a release build, panic of a debug build). A
presigned URL is signed by the client library and verified by S3, both external;
what `s3.rs` decides is the method, the path and the clamped duration.

**ChangeLog.** One entity, whose state is the number of the edit that made it.
Handlers change it in a transaction of their own (`Change`) and then call `record`
with the states before and after, as `audit.rs:3` asks; `now` is taken when the
request begins. An undo looks at `list_for`, chooses the first entry, and writes its
`before` back, which is a change like another. `list_for` is the set of the answers
that `ORDER BY created_at DESC` allows. `orderly` is history: whether requests have
so far followed each other at different instants.

**Inputs.** `text` is a text under construction and `kind` what it will be used as;
every step types one more symbol, so that every text up to `MaxLength` over a small
alphabet is a state, and an invariant is a claim about all of them. A symbol stands
for a class of characters the code does not tell apart: in `Validate`, `"I"` is a
letter outside ASCII whose lower case is longer. Limits are scaled to the lengths
that are reached, so that each is met, passed and missed by one.

**EventPipeline.** The row of an event exists when `status` is not `"none"`, which
is what `ServiceWrite` calls `outbox`; `log` is the stream of `StreamGroup`. `times` is
history: how often consumers have handled an event, every handling of every copy
counted by itself, also when the same entry should be handled again.

## 3. Runs

| run | instance | shows |
|---|---|---|
| `outbox_drainers` | 2 replicas, 2 events, batches of 2, 2 faults of 5 kinds, fair | safety of the outbox and at-least-once delivery under every overlap of two rounds and two failures: each event is delivered, not too often, and settled in the end |
| `outbox_single` | 1 drainer, 3 events, batches of 2, 4 failed publications, fair | what only holds with one drainer: exact attempts, no publication after sent; also that retries wait for the delays they owe, past the clamp of the exponent too, order, and no starvation although a batch is smaller than the backlog |
| `group` | 2 consumers, 2 streams of up to 2 entries, 2 faults of 4 kinds, fair | safety and liveness of consuming |
| `connection` | 2 readers, another caller, reads that block for 2 units, a connection that breaks, fair | bounded waiting; every call returns; what is missed was under way at the break |
| `write_transaction` | 1 request | *violation*: change and event are not one transaction |
| `pipeline` | 1 event, 2 replicas, 2 consumers, a fault on each side, fair | end to end: nothing vanishes, handlings, counted one by one, are as few as the copies allow, and the saved change is handled |
| `store` | either backend, 2 clients with bodies of 1 and 2 blocks, 3 keys (2 nested), 1 fault | both backends implement `ObjectStore` and answer alike until a put on a nested key begins; pieces and failing puts have a cause |
| `access` | 1 account (bot or person) with 3 rights, 3 keys | revoked rights end, rotation of keys locks nobody out |
| `signed` | clocks a second apart, a leeway of 2 s, URLs for 0, 3 and 9 s with at most 4, integers up to 15 | calls, links and URLs are accepted in time, and no longer |
| `changes` | 2 handlers, 3 changes, 4 instants, 1 fault, lists of 2 | what is not in the log has a cause; undo takes back the last change of orderly requests |
| `inputs` | texts of up to 7 symbols | the rules for texts fit together |
| `store_nested_delete` | 1 client, 2 nested keys | *violation*: deleting an absent key fails |

**Bounds.** `BackoffBase = 1`, `BackoffCap = 3`, `MaxExponent = 2` keep the shape of
5 s, 600 s and 7: delays that double, then the cap below the next double, with an
exponent that may go far enough for it (`BackoffAssumption`; 5 * 2^7 = 640), and then
the clamp. An exponent beyond the clamp wraps to 0, as it does in an i64 from 64 on;
four failures go one past the clamp. Two replicas are enough for every pairwise overlap; two faults
for a failure followed by one during the recovery from it. Three events with
batches of two make rounds that leave rows behind. Two streams make replies of
several streams, two entries per stream with `Count = 2` make replies where a
broken entry precedes a good one. `MaxEntries` in the pipeline is the largest
number of copies `DuplicatesBounded` allows, so that it cuts off nothing.
`MaxWait` is above the largest wait `DelayBounded` allows. In `SharedConnection`
one or more unread entries differ only in number, which no reader sees. In
`LocalStore` a body of two blocks has an intermediate state that is neither
empty nor complete; a third client would repeat what the second does. In
`AccessControl` a token is judged by itself, so that one token and one account
show all there is; three keys make a key set that no longer has the key of a
token. In `SignedRequests` a signature is judged by itself too; `MaxTime` is beyond
the end of every window, link and URL that starts early. In `ChangeLog` three
changes make an edit, its undo, and the undo of that, and a list with more entries
than it shows. In `Inputs` seven symbols are more than any of the scaled limits, and
enough for an address with two labels, three segments of a key, three pairs of
fields, and two numbers of three digits.

**Deadlock** is checked wherever time passes. `group`, `write_transaction`,
`signed`, `changes` and `inputs` switch it off: once every entry is written and
settled, once the request has ended, at the last tick, after the last change, and at
the longest text, there may be nothing left to do.

**Fairness.** `outbox_drainers`, `outbox_single`, `group`, `connection` and `pipeline`
assume it. Weak fairness of each drainer's step (`WF(DrainStep(d))`): the
background task calls `drain_once` for ever, and every await of it returns,
because the database and Redis answer or the connection breaks. Weak fairness of
a consumer's step likewise, and of its `ack` for each stream: a loop that
acknowledges after handling does so however many new entries arrive. Weak
fairness of `Tick`: time passes. Weak fairness of Redis's answers in
`SharedConnection`. Nothing obliges a service to enqueue, commit, publish, read
or create a group, and no fault is ever obliged to happen; faults are finitely
many by `MaxFaults`. One caveat is real: with the response timeout off
(`client.rs:27`) a connection that is half open can keep a call waiting for ever,
and the fairness of `DrainStep` assumes that the operating system ends it.

**Disagreements found** (`findings`): (1) `enqueue` cannot take part in the caller's
transaction as its comment says; (2) deleting an absent key is an error when it is a
directory or lies below a file. Likewise `exists` is true of a directory, and a put
below a file fails; `AnswersAgree` therefore speaks of a key until a put begins on one
that is its directory or lies below it, and `PutsFailForACause` names such a put as a
cause. Smaller ones show in the
conditions the properties need, and have no run:

* `outbox_flow.rs:61` says that a sent event is not delivered again: true of one
  drainer (`SentNotRepublished`), while a second one that had fetched the row before
  publishes it again (`DuplicatesBounded` says how often). With two drainers the
  attempts column loses attempts too (`AttemptsExact`).
* `client.rs:70` says that a read blocks for `block_ms` milliseconds: for ever when
  it is 0, and with it every later call of the same `Bus`, which is why the liveness
  of `connection` needs `Block > 0`.
* `audit.rs:4` says that writing `before` back is all an undo does: it undoes the
  wrong change when requests tie or overlap (`UndoTakesBackTheLast`).
* `guard.rs:10` says that invalid tokens are passed on to the extractors, while a bot
  token that is expired but readable is answered 403 by the guard before any 401.
* The S3 backend validates no key, and a key with a `.` segment is another object
  there, but the same file locally (`KeysNameObjects`).
* An address is validated before it is put in lower case, which can make it longer
  than the validation allows (`AccountRules`).

## 4. Proofs

| theorem | says |
|---|---|
| `OutboxProofs!BackoffBounds` | a delay is between `BackoffBase` and `BackoffCap` |
| `OutboxProofs!TypeCorrect` | `Spec => []TypeOK` |
| `OutboxProofs!NoLoss` | `Spec => []SentWasPublished` |
| `OutboxProofs!SentForGood` | `Spec => SentIsFinal` |
| `OutboxProofs!ImplementsSafely` | `Spec => Delivery!SafeSpec`: the step by step half of `ImplementsReliableDelivery` |
| `OutboxProofs!CopiesArePaidFor` | `Spec => []DuplicatesBounded` |
| `OutboxProofs!SentIsNotPublishedAgain` | `Spec => SentNotRepublished`, for one drainer |
| `OutboxProofs!PublishedInOrder` | `HSpec => OldestFirst` |
| `OutboxProofs!AttemptsCountFailures` | `HSpec => []AttemptsExact`, for one drainer, if only publishing fails |
| `OutboxProofs!RetriesWaitTheirDelay` | `HSpec => RetriesBackOff`, under the same hypotheses |
| `StreamGroupProofs!TypeCorrect` | `Spec => []TypeOK` |
| `StreamGroupProofs!NoSilentLoss` | `Spec => []NothingLost` |
| `StreamGroupProofs!AtMostOnce` | `Spec => []HandledOnce` |
| `StreamGroupProofs!OrphansForGood` | `Spec => OrphansStay` |
| `EventPipelineProofs!DrainsAsOutbox` | `Spec => O!Spec`: the draining side is `Outbox` |
| `EventPipelineProofs!ConsumesAsGroup` | `Spec => G!Spec`: the consuming side is `StreamGroup` |
| `EventPipelineProofs!WritesAsService` | `Spec => W!Spec`: the writing side is `ServiceWrite` |
| `EventPipelineProofs!SavedHasItsRow` | a saved change has its event in the table: the half of `SameTransaction` that holds |
| `EventPipelineProofs!SentNeverVanishes` | `Spec => []SentIsAccountedFor` |
| `EventPipelineProofs!HandlingsArePaidFor` | `Spec => []HandledBounded` |
| `SharedConnectionProofs!MissedOnlyByBreaks` | `Spec => []NothingMissed` |
| `SharedConnectionProofs!CallersWaitForReadersOnly` | `Spec => []DelayBounded`, if reads block for a limited time |
| `StorageProofs!TypeCorrect` | `StorageSpec => []StorageTypeOK` |
| `StorageProofs!PiecesAreExplained` | `StorageSpec => []PiecesHaveACause` |
| `StorageProofs!BackendsAnswerAlike` | `StorageSpec => []AnswersAgree` |
| `StorageProofs!FailuresHaveACause` | `StorageSpec => []PutsFailForACause` |
| `StorageProofs!ImplementsTheInterface` | `StorageSpec => ImplementsObjectStore` |
| `RequestProofs!TypeCorrect` | `Spec => []TypeOK` |
| `RequestProofs!RevocationIsBounded` | `Spec => []StaleRightsBounded` |
| `RequestProofs!RotationLocksNobodyOut` | `Spec => []GoodTokenAccepted` |
| `RequestProofs!AccountsFitTogether` | `InputsSpec => []AccountRules` |
| `RequestProofs!KeysStayBelow` | `InputsSpec => []KeysNameObjects` |
| `RequestProofs!EventsReachTheirReaders` | `InputsSpec => []EventsFindTheirReaders` |
| `RequestProofs!PagesMeet` | `InputsSpec => []PagesLieSideBySide` |
| `SignedRequestsProofs!OnlySignedCalls` | `Spec => []AcceptedWasSigned` |
| `SignedRequestsProofs!InTimeIsGoodEnough` | `Spec => []InTimeIsAccepted` |
| `SignedRequestsProofs!LinksOpenNothingElse` | `Spec => []LinksEnd` |
| `ChangeLogProofs!TypeCorrect` | `Spec => []TypeOK` |
| `ChangeLogProofs!NoSilentChange` | `Spec => []MissingHasACause` |
| `ChangeLogProofs!UndoIsUndo` | `Spec => UndoTakesBackTheLast` |

They hold for any sets of events, drainers, streams, consumers, messages, tasks, keys,
clients, handlers, accounts and rights that the assumptions admit, for any batch,
count, backoff, size, lifetime, leeway and page, for texts of any length over the
symbols of `Inputs` and any limits of their lengths, and for any number of faults. The
assumptions are the ones the modules name (`BackoffAssumption`, `OutboxAssumption`,
`StreamGroupAssumption`, `EventPipelineAssumption`, `SharedConnectionAssumption`,
`LocalStoreAssumption`, `StorageAssumption`, `TimesAssumption`,
`AccessControlAssumption`, `SignedRequestsAssumption`, `ChangeLogAssumption`,
`ValidateAssumption`, `PaginationAssumption`), which TLC evaluates in the runs: sets are finite, numbers natural, and values that stand for
nothing are no elements. Four theorems have hypotheses of their own, without which
they are false:

* `SentIsNotPublishedAgain`, `AttemptsCountFailures` and `RetriesWaitTheirDelay` are
  about a single drainer (`Drainers = {d}`). Two may both have fetched a row that one
  of them then sends or counts.
* `AttemptsCountFailures` and `RetriesWaitTheirDelay` take it that only publications
  fail. A failure that no UPDATE has recorded is missing from the column, and the row
  stays due.
* `CallersWaitForReadersOnly` takes `Block \in 1..MaxWait`: with `block_ms = 0` a read
  has no end, and the model counts no further than `MaxWait`.

*Outbox.* `SentWasPublished` is not inductive: that a drainer may mark a row sent
depends on what it did before. The inductive invariant is
`Inv == TypeOK /\ SentWasPublished /\ Confirmed /\ RowsExist`, where `Confirmed`
says that the current row of a drainer at `mark_sent` is in the stream and
`RowsExist` that the rows of a round have been enqueued. `RowsExist` is what the
refinement needs too: `Deliver` of `ReliableDelivery` is for accepted events. It also
needs that the event has copies to spare, which the invariant of `DuplicatesBounded`
shows of the state after the publication.

`DuplicatesBounded` counts, and takes an invariant of its own. `AtSent(e)` are the
drainers that have published `e` and are about to mark it, `Todo(e)` those whose
round has still to publish it; nobody is in both. Until a row is sent each copy is
paid for by a fault or belongs to a drainer in `AtSent`
(`Copies <= faults + |AtSent|`); from then on only rounds that hold the row already
add to it (`Copies + |Todo| <= faults + |Drainers|`), because `fetch_due` returns no
row that is sent. The `UPDATE` passes from the first bound to the second.

The properties that compare steps are those of `OutboxHistory`, every step of which is
one of `Outbox`. For `OldestFirst` the invariant says what has become of the rows a
drainer saw when it fetched (`Visited`): each is sent, has failed, or is still in its
round, which goes from the oldest on. For a single drainer `Recorded` says
that the columns a round holds are still those of the table, and that `attempts` is one
behind `failed` exactly at the row about to be retried; `Owing` that the delay a row
owes by doubling is the one `backoff_seconds` has for its failures (`BackoffDoubles`,
where the clamp counts); `Delayed` that `wait` and `since` together never fall short of
the delay, since time takes from the one what it gives to the other.

*StreamGroup.* `Inv` adds to `TypeOK` and `NothingLost`: `Custody` (what waits in an
inbox is pending, what a process has done is handled), `Apart` (no entry is pending
for two consumers), `Known` (what is pending or handled has been delivered) and
`Unhandled` (what waits in an inbox has not been handled). The core of `HandledOnce`
is that `read_group` delivers only ids beyond `last`, of which nobody knows yet.

*EventPipeline.* The theorems of the two halves are instantiated, not proved again.
Each step of the pipeline is a step of `Outbox` or leaves its variables alone, and
likewise for `ServiceWrite`, whose table no drainer adds to because of `RowsExist`, and
for `StreamGroup`, whose `publish` needs room in the stream: `Fits` provides
it, an injection of the entries into pairs of an event and the number of its copy,
which `DuplicatesBounded` keeps small. `SentIsAccountedFor` then joins
`SentWasPublished` (there is an entry) and `NothingLost` (the entry is before the
group's position and handled or pending, or still to come). `HandledBounded` counts
handlings, which `Handlings` shows to be as many as the entries of the event that are
handled: each handling adds one to both, because by `Unhandled` of the group the entry
was not handled before. Those entries are copies (`HandledAreCopies`), and the copies
are bounded by `DuplicatesBounded`.

*SharedConnection.* `Orderly` are the facts about queues: `Shape` (types), `Once` (no
task is twice in a queue), `Unused` (a connection not opened yet has none) and
`Waiting` (who waits is in the queue of the current connection). `Paid` says that the
entries missed and the reads stranded on dead connections are together one per
reader and break at most: `Break` strands, `Serve` turns a stranded read into a missed
entry, `Close` forgets. `Timely` is a
budget: what a caller has waited, with `Block` for each read ahead of it, is at most
`Block` for each reader and what the first read has blocked already.

*Storage.* `LocalInv` joins `TypeOK` (a path is a file or a directory at most, and lies
in directories), `Tree` (files are at keys, and who is about to create one has its
directories), `Handles` (a handle still at its path is to a file that is there),
`Pieces` (a file that is being written is mixed up, or its writer's so far and nobody
else's) and `Undisturbed` (so is the file of a put that nobody disturbed). That
`MakeDirs` keeps the tree rests on its directory being the shortest that is missing.
`Begun` says where directories and files come from: above and at keys on which a put has
begun. So nothing but a nested key turns a file into a directory or the other way round,
which is what `AnswersAgree` and `PutsFailForACause` need.
For S3, `Requested` says that a body put there stays until another put or a delete
overtakes it. The refinement maps each system call and each request to a step of
`ObjectStore` or a stutter: for each of these steps a lemma states what becomes of the
objects (`AllObjects`), of the puts at work (`AllPutting`) and of the disturbed ones
(`AllDisturbed`), and each action of either backend is shown to be one of them.

*AccessControl.* What an old token is worth does not follow from the state it is
used in, so `Inv` relates it to the past: `NoOlder` says that a right in a token was
lost, if at all, no longer ago than the token is old, and `Held` that a right an
account has counts as lost 0 ago. Time ages both by the same amount.
`GoodTokenAccepted` needs only the types: a key that is in the copy is found by its kid.

*SignedRequests.* `Clocks` says that the clocks are near each other and that `at` is in
the past, `Signed` that the signature is of a call, a link or a URL at an instant that
the sender's clock may have shown at `at`. Everything else is arithmetic, for which
there are lemmas: `\div Second` is monotone, and loses less than a second; a difference
that wraps is of a timestamp that nobody signs.

*ChangeLog.* `MissingHasACause` counts the changes in no entry against the handlers
that have still to record one. Each change adds one to both, `record` takes one from
both and a fault pays for the rest (`Counted`), provided that a change about to be
recorded is not in the log and is one handler's (`Due`) and that an entry is that of
one change (`Recorded`). For `UndoTakesBackTheLast`, `OneByOne` says what orderly
requests are worth: one handler at work, later than every entry, and entries whose
times are in the order of their changes. With `Counted`, the entry of the last change
is then there when an undo looks and comes first in any order the database may choose
(`ShownIsNewest`), which `Latest` keeps until it is written back.

*Inputs.* The invariants are claims about one text, so that nothing but its type is
carried from state to state; the work is in the operators. They take texts apart with
`FoldLeft`, which the community modules define as a recursive function on sets of
positions that is chosen (`CHOOSE`), and of which nothing follows before it is shown
to exist (`IterationExists`, for the initial parts of a text one after the other).
`FoldsTo` then says that a fold is the last of the values it passes through, from
symbol to symbol, and from it follows what `Split`, `Without` and `Walk` make of a text
with one more symbol (`SplitMore`, `WithoutMore`). What they make of whole texts is
proved by induction over texts (`TextInduction`): a text without separator is one
piece, one with a single separator two, the first piece ends before the first
separator, and lower case keeps the pieces. The induction rests on the least
length outside a set, because the library's induction theorems have a parameter that
is an operator. With these lemmas an address in lower case is shown to have the pieces
of the address, a walk that never goes up to end below its root (`WalkDown`), and the
last value under a name to be the one that was published (`LastValueAt`). Pages are
intervals (`Rows`), for which the multiplication by the limit is all that matters.

Only model-checked: liveness (`EventuallySent`, `EventuallySettled`,
`EventuallyHandled`, `EndToEnd`, `EveryCallReturns`, and the `EverySettled` of
`ImplementsReliableDelivery`), because fairness and ENABLED are out of the prover's
reach. Every other property of a passing run is a theorem.

The proofs do not hang on a fast machine: they also pass with the provers' time cut to
less than half while several copies of them run side by side on four processors.

## 5. Not modelled, and why

* `attempts` as a 32-bit integer: 2^31 failures at 600 s each take 40 000 years.
* Clocks of replicas that differ: `now` is one clock. A skew shortens or
  lengthens delays, and changes no safety property of the outbox.
* A publication that is still under way when the process that gave it up has
  restarted: Redis is taken to have done it, or not, when the call ends.
* Data that Redis loses, trimming of streams, and `XAUTOCLAIM`, which the library
  does not have (`bus/src/lib.rs:6`).
* In `LocalStore`: reads that overlap a put in the middle (a read takes one step),
  permissions, links and full disks beyond `Abort`; it takes keys as the paths they
  name, and `KeysNameObjects` says which keys name one path. A key that ends in `/.`
  names what must be a directory. In `S3Store`: retries inside the client library.
* File systems that fold case, and the percent-encoding of characters no key may have.
* In `SharedConnection`: how long opening a connection takes (5 s at most,
  `client.rs:28`), and failures to open one, which the call reports like any other.
* The order of `id` columns generated by several replicas within a millisecond.
* `CursorPage` and `FieldError`, which carry what they are given; JSON escapes.
* The issuer of a token (`jwt.rs:40`): there is one issuer, and only tokens it signed.
* Empty bodies of local files, which differ from one just created in nothing.
* Error responses (`error.rs`): constant texts per kind of error, with unit tests.
* Cryptography (HMAC, RSA, SHA-256), text formats, logging, HTTP.
* The components with status `not_modelled` in `PROJECT.json`.

## 6. Plan

Done in this order: the outbox and its refinement, the consumer group, the shared
connection, the pipeline, storage and its refinement, access control, signed
requests; the change log, presigned URLs, connections that break, and the functions
on texts.

Then proofs of all safety properties that the runs check, first of the outbox and the
group, then of the pipeline from both, of storage, and at last of the functions on
texts.

What is left: liveness, for which a prover of temporal logic with ENABLED would be
needed; bounds the models have for TLC's sake only, such as one entity in `ChangeLog`
and one token in `AccessControl`, which could become sets; and the parts that
section 5 lists.
