# xous-app-signal in TLA+

TLA+ modules for `xas`, the Signal client for Xous: what its storage layer,
its worker, its websocket pump and its user interface do, step by step, with
failing writes, power loss, late events and tasks that outlive their owner.
TLC checks the modules on small instances; TLAPS proves the safety properties of
the batching storage layer, the session store, the key stores, the manager task,
the dispatcher and the UI flows for every value of their constants.

Paths below are relative to `src/crates/`. `PROJECT.json` maps every definition
to the lines it stands for.

## 1. Inventory

### Parts and how they talk

```
 gam_app.rs (UI loop) --Cmd channel(16)--> worker dispatcher --op channel(8)--> manager_task
      ^    store.rs, dialogue.rs                |   |                               |  presage Manager
      +---------- Event channel ----------------+   +-- link future                 |
                                                          \                         |
                                    PddbStore (shared clones: session cache, dirty set, backend)
                                          BufferingBackend (one batch at a time)
                                          PddbBackend -> xous-pddb-ipc -> PDDB server (external)
 libsignal-service-rs (external) <--two channels(16)--> ws_pump threads -> tls -> network
```

The UI is one thread, the worker one executor thread with several tasks, each
websocket three threads. Everything the worker's tasks share is one `PddbStore`
of which they hold clones.

| Part | State | Operations | What is hard |
|---|---|---|---|
| `presage-store-pddb/src/buffering_backend.rs` | the wrapped backend, `batching`, the buffer | begin, put, delete, delete_dict, get, list_keys, commit, abort | a commit is several PDDB calls; each can fail or be the last before power loss |
| `backend_pddb.rs`, `xous-pddb-ipc` | flash, one call at a time behind a mutex | get, put (delete, create, write chunks), put_batch, delete, delete_dict, list_keys (count, pages) | no call but a delete is atomic; writes do not truncate; batches and names have caps |
| `lib.rs`, `protocol/session_store*.rs` | `session_cache`, `session_dirty` | load, store, delete, delete_all, flush, clear | cache, dirty set, batch and flash have to agree after any failure |
| `protocol/*pre_key*`, `identity_key_store.rs` | key dictionaries, packed pre-key bundle, dedup table | save, remove, mark used, next ids, trust decision | ids read before awaits, whole-bundle rewrites, delete-first puts |
| `state.rs`, `content.rs`, `sender_key_store.rs`, `store.rs` | registration, contacts, groups, profiles, sticker packs, messages by thread, sender keys | save, load, list, probe and delete, clear | torn records, paged listings, partial wipes |
| `xous-signal-worker/src/lib.rs`, dispatcher | `manager_ops`, `cached_account_info` | link, cancel, account info, start receive, send, logout, shutdown | tasks that outlive their op sender; commands dropped during a link |
| same file, `manager_task` | failure counters, pending sends, queued profile lookups | park, backoff, open, pump, look up profiles, send with retry and deferral, sweep | one outcome per send over receipts, retries, deadlines; an op kept waiting by lookups |
| `xous-net-bridge/src/ws_pump.rs` | `Mutex<WebSocket>`, two channels | handshake, read, write, teardown | unfair mutex, silent peers, abandoned connections |
| `xous-app-signal/src/gam_app.rs` | screen, link flags, account, the lookup in progress | keys, focus, worker events, username lookup | late events, dropped commands, answers without a name |
| `store.rs`, `dialogue.rs` of the app | five rows, cached summaries | push, evict, outcome, read, resolve, clear | eviction forgets, handlers skip the rebuild |
| `tls.rs`, `http.rs`, `main.rs`, `log_filter.rs`, `redact.rs`, `error.rs` | none of their own | I/O, start-up, formatting | not modelled |

The hazards of each part, with the line where they bite and the properties
aimed at them, are listed in `PROJECT.json` under `hazards`.

### What makes each part correct

* Batching backend: it is a transaction over a store that can lose power.
* PDDB client: each backend call does all it says or fails, whatever the chunks
  and pages, and harms nothing it was not called on.
* Record stores: what is handed out is what is on flash; a wipe that reports
  success is complete; every method returns.
* Sessions: the cache never loses, rewinds or resurrects a ratchet state.
* Key stores: consumed keys stay consumed, the others stay, pins hold.
* Manager task: one outcome per send, no send forgotten, it ends when let go.
* Dispatcher: accounts never mix on the shared store; what it reports as linked
  is registered; it always comes back to its command loop.
* Websocket pump: no leaked thread, no starved writer, no unnoticed dead peer.
* UI: it agrees with the worker once late events are handled, and never waits
  for an answer that cannot come; a chat opens for the name that was typed.
* UI rows: the summaries are those of the rows; an outcome lands on its own row.

## 2. Modules

| Module | Models | Builds on |
|---|---|---|
| `PddbBackend` | what a PDDB call leaves on flash, succeeding or failing | |
| `KvBackend` | abstract: the trait as its callers may rely on it, one step per call | `PddbBackend` |
| `PddbClient` | the calls of `backend_pddb.rs` as messages to the PDDB server | `PddbBackend` |
| `ContentStore` | every record method of the store over the client; instantiates `KvBackend` | `PddbClient` |
| `KvTransaction` | abstract: a store with isolated, abortable transactions | `PddbBackend` |
| `BufferingBackend` | the batching wrapper; instantiates `KvTransaction` | `PddbBackend` |
| `SessionStore` | session cache, composed with the batching wrapper | `BufferingBackend` |
| `KeyStores` | pre-keys, Kyber keys, identities | instance of `PddbBackend` |
| `ManagerTask` | the manager task and `handle_send` | |
| `Worker` | dispatcher, tasks and the shared store | |
| `WsPump` | one websocket's threads | |
| `App` | UI screens composed with the dispatcher over both channels | |
| `NewChat` | the username lookup: UI, dispatcher and manager tasks over their channels | |
| `MessageStore` | UI rows and summaries | |

`MC*` modules only give constants and symmetry sets. The theorems about a module
are in `<module>Proofs`: `SessionStoreProofs` (with those about
`BufferingBackend`), `ContentStoreProofs` (with those about `PddbClient`),
`KeyStoresProofs`, `ManagerTaskProofs`, `WorkerProofs`, `AppProofs`,
`NewChatProofs` and `MessageStoreProofs`.

### How state and actions correspond

* **BufferingBackend.** `inner`, `batching`, `buffer` are the fields. Each
  `KvBackend` call is one action per outcome (`put_returns_ok`, ...), because
  all callers share one executor thread and calls are synchronous.
  `commit_internal` is split at its inner calls (`phase`): drain, `put_batch`,
  per-entry fallback, deletes; power loss resets the memory variables at any
  point. `before`, `committing` and `returned` (the last commit's answer) are
  history.
* **KvTransaction.** `closing` is the time a commit is under way: it takes no
  write, it publishes or counts as failed each write it took over, and it closes
  with the answer Ok only if none failed. So a commit that drops an entry
  silently does not implement it.
* **PddbClient.** `flash`, `dicts` and `mounted` are the server's; `call` is the
  backend call that holds the mutex and how far it is, each step one message and
  its reply. Values are sequences of `Byte` here, because what a write leaves of a
  longer old value is the point; no value is the beginning of another (the
  records are JSON or length-framed), so a cut value is recognised by `Whole`.
  The server is external and modelled from what the client's code and comments
  rely on: `WriteKey` may take less than the chunk and does not truncate,
  `WriteKeyBatch` applies entries in order and may stop at one, `DeleteDict` may
  free some keys and fail. A message that fails has had no effect, or all of it:
  the client also returns an error when it cannot read the reply
  (`client.rs:284-286`, `606-608`), so a failed put may have written the value
  (`put_failed`) and a failed delete may have deleted the key (`delete_failed`).
* **KvBackend.** `store` is the map, `answer` the last return value. It is the
  contract that `PddbBackend`'s operators give `BufferingBackend`, so the two
  halves of the storage layer meet there: `ContentStore` maps `store` to the
  flash as the call in progress found it (`before`), so a call takes effect when
  it returns or is cut.
* **ContentStore.** A method is a record (`method`) that waits for its call and
  makes the next one. Six shapes (one put, one get, probe then change, list then
  get each, drop dictionaries in turn, commit with fallback) cover all methods
  of `content.rs`, `state.rs`, `sender_key_store.rs`, `Store::clear` and the
  write phase of a commit. `Orders` are the orders a listing can come in: any,
  and the ascending one for messages, which are sorted by their zero-padded
  timestamps. A batch has one entry per address, because it was a `HashMap`.
* **SessionStore.** `cache` and `dirty` are the two locked maps; `flush_sessions`
  is split per address. `discarded`, `spoiled`, `unflushed` and `forgotten` are history:
  the first three name the addresses for which the code makes no promise after an
  aborted batch, a failed direct write or a failed put of a flush, so that the
  properties are exact about the rest.
* **KeyStores.** One variable per dictionary; a key is its generation number.
  The packed bundle's vector is a function on positions: `retain` leaves gaps in
  the positions instead of moving the later entries up, which no reader of the
  vector can tell, since all of them look for an id or for the largest one.
  The replenish pass (libsignal-service, external) reads the next ids and saves
  keys one at a time while messages consume others. Each `put` succeeds or
  leaves one of `put_failed`'s results. While a send is under way (`sending`)
  `save_identity` goes into the batch (`buffered`) and returns Ok; the commit
  writes it, and an aborted attempt drops it. The task that sends owns the
  Manager, so no other operation of the key stores runs meanwhile.
* **ManagerTask.** `pc` is the await the coroutine sits in. Signal's answers,
  close codes and the passing of deadlines are environment choices. Leaving the
  pump drops the stream and keeps the reason (`leaving`, an op among them) while
  the queued profiles are looked up; only then is it acted on.
* **Worker.** Data is reduced to the set of accounts with something in each kind
  of dictionary, on flash, in the batch and in the session cache. A task whose
  op sender is dropped continues until it notices. Two kinds of dictionary are
  told apart, the registration and the protocol's; the contents dictionaries are
  counted with the latter. The stale-store probe does not list them
  (`lib.rs:400-409` of the store), but `clear` wipes them before the protocol's,
  so whatever a cut wipe leaves of them, it leaves protocol keys for the probe
  too. The link code is external: it writes keys and registration in separate
  steps, and as no order is known none is assumed.
* **WsPump.** A thread's step runs from one blocking call to the next.
* **App.** One step per key, focus change or event; the dispatcher part is the
  command loop of `Worker`, reduced to what the UI can observe. A dialog or a
  notification that a key opens is part of the key's step. One that an event opens
  (the QR code of `LinkUrl`, the refusal of a link) sets `modal`: until a key
  dismisses it the loop takes no key of the screen, no focus change and no event.
  A username's answer opens a thread whatever the screen; whose answer it is, is
  `NewChat`'s subject.
* **NewChat.** `tasks` are all manager tasks so far, held or let go, each with its
  op channel; a name stands for the contact it resolves to. `asked`, `dropped`
  and `lost` are history: they name the lookups the code gives up.
* **MessageStore.** `messages` in arrival order and `dialogues` as a function;
  the handlers of `gam_app.rs` are the actions.

## 3. Runs

| Run | Result | Bounds | Shows |
|---|---|---|---|
| `buffering` | pass | 2 dictionaries x 2 keys, 1 value | batches leave nothing behind and are exact, refinement of `KvTransaction` |
| `sessions` | pass | 1 peer, 2 devices, 2 records | cache, dirty set, batch and flash agree; deletes and ratchet steps are not undone |
| `sessions_flush_retry` | violation | same | a flush that fails and is retried loses a clean sibling session |
| `key_stores` | pass | 2 ids, 2 keys made, 2 base keys, 1 peer with 2 identities | keys are kept and used once, pins hold in and out of send batches |
| `manager` | pass | 2 sends, 2 senders, op channel 2, 3 failures, 2 403s, 2 attempts | one outcome per send, all answered or the task ended |
| `worker` | pass | 2 accounts, 2 tasks, op channel 1 | accounts do not mix, batches close, dispatcher returns |
| `worker_link` | violation | same | a link's registration is lost with an old send's batch |
| `ws_pump` | pass | channels of 2 | threads end, dead peer noticed, writer served |
| `message_store` | pass | 1 contact, 1 group, 3 rows, 2 timestamps | summaries and outcomes are those of the rows |
| `app` | pass | 2 commands, 1 event, 1 lookup in flight | UI and worker agree, no link is waited for in vain, a wipe the worker hears of is answered |
| `content` | pass | all 10 dictionaries, 2 keys, values of 2 and 3 bytes, chunks of 2, pages of 1 name, 2 methods | refinement of `KvBackend`, true answers, complete wipes, every method returns |
| `new_chat` | pass | 2 names, 2 tasks, 2 commands, 2 events | the chat that opens is the one asked for, lookups end |

Why the bounds are enough. Batches, flushes and commits treat addresses
independently except through `delete_dict` and `list_keys`, so two keys in each
of two dictionaries separate "same key", "same dictionary" and "other
dictionary". Two devices make a clean and a dirty sibling; two records make an
old and a new ratchet state. Two task slots let one let-go task meet one
current one. The limits of the code (20 failures, 6 attempts, 8 and 16 channel
slots, 5 rows) are constants shrunk to the smallest values at which "below the
limit", "at the limit" and "full" are different states. In `content` a value of
three bytes needs two chunks and the other exactly one, a dictionary of two keys
two pages, one batch fits the buffer and the other does not, and one name is too
long; the store starts empty or full, so two methods suffice for "torn by the
first, met by the second" and "tried again". In `new_chat` the second task and
the second command are what a lookup can be overtaken by. The UI's event deque is
unbounded; `new_chat` has room for a late event and a current one. `app` checks
liveness too, and with two commands and a lookup only one event at a time is
within reach: a late one still waits while keys are pressed and the dispatcher
goes on to its next event, and `LinkedAgrees`, the safety property about late
events, is proved for every number of them. `key_stores` makes two keys, enough
for an id that is used up and handed out again under an old dedup entry; its
properties too are proved for any number of ids, keys and peers.

`CHECK_DEADLOCK FALSE` appears where the system may stop: a manager task that
has exited, a websocket whose three threads have ended, the UI on the keyless
Wiping screen after a dropped Logout, and a user who types no further name.

### Fairness

* `ManagerTask`, `Worker`: the executor polls every ready task, an awaited call
  returns or fails (weak fairness). `select!` chooses pseudo-randomly among
  ready arms and the sweep timer fires every second: strong fairness of the op
  arm and of the sweep. The attempts of a send are counted and its sleeps are
  finite: strong fairness of an attempt's end.
* `WsPump`: threads run and socket calls return, since the TCP socket has read
  and write timeouts. The mutex is not fair; the writer gets it over the
  reader's 50 ms sleeps, which follow a read that times out (strong fairness of
  exactly that step). That assumes away a socket on which traffic comes in so
  densely that no read ever times out: there nothing in the code bounds how long
  the writer waits. A write to a vanished peer fails in the end. The caller polls
  and sends keepalives.
* `App`: the main loop wakes for every event, the dispatcher takes every
  command, and a link ends because the server closes a provisioning socket
  nobody scans. The user owes one thing: a key on a notification, the QR code's
  included, because the loop waits for it without a timeout (`LinkingEnds` and
  `HeardWipeEnds` rest on it; dialogs that ask before they act are part of their
  key's step, so they are taken to be answered too). The server's verdicts owe
  nothing.
* `NewChat`: as `App`; a running task's lookup returns. Tasks may exit at any
  time and owe nothing.
* `ContentStore`: the executor resumes a method whose call has returned, and the
  server answers every message, with an error at worst.
* The other storage modules state no fairness: their properties are safety.

### Disagreements between code and documentation

The two violation runs, with the lines quoted in `PROJECT.json`:

* `FlushRetryKeepsTheBundle`: a flush whose put has deleted a peer's bundle and
  failed is retried; the retry finds no bundle, writes only the dirty device and
  returns Ok. The clean sibling's session is cached but no longer on flash.
* `LinkedIsRegistered`: a link completes inside the open batch of a task that was
  let go; the registration goes when that send fails.

Smaller ones met while modelling, without a run of their own (where a property of
a passing run touches one, it names the exception):

* `store.rs:113-114` of the app, `gam_app.rs:907`: outgoing rows are 1:1 only;
  once newer messages evict the last group-tagged row of an open group thread,
  the reply is sent to the group's pseudo-UUID.
* `gam_app.rs:129-131`: Wiping "exits only on `Event::LoggedOut`, which the
  worker emits whether or not the clear succeeded". Neither half holds. The arms
  of `LinkComplete` (1644), `StaleStoreDetected` (1680), `AccountInfo` (1784) and
  a username answer (1893), and an expired login, set the screen without looking
  at it: a wipe confirmed while the worker still loads the account at boot is
  left by that load's `LinkComplete`, with the `Logout` unread. And a `Logout`
  that arrives during a link the UI no longer waits for is dropped
  (`lib.rs:357-361`), and the keyless screen stays. `HeardWipeEnds` states what
  is left of the promise: for a `Logout` the dispatcher takes, `LoggedOut`
  comes, whatever is on the screen by then.
* `gam_app.rs:300-304`: a stale lookup answer "after the user navigated away is
  dropped"; navigation does not clear the flag, so the thread opens anyway.
* A lookup dropped during a link, or queued in a task that gives up, is never
  answered: "please wait" stays until the next reset.
* `content.rs:272-275`, `sender_key_store.rs:47-58`: part of an avatar or of a
  sender key left by a failed save is served as if it were whole.
* `presage-store-pddb/src/lib.rs:172-175`: `list_keys` is in lexicographic order;
  `PddbBackend` returns the server's order. Only `messages` sorts for itself.
* `manager_task` looks queued profiles up "between stream iterations": on a
  healthy stream without ops that is never, and a lookup that fails during an
  outage is not repeated in this run.

* `buffering_backend.rs:80-82` says another caller's reads during a batch see
  the pre-batch state; the overlay is applied to every caller.
* `session_store_ext.rs:15-18`: a deleted session is gone from the PDDB; inside
  a batch that is aborted it comes back.
* `handle_send` "always emits exactly one event" (`lib.rs:1643`): a deferred send
  is not reported when the manager task exits first.
* `cmd.rs:147-152`, `store.rs:68` of the store: Logout wipes all messages by
  thread; `clear_messages` (`content.rs:484-498`) deletes nothing, and no clear
  drops the sticker packs. The UI text does say so of the messages.
* `ws_pump.rs:248-258`: the reader ends on a read error; the code forwards the
  error and reads on until the caller drops the pair.
* `gam_app.rs:267-272`: late link events are dropped; `LinkComplete` is not.
* `gam_app.rs:325-329`: a stale username answer is kept out; one that arrives
  during a later lookup is taken for its answer.
* `kyber_pre_key_store.rs:11-16`: the dedup table holds one base key for each
  pair of ids, so it recognises the last one only.

## 4. Proofs

Every theorem is about the specification TLC runs, for all values of the
constants that satisfy the named assumptions of its module: markers differ from
data (`CellAssumption`, `EntryAssumption`, `MarkerAssumption`,
`RecordAssumption`, ...), limits and capacities are natural numbers, usually
positive. None bounds a set or a queue. Each module has one inductive invariant,
checked by TLC on the module's run before it was proved; the theorems about its
properties follow from it. The step proofs have one case per action.

**SessionStoreProofs, the buffering layer.** `TypeCorrect`, `NothingLeftBehindHolds`,
`CommitTouchesOnlyItsWritesHolds`, `CommitExactHolds`, `ListAgreesWithGetHolds`,
`BatchIsolationHolds`, `Refinement`. The statements about a commit are not
inductive: "flash differs only where the batch wrote" does not say what is still
to be replayed. The strengthening is

    IInv == TypeOK /\ NothingLeftBehind /\ ReplayInProgress

where `ReplayInProgress` says of every address, while a commit runs, that what
is still drained is what the batch wrote, that what has been replayed without
an error is in place, and that puts come before deletes. `Refinement` maps
`inner` to the abstract `durable`, the overlay of what is still in memory to
`seen`, `batching` to `open`, a `phase` under way to `closing`, `failed` to
`damaged` and `returned` to `answer`; `StepRefines` shows each
action to be a `KvTransaction` step or a stutter, using `IInv`. None of these
proofs cites an assumption of `SessionStore` (`BundleAssumption` makes the values
session bundles), so they hold for any values.

**SessionStoreProofs, the sessions.** `SessionTypeCorrect`, `CleanIsStoredHolds`,
`DeletedStaysDeletedHolds`, `RatchetNeverRewindsHolds`, on top of the invariant
of the buffering layer (`SInv` has `IInv` as its first conjunct, and
`BackendStep` is cited for the calls). `CleanIsStored` alone is not inductive:
during a flush the sessions already written are still dirty, and become clean in
one step at its end. `FlushInProgress` says that those are stored;
`ForgottenIsGone` extends `DeletedStaysDeleted` to the time a flush or a commit
runs; `ErrorIsRecorded` ties the errors of a commit to the history that excuses
an address. What one backend call does to the cells a reader sees is stated once
per call (`PutOk`, `PutErr`, `DeleteOk`, `CommitStep`, `Dropped`), the rest
argues about cache and dirty set only.

**ContentStoreProofs.** `TypeCorrect`, `Refinement`, `AnswersAreTrueHolds`,
`ClearIsCompleteHolds`. The invariant has three parts. `StoreTypes`: flash holds
byte sequences, and only in dictionaries that exist. `CallInv`: what flash is,
given what the call in progress found and how far it is (`InProgress`): a get has
read the beginning of the value, a put has left its address old, empty or with
exactly the first `pos` bytes of the new value, a listing has seen or still has
before it every key. `MethodInv`: what the method in progress knows of its call:
the answer it waits for is the one its key has (`Awaits`), the items read and the
keys left are together one order of what is there (`Reads`), every dictionary to
clear is gone, next, or the reason for an error (`Clears`). One lemma per call
(`GetStep`, `PutStep`, ...) says what a message does; `Refinement` maps `store`
to the flash the call found, so messages stutter and the returning one is the
abstract call, failed or cut ones with `CutIsTorn` (a value cut short is no
value, `ValueAssumption`). `WriteAtEnd` is where the delete before the write
matters: a chunk written behind the first `pos` bytes leaves nothing of an older
value behind it.

**KeyStoresProofs.** `TypeCorrect`, `PreKeysKeptHolds`, `LongLivedKeptHolds`,
`UseAcceptedOnceHolds`, `IdentityPinnedHolds`. The invariant needs what the code
relies on silently: the ids of a running replenish pass stay above every id in
use although others are consumed meanwhile (`PassAhead`), so a save never hits a
used cell; larger Kyber ids have newer keys (`GensRise`), which is why the
largest last-resort id is the newest key; the dedup entry under a stored key's
id is that of its last accepted use, or the key has had none (`UsesKnown`), so
an entry left by an earlier key with the id can only refuse; and the bundle has
at most one entry per id (`BundleTypes`), so finding the first is finding the
only one. `IdentityPinned` is stated of what a reader gets (`get_identity`), flash
with the batch's entries over it, and is inductive with the types. Besides a
failed write it excludes a first identity saved in an attempt that was aborted:
`save_identity` has returned Ok and the entry is gone. It speaks of `Reject`; the
constructors `new` and `new_buffering` choose `Trust`, which accepts any change.
`MaxIs` proves, from well-foundedness of the naturals, that `Max` of a bounded
set is one.

**ManagerTaskProofs.** `TypeCorrect`, `OneOutcomeHolds`, `NoSendForgottenHolds`.
The two send properties are inductive only together and with `Apart`: a send is
in one place of one kind at a time (once in the channel, or held while profiles
are looked up, or in `handle_send`, or deferred), so reporting it once removes
it everywhere. `Limits` gives the counters room for the step that raises them.

**WorkerProofs.** `TypeCorrect`, `NoMixingHolds`. `NoMixing` speaks of the time an
account is served; `Alone` adds the rest: without one, memory holds nothing and
flash at most one registration with no other account's keys beside it, and a
link starts on an empty store. `Dispatching` says whose task the op sender in
hand belongs to, which is what lets a send of that task write.

**AppProofs.** `TypeCorrect`, `LinkedAgreesHolds`. `LinkedAgrees` with the types is
inductive. The work is in the queue: `AfterAppend` (a new event has the last
word) and `AfterTail` (handling the first event changes nothing in what all of
them come to) hold for queues of any length.

**NewChatProofs.** `ChatIsTheOneAskedForHolds`. The invariant counts lookups on
their way as command, op or answer: unless a reset has dropped one, there is at
most one (`Lone`) and it is the one the UI waits for (`Expected`).

**MessageStoreProofs.** `SummariesAlwaysTrue`, `OutcomeAlwaysShown`,
`ReplyAlwaysBlocked`. `SummariesAreTrue` is about what a loop over the rows
computes. `rebuild_summaries` is a recursive function over the number of rows
counted (`by_uuid[n]`, one `Counted` step per row), and the two inductions over
that number are made on the least one that would break the claim (`LeastIs`, from
well-foundedness of the naturals): the function exists and satisfies its own
equation (`FoldExists`, `RebuildFolds`), and after `n` rows it holds a true
summary of each conversation among them (`Describes`, `CountedDescribes`, with
one lemma per field: `LatestStep`, `NameStep`, `UnreadStep`, `GroupStep`).
`UnreadStep` is where the code counts only incoming rows whose status is `Sent`:
the count is that of all unread incoming rows because `OutcomeShown` makes every
incoming row `Sent`. The invariant is

    MInv == StoreTypes /\ dialogues = rebuild_summaries(messages)
                       /\ RowsTell(messages, outcome)

that is: the cache is never stale, although two handlers skip the rebuild when
no row changed. `RowsTell` has the row statuses, the block on replies, and
`SendsDiffer`: no two rows the user wrote share a timestamp, without which the
newest matching row need not be the row of the send. `ReplyBlockHolds` needs the
summaries: `send_compose` asks the cached `is_group`, and `NotGroupHasNoTag`
turns its answer into a fact about the rows.

Only model-checked, and why: liveness (`AnsweredOrExited`, `DisconnectEnds`,
`BatchCloses`, `DispatcherReturns`, `LinkingEnds`, `HeardWipeEnds`, `LookupEnds`,
`MethodReturns` and all of `WsPump`). Fairness and `ENABLED` are outside what
TLAPS 1.4.5 proves. Every invariant, every refinement and every action property
that a passing run checks is the statement of a theorem.

## 5. Not modelled

TLS and HTTP are wrappers around rustls and one blocking exchange per thread;
what they return is the environment's choice in `WsPump` and `ManagerTask`.
Process start-up and its hardware probes, log filter, redaction and error types
keep no state. Drawing, scrolling and text entry in the UI, the rkyv encoding of
IPC buffers, the hashing of thread names and the JSON form of records are data
no property tells apart. `flush_writes` and `is_mounted` have no caller in the
store. Poisoned mutexes need a panic inside a critical section and are left out
everywhere. Messages of two senders with one timestamp share a key in a thread
(`content.rs:149`) and two sends in one millisecond share an identity
(`gam_app.rs:888`): the models use a timestamp as the code does, as the key, and
no property forbids the overwrite.

## 6. Plan

Done: the storage layer from the record methods down to the IPC messages;
sessions, key stores, manager task, dispatcher, websocket pump, UI flows,
username lookup and UI rows; proofs of every safety property of a passing run.
Next: a composition of `ManagerTask` with `MessageStore` for the fate of a
row from key press to receipt.
