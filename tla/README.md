# A TLA+ model of windows-wfp

`windows-wfp` is a Rust wrapper of the Windows Filtering Platform: it opens sessions
on the Base Filtering Engine (BFE), groups changes in transactions, registers a
provider and a sublayer, turns firewall rules into kernel filters, and receives the
engine's network events. This directory holds TLA+ models of its core, the
configurations that check them with TLC, and proofs, checked by the TLAPS proof system,
of every invariant and of the refinement, for every number of clients, filters, workers
and events and every width of addresses.

In short, what was found: the promises of sessions, transactions, registration,
event delivery and enumeration hold, and sessions and transactions implement a small
specification of atomic rule sets; seven statements of the documentation do not hold
(section "Findings").

## The system

    client code (examples/*.rs, or any user of the crate)
      |  FilterRule        |  WfpTransaction  |  initialize_wfp   |  subscription
      v                    v                  v                   v
    filter.rs, layer.rs  transaction.rs     provider.rs         events.rs <---+
      |                    |                  |                   |           |
      v                    |                  |                   |  mpsc     |
    filter_builder.rs -----+---- engine.rs ---+-------------------+  channel  |
    filter_enum.rs --------+     |                                            |
                     Fwpm* calls |                    event_callback on the   |
                                 v                    engine's worker threads |
          BFE service: sessions, one write transaction, objects, filters -----+

| Component (source) | State | Operations | Hard behaviour | What makes it correct |
|---|---|---|---|---|
| `WfpEngine` (`engine.rs`) | a session handle | `new`, `new_with_flags`, `Drop`, `handle`, `is_valid` | the process dies, the service stops under the handle, the close fails | what a dropped engine owned is gone, its lock too |
| `WfpTransaction` (`transaction.rs`) | borrowed engine, `committed` | `begin`, `commit`, `rollback`, `Drop` | a failed begin, commit or abort followed by the abort of `Drop`; another session's lock | all or nothing; the guard and the engine's lock agree |
| registration (`provider.rs`) | objects in BFE | `WfpProvider::register`, `WfpSublayer::register`, `initialize_wfp` | two clients at once; `ALREADY_EXISTS`; failure between the two | both or neither; idempotent; always returns |
| `FilterBuilder` (`filter_builder.rs`) | filters in BFE | `add_filter`, `delete_filter` | inside and outside a transaction; app-id lookup fails, the add fails with a blob allocated | a returned id is an enforced filter; the filter means what the rule says; the blob is freed |
| rules (`filter.rs`, `condition.rs`, `layer.rs`) | immutable values | presets, `with_*`, `IpAddrMask`, `select_layer` | masks at 0 and full width, families, byte order | omitted means "match all", given means "must match" |
| `WfpEventSubscription` (`events.rs`) | subscription handle, receiver, leaked `Sender`, raw engine pointer | `new`, `try_recv`, `recv`, `iter`, `Drop`; `event_callback` | callbacks before `new` returns and during `Drop` | no use after free, no leak, no lost event, `Drop` returns |
| event parsing (`events.rs`) | none | `parse_network_event` and its helpers | unions chosen by IP version, flags, byte order | the event describes the packet |
| `FilterEnumerator` (`filter_enum.rs`) | an enumeration handle during a call | `all`, `count` | filters change between batches; a batch fails | the filters of one moment, each once; everything freed; an info tells its rule |
| errors, constants, crate root | none | - | - | - |
| `safe_handles.rs`, examples | none | - | - | - |

Components meet in three ways: by calls on one thread (`initialize_wfp` uses the
transaction guard, which borrows the engine), through BFE (sessions of different
processes compete for one write transaction and meet each other's objects), and
through raw pointers (the callback reaches the boxed `Sender`, the subscription's
`Drop` reaches the engine).

## Modules

| Module | Models | Extends |
|---|---|---|
| `WfpKernel` | the effect of every successful `Fwpm*` call on BFE (external, from how `src/` uses it) | - |
| `WfpSession` | `engine.rs`, `transaction.rs`, `provider.rs`, the calls of `filter_builder.rs`, several clients against one `WfpKernel` | `WfpKernel` |
| `AtomicRules` | what sessions and transactions promise together: rule sets that change atomically | - |
| `MCWfpSession` | symmetry set for TLC | `WfpSession` |
| `WfpEvents` | the event subscription, its channel and the worker threads | - |
| `FilterRules` | values: rules, masks, layers, weights, the filter built from a rule, the info read from a filter | - |
| `FilterTranslation` | `add_filter` and `delete_filter` with the app-id blob; rule -> filter -> packet | `FilterRules` |
| `NetworkEvents` | `parse_network_event` and its helpers, on packets that those filters drop | `FilterTranslation` |
| `MCFilterTranslation` | the rules, packets, texts and times of the runs | `NetworkEvents` |
| `FilterEnumeration` | `FilterEnumerator` batch by batch, while filters come and go | `FilterRules` |
| `MCFilterEnumeration` | the rules and the other programs' filters of its run | `FilterEnumeration` |
| `WfpSessionProofs` | the invariant of sessions and transactions | `WfpSession` |
| `WfpSessionImplements` | `WfpSession` implements `AtomicRules` | `WfpSessionProofs` |
| `WfpRegistrationProofs` | the invariant of `initialize_wfp` | `WfpSessionProofs` |
| `WfpEventsProofs` | the life of the boxed `Sender` | `WfpEvents` |
| `WfpDeliveryProofs` | types, delivery and order of events | `WfpEventsProofs` |
| `FilterRulesProofs` | lemmas on powers, masks, octets, strings and conditions | `FilterRules` |
| `FilterTranslationProofs` | exact translation, the heaviest rule, events and times | `NetworkEvents`, `FilterRulesProofs` |
| `FilterEnumerationProofs` | types, linearizability, release and infos of enumerations | `FilterEnumeration`, `FilterRulesProofs` |

Every module is parameterised by CONSTANTS; a `.cfg` gives them values, an `MC` module
defines the values that are too large for a `.cfg`. Definitions named by a comment
"Mutant" are plausible bugs of the code: put in the place of the definition after them,
each makes a property of its run fail. No action uses them.

### WfpKernel and WfpSession

BFE's state is the set of committed objects (`store`, key -> owner), the one explicit
transaction (`holder`, and `working`, the store as its session sees it), the sessions
with their lifetime (`sess`) and whether the service runs (`up`). An object added in a
session with `FWPM_SESSION_FLAG_DYNAMIC` is owned by the session, another one by
`"static"`. A client has its `WfpEngine` (`engine`), perhaps a live `WfpTransaction`
(`txn`), and a thread that is idle, in `initialize_wfp` or in the guard's `Drop` (`pc`).
Two history variables hold what the API has told the client: `promised`, the ids
`add_filter` returned and nothing took back, and `staged`, the same set as it will be
if the open transaction commits. They are what the properties compare BFE's state to.

A library call that makes one `Fwpm*` call is one action; `initialize_wfp`, which makes
several, is one action per call (`InitBegin`, `InitProvider`, `InitSublayer`,
`InitCommit`, `DropTxn`), so that other clients, crashes and service stops fall between
any two. `commit(self)` and `rollback(self)` that fail continue in `Drop`
(`pc = "txnDrop"`), as Rust drops the consumed guard with `committed` still false.
Calls that fail and change nothing on either side are stuttering steps.

A session in `Faulty` may see any of its calls fail; every session sees its calls fail
when its session is dead. `Crash` ends a process between any two calls, without drops;
`Rundown` is BFE noticing it. `BfeStop` ends all sessions at any moment.

Assumed of BFE (documented platform behaviour the code relies on): at most one explicit
transaction, and other sessions' writes wait for it; a write outside a transaction is
its own transaction; the end of a session aborts its transaction and deletes its dynamic
objects; an object refers only to objects that live at least as long; filter ids are not
reused; a call that returns an error has changed nothing, except that a failed commit
may have aborted the transaction. Assumed of clients: they delete only filters they
added, and keep `WfpEngine` on one thread at a time (it is `Send`, not `Sync`, so rustc
enforces it).

### AtomicRules, which WfpSession implements

`AtomicRules` knows no handles, sessions, guards or failing calls. Every client has a set
of rules in force. It changes the set by one rule at a time (`Apply`), or it alone drafts
a new one (`Begin`, `Prepare`), which comes into force in one step (`Commit`) or is thrown
away (`Discard`). A client may go, with its rules and its draft (`Leave`), and the
firewall may stop (`Stop`). No other step touches two clients.

| Abstract | Refinement (`Atomic == INSTANCE AtomicRules WITH ...` in `WfpSession`) |
|---|---|
| `rules[c]` | `enforced[s]`: the filters the session owns, for a static session the promised ones in the store |
| `writer` | `author`: the holder of the engine's lock, if its guard is alive |
| `draft` | `drafted`: `staged` of that holder, the ids its client has been told |
| `issued` | `usedIds` |

The draft is mapped to what the client was *told*, the rules to what the engine
*enforces*: `ImplementsAtomicRules` therefore says that a commit puts into force exactly
the ids the calls under the guard returned, however many calls failed on the way, and that
no abort, crash, close or rundown of one client shows in the rules of another. A commit
that fails and a lock kept without a guard are abstract `Discard`s, an id that the
engine spends on an add that is never enforced is a `Waste`, the whole of
`initialize_wfp` is a `Begin` and a `Commit` of an unchanged draft.

### WfpEvents

One user thread (`pc`), the worker threads on which the engine runs `event_callback`
(`callback`), the mpsc `channel`, the boxed `Sender` (`context`), and whether the
engine may still start callbacks (`subscribed`). `new` is three steps (allocate, the
subscription takes effect, the call returns or fails), `Drop` four
(`DropCall`, `Unsubscribe`/`UnsubscribeReturn`, `FreeContext`, `DropFields`), and a
callback two (`Raise` enters it, `Send` finishes it): every interleaving of `Drop` with
callbacks is explored. Assumed of the engine: `FwpmNetEventUnsubscribe0` returns only
when no callback is running and none can start. This is what `Drop` relies on, and
`Faults = {"unsubscribe"}` takes it away. `Careless = {"engineGone"}` is a client that
drops or moves its engine while the subscription exists, which the types allow.

### FilterRules, FilterTranslation and NetworkEvents

Rules are records with the fields of `FilterRule`; `Filter(rule)` is the filter that
`add_filter` hands to the engine: `select_layer` of the family it derives, the rule's
weight, and one condition per option it looks at. `prefix_to_v4_mask`, `FromBeBytes` and
`ToNeBytes` compute on numbers of a fixed width, as the code does; `from_cidr` works on
the parts of a text that `split('/')` yields, already parsed. `parse_filter` reads a
`FilterInfo` out of any filter, with the branches for actions, weights and blobs that the
crate itself never writes. A wide string is a sequence of units with 0 as terminator, a
blob a size and the units behind its pointer, so the two readers of a path
(`extract_app_path`, bounded by the size, and `parse_wide_string`, bounded by the
terminator) differ as they do in the code.

In `FilterTranslation` clients call `add_filter` and `delete_filter`. `AddCall` is the
lookup of the application, `FilterAdded` and `FilterRefused` the return of
`FwpmFilterAdd0`; the app-id blob is allocated between them. A refusal may have any
reason, and is certain for a filter the engine cannot take (`Accepts`). `Matches` and
`Deciding` are the engine's documented evaluation. `RuleMatches` is what the documentation
says a rule means, stated on address prefixes instead of masks. A `world` is what one
behaviour looks at: rules, packets, texts, times and the number of adds. It is chosen in
`Init`, so that one run asks about each of many rules by itself.

`NetworkEvents` adds the events the engine raises for decided packets (external) and
`parse_network_event`: the type, the `FILETIME` cut in two halves, the address unions
chosen by `ip_version`, the path, and the filter and layer ids that are read for
`ClassifyDrop` only. The union at the end of an event holds a pointer that leads to a
different structure for each type and may be null (`info`): the events are built with
every type, with and without it. The layer of an event is the engine's run-time number of
it (`LayerNumber`), not the GUID that an enumeration shows, so the two are not compared.

### FilterEnumeration

One thread calls `all` or `count`, which differ only in what the visitor accumulates
(`Visited`), any number of times. `CreateHandle`, `EnumBatch`, `EnumNone`, `Visit` and
`Break` are the steps of `enumerate_raw` between two `Fwpm*` calls, `CreateFails` and
`EnumFails` its error returns. Meanwhile clients of the crate and other programs add and
delete filters (`Add`, `Delete`), and the session may end (`SessionLost`). `moments`
remembers the sets of filters that were in place during the call; only the properties use
it. Assumed of the engine: an enumeration handle is a snapshot taken when it is created;
`FwpmFilterEnum0` returns any part of what is left, up to the number asked for, and
nothing only when nothing is left, with or without an array; the end of a session takes
its enumeration handles along, and later calls fail. That a short batch is not the last
one is what the loop must not assume, and the mutant `VisitShort` does.

## Runs

| Run | Question | Bounds | Result |
|---|---|---|---|
| `session_rules` | Is what the API returned what is enforced, whatever fails, do rules change atomically, and can a dead session or an orphaned transaction still do anything? | 2 clients (one with failing calls, one that registers directly), 2 filter ids, both lifetimes; about 260,000 states | holds |
| `session_init` | Does `initialize_wfp` register both or neither, idempotently, and always return? | 2 clients, one faulty, 1 filter id; about 51,000 states | holds |
| `events` | Does the subscription deliver every event and drop safely? | 2 workers, 5 events; about 22,000 states | holds |
| `rules` | Does a filter match exactly what its rule says, does the heaviest rule decide, is the blob freed, are texts, times and events read exactly? | addresses of two 2-bit octets; 1056 combinations of conditions one by one, and up to 3 out of 28 overlapping rules; about 52,500 states | holds |
| `enumerate` | Do `all` and `count` tell the filters of one moment, free everything, return, and tell rules from other programs' filters? | batches of 2, 3 filters ever added, 2 rules, 3 foreign filters; about 554,000 states | holds |
| `doc_init_ready` | "Now ready to add filters" | 2 clients | violated |
| `doc_engine_outlives` | "declaring it after the engine ... so it drops first" | 2 workers, 2 events | violated |
| `doc_unsubscribe` | "Safe to do now because ... no further callbacks" | 2 workers, 2 events, the unsubscribe call may fail | violated |
| `doc_iter_pending` | "iterator over pending events" | 2 workers, 2 events, fair | violated |
| `doc_block_all` | "Block all outbound traffic (no conditions)" | three rules, two families | violated |
| `doc_service` | "matched via service SID" | three rules, two services | violated |
| `doc_event_address` | "Remote IP address" | three rules | violated |

Why the bounds suffice. Sessions interact only through the one lock and through shared
keys, so two of them reach every conflict: waiting, `ALREADY_EXISTS` against a staged,
committed, rolled-back or foreign object, a lifetime mismatch. Two filter ids give one
committed and one staged, or one of each client; a third adds no case that the theorems
below, which hold for every number of clients and ids, do not already cover. Two workers are needed for events to overtake each
other; five events let both have one in hand while some are queued and some received. Two octets
are needed for byte order to be visible, two bits per octet for prefixes that cut one
in half; prefixes run from 0 to one more than the width, which covers each branch of
`prefix_to_v4_mask`. Halves of a `FILETIME` have three bits, with an epoch of 20 ticks and
5 ticks to the second: all 64 times are tried, some before the epoch, with every carry.
Three filters and batches of two give full, short and empty batches, an empty system, and
filters that come and go between two batches; the theorems remove that bound as well.

What the properties say:

- `EnforcedAsPromised`: for a live dynamic session the enforced filters are exactly the
  promised ids; for a static one none is missing. A rolled-back, dropped or failed
  transaction leaves no trace, and no other client's transaction loses or adds a filter.
  It says nothing of a session whose lock was orphaned by an abort that failed in
  `Drop` (`Orphan`): there, adds return `Ok` and go to a transaction nobody commits,
  which is what `OrphanInert` says. Nor of a dead session, which is left to `DeadSilent`.
- `TxnOwnership`: a live guard owns the write transaction (no add made under it is
  applied on the spot), and without faults the lock is never kept without a guard.
- `OrphanInert`: a transaction whose guard is gone and whose abort failed stays open and
  changes nothing that is enforced until its session ends, whatever is called next: a
  second `begin` or `initialize_wfp` on the same session is refused, so no commit can
  reach it.
- `DeadSilent`: after the service stopped, no call on an old `WfpEngine` is answered `Ok`,
  also when the service is up again and the client is under a guard or half-way through
  `initialize_wfp`: nothing more is promised, staged, begun or committed.
- `ImplementsAtomicRules`: see "AtomicRules, which WfpSession implements".
- `ClosedOnDrop`, `RegisteredTogether`, `IdempotentRegistration`, `InitReturns`,
  `LockFreed`: see the comments in `WfpSession`. `SessionInv` (with
  the type invariant `TypeOK` of the module as a conjunct) and `RegistrationInv` are the
  inductive invariants of the proofs, checked here on the small instance.
- `NoUseAfterFree`, `FreedOnce`, `NothingLost`, `WorkerOrder`, `DropReturns`,
  `Delivered`: see `WfpEvents`.
- `TranslationExact`, `HeaviestRuleDecides`: for rules of one family, or packets of the
  family a rule without addresses assumes, and without the two identities that the
  translation ignores (`doc_block_all` and `doc_service` are about what is left out).
  `CidrAccepted`: no mask that `from_cidr` accepts is refused later by the engine, or
  means another subnet. `BlobFreed`: the blob lives exactly while the call needs it.
- `EventFindsRule`: the event of a dropped packet leads by its filter id to exactly one
  filter, to the rule it came from, and to the path an enumeration shows; an event of any
  other type, or with a null pointer in its union, names no filter.
  `TimestampExact`: no tick is lost or added.
- `OneMoment` (linearizability), `NothingLeaked`, `EnumReturns`, `InfoTellsRule`: see
  `FilterEnumeration`.

Deadlock is checked where the system cannot stop: in the session runs and in
`enumerate`. It is switched off in `events` and `doc_iter_pending` because a consumer
blocked in `recv` after the session is lost really stops (the finding), in
`doc_engine_outlives` and `doc_unsubscribe` for the same reason, and in the runs of
`FilterTranslation`, whose clients may be done.

### Fairness

`WfpSession` assumes that a thread inside a library call keeps running and every
`Fwpm*` call returns: `engine.rs` leaves `txnWaitTimeoutInMSec` 0, the default timeout
and not an infinite one, so a wait for the lock ends with an error. It assumes that BFE
notices dead processes (the RPC runtime's rundown), except for sessions left behind by a
close that failed. Nothing obliges a client to start or end a transaction, or the
service to stop or start. `WfpEvents` assumes that a callback runs to its end, that
`new` and `Drop` make progress, and, for `Delivered`, a consumer that loops on `recv`.
No fairness is put on events being raised or subscriptions being dropped.
`FilterEnumeration` assumes weak fairness of the thread inside `all` or `count` (it runs,
and every `Fwpm*` call returns). Nobody else has to act: `EnumReturns` holds against
programs that add and delete filters for ever, up to the bound on ids.

## Proofs

For every finite or infinite set of sessions and ids, any `Faulty`, `DirectCallers` and
`Kinds` (`WfpSessionProofs`):

| Theorem | States |
|---|---|
| `TypeCorrect` | `Spec => []TypeOK` |
| `SessionInvariant` | `Spec => []SessionInv`, the inductive invariant |
| `PromisesKept` | `Spec => []EnforcedAsPromised` |
| `GuardOwnsLock` | `Spec => []TxnOwnership` |
| `DropCloses` | `Spec => []ClosedOnDrop` |
| `OrphanNeverCommits` | `Spec => OrphanInert` |
| `NoOkFromTheDead` | `Spec => DeadSilent` |

`EnforcedAsPromised` is not inductive: a commit makes `promised` equal to `staged` and
`store` equal to `working`, so the invariant needs the same statement about those two
(`StagedAsPromised`); a commit also replaces the store under the other sessions, so it
needs that a transaction leaves everything of theirs alone (`Frame`); a new id must not
be held or used by anyone (`Ids`); what a session owns must be dynamic and alive
(`Owners`); and `initialize_wfp` reaches its commit only with a guard (`Control`).
`SessionInv` is their conjunction. `session_rules` checks it on the small instance,
there is one lemma per action that shows it preserved, and `SessionStep` puts them
together. The only assumptions are the `ASSUME`s of the modules. The two action
properties follow from the same invariant: `Control` keeps a session without a guard away
from every commit, and by `Owners` the lock never belongs to a dead session.

`WfpSessionImplements`, from the same assumptions:

| Theorem | States |
|---|---|
| `Implementation` | `Spec => ImplementsAtomicRules` |

Every step from a state of `SessionInv` is an abstract step or a stutter. There is one
lemma per abstract step (from what changed in `enforced`, `author` and `drafted` to the
step it is) and one per action of `WfpSession`. The commit is where the invariant works:
`StagedAsPromised` says that what becomes the store is what the guard's client was told,
`Frame` that the others' rules stay, and `Ids` that no id is given twice.

`WfpRegistrationProofs`, again for any sessions, ids and faults:

| Theorem | States |
|---|---|
| `RegistrationInvariant` | `Spec => []RegistrationInv` |
| `BothOrNeither` | `Spec => []RegisteredTogether` |
| `Idempotent` | `Spec => []IdempotentRegistration` |

`RegistrationInv` supposes `DirectCallers = {}`, as the two properties do: a client that
calls `WfpProvider::register` by itself may of course register one of the two.
`RegisteredTogether` is not inductive, because a commit makes the store equal to
`working`: `StagedTogether` says that a lone provider is seen only by the transaction that
has just added it and whose thread is about to add the sublayer, and that the two will
have the same owner. `FreshResult` says that a new engine starts without a result, so
that an old result is never taken for its own.

`WfpEventsProofs` and `WfpDeliveryProofs`, for any number of workers and events:

| Theorem | States |
|---|---|
| `ContextFreed` | `Spec => []FreedOnce`, with careless clients and faults too |
| `ContextSafe` | with `Careless = {}` and `Faults = {}`, `Spec => []NoUseAfterFree` |
| `TypeCorrect` | `Spec => []TypeOK`, with careless clients and faults too |
| `EveryEventOnce` | with `Careless = {}` and `Faults = {}`, `Spec => []NothingLost` |
| `InOrder` | with `Careless = {}` and `Faults = {}`, `Spec => []WorkerOrder` |
| `FirstInFirstOut` | `Spec => [][Ordered]_vars`, with careless clients and faults too |

`ContextInv` adds that callbacks run, or can start, only between `Subscribe` and the
return of the unsubscribe call, and that the engine is there while the thread has a
subscription. Both hypotheses are needed: with either set non-empty the unsubscribe call
may return early, and the invariant is false. `DeliveryInv` adds that a worker inside the
callback holds the last event it was given (`CallbackInv`), which makes the events in the
workers' hands different from each other and later than all that they have sent, and that
only raised events are in the stream. That a receive leaves `Stream` as it is and a send
appends to it are lemmas about sequences.

`FilterEnumerationProofs`, for every batch size, every set of rules and foreign filters
and any number of filters:

| Theorem | States |
|---|---|
| `TypeCorrect` | `Spec => []TypeOK` |
| `Linearizable` | `Spec => []OneMoment` |
| `Released` | `Spec => []NothingLeaked` |
| `InfoTells` | `Spec => []InfoTellsRule` |
| `ReturnNears` | `Spec => [][Nearer]_vars` |

`EnumInv` says that while the thread is in its loop some moment of the call was the
snapshot, and that what the accumulator tells, what the batch holds and what the engine
has left are three disjoint parts of it (`Progressed`); an empty batch then means that all
of it was told. Without its session the thread has no snapshot any more, but it cannot get
to the break either. `Kept` says where a handle or an array may exist. `Built` and
`Sourced` say what `InfoTells` needs: every filter seen is a foreign one or the one built
from its rule, and every info told was read out of a filter of some moment of the call.

`ReturnNears` is what is left of `EnumReturns` without fairness, and more than it: once a
call has its handle, it returns after at most two steps for each filter of its snapshot
and two more, because every step of the thread lowers a bound that no other program can
raise. Likewise `FirstInFirstOut` for `Delivered`: an event that was sent keeps its place
in the stream, so each receive brings the consumer one nearer to it. No run checks these
two; they are action properties stated in the proof modules.

`FilterTranslationProofs`, for every width of octets and length of addresses, every rule,
packet, path, prefix, text and time, and any rules that overlap:

| Theorem | States |
|---|---|
| `TranslationTypes` | `Spec => []TypeOK` |
| `NoBlobLeft` | `Spec => []BlobFreed` |
| `ExactTranslation` | `Spec => []TranslationExact` |
| `HeaviestDecides` | `Spec => []HeaviestRuleDecides` |
| `CidrTaken` | `Spec => []CidrAccepted` |
| `EventLeadsBack` | `Spec => []EventFindsRule` |
| `ExactTimes` | `Spec => []TimestampExact` |

The invariant, `TranslationInv`, is short: a filter in place is `Filter` of a rule of this
world whose application was found, and the engine accepted it. The work is in what
`Filter` means. `MatchExact` says that a filter that the engine accepts matches a packet
of its family exactly if its rule describes it. It takes the conditions apart
(`FilterFields`, `AllHave`: what holds of every condition holds of each of the six parts),
and for an address rests on the arithmetic of `FilterRulesProofs`:

- the mask of a prefix is 2^`Width` - 2^(`Width` - prefix), also at the two ends, where
  the code does not shift (`MaskValue`), so its bits are those from the low end on
  (`MaskBit`);
- two addresses agree in the bits from `low` on exactly if their quotients by 2^`low` are
  equal (`BitsDecide`), which is what "in the subnet" says; IPv6 goes without the mask;
- big-endian octets make a number below 2^`Width` (`FromBeBytesType`).

`EventLeadsBack` follows from the type guard (`Dropped`), from the ids being unique, from `MatchExact`, and from the two
readers agreeing on a path with one terminator at its end (`ShownPath`, with `OnePerField`:
the first condition on the application is the only one). `ExactTimes` is that the two
halves of a `FILETIME` meet again and that seconds and the rest make the whole
(`HalvesMeet`, `Division`).

Two things had to be built first. The library's induction takes the property as an
operator, which the provers cannot instantiate; `Induction` states it for a *set* of
numbers, and is proved from the well-foundedness of `<` by way of `Least`. And nothing is known to the
provers of `^`: `PowerCounts` makes 2^n the number of subsets of `1..n`, from which sums,
order and positivity follow.

These proofs use `WorldAssumption` (rules, packets, texts and times are typed as Rust types
them), `PathAssumption` (a path the engine resolves is a string with one terminator, at
its end) and that `None` is none of the values it is told from. They say nothing else of
`World`, so every set of rules, however it overlaps, is covered.

The only assumptions of all proofs are the `ASSUME`s of the modules and, where stated,
the hypotheses on `Careless` and `Faults`.

Only model-checked: the liveness properties (`InitReturns`, `LockFreed`, `DropReturns`,
`Delivered`, `EnumReturns`), which are beyond the prover, as is ENABLED; and the runs that
end in a violation, which are counterexamples and need no proof.

## Findings

1. `provider.rs:173-174` says that after `initialize_wfp` the engine is "now ready to add
   filters", `provider.rs:26` that the registration is persistent. The objects are added
   with flags 0 in the dynamic session of `WfpEngine::new`, and `ALREADY_EXISTS` counts as
   success whoever owns the existing ones: when the other client drops its engine, they
   vanish under a session that was told `Ok` (`doc_init_ready`).
2. `events.rs:206-207` advises to declare the subscription after the engine "so it drops
   first". Rust drops fields in declaration order, so it drops second and reads a dead
   engine (`doc_engine_outlives`).
3. `events.rs:191-192` frees the `Sender` because the unsubscribe call "guarantees no
   further callbacks". Its result is thrown away: when the call fails, the engine still
   holds the pointer (`doc_unsubscribe`).
4. `events.rs:177` documents `iter` as an iterator over pending events. It blocks for
   more, and can never end: the only `Sender` is owned by the subscription
   (`doc_iter_pending`).
5. `filter.rs:174`: "Block all outbound traffic". A rule without addresses is installed
   at the IPv4 layer only (`doc_block_all`).
6. `filter.rs:79` and `:81`: conditions on the service name and the AppContainer are
   never built, the filter matches all services (`doc_service`).
7. `events.rs:351`: IPv4 addresses of events come out with their octets reversed on
   little-endian machines (`doc_event_address`).

Seen while modelling, without a run of their own:

- `is_valid` tests the handle's bits; after the service restarted it still says true. That
  every call is refused all the same is `DeadSilent`.
- `events.rs:232` speaks of a full channel; the channel is unbounded, which is also why
  no event is lost (`NothingLost`) and `Drop` never waits for the consumer. A consumer that
  stops reading lets it grow without limit; the code sets no bound, so no property has one.
- `filter_enum.rs:415-420` (a test) compares `count` with the length of `all`. Each is the
  system at one moment, but two calls see two moments: the test is right only as long as
  no other program adds or deletes a filter between them.
- The two readers of an application path differ: `extract_app_path` stops at the blob's
  size, `parse_wide_string` ignores the size and relies on a terminator; an empty path is
  no path for the second and may be an empty one for the first.
- The default weight of a new rule is `UserPermit`, for `Block` rules as well.

## Not modelled

- Texts, logging, error messages and GUID values (`errors.rs`, `constants.rs`); names and
  descriptions of filters. Which call fails is modelled where it happens.
- The parsing of addresses and numbers by the standard library: `from_cidr` starts from
  the parsed parts. Conversions to UTF-16 and back are modelled only where a terminator
  or an ill-formed unit matters.
- Service and AppContainer conditions: the code builds none, which is finding 6.
- Whether a time fits: `UNIX_EPOCH + Duration` is taken as total. It would panic on a
  `FILETIME` beyond what `SystemTime` can hold, thousands of years from now.
- Two null checks that lead to the same result are one: a null blob and a blob with null
  data both give no path (`extract_app_path`).
- Memory layout of the FFI structures: a condition is its field and value, and the arrays
  a filter points to live on the stack of `add_filter`.
- Deleting filters that another client added.
- A filter's meaning inside `WfpSession`, and its transaction inside `FilterTranslation`:
  whether a filter is enforced does not depend on what it says, so the two models are
  separate, and a product of them would only multiply their states.
- `lib.rs` (re-exports), `safe_handles.rs` (a comment), and the examples, which are
  straight-line clients and behaviours of the modelled ones.

## Plan

Done, in this order: the session core and its invariant; the event subscription; the
translation of rules; the enumeration; the refinement of `AtomicRules`; the proofs of
registration, delivery, enumeration and refinement; the parsing of events and of filters;
the proofs about rules, masks, packets, events and infos.

Left: a bound on the steps of `initialize_wfp` and of `Drop`, as `ReturnNears` is one for
enumerations; deletion of filters that another client added,
which needs an ownership of promises that the crate does not define.
