# Verification of the Espelho Zap mirror

Espelho Zap copies WhatsApp conversations into topics of a Telegram forum. A
capture process writes each inbound message to a SQLite ledger; a worker,
started again and again by a timer, claims one delivery at a time and posts it
through the Telegram Bot API; an operator decides what the program cannot know.
The promise that makes the system worth having is in `docs/ARCHITECTURE.md`,
"Idempotência e resultado incerto": nothing captured is lost from view, and
nothing whose outcome is unknown is sent again without a human decision. This
directory models that promise, the ledger and the processes around it.

    tlc -workers 2 -config Worker_race.cfg MCMirrorWorker
    tlc -workers 2 -config Spool_stored.cfg MCMediaSpool
    tlc -workers 2 -config Outbound_replies.cfg MCHumanOutbound
    tlc -workers 2 -config Observer.cfg MCHermesObserver
    tlc -workers 2 -config Tail.cfg MCSessionTail
    tlc -workers 2 -config Consumers.cfg MCConsumers

    for m in MirrorTypes MirrorSafety MirrorPromises SpoolSafety \
             OutboundSafety ObserverSafety TailSafety ConsumersSafety
    do tlapm $m.tla; done

## 1. Inventory

| part | state | operations | talks to | what makes it correct |
|---|---|---|---|---|
| delivery ledger, `ledger.py` | tables of one SQLite file: events, routes, deliveries, leases, attempts, runtime locks, route blocks, legacy ids, managed media, audits | one transaction per public method | called by every other part | the tables agree at every commit; an attempt's record is true |
| delivery worker, `worker.py` | its claim, its clock reading, a heartbeat thread | `run_once`, `run_bounded`, `close`, the heartbeat's renewals | ledger, transport | no blind resend; serial sending; every delivery settles |
| Telegram transport, `telegram.py`, `transport.py` | none | `send`, `create_forum_topic` | Bot API over HTTP | "not applied" is reported only when that is certain |
| operator commands, `cli.py` | a runtime lock for the time of a command | route set, reconcile, rebind, uncertain to sent or retry, purge, cleanup, import | ledger | each decision is audited and concerns one attempt |
| capture producers, `cli.py ingest`, `adapters/openclaw_jsonl.py` | a cursor per tailed file | capture in one transaction; the tail statement by statement | ledger, media spool, Bot API for topics | captured content is queued or visibly blocked |
| media spool, `media.py` | files in a managed directory | stage, publish by a hard link of a temporary copy, sweep orphans | ledger inventory, producers, workers | a file a row refers to exists |
| Hermes observer, `adapters/hermes_bridge.py`, `observer_launcher.py` | the bridge's queue of unacknowledged messages | poll, persist or quarantine, acknowledge, clean up | bridge over HTTP, ledger | acknowledged means durable; no item blocks the rest |
| human outbound, `integrations/hermes/__init__.py` | a durable queue of replies, an arm file, a wake-up runner | prepare, claim, post, finish, recover, drain | Hermes hooks, WhatsApp bridge | a reply is sent at most once, and eventually tried |
| receipts and reactions, `receipts.py`, `receipt_reactions.py`, `policy.py` | highest receipt per outbound reference | advance, project as a reaction | ledger, Bot API | receipts never go back; reactions catch up |
| OpenClaw plugin, `integrations/openclaw/dist/index.js` | a bounded in-memory queue of inbound messages; a durable JSONL ledger of human replies (`ESPELHO_ZAP_HUMAN_OUTBOUND_LEDGER`) | hook, enqueue, spawn ingest; reserve, dispatch, record a reply, compact the ledger by rename | `cli.py ingest`, the OpenClaw runtime | nothing accepted is dropped silently; a reply found dispatching at start is uncertain |
| consumers, `consumers.py` | a cursor per consumer and scope | daily notes, claims, search export | ledger | each event is projected once per consumer |
| legacy importer, `legacy.py` | none | one transaction | ledger | what was delivered before is not delivered again |
| guards, installer, skills | installed files | patch, health check, roll back | systemd, file system | not part of the message path |

The behaviours that are hard here: several processes on one ledger with no
coordination but its transactions; a worker that uses the clock reading of its
start until its end; leases in whole seconds renewed by a second thread; a
network call whose outcome may stay unknown while its request is still on the
way; processes that die anywhere; and operators who act in the middle of all
this. `PROJECT.json` lists each hazard at its line.

## 2. Modules

| module | models |
|---|---|
| `MirrorLedger` | the tables and one operator per transaction of `ledger.py` |
| `MirrorWorker` | workers, heartbeats, Telegram, producers, operator commands, crashes and time, composed over the ledger; the properties |
| `MirrorOutbox` | the abstract promise: per event, which dispatches may follow which |
| `MirrorInvariant` | the inductive invariant of the safety proof |
| `MirrorTypes`, `MirrorSafety` | theorems and proofs: types, and the invariant of the attempts |
| `MirrorPromises` | theorems and proofs: the refinement of `MirrorOutbox`, action properties, routes, media, serial sends |
| `EventLog` | what the tail and the consumers see of `mirror_events`: the recorded events and their order |
| `SessionTail` | the tail of an OpenClaw session file, the program that writes it and the other producers, over `EventLog` |
| `Consumers` | daily notes with cursors and files, and claims, over `EventLog` |
| `HermesObserver` | the observer's cycle, the bridge's spool, receipts and reactions, and the operator's tables |
| `TailSafety`, `ConsumersSafety`, `SpoolSafety`, `OutboundSafety`, `ObserverSafety` | theorems and proofs about the module of that name |
| `MediaSpool` | producers that stage and commit attachments, janitors that remove and sweep them, over one directory that no transaction covers |
| `HumanOutbound` | the reply queue of the Hermes plugin: hook, drain, ARM watcher, recovery, and the bridge's route |
| `MCMirrorWorker`, `MCMediaSpool`, `MCHumanOutbound`, `MCHermesObserver`, `MCSessionTail`, `MCConsumers` | instances for TLC |

### The mirror: `MirrorLedger`, `MirrorWorker`

**Tables and variables.** Each variable of `MirrorLedger` is a table, or a
column of one, indexed by event, conversation or profile; `"none"` and `NoRow`
stand for a missing row. `mirror_delivery_attempts` is the sequence
`outcome[e]`. The states are those of the CHECK constraints.

**Transactions.** A method of `ledger.py` between BEGIN IMMEDIATE and COMMIT is
one operator, so one atomic action; a method that reads before its transaction
(`reconcile_route_blocks`) is two actions with anything in between. The JSONL
tail uses no transaction at all: the connection commits each statement
(`isolation_level=None`), so its `record_event` is one action and its `enqueue`
is `TailLooks` (the legacy id), `TailReadsRoute`, then `TailHolds` or
`TailReadsBlock` and `TailQueues`, with `tail` the call under way; `TailEnds` is
a call that ends at a block, by an error or with its process. One call at a time
works on an event. `run_once` is the sequence `Start`, `Clean`,
`Claim`, `Send` or `Refuse`, one of `Rejected`, `Accepted`, `Unknown`, then
`Finish` and a last `Clean`; `LeaseLost` and `Close` end the process. A failed
`_require_lease` is the missing guard of `Finish`, which leaves `LeaseLost`.

**Network.** `Send` puts the attempt on `wire`. Telegram may apply it (`Apply`),
it may vanish (`Lose`), and the caller may have given up before either. An
answer that proves rejection (429, another 4xx, `ok: false`) removes it from
the wire. `posted` is what Telegram has applied. A send of several parts that
fails after the first is an unknown outcome in the code
(`telegram.py`, `outcome_unknown`) and in the model.

**Time.** A stored timestamp is its distance from now and `Tick` decrements it.
A worker's `stamp` is the age of its clock reading: it is what makes a claim, a
backoff or a retention start in the past. `Timely` says whether a tick may pass
while a heartbeat is due. With FALSE any lease may expire under its worker.

**Identities.** A worker's id is a fresh uuid unless an operator configures one
(`cli.py`, `--worker-id`). The model assumes distinct ids; a crashed process's
rows go to `Gone`, so its successor is never taken for it. Two processes given
the same configured id are outside the model.

**Media.** One file per event that has one. The cleanup pass of `run_once` is
one step; its races are the subject of `MediaSpool`.

### The spool: `MediaSpool`

A producer follows `cmd_ingest` and `_persist`: `Look` (the replay check, before
the transaction), `Begin`, then `Reuse` or `Measure`, any number of `Copy`,
`Link` and `DropTemporary`, then `Commit`. `copy` is the size of the temporary
file: the copy runs to the end of the source, which may have grown past the
measured size by up to `MaxGrowth`, and only a copy of the measured size is
linked. Between `Link` and `DropTemporary` the file has two names and counts
twice; a crash there leaves both, as does a refused unlink of the temporary
name, which `ProducerCrash` stands for too. A capture that raises is `Rollback`
and, as a step of its own without the write lock, `Undo`. A janitor follows the
cleanup and the sweep of `run_once`: `List`, `Remove` and `Removed` per row,
`Snapshot` of the inventory, then `Examine` and `Unlink` per file. A file's
mtime is "fresh" or "old"; the sweep's reading of the clock is the set `aged`,
from which a file published again drops out. `Settle` stands for everything that
hands media to cleanup. `Usage` counts the bytes of every name in the directory
as a set, which keeps what `_spool_usage_bytes` adds up within the reach of the
proofs.

Two constants name what the code relies on without enforcing it.
`SingleCapture`: two processes do not capture one event at the same time.
`PromptRetry`: a capture that was interrupted is retried within the sweep's hour
of grace, or after the sweep, but not over a file the sweep is about to take.
Without either, a committed file can go (section 3). Two janitors of one spool
break `ActiveMediaIsStored` even with both, when one stalls between examining a
file and unlinking it for longer than another needs to unlink it and a producer
to stage it anew; the passing run therefore has one.

### Replies: `HumanOutbound`

The hook is `Stage` (write lock, dedupe, managed copy), `Insert` or `Abandon`,
and `HookSubmits`. The drain, of which the executor runs one, is a program with
a step per place where another thread may come between: `DrainStarts`, `Claim`,
`NothingDue` or `ClaimRaises`; `Release` or `Post` or `PostFails`; an answer or
a `Timeout`; `Finish`, `Clean`; and `Check`, the last look under the wake lock.
`EndByException` is the outer handler. `runner # "off"` is the key in
`_OUTBOUND_WAKE_PENDING`. The watcher is `Look` and `Wake`. `Register` and
`Ready` are the two halves of `register`.

The ARM file is read by `armed` and versioned by `armId`; `Revoke` and `Rearm`
may happen at any time. The bridge serves one request at a time, remembers
results until it restarts, and may still send after it answered that it gave up.
The hook is not called twice at once for one message, and every reply carries
media, which is the harder case. A claim takes any due row; the code takes the
oldest. The bridge answers a request it has served from its memory
(`AnswerAgain`). That is a second safeguard: the proof shows that no request
arrives twice once it is remembered (`DispatchesAreUnique`), so `DeliveredOnce`
rests on the gateway's rows alone.

### The observer: `HermesObserver`

`Fetch` takes a bounded batch; `TakeReceipt`, `Capture`, `StagingFails`,
`Replay`, `Quarantine` and `Retain` are the ways an item of it ends in
`observe_once`; `AckConfirmed` or `AckFails`, `Cleanup`; then the projector of
receipts, `Collect`, `React`, `ReactionFails`, `RecordReaction`. `AckFails` may
have removed the items all the same, and `ReactionFails` may have set the
reaction. `Verdict` is the order of the checks in `_raw_event` and `_persist`:
what a message names is constant, what the ledger answers is state, since
aliases, routes, scopes and admissions change between two deliveries of it.
Commands hold the observer's runtime lock, so they come between cycles; the
first route of a contact, which `cmd_ingest` creates, may come at any time.

The bridge is external: its spool is what it holds and `older` the order it
hands that out in, oldest first. A batch is taken in that order, and replies are
reacted to in the order of their rows (`Turn`).
A cleanup that fails leaks a file, as a lost answer does. The counters, the
block table of refused groups, labels beyond their presence, capture of the
same message through a hook, and a runtime lock that expires under a long cycle
are left out. A route's destination is opaque.

### The tail: `SessionTail`

`Stat` decides generation and position from the path, `Open` reads, and between
them the file may change. `RecordLine` is one statement, and `enqueue` is
`Look`, `ReadRoute`, `HoldLine` or `ReadBlock` and `QueueLine`, each a statement
of its own. `Others` commits between any two of them: another producer that
captures an event, with the payload of the line or with another one (`foreign`);
the route; the import of the old pipeline's ids; a reconciliation. A legacy line
passes with neither delivery nor block. A line whose event has another payload
raises `EventConflictError`, which `ingest_file` does not catch, so every call
ends there with no cursor saved (`Conflict`). `view` is a snapshot taken at
`Open`; the code may read lines appended after it, which a later `Open` would
show. `SlowRegrowth` names what `docs/ADAPTER_CONTRACT.md` line 199 relies on: a
file cut in place is found shorter than its cursor before it grows past it with
the same first line. An unreadable line stops the tail for good, as in the code.
The error `cursor_regression` needs two tails of one file, which are not
modelled.

### The consumers: `Consumers`

A run takes the scopes by rank: `Take` reads the cursor and a batch, `WriteDay`
replaces one file, `Commit` checks the cursor and moves it with the rows of the
batch; `Conflict`, `Refuse` and `CrashProjector` end the run. An event is named
by its sequence number, which is its place in the log. Reading the projected
events of a day and replacing its file are one step. Overlapping runs are kept
from moving the cursor twice, but not from replacing a file by an older one:
`NoteHasProjected` is therefore about runs that never overlapped. `AddClaim` is
the transaction of `add_claim`; returning an existing claim changes nothing.

## 3. Runs

| run | instance | checks |
|---|---|---|
| `worker_race` | 2 workers, 1 event, 1 operator, 2 attempts, 1 command, 1 crash, stale stamps, fairness | `TypeOK`, `NoBlindResend`, `KnownFailuresNeverLand`, `SentIsProven`, `LeaseIsTheInflightDelivery`, `ImplementsOutbox`, `DeliveriesSettle` |
| `worker_profiles` | 2 events of 2 profiles, 2 workers, `Timely` | `NoConcurrentSends`, `ImplementsOutbox` |
| `worker_operator` | an event with a file and a tailed one, 2 topics (symmetric), route and media commands | `NothingFallsOut`, `ClaimsFollowTheRoute`, `LegacyIsNotQueued`, `MediaRemovalIsJustified`, `OperatorResolvesUncertain` |
| `purged_retry` | 1 event with a file | `RetryMediaIsPreserved`, violated |
| `spool_stored` | 2 events of different sizes, 2 producers, 1 janitor, 1 crash, fairness | `TypeOK`, `ActiveMediaIsStored`, `SpoolWithinQuota`, `OrphansGo`, `SettledMediaGoes` |
| `outbound_replies` | 2 replies, 2 attempts, 2 ARM files, 1 crash, 1 failed write | `TypeOK`, `DeliveredOnce`, `RecordIsTrue`, `MediaIsKept` |
| `outbound_woken` | 2 replies, 2 attempts, 2 ARM files, fairness | `PreparedIsTried` |
| `outbound_lost_wake` | 1 reply, 1 ARM file, fairness | `NoWakeIsLost`, violated |
| `observer` | a message of a contact with two identities, one of a group, 2 receipts of a reply, 1 failure or crash, 2 commands, fairness | `TypeOK`, `AckedIsDurable`, `SourceKeptUntilDurable`, `ReactionIsProven`, `ReactionNeverRegresses`, `DrainsUnlessStuck`, `ReactionsCatchUp` |
| `observer_reactions_starve` | 2 replies with receipts, 1 candidate per cycle, fairness | `ReactionsCatchUp`, violated |
| `tail` | 2 events, of which one may be captured by others and be legacy, a line without one, one that does not parse, 1 rotation or cut, 1 crash, fairness | `TypeOK`, `CursorPassesNothing`, `LinesAreTaken` |
| `consumers` | 2 runs, 3 events of 2 scopes, 1 without a day, 2 claims, 1 crash, fairness | `TypeOK`, `NoteHasProjected`, `CursorIsProjected`, `ScopeNeverLoosens`, `EventsAreProjected` |

**Bounds of the worker runs.** `LeaseSeconds` 1 and `RuntimeLockSeconds` 2
already let a delivery lease expire before, with and after the runtime lock;
`Horizon` is the age at which timestamps are merged, larger than any comparison
made with them (`MaxStall < Horizon`). Two attempts allow one retry and one
final failure; one command is a release, and the two commands of
`worker_operator` a release followed by a second decision; one crash at any step
leaves a stale lease and, with two workers, a survivor. Two workers make every
race of the ledger pairwise. In `worker_race` one event suffices because no
transaction reads two deliveries except `claim_next`, which `worker_profiles`
runs with two. The topics of `worker_operator` are interchangeable: no action
tells them apart and the run checks no liveness.

**Bounds of the spool runs.** A quota of 3 holds both files (1 and 2) but not
both and an abandoned copy. A source may gain one byte. One crash leaves a
published file without a row, a copy under a temporary name, or both names, and
stops a janitor between any two steps.

**Bounds of the outbound runs.** Two attempts are one retry and one final
failure (the code has three); a second ARM file is what a watcher that has seen
the first must notice; two replies let one be prepared while the drain of the
other ends. One crash, of the gateway or the bridge, meets every step.

**Bounds of the observer run.** A batch of two and two messages and two
receipts leave items behind; the message with two identities meets a route
conflict, a target that changes between two deliveries of it and a file that is
gone; two commands route both identities, or approve a group and change its
scope; one failure is a lost acknowledgement, a full spool, a failed reaction or
a crash, at any step, after which the same item comes again. `BatchLimit` is
larger than the number of items that can be stuck at once, without which
`DrainsUnlessStuck` is false: stuck items at the head fill the batch.

**Bounds of the tail and consumer runs.** Two lines, of which either may be any
kind, one rotation or cut and one crash let a tail work on a file that is no
longer there. One of the two events may be recorded by others and listed as
legacy, at any step. A batch of one makes every note grow over two batches of
one day; two runs overlap in every way two can; a chain of two claims is the
step the proof takes for a chain of any length.

**Disagreements with the documents and comments.**

- `purged_retry`: an operator authorises the purge of an uncertain delivery,
  then another decides retry; the queued cleanup is not withdrawn and the file
  goes before the retry, although `docs/ARCHITECTURE.md` line 133 says that
  media in `retry` is preserved.
- `outbound_lost_wake`: the comment at lines 2191-2194 of the Hermes plugin says
  that no wake-up is lost while the drain ends; the exception path drops the key
  without the last look at the queue.
- `observer_reactions_starve`: `docs/HUMAN_OUTBOUND.md` lines 20-21 and the
  comment at `receipt_reactions.py` line 140 leave a failed reaction to the next
  cycle; but replies already reacted to count as candidates, oldest first, so
  once there are as many as a cycle takes, no newer reply is looked at.

More are stated as assumptions and hazards, since a property of a passing
run would fail without the assumption that names them: `media.py` line 274
promises to remove files absent from the inventory, and without `PromptRetry` a
retried capture adopts its orphan, with the old mtime, between the sweep's
snapshot and its unlink; without `SingleCapture` the `Undo` of one process
removes the file another has reused and committed; without `SlowRegrowth` a file
cut and grown again is read from the old cursor. `docs/ARCHITECTURE.md` line 119
says that a replay of an event already sent does not restore its erased media;
but the replay check (`cli.py` line 1106) comes before the transaction (line
1142), so a producer that stalls in between, while another captures the event
and its media is sent and removed, stages the file again, and `capture_event`
restores the row. `SingleCapture` excludes this too.

Two statements hold in a weaker form than a reader may expect. Line 131 of
`docs/ARCHITECTURE.md` has the quota serialised by the transaction: published
files do stay within `maximum_spool_bytes`, but the directory may exceed it
while a source grows under its copy (`media.py` lines 141 and 162), or has two
names for one file (lines 185 and 206), by the bounds of `SpoolWithinQuota`; a
crash makes the excess last until the sweep. And an import that commits after
the tail's `enqueue` has looked the id up (`ledger.py` line 1500) and before it
inserts (line 1527) leaves a legacy event in the outbox; `LegacyIsNotQueued` is
about events with no such call under way.

Two findings about the observer concern
privacy and duplicates rather than durability: a malformed item of a group is
quarantined with its payload before its admission is looked at, and a message
whose alias or route changed before it was acknowledged is captured again under
its new identity.

`docs/ARCHITECTURE.md` line 113 says that WIP=1 avoids concurrent sends.
`NoConcurrentSends` needs `Timely`: a worker stalled past its lease stays inside
its send while another profile's worker claims. `ImplementsOutbox` shows that
even then no message is resent blindly.

**Fairness.**

- `worker_race`: time passes; a worker takes its next step, since a timer
  starts it again (`packaging/systemd`) and its transport has a timeout, which is
  `Unknown`; an operator command ends. Nothing is assumed of producers,
  operators' decisions, heartbeats or Telegram. All are weak fairness conditions
  of single actions. The run covers one profile: a profile whose timer is
  disabled keeps its own deliveries waiting.
- `spool_stored`: a producer goes on or gives up (its busy timeout ends every
  wait); workers run again, and a scan comes to every file; the write lock and
  an unlink are not refused for ever (strong fairness, since both are refused
  for a while again and again); time passes.
- `outbound_woken`: the threads of the gateway go on, the service manager starts
  it again, and a backoff ends. Nothing is assumed of messages, of the ARM file
  or of the bridge; the conclusion is about behaviours where the file stays
  valid from some time on.
- `observer`: its timer starts it again (`packaging/systemd`), so its next step
  is taken. Failures are bounded, messages and commands are not forced.
- `tail`: `ingest_file` is called again and again, as
  `docs/ADAPTER_CONTRACT.md` lines 193-210 ask of its caller, and each call ends;
  no caller is in `src/` beside the tests.
- `consumers`: the daily notes are run again and again, and each run ends.

## 4. Proofs

Checked by TLAPS for all sets of events, conversations, profiles, topics,
workers, operators, producers, janitors, replies, items, lines, scopes, claims
and runs, and all bounds, from the named assumptions of the modules and those
in the second column. Every invariant and every action property of a passing
run is a theorem, and so is the refinement.

| theorem | says |
|---|---|
| `TypeCorrect` | the mirror: `Spec => []TypeOK` |
| `AttemptsCorrect` | `Spec => []AttemptInvariant` |
| `NoBlindResendHolds` | `Spec => []NoBlindResend` |
| `KnownFailuresHold` | `Spec => []KnownFailuresNeverLand` |
| `SentIsProvenHolds` | `Spec => []SentIsProven` |
| `OneLease` | `Spec => []LeaseIsTheInflightDelivery` |
| `OutboxImplemented` | `Spec => ImplementsOutbox` |
| `UncertaintyEndsByDecision` | `Spec => OperatorResolvesUncertain` |
| `ClaimsAreRouted` | `Spec => ClaimsFollowTheRoute` |
| `LegacyStaysOut` | `Spec => LegacyIsNotQueued` |
| `NothingIsDropped` | `Spec => []NothingFallsOut` |
| `RemovalIsJustified` | `Spec => []MediaRemovalIsJustified` |
| `SendsAreSerial` | `Timely` and `MaxStall < LeaseSeconds` imply `Spec => []NoConcurrentSends` |
| `SpoolTypes` | the spool: `Spec => []TypeOK` |
| `WaitingMediaIsStored` | `SingleCapture`, `PromptRetry` and one janitor imply `Spec => []ActiveMediaIsStored` |
| `QuotaIsKept` | `Spec => []SpoolWithinQuota` |
| `OutboundCorrect`, `OutboundTypes` | replies: `Spec => []OutboundInvariant`, `Spec => []TypeOK` |
| `NoDuplicateReply` | `Spec => []DeliveredOnce` |
| `RecordsAreTrue` | `Spec => []RecordIsTrue` |
| `RepliesKeepTheirMedia` | `Spec => []MediaIsKept` |
| `ObserverCorrect`, `ObserverTypes` | the observer: `Spec => []ObserverInvariant`, `Spec => []TypeOK` |
| `NoItemIsLost` | `Spec => []AckedIsDurable` |
| `SourcesAreKept` | `Spec => []SourceKeptUntilDurable` |
| `ReactionsAreTrue` | `Spec => []ReactionIsProven` |
| `ReactionsRise` | `Spec => ReactionNeverRegresses` |
| `TailTypeCorrect` | the tail: `Spec => []TypeOK` |
| `CursorIsSafe` | `SlowRegrowth` implies `Spec => []CursorPassesNothing` |
| `ConsumersTypeCorrect` | consumers: `Spec => []TypeOK` |
| `CursorIsCorrect` | `Spec => []CursorIsProjected`, whether runs overlap or not |
| `NotesAreComplete` | `Spec => []NoteHasProjected` |
| `ClaimsStayRestricted` | `Spec => []ScopeNeverLoosens` |

### Attempts

`NoBlindResend` speaks of two sets, what Telegram applied and what operators
released, and neither is written by the transaction that could break it, the
claim. The inductive invariant supplies what lies between:

- `Reached`: what is on the wire or applied is an attempt that was claimed;
- `AttemptsAreLogged`: the log has one entry per attempt, and an entry is open
  only while its lease exists, which is the latest one's;
- `ClaimsAreApart` and `LeasesHaveOwners`: no two workers hold the same attempt,
  and a lease belongs to the worker that works on it or to a dead process;
- `ResultsAreTrue`: a worker that reports success has been applied, and one that
  reports failure holds an attempt with no effect, now or later (`HadNoEffect`);
- `Accounted` and `RepeatsAreAccounted`: a delivery that waits has every earlier
  attempt failed without effect or released, and so has every attempt older
  than the latest.

A claim adds an attempt only to a waiting delivery, so the last part survives
it; a late answer is written only under `RequireLease`, which by the lease part
concerns the latest attempt. Weakening `RequireLease` makes that very step fail.

`MirrorTypes` proves one lemma per transaction, then one step per action;
`MirrorSafety` proceeds the same way.

### The mirror's other promises

`MirrorPromises` first classifies every step once, for one event
(`NextEventStep`): the delivery rests, is queued, parked, dispatched, landed,
ended, lapsed or resolved, and nothing else happens to its state, its log and
its operators' decisions. The action properties read off that list. What each
needs besides: `OperatorResolvesUncertain`, that a decision concerns an attempt
already made (`DecisionsArePast`), so that a new decision is a new audit row;
`LegacyIsNotQueued`, that an enqueue which has looked an id up is the only way a
listed one enters (`Admitted`), and that no such call begins afterwards
(`LegacyEndsTheCall`).

`ImplementsOutbox` is proved the same way. `OutboxView` gives for each event
what the abstract outbox knows of it, and the lemmas on boxes show that each
class of step is one abstract step or leaves the box alone. A claim is a
dispatch, allowed because `RepeatsAreAccounted` has every earlier attempt of a
waiting delivery failed or released, and `DecisionsArePast` has the new one not
released in advance. A request applied late lands, allowed because
`KnownFailuresNeverLand` has no failure recorded for one still on the wire.

`MediaRemovalIsJustified` is not inductive: the cleanup acts on the state of a
row in the inventory, not of the delivery. `FilesAreInventoried` adds that an
active row has its file and that any other belongs to a sent or purged
delivery. `NoConcurrentSends` needs `ClaimsAreTimely`: a worker on its way to a
claim has a reading at most `MaxStall` old, and one past its claim owns a lease
with time left, of which there is one in the whole ledger. Without
`MaxStall < LeaseSeconds` a claim made from an old reading has a lease that is
expired at once.

### The spool

The three layers of `SpoolSafety` show which assumption buys what. Types need
none. With `SingleCapture`, no producer works on an event that was captured
(`CapturesAreNew`). With `PromptRetry` and one janitor, a producer never works
on an old file (`CapturesAreYoung`), so a file that a sweep found old and
without a row stays without one (`CondemnedAreOrphans`), and the unlink hurts
nobody. `SpoolWithinQuota` needs only that whoever stages holds the write lock
(`StagersWrite`). Then there is at most one temporary file beside what outlives
a capture, and the room that was measured for it is still there until it is
linked (`RoomIsKept`); what comes on top is the growth of one source or the
second name of one file. A crash moves those bytes to the abandoned copies, and
`Measure`, which counts them, refuses to begin until they are gone.

### Replies

`OutboundInvariant` says what a drain may rely on between two of its steps: the
row of its job stays `sending` until the drain itself writes the outcome, and a
dead gateway leaves no thread behind (`JobIsClaimed`, `ThreadsLive`); the bridge
holds at most one dispatch of a request, and remembers none but one it gave up
on (`DispatchesAreUnique`); and a request whose row may be claimed, or was
refused, has no dispatch and was not delivered (`Fresh`,
`RecordsFollowTheBridge`). `DeliveredOnce` and `RecordIsTrue` follow;
`CopiesAreKept` gives the media. That recovery makes a `sending` row uncertain,
and not prepared, is what keeps `Fresh` true of prepared rows.

### The observer

An item is durable to a cycle only if the ledger has it, as an event, a receipt
or a quarantined row (`DurableIsRecorded`), and no command takes a recorded item
back; so an acknowledgement, confirmed or lost, removes only recorded items. A
source file is removable only with a captured message (`RemovableIsCaptured`),
and removed only after a confirmed acknowledgement, when the bridge no longer
holds the message. A reply on the projector's list has a receipt
(`TodoIsProven`) and its record never runs ahead of Telegram
(`RecordFollowsReaction`); since receipts never go back, neither does the emoji
set from them, including one whose answer was lost.

### The tail and the consumers

`CursorPassesNothing` speaks of a cursor whose generation is that of the present
file, and appending the first line to an empty file changes the generation, so a
step of the writer could make an old cursor true of a new file. `TailInvariant`
rules that out: a saved position fits the lines it was taken from
(`CursorFits`), and so does the position of a running call (`RunFits`), unless
the file is marked as cut; a cut sets the mark, a rotation gives a fresh inode,
and `SlowRegrowth` keeps the writer from appending while the mark stands. What
the other processes do takes back nothing a line was passed for: a reconciled
block has a delivery or is legacy, no payload of a recorded event changes, and
what is handled stays so (`LogGrows`).

`CursorIsProjected` needs `CursorInvariant`: a batch lies right above the cursor
its run started from, so the commit that finds the cursor unmoved closes the
gap exactly. `NoteHasProjected` needs in addition that a lone run's batch is in
its file once the day is no longer due (`OneAtATime`, `BatchIsWritten`).
`ScopeNeverLoosens` is inductive with `OnlyClaimsAreReplaced`.

### What stays with TLC

Liveness, which TLAPS does not reach, since it needs ENABLED and fairness:
`DeliveriesSettle`, `OrphansGo`, `SettledMediaGoes`, `PreparedIsTried`,
`DrainsUnlessStuck`, `ReactionsCatchUp`, `LinesAreTaken`, `EventsAreProjected`.
And the three violated properties, whose counterexamples TLC prints. That
`SingleCapture`, `PromptRetry`, `SlowRegrowth` and `Timely` cannot be dropped is
argued in section 3 by the behaviours they exclude, not proved.

## 5. Not modelled yet, and the plan

1. `MediaSpool` with several attachments per event, of which some are staged
   when the capture fails, and with the limits of 100 rows and files per pass.
2. The guard of Hermes updates (`upgrade_guard.py`): its gates read one after
   the other while files, gateway and bridge change; what it may rearm, and that
   it rearms at last. A reply whose outcome could not be written stays `sending`
   until the gateway restarts, and keeps a guard that has disarmed from
   rearming. Today `HumanOutbound` lets the ARM file come and go at any time,
   which includes what the guard does.
3. The OpenClaw plugin: its queue in memory, and its durable JSONL ledger of
   human replies with its appends, compaction and restart; the search export,
   acceptance canaries and schema migrations.
4. Theorems: nothing is open for the modules above but liveness. A module added
   under 1 to 3 gets its invariant proved beside it.

Left out for good: wording, formatting and validation of messages and
configuration; the installer, systemd units and skills, which keep no state of
the message path; sharing one configured worker id between processes; an ARM
file repaired in place, which keeps its identity and wakes nobody; a quarantine
whose payload holds a lone surrogate, for which `ledger.py` line 946 raises
`UnicodeEncodeError`: the observer does not catch it (`hermes_bridge.py` lines
693 and 709), so every cycle ends at that item with nothing acknowledged.
