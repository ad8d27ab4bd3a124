# Verification of knokeep

knokeep keeps an agent's project state (state documents, session journals,
logs) in a store that several processes write at once: editor sessions, the MCP
server, migrations.  Every write goes through one gate (`store/gate.py`) to one
`StoreBackend` adapter, and every adapter promises the same contract
(`design/store_backend_contract.md`): compare-and-swap by content hash, leases
with monotonic fences, create-only writes, and a durable `OK`.  This directory
holds TLA+ models of that code, TLC configurations that check them on small
instances, and proofs that TLAPS checks.  Above the adapters it models the four clients
of the store: the outcome reconciliation, the skill, the MCP server and the
migration.

Paths below are relative to `src/`.

## Inventory

| Component | Source | State it keeps | Operations |
|---|---|---|---|
| Local adapter | `store/local.py` | journal, `data/`, owner and advisory files, two file locks; per process: `_last_accepted_fence` | `write`, `read`, `list`, `lock`, `renew`, `unlock`, constructor (`_resume`, staging scavenger) |
| In-memory adapter, contract | `store/fake.py`, `store/backend.py`, `store/types.py` | value and fence of each key under one mutex, armed faults | the same, fault injection |
| Git adapter | `store/git_backend.py` | remote branch: blobs and `.knokeep-fence/` sidecars; per process: `_locks` | the same; fetch, build commit, scan, push |
| Object-store adapter | `store/objectstore.py` | one envelope per key (body, owner, fences) under an ETag; per process: `_locks` | the same; conditional GET/PUT |
| Postgres adapter | `store/postgres.py` | a store row and a fence row per key; per process: `_locks`, connections | the same; transactions with row locks |
| Gate | `store/gate.py`, `store/context.py` | none | `validate_write`, `persist`, `reconcile` |
| Skill | `skill/knokeep_state.py` | documents, session journals, parked conflicts, resolve markers, all in the store | `flush_state`, `flush_log`, `session_append`, `init`, `resolve_conflict`, `bootstrap`, `rollup` |
| MCP server | `mcp/server.py` | two handshake flags | `initialize`, `initialized`, `tools/list`, `tools/call` |
| Migration | `migrate/migrate.py` | durable lease document on the target, key snapshots | acquire, heartbeat, scan, copy, verify, release |
| Reconciler | `reconciler/*.py` | none (telemetry file) | `reconcile` |
| Conformance suite, tools, shims, config | `conformance/`, `tools/`, `shims/`, `store/config.py` | none | - |

How they interact: the skill, the MCP server and the migration call
`gate.persist`, which filters and calls `backend.write`; around a CAS-update they
call `backend.lock` before and `backend.unlock` after.  Adapters in different
processes meet only in the files, branch, bucket or tables they share.  There
are no callbacks and no messages between components.

What is hard, and what would make each component correct:

- **Local adapter.**  Processes interleave on files, die between two of them, or
  lose power; a new process replays the journal over a directory others are
  using.  Correct: an acknowledged write survives and is never overwritten unseen;
  readers never go back; a superseded lease writes nothing; every call returns.
- **Git, object store, Postgres.**  The decision is made on a snapshot and applied
  by a remote precondition; acknowledgements get lost; the advisory registry is per
  process while the fence is shared.  Correct: the same contract, and a result that
  says "not committed" only when that is so.
- **`gate.reconcile`.**  It reads once after an unknown outcome, and may retry.
  Correct: `OK` only for a value that landed, no false `STALE`.
- **Skill.**  A section is merged into a document that others change, with bounded
  retries.  Correct: a losing body is reapplied, parked or reported, never lost; a
  reapplied section never overwrites a change its caller had not seen.
- **MCP server.**  Correct: no tool call before the handshake completes; a CAS write
  is refused as `BUSY` or `STALE`, never half done.
- **Migration.**  A lease document that survives crashes, taken over when stale, under
  a fence any contender may advance.  Correct: a live lease is never taken, a run that
  lost its lease stops before it signals the cutover, a cutover means a complete copy, and
  no key of the target is ever replaced.
- **Reconciler.**  A pure function: drift is reported exactly when two sources differ.

`PROJECT.json` lists every hazard at its line.

## Modules

| Module | What it is |
|---|---|
| `StoreContract` | the abstract store: what any adapter promises |
| `LocalStore` | the local adapter on its files |
| `LeaseRegistry` | the in-process registry and the fence record of the remote adapters |
| `GitStore`, `ObjectStore`, `PostgresStore` | the remote adapters; each extends `LeaseRegistry` |
| `LocalStoreRefinement`, `GitStoreRefinement`, `ObjectStoreRefinement`, `PostgresStoreRefinement` | the refinement mappings to `StoreContract`, one key at a time |
| `Reconcile` | callers of `gate.reconcile` on a store with requests in flight; refines `StoreContract` |
| `SkillFlush`, `SessionJournal` | the flush of a document, and the append to a session journal |
| `McpServer` | handshake and write tool of the MCP server |
| `Migration` | runs of the migration, with their lease document |
| `MC*` | one for each of these: instances, symmetry and scenarios for TLC |
| `LocalStore_proofs`, `GitStore_proofs`, `ObjectStore_proofs`, `PostgresStore_proofs`, `Reconcile_proofs`, `Skill_proofs` (of `SkillFlush` and `SessionJournal`), `McpServer_proofs`, `Migration_proofs` | theorems and their proofs |

The clients of the store do not carry an adapter along: each is composed with the part of the
contract it relies on (`value` and `fence` in `Reconcile`, one document and its lease in
`SkillFlush`, `SessionJournal` and `McpServer`, keys and the control key in `Migration`), and the
adapters are shown to implement that contract.

### LocalStore and `store/local.py`

| Variable | Code |
|---|---|
| `casLock`, `guard` | who holds `locks/cas.lock`, `locks/advisory.lock` (`_FileLock`) |
| `journal` | the records of `journal/journal.log`; `Torn` is one an interrupted append left |
| `published`, `disk` | the blob at each key of `data/`, and the one a directory fsync made durable |
| `owner`, `advisory` | the files of `locks/fence-alloc/` and `locks/advisory/` |
| `older` | the entries of `locks/advisory/` that were replaced or removed since the host started |
| `istate`, `plan`, `rkey` | whether a process is down, in its constructor or serving; `latest` of `_resume` and the key it is publishing |
| `accepted` | `_last_accepted_fence` of each process |
| `pc`, `call`, `lease` | where each thread is in its call, its local variables, the `Lock` it got last |
| `now`, `tokens`, `crashes` | the clock, and counters that bound the model |
| `acked`, `refused` | history: journal positions some `OK` stands on, and those whose write returned `BUSY` |

| Actions | Code |
|---|---|
| `BeginCreate`, `BeginUpdate` | `write` up to and including the read of blob and owner file under cas.lock |
| `AdmitWrite`, `RepeatCreate`, `RefuseWrite`, `LoseFence` | the outcomes of `_write_under_cas_lock` before `_commit` |
| `AppendRecord` | `_journal_append` |
| `ReserveName`, `ReplaceBlob`, `GiveUpReplace` | `_publish` and `_replace_with_retry` |
| `FinishWrite` | directory fsync, `_last_accepted_fence`, release, `OK` |
| `SettleFence`, `SettleHash` | the two reads of one round of `_settle_current_hash_after_fence_loss` |
| `BeginLock`, `AllocateFence`, `GiveUpLock`, `GrantLock` | `lock` / `_try_acquire_advisory` |
| `RenewOwner`, `RenewAdvisory`, `Unlock` | `renew`, `unlock` |
| `StartInstance`, `ResumeSkip`, `ResumeReserve`, `ResumeReplace`, `ResumeSync`, `ResumeDone`, `ResumeFails` | `__init__` and `_resume` |
| `Crash`, `CrashInAppend`, `HostCrash` | a process dies, in the middle of an append, or the host loses power |

What is abstracted:

- A body is a model value and stands for its SHA-256 too; the framing of a journal
  record is not modelled, only that replay stops at a torn one.
- A step ends where another process could see or change one of the files.  Hence the
  wait for cas.lock, the read of the blob and the read of the owner file are one step
  (both files change only under cas.lock, except that `renew` may move the
  expiry), and so are the read and the write of the owner file in `lock` (under
  cas.lock too).
- Giving up on a file lock before anything was changed is a stuttering step.
- `read` takes no lock and changes nothing: it is the operator `ReadValue`, evaluated
  in every state.
- Owner and advisory files are replaced atomically.  When the host loses power the
  owner file stays, its directory being fsync'd after each replacement; `data/` loses what no
  directory fsync followed; and of `locks/advisory/`, which is never fsync'd, any earlier
  entry may be back (`older`, `Kept`).
- `AppendRecord` is write, flush and fsync in one step: a record that was flushed when its
  process was killed is taken to be on the disk (`store/local.py:569-571`), and a power loss after
  that does not take it.  A tear is a record that got there in part (`CrashInAppend`).
- Deadlines are counters of polls; the clock is an integer.
- `list`, `health`, the case-collision refusal and the staging scavenger are left out:
  they change nothing another operation reads.  I/O errors other than a failing
  `os.replace` are left out.

### StoreContract

`StoreContract` states what a caller of any adapter may rely on, in the shape of
`FakeBackend`, whose mutex makes each write one step.  What `FakeBackend` cannot
do and a durable adapter can is added: a client may die inside `write`, and its write
then becomes an *orphan*, which lands later (at most once, and only on the value
it was compared with) or never.  Any other write of the key kills the orphan.

`LocalStoreRefinement` shows where this happens in the files: the abstract value is
what `read` returns while some process serves, and what replay would restore while none
does; a write is open while it holds cas.lock and landed once readers see it; the orphans
are the journal records newer than the published blob that no live call is publishing.
It needs two assumptions, which `local_torn_tail` and `local_busy_commit` show to be
necessary: no torn append, and no failing `os.replace`.

Behind a network more can be lost, and `AnswersMayBeLost` turns that on: a live
client may be told nothing and leave its write as an orphan (`Abandon`), a `lock()` may
advance the fence and not be answered (`LockUnanswered`), and an orphan may outlive another
write.  The three remote adapters and `Reconcile` implement the contract with it.

### LeaseRegistry and what the remote adapters share

`git_backend.py`, `objectstore.py` and `postgres.py` each keep `_locks` under
`_lock_mutex` and check a lease against a durable fence record.  `LeaseRegistry` has that
part once, and the three modules extend it.

| Definition | Code |
|---|---|
| `registry`, `mutex`, `lease`, `tokens`, `now` | `_locks`, `_lock_mutex`, the `Lock` a caller has, the owner token `lock()` draws, `time.time()` |
| `Fence` | the fence record: owner token, expiry, owner fence, accepted fence |
| `FenceOk`, `NextFence`, `Advanced`, `Renewed`, `GenerationOk` | the checks of `write()` and what `lock()` and `renew()` do to the record |
| `EntryFree`, `OwnsEntry`, `SetEntry`, `Granted`, `Released`, `Forgotten` | the registry half of `lock`, `renew`, `unlock`, and the death of a process |

### GitStore and `store/git_backend.py`

The branch is `tip`: its length, the blob and the sidecar of each key, and the commit that
made it.  A push is a fast-forward, so it lands only on the head it was built on.  `late`
holds pushes whose client has given up.

| Actions | Code |
|---|---|
| `BeginCreate`, `BeginUpdate` | `write` up to `_fetch_head` |
| `BuildWrite`, `RefuseWrite` | the decisions on the captured head, and the commit |
| `PushWrite`, `PushWriteRejected`, `PushWriteFails` | the push: it landed, was rejected, or failed |
| `BeginLock`, `BeginRenew`, `BuildFence`, `RenewSuperseded`, `PushLock`, `PushRenew`, `RetryFence`, `GiveUpFence`, `PushFenceFails` | `lock` and `renew` with their retry loop |
| `Unlock`, `LateLands`, `Crash`, `Tick` | `unlock`, the network, the processes, the clock |

`UpToDate` is worth a note: two clients that build the same commit have the same commit id,
and git answers the second push with "Everything up-to-date".  Object naming, the clone and
the commands are left out; so is what a fetch that fails returns, since it changes nothing.

### ObjectStore and `store/objectstore.py`

One object per key, the envelope, holds body and fence record (`obj`).  An envelope
without a body is a *phantom*, left by `lock()` on a key without a value.  Every change is
one conditional PUT; `late` holds PUTs that nobody waits for any more.

| Actions | Code |
|---|---|
| `BeginCreate`, `FillPhantom`, `ResolveCreate` | `write` create-only |
| `BeginUpdate`, `AdmitUpdate`, `RefuseUpdate`, `LoseFence`, `SettleReturns`, `SettlePolls` | `write` with CAS, and the settle loop |
| `BeginLock`, `BeginRenew`, `PrepareFence`, `RenewSuperseded`, `Unlock` | `lock`, `renew`, `unlock` |
| `WriteLands`, `LockLands`, `RenewLands`, `RefusedRetries`, `UpdateRefused`, `FenceGivesUp`, `WriteFails`, `FenceFails` | how a conditional PUT ends, in the classification of the HTTP client |
| `LateLands`, `Crash`, `Tick` | the network, the processes, the clock |

An ETag is the content, as it is for an unversioned PUT.  Request signing, listing and
foreign objects are left out.

### PostgresStore and `store/postgres.py`

`value` and `fence` are the committed rows, `storeLock` and `fenceLock` say which session
has them `FOR UPDATE`.  A statement that needs a locked row waits; every statement reads
what was committed when it started (READ COMMITTED).  `lost` is the change of a session
whose client is gone in the middle of COMMIT.

| Actions | Code |
|---|---|
| `BeginCreate`, `InsertRow`, `CreateExists`, `UpsertFence` | `write` create-only |
| `BeginUpdate`, `SelectStoreRow`, `UpdateRows`, `RefuseUpdate`, `LoseFence` | `write` with CAS |
| `SettleReads`, `SettleReturns`, `SettlePolls` | the settle loop, two statements a round |
| `BeginLock`, `AdvanceFence`, `BeginRenew`, `ExtendFence`, `RenewSuperseded`, `Unlock` | `lock`, `renew`, `unlock` |
| `CommitWrite`, `CommitLock`, `CommitRenew` | COMMIT and its answer |
| `LockTimeout`, `DropConnection`, `DropInCommit`, `LostCommits`, `LostAborts`, `Crash` | `lock_timeout`, a dropped connection, the server's end of it, a dead process |

### Reconcile and `store/gate.py`

Callers of `persist` that go through `reconcile` when they do not know the outcome.  The
store is reduced to what `StoreContract` says of it: `value` and `fence`.

| Definition | Code |
|---|---|
| `Lock`, `BeginWrite` | a caller's `lock()` and `persist()` |
| `Lands`, `IsDelayed`, `IsLost`, `Refused`, `LateLands` | what the store and the network do with a request |
| `FindOwn`, `Retry`, `GiveUp` | the branches of `reconcile()` after its one read |
| `session` | phase, write, answer; `late` counts requests still on their way, `applied` is history |

The checks of `validate_write` come before all of this and refuse; the modules of the
clients have a refused write as an outcome of its own.

### McpServer and `mcp/server.py`

| Definition | Code |
|---|---|
| `initialized`, `awaiting` | `_initialized`, `_awaiting_initialized_ack` |
| `Malformed`, `Initialize`, `Initialized`, `Plain` | `handle()` for a message that is no tool call |
| `CallRejected`, `CallRead`, `CallRefused`, `CallWrite` | `_handle_tools_call` up to the first backend call |
| `Create`, `LockGranted`, `LockFails`, `Persist`, `Unlock`, `UnlockFails` | `knokeep_write`, one backend call a step |
| `Expire`, `Restart` | a lease runs out; the server is killed and started again |
| `handshake` | history: what the client has sent since the server started: no `initialize`; one; `initialized` after it; and another `initialize` |
| `stored`, `orphaned` | history: what this message stored, leases nobody will release |

A request is its method and what is wrong with it, not its JSON.  A store call that returns
`ERROR`, and one that raises, are one outcome: both become an answer with `isError`, and
both may come after the write was applied.

### Migration and `migrate/migrate.py`

| Definition | Code |
|---|---|
| `doc` | the lease document under the control key: status, owner, expiry |
| `fence`, `entry` | the fence of the control key, and the advisory holder of it in each process |
| `source`, `target` | the keys that are copied |
| `run[r].mine`, `.lease`, `.stamp`, `.last` | the document the run wrote last, its `Lock`, `expires_at` before TTL, `last_heartbeat` |
| `ReadControl`, `TakeLock`, `Record`, `RecordRefused`, `Answer` | `_acquire_migration_lease` |
| `WriteDoc`, `DocRefused`, `Reread`, `Relock`, `Beat` | `_write_doc`, the re-acquisition after a fence loss, `heartbeat_if_due` |
| `Scan`, `Put`, `Reconcile`, `ReadBack`, `VerifyOwnership` | `_migrate_body` and `verify_ownership` |
| `EndWith`, `Unlock` | `release` |
| `AcquireRaises`, `RecordRaises`, `DocRaises`, `PutRaises`, `PassRaises`, `Crash` | a call to a backend raises, with or without effect; the process dies |
| `run[r].slow`, `TooSlow` | history: a write of the document was answered more than `TTL - Interval` after its stamp |

Manifest, reports and options are left out.  A write to the target that raises lands at once
or never.  The clock may advance between any two steps: `expires_at` is reckoned from the time
before the document is written, `last_heartbeat` is the time after (`migrate/migrate.py:323`,
`migrate/migrate.py:402`).

### SkillFlush, SessionJournal and `skill/knokeep_state.py`

`SkillFlush` has one document with sections, flushed by the skill (`flush_state`,
`flush_log`) and replaced by MCP clients.  `flush[w]` holds the local variables of a
flush; `parked` and `notes` are the conflict keys and the lines of the "conflicts" journal.
A `persist` that fails, or whose process dies, may have written nothing, have journaled the write in
the local store, or have published it.  `orphan` is one that is journaled only: the last record of
the journal, which the next `LocalBackend` publishes.  Every command of the skill constructs one.

| Actions | Code |
|---|---|
| `Bootstrap`, `Begin` | `bootstrap`, and a flush with or without `--expect-hash` |
| `Lock`, `BusyDeadline` | `_hold` |
| `HashRequired`, `ReadWhole`, `ReadSection`, `SectionConflict` | the read under the lease, and the decision to merge, refuse or park |
| `Stores`, `Loses`, `PersistError` | `_persist` and its outcomes |
| `Publishes`, `JournalsOnly`, `WritesNothing` | how far a write got |
| `Resume` | a constructor replays the journal of the store |
| `Park`, `ParkBlocked`, `ParkFails`, `Note` | `_park_conflict` |
| `Crash`, `Expire`, `OthersWrite` | a dead process, a lease that ran out, the other writers |

`SessionJournal` is `session_append`: a document that is read, extended and written back in
a bounded loop (`BeginAppend`, `LockJournal`, `JournalBusy`, `ReadJournal`, `AppendStores`,
`AppendLoses`, `AppendError`, `AppendCrash`, `JournalExpire`), with an orphan of its own
(`journalOrphan`, `ResumeJournal`).  Both use the local adapter's advisory lock,
which all processes share.

## What the runs check

Every run passes or is a counterexample to a documented claim.

| Run | Module | Instance | Shows |
|---|---|---|---|
| `local_store` | `MCLocalStore` | 2 processes, 2 bodies, 3 journal records, 3 `lock()` calls, 2 crashes, a torn append, failing `os.replace`; `Scenarios` | `TypeOK`, `AckedSurvives`, `NoLostUpdate`, `FencesNeverRegress`, `AdvisoryHolderOwnsFence`, `ReadsNeverGoBack`, `LandsUnderCurrentFence` |
| `local_refinement` | `MCLocalStore` | 2 processes, 2 journal records, 2 `lock()` calls, 2 crashes, `FairSpec`; `FewCrashesAndLocks` | `ImplementsContract`, `CallsReturn` |
| `git_store` | `MCGitStore` | 2 processes, 4 commits, 2 `lock()` calls, 1 failure or crash | `EntryIsDurable`, `LandsUnderCurrentFence`, `ImplementsContract` |
| `object_store` | `MCObjectStore` | 2 processes, 2 `lock()` calls, 1 failure or crash; `Scenarios` | `TypeOK`, `EntryIsDurable`, `FencesNeverRegress`, `ImplementsContract` |
| `postgres_store` | `MCPostgresStore` | 2 processes, bodies with generations 1 and 2, 2 `lock()` calls, 1 failure or crash, `FairSpec`; `Scenarios` | `SettleSeesWinner`, `GenerationsRise`, `ImplementsContract`, `CallsReturn` |
| `reconcile_callers` | `MCReconcile` | 3 callers of one key, 2 bodies | `AppliedAtMostOnce`, `OkMeansStored`, `ImplementsContract` |
| `mcp_server` | `MCMcpServer` | 2 servers with one lock registry, 2 `lock()` calls | `NoToolBeforeHandshake`, `UnflaggedIsHonest`, `LeasesAreReleased`, `NoSpuriousStale` |
| `migrate` | `MCMigration` | 3 runs, 2 of them in one process, 2 keys, 1 call that raises, 1 crash; `Scenarios` | `TypeOK`, `CutoverMeansComplete`, `AtMostOneKeyAfterTakeover`, `LiveLeaseIsKept`, `LostMeansTaken`, `NoCutoverAfterTakeover` |
| `flush` | `MCSkillFlush` | 2 flushes, 2 sections, 1 write of another client, writes that fail or die anywhere, `FairSpec` | `TypeOK`, `NothingLostSilently`, `OverwritesOnlyWhatWasSeen`, `FlushesEnd` |
| `journal_entries` | `MCSessionJournal` | 2 appenders with 2 entries each, 3 attempts | `JournalTypeOK`, `ToldIsThereOnce`, `AppendOnly` |
| `local_torn_tail` | `MCLocalStore` | a torn append | violates `AckedAlwaysSurvives` |
| `postgres_lost_commit` | `MCPostgresStore` | a connection that drops in COMMIT | violates `NetworkNeverLands` |

### Bounds

Two processes are needed for every race, and two suffice for the adapters, because each
lock has one holder and one contender; where a third party matters it is the constructor of a
crashed process (local), a late request (remote adapters), the other clients of a document
(`flush`) or a third caller (`reconcile_callers`: the retry, a write that restores the value
before it, and its lease).  Two journal records are needed for a lost update, three for a record
behind a torn one.  Two `lock()` calls give a holder and a successor, three a successor of
that.  One key is enough for the adapters, whose operations touch one key each; the migration
needs two, for "at most one".

`MaxTime`, `MaxLocks`, `MaxJournal`, `MaxCrashes`, `MaxTorn`, `MaxPolls`, `MaxCommits`,
`MaxFailures`, `MaxFaults`, `MaxCalls`, `MaxOthers` and `MaxEntries` bound the model; each
appears in a guard.  Where they are used up the model stops, so deadlock is not checked: a
store nobody calls is at rest, and what must not block is stated by `CallsReturn` and
`FlushesEnd`.

Constants of the code are scaled: a TTL of one or two clock ticks, `TTL = 2` and `Interval = 1`
for 120 s and 40 s in `Migration` (the heartbeat stays well within the TTL),
`MaxAttempts` and `MaxAppends` 2 or 3 for 5 and 50, `Reacquires` 2 and `ParkTries` 2 for 3.  No property depends on
their size but through the loop running out, which happens at any of them.

Four instances have a constraint `Scenarios`, which keeps independent bounds from
multiplying.  It is stated beside the instance:

- `local_store` follows two crashes or tears, or failing replaces and one of them, at time 0;
  leases that expire and are taken over around two writes, or one write with a crash; and three
  `lock()` calls around two writes.
- `object_store` lets time pass where one body is in use: the clock bears on leases only.
- `postgres_store` goes on where no time has passed or nothing has failed.  Neither the clock
  nor failures are under fairness, so a fair behaviour inside the constraint is fair outside.
- `migrate` begins two of the three runs, the first by time 1, with the last key not on the
  target yet.  Either sources agree, the target holds the first of their keys, the control key is
  free or a dead run's, and time goes to 3 (or a call fails or a process dies, up to time 2); or
  one key differs or is a secret, whatever the control key holds, with one failed call or one
  tick.  That a released document is taken over is part of the first half too: the first of two
  runs leaves one.

`flush` has the constraint `UpToNames`: writers and sections are interchangeable, so of its two
flushes the first has the text with a secret, if one has, and is of the document or of the first
section; two secrets at once are not followed.  `local_refinement` has the constraint `FewCrashesAndLocks`: crashes and `lock()` calls are three at
most together.  No step under fairness changes what these two are about, so `FlushesEnd` and
`CallsReturn` are judged on whole behaviours.

Symmetry is used in the safety runs: bodies without generations are interchangeable, and so
are processes together with their threads.

`EntryIsDurable` is checked, and proved, with one TTL.  With `TTLs = {1, 2}` TLC violates it: a
`renew()` for a shorter time that lands late leaves the entry longer than the durable lease.  The
code has one per key: the MCP server and the skill lock with constants of 30 s
(`mcp/server.py:288`, `skill/knokeep_state.py:110`), and the migration's 120 s
(`migrate/migrate.py:205`) is for the control key, which nobody else locks.

### The properties in words

- `AckedSurvives`: while a process serves, an acknowledged write that replay can
  reach is published or overwritten by a later one.
- `NoLostUpdate`: a write that is journaled was compared with a blob at least as new as every
  write of the key acknowledged by then, and, as long as replay reaches it, as every earlier
  record acknowledged later.  It is an action property: of a record behind a torn one, which
  replay does not reach, only the first half holds.
- `FencesNeverRegress`, `AdvisoryHolderOwnsFence`, `LandsUnderCurrentFence`: the fences of
  updates never go down; a client whose lease `unlock()` and `renew()` take for the holder's is the
  one who can write; an update becomes visible only while its fence is the last one allocated,
  also when it arrives late.  After a power loss an older advisory entry may be back and keep
  `lock()` `BUSY` while the owner file names another; it is nobody's lease, since no process
  outlives the host.
- `ReadsNeverGoBack`, `GenerationsRise`: versions and generations a reader finds.
- `SettleSeesWinner`: after a fence loss the reported hash is no older than the
  write that consumed the fence.
- `EntryIsDurable`: a holder whose process keeps others `BUSY` can still write.
- `ImplementsContract`: see `StoreContract`.
- `CallsReturn`, `FlushesEnd`: nobody waits for ever.
- `AppliedAtMostOnce`, `OkMeansStored`: a reconciled write takes effect once, and `OK` is true.
- `NoToolBeforeHandshake`, `UnflaggedIsHonest`, `LeasesAreReleased`, `NoSpuriousStale`: no tool
  runs, or is served, before `initialize` and, after it, `initialized`; an answer without `isError` is the truth about the store; no lease
  outlives its call; no `STALE` for a current hash.
- `CutoverMeansComplete`, `NoCutoverAfterTakeover`, `AtMostOneKeyAfterTakeover`,
  `LiveLeaseIsKept`, `LostMeansTaken`: what the report of a migration and its lease mean.  A run
  that reports a lost lease lost it to another document, to another `lock()` in its own process,
  or at every re-acquisition a heartbeat is allowed.  A run that was taken over stores at most the
  key it was writing, unless a write of its own document was answered too late (`TooSlow`); that
  it holds of every run, as comments claim, `migrate_slow_heartbeat` refutes.
- `NothingLostSilently`, `OverwritesOnlyWhatWasSeen`: `OK` is told of a text that was stored,
  "parked" of one that is parked, and a text whose flush was refused or parked is never stored; an
  error leaves open whether the text is, or will be, stored.  A flush, failed or not, replaces
  no section its caller had not seen, also when a replay publishes it later.
- `ToldIsThereOnce`, `AppendOnly`: a session journal loses, repeats and reorders nothing, whatever
  is replayed.

### Fairness

Weak fairness on the steps of a thread inside a call, and of a constructor, and on nothing
else in `LocalStore`; on the steps of a writer inside a flush in `SkillFlush`.  Every wait in
that code is a poll with a deadline (`_FileLock.acquire`, the settle loop, `_hold`), so
a thread the kernel schedules makes progress.  `PostgresStore` waits for row locks in the
server: strong fairness on a thread's steps, since the server queues the waiters of a row, and
weak fairness on the server ending the transaction of a lost session; `lock_timeout` is
not needed for `CallsReturn`.  Callers need not make calls, the clock need not advance, and crashes
and failures need not happen.  No liveness is claimed of the other modules.

### Where code and documents differ

Two runs are listed with their findings in `PROJECT.json`:

- `local_torn_tail` / `AckedAlwaysSurvives`: replay stops at a torn record, and nobody
  truncates it.  A process that starts after the crash appends behind it and
  acknowledges; the next constructor does not see those records and publishes the
  older one over them.
- `postgres_lost_commit` / `NetworkNeverLands`: a connection that breaks after COMMIT was sent
  is answered with `ERROR(NETWORK)`, which callers may take for "not committed"; the write may be.
  A git push that fails without a rejection is answered so too (`git_backend.py:889`).

More differences have a configuration of their own, which is not part of the regular runs; each
violates the one property it checks.

| Configuration | Module | Property | Difference |
|---|---|---|---|
| `local_busy_commit` | `MCLocalStore` | `BusyNeverVisible` | `ERROR(BUSY)` from a failing `os.replace` (`store/local.py:683`) comes after the record was journaled; the next resume publishes it.  Contract section 1 counts `BUSY` as definitely not committed. |
| `local_reservation` | `MCLocalStore` | `ReadersSeeWholeBlobs` | The name reservation of a create (`store/local.py:600`) is an empty blob to readers. |
| `git_loser` | `MCGitStore` | `LoserSeesWinner` | A writer that lost to a fence sidecar reads the branch once and is told the old hash (`store/git_backend.py:592`). |
| `object_late_landing` | `MCObjectStore` | `NoLandingAfterExpiry` | Expiry is compared before the PUT is sent, which may land after it (`store/objectstore.py:746`).  The local adapter has the same gap at `store/local.py:771`. |
| `reconcile_stale` | `MCReconcile` | `StaleMeansNotCommitted` | `reconcile()` returns the retry's `STALE` when the first request landed before the retry (`store/gate.py:658`). |
| `mcp_reinitialize` | `MCMcpServer` | `NoToolBeforeAck` | A second `initialize` leaves `_initialized` set (`mcp/server.py:656`). |
| `mcp_unanswered` | `MCMcpServer` | `RequestsAreAnswered` | `initialized` sent with an id is never answered (`mcp/server.py:612`). |
| `mcp_takeover` | `MCMcpServer` | `NoSpuriousStale` | With one registry per process (git, object store, Postgres) the fence may advance while a lease is held across `persist` (`mcp/server.py:288`). |
| `migrate_slow_heartbeat` | `MCMigration` | `TakeoverStopsWrites` | `expires_at` is stamped before the heartbeat is written and `last_heartbeat` after (`migrate/migrate.py:402`), so a slow write leaves a gap in which several keys are copied.  The comments at `migrate/migrate.py:206` and `migrate/migrate.py:1155` claim the opposite. |
| `migrate_refused` | `MCMigration` | `RefusedChangesNothing` | A refused run may leave the control document in its name (`migrate/migrate.py:485`). |
| `migrate_prefix` | `MCMigration` | `AbortLeavesVerified` | A key that was stored and whose read-back raised stays, unverified (`migrate/migrate.py:1121`). |

One difference is not modelled: a journal append that fails part way, without a crash
(`store/local.py:569`), leaves half a record in the file and the rest in the buffer of
`_journal_fh`, so later records go behind it as in `local_torn_tail`.

### Faults

A definition `X_fault` is `X` with a plausible programming fault; no specification
uses one.  `PROJECT.json` pairs every property with one that violates it, which shows
that the property says something about that code.  `CallWrite_anyTime`, a dropped guard at
`mcp/server.py:618`, is not paired; it violates `NoToolBeforeHandshake` as `Initialize_completes` does.

## What is proved

Each theorem holds for every value of the constants that satisfies the assumptions the module
states: any number of processes, clients, keys and bodies, clocks, failures and crashes, and
any bounds.  Four theorems have a hypothesis on the constants besides, named where they are
described below; each is one without which TLC has a counterexample.

**`LocalStore_proofs`** (`SentinelAssumption`: the sentinels differ from the values they stand
beside; `ShapeAssumption`: the parameters have their types).  `TypeCorrect` and
`InductiveInvariant`, where `IInv` is `TypeOK` and

- `CasExclusive`: the program counters inside the critical section and a resuming
  constructor hold cas.lock, and only its holder does;
- `SnapshotCurrent`: what a writer read under cas.lock is still in the files (up to
  the expiry, which `renew` may move);
- `LeaseCurrent`: past its check, the writer's lease is the durable owner's;
- `RecordIsOwn`: between append and publish the last record is the writer's;
- `JournalBehindOwner`: no fence in the journal is above the durable owner's;
- `FencesNeverRegress`.

`FencesMonotone` (`FencesNeverRegress`) and `NoOvertaking` (`LandsUnderCurrentFence`) follow.
`FencesNeverRegress` is not inductive alone: an append could carry a low fence.  The
argument is that a writer past its check owns the durable fence (`LeaseCurrent`), that
this cannot change while it holds cas.lock because `AllocateFence` needs cas.lock too
(`CasExclusive`), and that all fences in the journal are at most the owner's
(`JournalBehindOwner`), so the new record is at least as high as each of them.  The proof
never uses `accepted`: the comparison with `_last_accepted_fence` is redundant for these
two properties.

`Durability` (`AckedSurvives`), `UpdatesAreSeen` (`NoLostUpdate`) and `ReadsMoveForward`
(`ReadsNeverGoBack`) rest on `DataInv`, which relates blobs, journal records and the plans of
constructors: a blob with a body is the version of a record (`BlobOK`); every record newer than
the blob a reader finds was compared with that blob or a newer one (`Behind`); a constructor plans
the record replay keeps, or plans nothing because the blob already covers what was acknowledged
(`PlanOK`); and while a process serves every blob covers it (`UpCovers`).  `Compared` carries the
comparison of each write to the records acknowledged after it.

`AdvisoryHolderIsOwner` (`AdvisoryHolderOwnsFence`) rests on `GuardInv`: `lock()` and `renew()`
hold advisory.lock from the check of the advisory file to its replacement, so when they come to
write it the owner file still names their token.  A live entry names the owner's token or that of no
client: the second is what a power loss leaves, and no `lock()` grants it again, since every token is new.

`RefinesContract` (`ImplementsContract`) has the hypothesis `NoFaults`: no torn append, no failing
`os.replace` (see StoreContract above).  `SimInv` adds to `IInv` and `DataInv` what the step simulation
needs.  A record that replay would restore over what readers see was compared with exactly that
(`RestorableOK`), so it is an orphan with the right `prior`; what a `write()` was admitted on is what
readers find until it replaces it (`SendsOK`); a constructor is done with a key when readers see what
replay keeps (`RestoredOK`), so the value does not change when the first one ends.  `AppendRecord`
changes nothing in the contract, `ReplaceBlob` is `Land`, `AllocateFence` is `Lock`, a constructor that
restores a key beside a serving process is `OrphanLands`.  When the last serving process dies, the
abstract value becomes what replay would restore: the records of the dead, the one in flight
included, land in that step (`DeathImpl`), and a power loss that takes renames back changes nothing more.

**`GitStore_proofs`** (`GitAssumption`, and the assumptions of `LeaseRegistry`).
`TypeCorrect`, `InductiveInvariant` and `NoOvertaking` (`LandsUnderCurrentFence`).  The branch
only grows, so a captured head with the tip's length is the tip (`HeadOK`).  What a client
decided on that head it carries in its commit (`CarriesFence`: the fence it accepts is the owner
fence there), a push lands only on its base, and hence every decision is about the tree it
changes; a late push is one whose base is still the tip (`LateOK`).

`EntriesAreDurable` (`EntryIsDurable`) has the hypothesis `OneTTL`, which the code meets (see
Bounds).  `DurInv` says where the token of a lease can be: a token that is being locked is nowhere
yet, one that is being renewed is nowhere with a later expiry than the renewal asks for
(`FenceCallOK`), and a commit that is no `lock()`'s carries the token that is at the tip, for no less
time (`Copied`).  A late push can therefore not put back a shorter lease.

`RefinesContract` (`ImplementsContract`) is the step simulation: each action is a step of
`StoreContract` or changes nothing there.  `SimInv` adds what it needs.  A write sends exactly what
it found (`SendsOK`), a change of a sidecar allocates at most the next fence (`Built`), and
the token of a `lock()` in progress is known to nobody else (`DrawnOK`): if "Everything up-to-date"
tells a client that its commit is already there, the commit is a write.

**`ObjectStore_proofs`** (`ObjectAssumption`, and the assumptions of `LeaseRegistry`).
`TypeCorrect`, `InductiveInvariant` and `FencesOnlyRise` (`FencesNeverRegress`).  A PUT is built on the
envelope its precondition names, with fences not below that one's (`PutOK`), and stays so
however late it lands: its precondition is the envelope it replaces.
`EntriesAreDurable` (`EntryIsDurable`, hypothesis `OneTTL`) and `RefinesContract`
(`ImplementsContract`) follow the argument of `GitStore_proofs`, with envelopes in the place of
trees.  An ETag is the content and may come back, a commit cannot; that is why the contract lets
an orphan outlive another write, and why a `lock()`, which raises the owner fence for good, ends it.

**`PostgresStore_proofs`** (`PostgresAssumption`, and the assumptions of `LeaseRegistry`).
`TypeCorrect`, `InductiveInvariant`, `SettledSeesWinner` (`SettleSeesWinner`) and
`GenerationsOnlyRise` (`GenerationsRise`).  A row has one holder, who is in its transaction
(`HoldsOK`); what a transaction read from a row it has locked is there until it ends (`TxnOK`), and
the change it is about to commit leaves the floor below the owner's fence (`ChangeOK`).  Both pass to
the server when the connection or the client is lost: what a lost session may still commit is a
change of the rows as they are (`KeyOK`).  Hence every commit, late or not, is judged by the
rows it changes (`Staged`), the floor of a fence row never falls, and the settle loop, which reads
that row first, reports a hash no older.

`RefinesContract` (`ImplementsContract`): `CommitWrite` lands the open write and `CommitLock` is the
`lock()` of the contract; a connection that drops in COMMIT leaves an orphan (`Abandon`), which lands
if the server commits it.  Row locks end it at the latest there: no `lock()` of the key commits
while the lost session holds its rows.

**`Reconcile_proofs`** (`SentinelAssumption`).  `InductiveInvariant`, `RetryLandsOnce`
(`AppliedAtMostOnce`) and `OkIsTrue` (`OkMeansStored`).  `IInv` describes leases (`LeasesOK`), a
write and its requests (`WriteOK`, `SentOK`, `LateOK`), what may be applied again (`OnceOK`)
and what the caller is told (`StoredOK`).  `OnceOK` is the heart: an applied update of which
another request is on its way still finds its own body stored, and then the comparison with the
earlier hash fails, or its lease has been overtaken, and then the fence check fails.
`RefinesContract` (`ImplementsContract`): a request that is sent is an open write, one on its way is
an orphan, and since the fence it was prepared on is one of the past (`SeenOK`), the next `lock()`
of its key ends it.

**`Skill_proofs`** (`NoneAssumption`, `BoundsAssumption`, `JournalAssumption`).  Of a flush:
`InductiveInvariant`, `TypeCorrect`, `NoSilentLoss` (`NothingLostSilently`) and
`OnlyTheSeenIsOverwritten` (`OverwritesOnlyWhatWasSeen`).  `FlushOK` is the argument: a second attempt
is made only with a base (`attempt > 1 => established`), the base is the text the declared version
had, and a flush that is about to persist has just read that text again under its lease.  `Parked`:
what a note or an answer names is parked.  `OrphanOK`: an orphan is of a flush that failed,
and would still be admitted, because any later write of the document would have replaced it.

Of a session journal: `JournalInductive`, `JournalTypeCorrect`, `EntriesAreStoredOnce`
(`ToldIsThereOnce`) and `JournalIsAppendOnly` (`AppendOnly`).  An appender's entries carry the numbers
of its calls (`Begun`), the entry of the open call is not in the journal before the call is over
(`Numbered`), so no attempt finds an earlier one of the same call stored.

**`McpServer_proofs`** (the assumptions of `McpServer`).  `InductiveInvariant`, `TypeCorrect`,
`ToolsFollowTheHandshake` (`NoToolBeforeHandshake`: the flags are behind what the client has
sent, a tool starts with the flag set, and what the client has completed stays so until a restart),
`UnflaggedAnswersAreTrue`
(`UnflaggedIsHonest`) and `NoLeaseOutlivesItsCall` (`LeasesAreReleased`).  A write in progress has
stored nothing (`WriteOK`), leases are distinct and entered where their holder looks (`LeasesOK`).
`NoSpuriousRefusal` (`NoSpuriousStale`) has the hypothesis `SharedRegistry`: the servers share one
registry, as those of a local store do.  `mcp_takeover` shows that it does not hold without.

**`Migration_proofs`** (`SentinelAssumption`, `TimesAssumption`, `OldDocsAssumption`).
`InductiveInvariant`, `TypeCorrect`, `CutoverIsComplete` (`CutoverMeansComplete`),
`SecretsStay` (a source with a secret uploads nothing), `TargetIsCreateOnly` (no key of the target
is replaced or removed), `SuccessOwnsTheLease` (`NoCutoverAfterTakeover`) and
`LiveLeasesAreKept` (`LiveLeaseIsKept`).  `RunOK` says what each place of a run's program relies
on: where it is (`PlacesOK`), the document it read (`PriorOK`) or wrote (`MineOK`), the keys it
scanned (`ScannedOK`) and verified (`CopiedOK`).  The steps of other runs keep it because they
only add keys to the target (`StepKeepsRuns`), which is what makes "verified" last to the end.

`LostToTheTaker` (`LostMeansTaken`) rests on `LeaseInv`: leases are distinct and not ahead of the
fence, and a run that reads the document again has lost its fence for good.
`OneKeyAfterTakeover` (`AtMostOneKeyAfterTakeover`) rests on `TimeInv`: a run at work owns the
document, or its lease, of TTL from its stamp, has run out; unless it was answered too slowly the
lease lasts until the next heartbeat is due (`OwnOK`); and a run that stored one key too many is
due for a heartbeat, and the document it finds there is another's (`LateOK`).

Only model-checked: all liveness (fairness and ENABLED are out of the prover's reach).  No theorem
is about a recursive definition; the modules have none.

## Plan

Done: the store contract, the four adapters and their refinements; the reconciliation, the
skill's flush and journal, the MCP server and the migration; proofs of every invariant and action
property the passing runs check, and of all five refinements.

Left, in this order:

1. A journal append that fails part way, with the buffer of the open file as state.
2. `resolve_conflict` with `bootstrap`'s count of outstanding conflicts.

## Not modelled

- The secret scanner and the text contract of the gate: functions of text, which appear as whether
  a body is refused.
- `list`, `health`, `bootstrap` and the read-only MCP tools beyond one read: they change nothing.
- Request signing and response parsing (`objectstore.SigV4Client`), SQL text, connection set-up,
  git commands and the clone: plumbing below the operations that are modelled.
- A journal append that fails without a crash, and what it leaves in the file's buffer; and a power
  loss between its flush and its fsync.
- Writes that land after their caller has given up on them, in `Migration` and `McpServer` (those of
  the adapters, of `Reconcile` and of the skill are modelled).
- In `SkillFlush`, the empty blob readers find while a create has only reserved its name
  (`local_reservation` shows it in `LocalStore`).
- `resolve_conflict`: it creates, once, a marker beside the parked body, and only `bootstrap` and the
  audit read it.  `rollup` counts session entries and writes nothing.
- The drift reconciler: a comparison of snapshots without state, each key looked up once.
- Telemetry, configuration, launch shims, the audit tool, the conformance suite and the tests
  (whose scenarios are where many of the properties come from), licences and docs.
