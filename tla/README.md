# web_listening: a TLA+ verification of its concurrent core

web_listening watches web sites under explicit access rules: it discovers and
classifies the sections of a site, plans a scope, bootstraps a baseline of the
scope's pages and files, runs incrementally against it and reports what
changed. Every request to a target passes one access gateway (robots policies,
pacing, budgets) or an executor in a supervised subprocess; everything learnt
goes through one SQLite store with a journal of the files published beside it,
by way of an immutable artifact store and a ledger of agentic runs. The modules
here model those parts, where threads, processes, failures and crashes meet;
TLC checks them on small instances and TLAPS proves the main results for every
instance.

## 1. Inventory

| Component (source under `src/web_listening`) | State | Operations | Modelled |
|---|---|---|---|
| Origin gate (`blocks/access_gateway.py`: `_OriginState`) | per origin: budget window and use, last start, last reserved slot, ticket counters, retired tickets | authorize, reject, start (ticket, wait, sleep, re-check), retire | `OriginGate` |
| Policy cache (same file: `_policy_for`, `invalidate`) | cached policies, keys in flight, generations, one condition | look up, fetch, publish, give up, invalidate | `PolicyCache` |
| Request chain (same file: `request_with_context`) | hops, causal floor, send claim of one call | request, redirect, finish, fail | `AccessGateway` |
| Execution transaction (`blocks/storage.py`, `document.py`, scopes in `tree_crawler.py`, `tree_bootstrap_workflow.py`, `immutable_artifacts.py`, `agentic_orchestration.py`) | depth, owner, SQLite's transaction, journal of created files | begin, commit, rollback, journal, write, publish | `StorageTransaction`, `UnitOfWork` |
| Run ledger and leases (`agentic_orchestration.py`: `AgenticTaskRepository`, `AgenticOrchestrator.run`) | one run's row with its lease, epoch and counters; task rows and observations; the fences a repository remembers; where each call stands | open, acquire, recover, read with claim, renewal and release, record, discover, cancel, interrupt, finalize, release | `RunLedger`, `TaskRun`; not loading, migration, replay, sealing, bytes |
| Immutable artifacts (`immutable_artifacts.py`) | a blob's row, references and retirement marker; its file, quarantined files | store, prune, retire, restore, reconcile | `ArtifactStore`; one blob, not versions and their validation |
| Rollback quarantine (`storage.py` 734-1409) | names and inodes of one directory | rename away, check identity, unlink or restore | one file's removal, in `ArtifactStore`; not directories |
| Subprocess executor (`executors/subprocess_runner.py`) | the call's flags, the supervisor, its cgroup and control pipe, the target and its descendants | start, enroll, watch, cancel, kill by cgroup or by tree, judge | `SubprocessRunner`; not screening, parsing, redaction |
| Tree crawler (`tree_crawler.py`, `tree_run_workflow.py`) | queue, baseline, tracked pages and files | bootstrap, incremental run | its transaction scopes only |
| Jobs and scheduler (`job_orchestration.py`, `scheduler.py`) | job rows | accept, run, end, defer | planned |
| Acquisition (`acquisition_gateway.py`, `acquisition_fallback.py`) | attempts of one read | choose, try, fall back | planned |
| Other executors (`executors/`) | one browser | run, time out | no |
| Site diagnostic, discovery, classification, planning, exploration | documents in memory | pure or sequential | robots matching later |
| Contracts, reports, registry, CLI, HTTP and MCP front ends | none of their own | formatting, I/O | no |

How they interact. A crawl (`TreeCrawler`) or an agentic run calls the gateway
through governed reads; the gateway calls back into its caller before each
target send (`before_target_request`), which claims the send in the run ledger,
and calls the returned release afterwards. What a crawl reads it writes through
`Storage` in one execution transaction; the ledger and the artifact store open
nested transactions on the same `Storage`, and a blob's file is published
before the row that names it is committed. Several processes, each with its own
`Storage`, share the database and the artifact root, and several calls may work
on one run in turn. Jobs and front ends start crawls and runs in threads of one
process. An acquisition that needs a program outside runs it through the
subprocess executor.

What is hard, and what makes each part correct:

* Origin gate: a request is authorized in one critical section and started in
  another, with a sleep outside the lock in between. Correct when starts keep
  ticket order and pace, no window exceeds its budget, and no failure strands
  the queue.
* Policy cache: a miss is served by one thread while others wait and
  invalidations arrive. Correct when a key has one fetch, nobody waits for
  nobody, and an invalidated answer neither stays nor reaches a later caller.
* Request chain: claims, tickets and fetches must all be given back on every
  path out, and each hop must be caused by the one before.
* Execution transaction: one connection, several threads, nested scopes, a
  journal of files. Correct when it behaves as atomic units, one at a time,
  and rows and files agree.
* Run ledger: a lease that can run out at any point, a call that stalls, dies
  or is interrupted between any two writes, a successor that repairs what is
  left. Correct when one call sends, only the holder writes, counters and tasks
  tell the same story, and the run still ends.
* Artifact store: rows and files cannot change together, so every order of
  steps has a window in which one is ahead. Correct when no committed row loses
  its bytes, no file of somebody else's is lost, and no reference joins a
  retired digest.
* Subprocess executor: deadlines, interrupts, a supervisor that fails and a
  target that forks and detaches. Correct when nothing outlives the call unless
  the answer says so, and the answer is true.

The hazards this code is exposed to are listed with their lines in
`PROJECT.json`, those no property covers with the reason.

## 2. Modules

| Module | What it is |
|---|---|
| `OriginGate` | `_authorize_request`, `_start_authorized_request`, `_retire_authorized_request` |
| `PolicyCache` | `_policy_for`, `_fetch_policy`, `invalidate` |
| `AccessGateway` | `request_with_context`, composing the two with `INSTANCE` |
| `UnitOfWork` | the abstract promise of the execution transaction |
| `StorageTransaction` | the transaction, its users' scopes and the published files |
| `TaskRun` | the abstract promise of a run to whoever reads its ledger |
| `RunLedger` | the ledger of one run and the calls that work on it |
| `ArtifactStore` | one blob: its row, references, marker and file |
| `SubprocessRunner` | one call of the subprocess executor, with its processes |
| `OriginGateProofs`, `PolicyCacheProofs`, `AccessGatewayProofs`, `StorageTransactionProofs`, `RunLedgerProofs`, `RunLedgerEndProofs`, `ArtifactStoreProofs`, `SubprocessRunnerProofs` | theorems and their proofs |
| `MCStorageTransaction`, `MCRunLedger`, `MCArtifactStore` | sets, functions and symmetry for TLC |

### OriginGate

`gate[o]` is the `_OriginState` of an origin, `auth[t]` the `_Authorization` a
thread holds, `step[t]` where the thread stands in the code, `sent[o]` a
history of the started requests. `Authorize` and `Reject` are the one critical
section of `_authorize_request`; a rejection after the freshness test leaves
the window rolled over, as in the code. `TakeTicket`, `AwaitTurn`, `TakeTurn`
are the first two critical sections of the start; between `TakeTurn` and
`Start` or `Refuse` the thread sleeps without the lock. `Interrupt` is anything
raised while waiting or sleeping, including a `progress()` that lost its lease,
and `Retire` the handler's critical section. `Abandon` is a
`before_target_request` that raises after the unit was reserved.
`condition.wait()` is a state of its own that only `Notified` ends, so a
missing `notify_all()` is visible. Time is an integer; one unit is the
microsecond `_causal_now` adds. The clock is assumed not to run backwards and
a sleep not to return early.

### PolicyCache

`reader[t]` is one `_policy_for` call. `ReturnCached`, `Wait` and `AdmitFetch`
are the outcomes of the first critical section, `Fetch` and `FetchRaises` the
network, `Publish` and `GiveUp` the second critical section and that of the
handler. Which robots answers make which policy is abstracted to allow or deny.
`born` and `floor` are history: the generation a fetch was admitted at, and the
one a call began at.

### AccessGateway

`chain[t]` is one call of `request_with_context`. Every action of the
composition is an action of one of the two parts, or of both at once, together
with the chain's own step: a lookup returns a policy and authorizes in `Admit`,
a redirect starts the next lookup in `Redirect`. That every behaviour of the
composition is one of `PolicyCache` and one of `OriginGate`, given policies one
TTL long and causal floors at most two instants ahead, is a lemma of its proofs
(`Simulated`): what is proved of the parts holds in the whole.
`SentUnderLivePolicy` spans both parts: the policy is fresh when the cache hands
it out, and the gate tests it again when it authorizes and when it starts.

### StorageTransaction

`depth`, `owner` and `journal` are the fields of `Storage`; `open` and
`pending` are SQLite's transaction on the shared connection; `durable` what it
has committed; `disk` the files. `MayEnter` is the wait condition of the
wrapper every public method gets, `Block` a call that has to wait. `client[t]`
is a thread inside the scopes its callers have opened: `Publish` is
`_publish_governed_blob` (reuse, or link without a lock), `Register` the
hand-over to the journal, `Write` any public writer, `Commit`, `Abort` and
`Leave` the three ways a scope ends. After an `Abort` in a nested scope the
thread is `failed`: the exception passes through the enclosing scopes, which
find that the thread owns nothing and leave, or, in the bootstrap workflow,
record the failure of the one target it was called for
(`tree_bootstrap_workflow.py` 156, 252) and commit nothing (282); no scope
writes on the way. `CommitRaises` has the code's two branches:
the transaction is still pending and everything is rolled back, or it is over
and the files are kept. A write that fails outside a transaction leaves
SQLite's implicit transaction open, which makes the next begin raise and the
next write commit it. `HandOff` is the one call that does not wait. `kept` is
history: files no rollback may remove any more.

`UnitOfWork` says what all this promises: rows gathered by one thread become
durable together or not at all, one unit at a time, and nothing of another
thread rides along. `ImplementsUnits` instantiates it with `unit[t]` the
pending rows if `t` owns the transaction, and `loose` those left by a write
that failed outside any.

### RunLedger and TaskRun

`run` is the row of `agentic_runs`, `task[t]` a row of `agentic_tasks` with its
observations, `fence[r]` what repository object `r` remembers of its lease
(`_lease_fences`), `call[c]` where a call of `AgenticOrchestrator.run` stands.
One method of the repository is one transaction and one action: `CreateRun`,
`Acquire` (`acquire_run_lease`), `Enter` (`_recover_interrupted_tasks`, when
`get_run` found a run before), `BeginRead`, `ClaimSend`, `Renew`, `ReleaseSend`
and `EndRead` (the send claim and the budgets), `RecordExhausted` and
`RecordFailed`, `AcceptRead` and `RefuseRead` (`_accept_read`), `Discover`,
`Drop` and `EndDiscovery`, `CancelNext`, `Finalize` (`finalize_run` with the
trigger on `agentic_runs` as its guard `Evidence`), `Interrupt` (the handler of
an exception) and `Release`. Every write is guarded by `Fenced`: the lease
remembered is the row's, and the row's has time left. A method that refuses
raises, and the exception ends the call through `Interrupt`.

A lease's time is `run.left`, and `Tick` may take it away between any two
steps. One thing is assumed: a request that has gone out is over or renewed
before its claim ends, because the claim is given the transport's timeout from
every progress it reports. Waiting for the gate has no such bound, so a claim
may run out while its call waits to send. `Interrupted` is an exception at any
step of the work, `Crash` the death of a process with all its calls. `Prompt`
and `Mortal` are the only knobs: with `Prompt` no living call lets its lease
run out. In the instances every call has a repository of its own, as in two
processes; what happens otherwise is said under "Limits of the code".

`TaskRun` is what a reader of the ledger may rely on: a run opens whole,
optional tasks join while it runs, a task ends once, the run ends in one step
when its tasks have ended or with them, and its outcome is one the tasks
account for. `ImplementsTaskRun` maps `outcome` to the run's status and
`status` to those of the tasks; leases, attempts, claims and counters stutter.

### ArtifactStore

`db` is what SQLite has committed for one digest (row, references, retirement
marker), `txn` what the open write transaction sees, `writer` whose it is.
`leaf` is the inode under the content-addressed name, `aside` those under names
in a quarantine, `call[s]` the position in `store_observation` or
`prune_unreferenced_blob`. `StoreBegin`, `Reuse` or `Link`, `StoreCommit` are a
store; `StoreFails`, `Unpublish` and `Sort` its rollback, which first rolls
SQLite back and then takes the file away by name and checks its inode. A
publication that raises with its file at the name (`LinkFails`) compares the
inode there (`Undo`) and unlinks the name (`Unlink`), two steps with nothing
between them and the rest of the world, before the rollback; where the journal
has the file already the rollback looks for it again. `PruneBegin`,
`MoveAside`, `Inspect`, `Verify`, `PruneCommit` and `Delete` are a prune;
`Restore` to `Abandon` its compensation when the deletion fails after the row
is gone, `Reread` to `PutBack` the reconciliation after a commit whose outcome
is unknown, with the same undoing of a publication that fails there
(`RepublishFails`, `Reundo`, `Reunlink`). A commit may raise with or without
effect, a file operation may fail, a process may die between any two steps, and
an outsider may put another file under the name (`Tamper`). A reference of a
legacy row may come and move on to another digest (`AddReference`,
`DropReference`); the versions and observations a store writes stay
(`versions`). The inode is what the code compares, so files are inodes: those
in `Intact` hold the blob's bytes. `marks` remembers what the guarantees end
with: a death, a reported `retention.restore_failed`, an outsider, and a
rollback that could not put back the file it had taken (`stranded`).

### SubprocessRunner

Four parties: the caller in `execute` (`call`, and `tree` for
`_kill_exact_helper_tree`), the supervisor's script (`sup`), the target with
its descendants (`proc`, `parent`, `holds`), and the kernel (`Ends`, `Die`,
`cgroup`, `doomed`). A process is running, stopped, a zombie or reaped; when a
parent ends its children go to the nearest living subreaper, which is the
supervisor, or outside. The supervisor boots, joins its cgroup (`SupJoins`),
starts the target, watches it, sweeps what it left and reports (`SupTells`);
the caller enrolls it, watches (`Watched`, `GivesUp`), cancels in steps
(`Contains`, `Terminate`, `AwaitEnd`, `KillGroup`, `RemoveGroup`), falls back
to freezing and killing the tree it can see (`Stop`, `Snapshot`, `Freeze`,
`Slay`), and `Judge` maps what is known to the answer. `Interrupted` strikes
anywhere in the `try`; `GivesUp` is the deadline or the output limit; `Killed`
and `Stray` are somebody else's signals to the supervisor. A process may fork
between any two of the caller's listings of `/proc`.

## 3. Runs and bounds

| Run | Instance | What it shows |
|---|---|---|
| `origin_gate` | 3 threads, 1 origin, budget 2 per window of 4, pacing 1, policies of age 0 or 2 living 3, clock to 6 | `FifoPaced`, `BudgetHonoured`, `SleeperIsServed`, `NoOrphanTicket`, `UnitsNeverReturned`, `QueueDrains` |
| `policy_cache` | 3 threads, 2 keys, one invalidation of each, one expiry | `SingleFlight`, `NoStaleRepopulation`, `NoAnswerOlderThanCall`, `LookupEnds` |
| `access_gateway` | 2 threads, 1 origin, one redirect each, one invalidation | `ClaimFollowsHop`, `CausalChain`, `SentUnderLivePolicy`, `RequestEnds` |
| `storage_transaction` | 3 threads, 1 file, 2 levels, 3 scopes each | `TypeOK`, `NoForeignWriteJoins`, `NoWaiterWhenFree`, `CommittedFilesSurvive`, `NoOrphanFiles`, `EndedByOwner`, `ImplementsUnits`, `WritesDeferred` |
| `storage_handoff` | 3 threads, one of which rolls others back | `ImplementsUnits`, `EveryWaiterWakes` |
| `run_ledger` | 2 calls, 2 repositories, 1 seed, 2 attempts, 2 requests, a lease of 1, a claim of 2, one call that may die or be interrupted | `TypeOK`, `OneSender`, `AccountsAgree`, `WritesUnderOwnLease`, `ImplementsTaskRun` |
| `run_ledger_liveness` | 2 calls, a seed, a query, a page they lead to, 2 attempts, no living call losing its lease | `NoForeignReservation`, `EndNeverRefused`, `RunEnds` |
| `artifact_store` | 1 storer, 1 pruner, 2 calls each, 5 inodes of the blob, 1 other, 1 tampering | `BytesSurvive`, `RowNamesBytes`, `OthersKept`, `RetiredUnreferenced`, `MarkerOutlivesDoubt` |
| `artifact_store_race` | 2 storers, 1 call each | the violation of `BytesSurvive` |
| `artifact_store_victims` | 2 storers, 1 call each, 1 tampering | the violation of `VictimsKept` |
| `subprocess_runner` | 1 descendant, output limit of 1 write, meddling with the supervisor | `ProvenClean`, `OutcomeTrue`, `LeavesNothing` |
| `subprocess_interrupt` | the same without meddling | the violation of `InterruptReraised` |

Why these bounds.

* Three threads are the fewest with one served, one waiting and one failing in
  between, or one owner and two waiters. One origin suffices for the gate,
  whose states are independent of each other; the cache needs two keys because
  they share a condition. The window of four units holds two paced starts and
  can end while a third thread still sleeps; policies of age two expire during
  the run. Redirects within one origin are the harder case for the composition:
  the chain meets its own last start in the queue.
* Two levels are the nesting of a workflow around a crawl, and the third scope
  is one a thread opens after its first transaction is over. One file is enough
  to be created, reused by another thread, rolled back and kept.
* Two calls are a holder and its successor; a third would only be another
  successor, as the row remembers one holder. A call that ends or dies may be
  made again, so successors do not run out. Two attempts have a retry, two
  requests exhaust the budget on it, a lease of one tick runs out at every
  step and the longer claim tells a send from a lease.
* One Storage that prunes and one that stores are the two sides of a
  retirement, and their second calls meet what the first have left. The
  instance publishes at most five inodes of the blob. Two pruners of one digest
  were explored on their own: `BytesSurvive` holds, as `ArtifactStoreProofs`
  shows for any number. `MarkerOutlivesDoubt` does not, since one may verify
  the file and clear the marker (`immutable_artifacts.py:612-620`) with a row
  the other has put back and not yet verified. Nor does `RowNamesBytes`: one
  may stand between the comparison and the unlink of a failed republication
  while the other takes the row and the file away and stores the blob anew,
  whose file then goes. Both are checked and proved for one pruner.
* One descendant can detach, hold the pipe, outlive the target and be missed
  by a listing; `SubprocessRunnerProofs` has the safety for any number.

The bounds are named in the modules: `Ages`, `Skew`, `LastArrival`, `MaxTime`,
`MaxCalls`, `MaxGeneration`, `MaxHops`, `MaxLevel`, `MaxBegins`, `MaxTampers`,
`Limit`. Those of `RunLedger` (`TTL`, `Timeout`, `MaxRequests`, `MaxPages`,
`MaxConcurrency`, `MaxRetries`) are the program's own parameters.

Symmetry under permutation of threads, files or inodes is used in safety runs
only. The type invariants of the gateway's modules, of `ArtifactStore` and of
`SubprocessRunner` are proved and not run.

Fairness. A thread that can take its next step takes it (`WF` per thread):
the operating system schedules threads, condition variables wake all waiters,
transports and subprocesses have timeouts. Time passes (`WF(Tick)`), so a sleep
ends and a lease runs out. In `StorageTransaction` a scope that again and again
could end does end (`SF(Commit)`): crawls are bounded by `max_pages` and
`max_files`. In `RunLedger` every call takes its next step (`WF` of `Step` per
call), and a new call for a run that is open is a step: the liveness is that of
a run whose owner keeps asking for it. `SubprocessRunner` asks it of the caller
alone and of SIGKILL (`WF(CallerNext)`, `WF(Die(p))`): every wait of the caller
has a deadline, and neither the supervisor nor the target nor a reader need
ever move. Nothing is assumed of interruptions, invalidations, failures,
rollbacks and crashes. `ArtifactStore` has no liveness property: its calls are
straight lines.

Deadlock is checked except where the system may stop: in `RunLedger`, whose run
has ended, and in `ArtifactStore`, whose Storage objects have no calls left.

Every property of a passing run has a mutant in `PROJECT.json`: a fault
operator in the module (their comments begin with "Fault:") that replaces one
definition the way a plausible slip in the code would, and makes TLC find the
property violated.

### Disagreements

**Rolling back while another process stores the same bytes.** The README of the
repository says of a failed store that it removes "only the invocation-owned
file and database rows" (line 581) and provides for independent Storage
processes (line 583). `artifact_store_race` shows a schedule in which a
committed row of the second process loses its bytes: the first rolls SQLite
back (`storage.py:1416`) and so frees the write lock before it removes its file
(1425); in between the second begins, finds the bytes at their name, reuses
them and commits. Files first and SQLite after would close the window.

**Replacing a file while a failed publication cleans up.** The README of the
repository says that "cleanup replacement" fails "without clobbering a victim"
(line 583). The rollback keeps to that: it renames into a private directory and
compares there. A publication that fails once its file is at the canonical name
does not: `_unlink_pinned_leaf_if_identity` (`immutable_artifacts.py:2947-2973`)
reads the inode at the name, compares, and then unlinks the name (2965).
`artifact_store_victims` shows a file that another process put there in between
being unlinked. `OthersKept` says, and `OthersFilesSurvive` proves, that this is
the only such step.

**An interrupt between start and enrollment.** A test
(`tests/test_executor_gateway.py:550`) interrupts `execute` once the target has
run and expects `KeyboardInterrupt` with everything reaped. The code re-raises
only with `enrollment_proved`, which is set when the caller has seen the cgroup
(`subprocess_runner.py:623, 737`), and the supervisor starts the target as soon
as it is in. `subprocess_interrupt` shows the interrupt striking in between:
all is reaped and the answer is `executor_cleanup_error`. The repository's
README reports that test failing once in a full run with the cause pending
(line 663); the run here is one schedule that has this outcome, and no more is
claimed.

### Limits of the code the models respect

* `RunLedger`: the lease is remembered per repository and run
  (`agentic_orchestration.py:3397`), so two calls for one run on one
  orchestrator share it, and the loser of the acquisition writes under the
  winner's lease. `OneSender` and `WritesUnderOwnLease` are therefore about
  calls with repositories of their own.
* `RunLedger`: whether a call recovers what a predecessor left is decided when
  it reads the run, before it takes the lease (line 5282). A call that was
  overtaken in between works on without recovery, which `NoForeignReservation`
  excludes by `Prompt`.
* `SubprocessRunner`: a supervisor that somebody else terminates may report 0
  for a target it killed (`subprocess_runner.py:328-349`), the exception
  `stray` in `OutcomeTrue`. A supervisor that ends before the caller has bound
  its identity may be answered with a cleanup error where a startup error would
  be true. Orphans of a dead supervisor are reaped by whoever adopts them; with
  an init that does not reap they stay zombies, as the repository's README
  notes for its containers (line 661).

## 4. Theorems

All are proved for any sets of threads, origins, calls, tasks, files and
processes and any values of the numeric constants allowed by the modules'
assumptions. The properties are not inductive alone; each module names the
strengthening `Inv` from which they follow.

* `OriginGateProofs`: `SpecInv` proves `Inv`, from which follow
  `TypeCorrect`, `FifoPacedCorrect`, `BudgetCorrect`, `SleeperCorrect`,
  `NoOrphanCorrect`, and with it the action property `UnitsCorrect`. `Ledger`
  ties the used units of a window to the slots handed out, `Owned` gives every
  unit one owner (a thread or a sent request), `Queue` and `Queued` tie tickets
  to threads, `SleeperDue` says the sleeper's slot is still behind the last
  start because nobody but the served thread can start, and `Past` keeps
  everything sent behind the clock.
* `PolicyCacheProofs`: `SpecInv`, then `TypeCorrect`, `SingleFlightCorrect`,
  `NoStaleCorrect`, `NoOlderAnswerCorrect`. The strengthening says a fetch was
  admitted at a generation at least its caller's and at most the current one.
* `AccessGatewayProofs` reuses both by `INSTANCE`: its invariant is the two
  components' and `Coupled`, which says that where a chain stands tells where
  its thread stands in the cache and in the gate, that the policies it carries
  are one life long and no older than the clock, and that its causal floor is
  at most two instants ahead. So each step of the gateway is a step or a
  stutter of either component (`Simulated`), `ClaimCorrect` and `CausalCorrect`
  follow, `LivePolicyCorrect` from the gate's re-test at the start and the life
  and age of the policy a thread carries through the queue, and
  `GatewayKeepsPromises` carries the components' theorems over. It rests on
  `ChainAssumption`: the gate must have been specified for the floors and ages
  the chains produce (`0..LastArrival \subseteq Ages`, `2 <= Skew`).
* `StorageTransactionProofs`: from `Inv` follow `TypeCorrect`,
  `ForeignCorrect`, `WaiterCorrect` and `OrphanCorrect`. `Turn` ties the
  counted depth, the owner, SQLite's open transaction and the writers of its
  rows together, and says only others wait; `Hands` gives every file that is
  linked and not yet handed over one thread, outside the journal and the kept
  files; `Journaled` keeps journal and kept files apart. `SpecUnshared` adds,
  where no thread rolls back another's transaction (`Rollbackers = {}`: every
  caller but a `Storage.close` from another thread, `storage.py:2057`, rolls
  back only what its own thread owns), that a live scope still owns its
  transaction, so that whatever its rows name is kept or its own to keep. From
  it follow `SurviveCorrect` and `EndedCorrect`. `Scoped` adds that a thread at
  work in a scope owns the transaction in exactly as many scopes as are
  counted, and that rows an autocommit left behind belong to threads in no
  scope; it gives `DeferredCorrect`. With a rollbacker none of the three holds,
  since its call ends a transaction whose owner goes on, and that is why they
  carry the assumption and are run only on the safety instance.
  `UnitsImplemented` is the refinement of `UnitOfWork`: an outermost `Begin`,
  `Commit` and rollback are the unit's, a nested one and every publication are
  stuttering steps, a `CommitRaises` that SQLite did finish is a commit, one
  that it did not is an abort.
* `RunLedgerProofs`: `Inv` (the types of run, tasks and fences, `CallsGood` for
  the calls, `AccountsAgree`, and `Opened`: before it is opened a run has
  counted nothing) holds of any calls and repositories and gives `TypeCorrect`
  and `AccountsAlwaysAgree`. Where every call has its own repository (`Apart`),
  `LeaseInv` holds too: a repository remembers only leases of its own call
  (`OwnFence`), and a request is under way only under a claim that has not run
  out (`Sending`). It gives `OneSenderAlways` and `WritesFenced`. Every action
  of a call is first shown to do only what `Allowed` says (move that call,
  change its own fence, keep the lease or have a right to it), and the
  invariants are proved from that; only claims, sends and what comes from
  outside are treated one by one.
* `RunLedgerEndProofs`, on top of `Inv`, has two parts.
  `LedgerImplementsTaskRun` is the refinement, with no assumption at all. Calls
  may share a repository, stall and lose the lease, so what one remembers may
  be out of date; `Trace` asks only for what nobody can undo: a task a call
  knows of is there and stays (`Anchored`), one it has started is running or
  has ended, and only a run that has not ended is leased. Each action is then
  one step of `TaskRun` or a stutter. `ReservationsAreOwn` and
  `EndIsNeverRefused` assume `Prompt`, and no more: calls may share a
  repository and die at any step. The invariant is `SoloInv`. A call at work
  holds the lease (`Holds`), so there is one, and its rows are what it thinks
  they are (`Well`): it has reserved a read exactly when it stands in one
  (`OneRead`), nothing else runs (`OnlyHand`), every open task is in its queue
  or in its hand (`Listed`), and attempt `n` comes after `n - 1` observed
  failures (`Trying`). `Rows` keeps the account of attempts of a task that
  ended, which is what the trigger on `agentic_runs` asks for. What a
  predecessor left is bounded by where it may have died, and `Enter` repairs it
  (`Opening` says when a call may skip that). Without `Prompt` an overtaken
  call works on without recovery, as said under "Limits of the code", and
  `SoloInv` is false.
* `ArtifactStoreProofs`: `Safety` holds of any number of Storage objects: an
  open transaction belongs to one call at a step that has one (`Turns`,
  `Exclusive`), what may be unlinked from a quarantine is the blob's
  (`Unlinkable`), and every name has an inode that was made, by a store until
  an outsider comes (`Known`). It gives `TypeCorrect`,
  `RetirementExcludesReferences` and, since every step but the unlink of a
  failed publication keeps the names of other files (`Keeps`),
  `OthersFilesSurvive`.
  `Survival` adds, for one storer and any number of pruners (`OneStorer`), who
  owns the bytes. `Lone` is the heart of it: a call between a durable deletion
  and the return of the row is alone there until the row comes back with a
  version of its own, which is never removed, and then nobody prunes any more.
  The rest is said only as long as no inode of the blob was left in a
  quarantine that nobody will touch again (`Litter`; such an inode keeps its
  name, `LitterStays`, and so the bytes survive by it) and no outsider came.
  Until then no prune publishes again (`Clean`), so the unlinking of a failed
  republication never meets a file; what a storer linked is its own and without
  a row until its commit (`Own`, `OwnUndone`); what a compensation put back
  stays at its name until the row is committed, or is in the hands of a
  rollback that is looking at it (`Kept`, `Sorted`); a file in the quarantine
  of a call is nobody else's (`Loose`); and so what is about to be unlinked is
  never the last copy of a committed row (`Spared`). It gives
  `OneStorerKeepsBytes`. With two storers it is false, as `artifact_store_race`
  shows.
  `Paired` and `Named` go from there, for one storer and one pruner, to
  `RowsNameTheirBytes`. Litter is no excuse here, so `Paired` says again,
  whatever lies in quarantines, whose the file at the name is: a storer's own
  before it has a row (`Owns`), the one a commit is made over unless the prune
  is about to report it (`Backs`), and that a row a prune is coming back to is
  committed (`Reverts`). Then, while nothing is marked, a committed row whose
  file is not at its name has a call at a step that still answers for it
  (`Mends`), and each of those steps is left only over the bytes, without the
  row, with a report or towards another of them.
  `MarkerCoversDoubt` holds of any number that store and one that prunes
  (`OnePruner`). `Doubtless` says what a call may count on at the steps where
  it commits: the rows under its lock are as it left them, a store over a row
  that is there has read the bytes, and the marker is taken off only over bytes
  verified since the row was durable. With two pruners it is false, as said
  under the bounds.
* `SubprocessRunnerProofs`: `CleanCorrect` and `OutcomeCorrect`. `Living` says
  everyone but the supervisor lives in the cgroup, which stays empty once it is
  removed; `Families` that a process that exists, a zombie too, has a living
  parent or is an orphan that is reaped where it dies. So an empty cgroup and a
  reaped supervisor leave nobody. `Progress` ties the caller's flags to what is
  true of the supervisor, `Ended` and `Watching` order the target's end, the
  supervisor's knowledge of it, its report and a cancellation.

Only model-checked are the liveness properties (`QueueDrains`, `LookupEnds`,
`RequestEnds`, `EveryWaiterWakes`, `RunEnds`, `LeavesNothing`): fairness and
`ENABLED` are out of the prover's reach. Every safety invariant, action property
and refinement that a passing run checks is also a theorem.

## 5. Not modelled

* In the modelled components: formatting, wording and validation of evidence;
  the runtime seals of the gateway and of the run's authority; loading and
  migrating the ledger, replay of an earlier run, the byte budget; versions,
  observations and lineage of an artifact beyond being a reference, their
  validation, reads; the temporary file of a publication, the pinned
  directories and their platform variants; the screening of a subprocess
  request and the parsing and redaction of what the target says; standard
  error and standard input; listings of `/proc` are taken at one moment.
* Failures nobody handles: a rollback that fails inside SQLite
  (`storage.py:1416`), asynchronous exceptions between two bytecodes outside
  any handler (`access_gateway.py:1133`), a second interrupt inside a
  `finally`, the death of the process that called the executor.
* The legacy download path, which replaces files without the journal
  (`document.py:348`), and the loss of candidates when a run is taken over
  between a read and its discovery (`agentic_orchestration.py:6102`): the
  model has the latter, but the code promises nothing about it.
* The components marked planned or not modelled in the inventory: the crawl
  queue and baselines, the job lifecycle (`job_orchestration.py:232`), the
  order of acquisition attempts, exploration; and those with no behaviour over
  time, which are pure functions, contracts, texts and front ends.

## 6. Plan

Most important first; each with its own runs, mutants and hazards.

1. `JobLifecycle`: job states with deferred persistence, interruption and a
   crash while running.
2. `TreeCrawler`: queue, baseline, missing pages and the run's verdict, on top
   of `UnitOfWork`'s promise.
3. Journaled directories beside the files of the rollback quarantine, with the
   platform variants of an exclusive rename.
4. Acquisition attempts: choice, fallback and what a failed attempt leaves.
5. Proofs for the components above, as they are modelled.
6. Pure operators, where a reference definition exists: robots matching, diff,
   derived parent outcome.
