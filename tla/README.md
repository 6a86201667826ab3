# A TLA+ model of lsbx

lsbx hands out short-lived virtual machines ("sandboxes") on exe.dev or a local
libvirt host, over a CLI, an HTTP gateway and an MCP server, and runs GitHub
Actions jobs in them through a CI broker. This directory models the parts whose
correctness depends on the order of steps taken by several actors, on failures
between two steps, and on what survives a crash; TLC checks the models on small
instances and TLAPS proves the central invariants for every instance.

`PROJECT.json` lists the components, the runs, the source lines every definition
stands for, the hazards and the theorems.

## 1. Inventory

| component | state | operations | used by |
|---|---|---|---|
| lifecycle (`lsbx-lifecycle`) | none of its own | create, destroy, renew, reap | ops |
| sandbox store (`lsbx-store/sandbox_store.rs`) | one JSON file per sandbox | save (temp file, rename), load, delete, list | lifecycle |
| keys (`lsbx-keys`) | one private directory per sandbox; public keys on the exe.dev account | generate, register, cleanup, reconcile | lifecycle, exe.dev backend |
| backends (`lsbx-backend-*`) | the VMs | create_from_golden, destroy, run, put, get | lifecycle, ops |
| operations facade (`lsbx-ops`) | golden registry in memory | every verb, locks for the registry | CLI, gateway, MCP, TUI, broker |
| gateway (`lsbx-gateway`) | creation gate, rate-limit buckets | REST routes, token auth | HTTP clients |
| `lsbx serve`, CLI (`lsbx-cli`) | none | gateway plus a background reap loop; up, down, renew, reap, ... | users, systemd |
| CI broker (`lsbx-broker`) | one `CiJobRecord` per job | startup recovery, poll, dispatch, provision, monitor, clean up | `lsbx ci-broker` |
| poller, GitHub client, App auth | known repositories, an installation token | tick: repositories, runs, jobs, page by page; job, job_for_runner | broker |
| process lock (`lsbx-store/lock.rs`) | a sentinel file | acquire, try_acquire, drop | broker |
| golden images (`lsbx-golden`) | manifest `images.json`, loaded by each process | load, save, build, verify, hash | ops |
| console streaming (`lsbx-stream`) | two pumps per connection | relay WebSocket to VNC | gateway, `lsbx serve` |
| MCP server (`lsbx-mcp`) | none | one facade call per tool | agents |
| terminal UI (`lsbx-tui`) | the terminal's modes, a list, a wizard's answers | dashboard, up wizard, golden build wizard | users (a library so far; the CLI does not call it yet) |
| bootstrap (`lsbx-bootstrap`) | none | unit files, host probes | operators |

How they interact: every front end calls the facade, the facade calls the
lifecycle, the lifecycle calls store, keys and backend one after the other.
There is **no lock on a sandbox**: the gateway's handlers, CLI processes, the
reap loop and the broker all work from the record they loaded. Only creation
through one gateway is serialised (`creation_gate`), only one broker runs per
state directory (`ci-broker.lock`).

What is hard about it, and what makes it correct:

- *lifecycle*: a VM costs money and holds a key, so whatever interleaves or
  fails, a VM must be found again from a record (`NoLostVm`,
  `UntrackedVmExplained`), its private key too (`KeyDirTracked`); a sandbox in
  use must not be reaped (`ReapOnlyExpired`), an expired one must go
  (`ReapConverges`); one sandbox's destroy must not hit another's VM
  (`DestroyHitsOwnVm`); the cap must hold (`CapUnlessRevived`); reconciliation
  must remove orphaned keys and only those (`RevokesOnlyOrphans`,
  `OrphanKeysRevoked`).
- *broker*: crashes at any point, a runner that may be given somebody else's
  job, and the GitHub App's private key inside the guest
  (`UntrackedGuestExplained`, `CredentialsTracked`, `OneRunnerAtATime`,
  `RecordsResolve`, `DivergedVmKeepsRunning`, `ResumesEveryGuest`).
- *lock*: a file replaced between open, flock and check (`GuardsExclude`,
  `AcquireReturns`).
- *golden images*: concurrent calls and processes writing one manifest, without a
  lock between processes (`ManifestCurrent`, `RegisteredSurvives`,
  `DuplicatesOnlyFromDryRuns`); build and verification VMs that no record names
  (`GoldenVmsExplained`).
- *how work reaches the broker*: GitHub's lists change between the pages of one
  scan, the token runs out, a call fails: a job must not get two sandboxes
  (`OneSandboxPerJob`) nor none (`QueuedJobsServed`), hosts with a dedicated label
  go first (`FallbackWaits`), and no error may stop the polling for good
  (`PollsForEver`).
- *backends, towards a guest*: a name, a disk file, an address pass from one VM to
  the next, and processes cache them: a command must run in its own sandbox
  (`CommandReachesOwnGuest`, `OwnCacheFresh`), a running VM must keep its disk
  (`DiskKept`) and no disk may be forgotten (`ArtifactsExplained`).
- *gateway, MCP*: requests pass several layers and may be dropped at every await
  (`NothingLeftBehind`); limits are counted in fractions, by a clock that is read
  before the lock is taken (`RateBound`, `RetryAfterHonest`, `SustainedRate`), and
  creates come through doors without the gate, renewals write records back
  (`ShareBounded`).
- *streaming*: two pumps, each of which may block, fail or be dropped in the
  middle (`IsDuplexChannel`).
- *terminals*: the list changes under the question on the screen
  (`OnlyWhatWasShown`), errors and panics leave full-screen programs
  (`TerminalRestored`), a command goes on after an error (`ExitCodeHonest`).

The hazards, each at its line, are in `PROJECT.json`.

## 2. Modules

### SandboxLifecycle

Models `create`, `destroy`, `renew` and `reap` (`lsbx-lifecycle`) over the store,
the keys and a backend. `AccountKeys` chooses the backend: TRUE is exe.dev (a key
is registered with the account, a VM is probed and removed by two commands, an
absent VM counts as destroyed), FALSE is libvirt (the domain found is the one
destroyed, an absent VM is `NotFound`).

| variable | code |
|---|---|
| `recs` | `<state_dir>/state/<id>.json`: VM name, `lease_expires_at`, `cleanup_failed` |
| `keydirs`, `acct` | `lsbx-key-*` directories; keys registered with the account |
| `vms` | the backend's VMs by name, with the id each was created for |
| `gate` | the gateway's `creation_gate` |
| `pc`, `cur`, `loc` | for each handler, CLI process and reap loop: the next call, the sandbox and the **copy of the record** it loaded |
| `todo`, `known` | a reap pass: ids listed, labels found in the store |
| `used`, `saved`, `leaked`, `revived` | history: ids handed out, ids `create` saved a record for, ids whose VM an unrecoverable failure left, ids whose record `renew` wrote back after its deletion |
| `tried`, `loose` | history: ids a destroy was begun for; ids destroyed a second time or whose VM went without a destroy of theirs |

Every external call (clone, tag, `ssh-key add`, save, probe, `rm`, key cleanup,
delete, list, ...) is one action, because another actor can run between any two of
them; the checks and assignments between two calls belong to the action of the
call they follow. A failing call is an action or a disjunct of its own
(`CloneFails`, `FinishFails`, `Rollback`, `SaveFails`, `CallFails`), with both
outcomes where an answer can be lost after the remote command took effect.
`Crash` stops an actor anywhere: a killed process, or a handler dropped because
the client hung up.

Abstractions: a sandbox id is a number, in the order the reaper sorts ids; `Names`
says which VM names a request may ask for, so that names chosen by the caller
(reusable) and names derived from the id (unique) are two instances. The JSON
envelope, the labels of keys (one per id) and the readiness poll's result (the
record stays either way) carry no further state. A dry-run reap, a refused
request and a read-only call change nothing and have no action. Windows guests on
exe.dev use a baked-in placeholder key, which the model does not count among the
account's keys. Only records of an older version are marked `cleanup_failed`
(nothing sets it today): `Legacy` puts such records into `Init`.

### SandboxService

What the lifecycle promises to the CLI, the gateway and the broker, with none of its
calls: a sandbox is `free`, `requested`, `running` or `stopped`, in this order and never
back (`Stage`); it is `listed` from the save that precedes create's answer (`acked`) and
is delisted only when it has stopped; a late renewal may list it again, stopped as it is.
`Service == INSTANCE SandboxService WITH ...` in SandboxLifecycle reads this state off the
detailed one (`requested` is: some client is at its clone call; `running`: a VM of this id
exists under whatever name), and `IsSandboxService == Service!Spec` is checked by the
libvirt run and proved. The service has no liveness of its own: that the expired ones
go is `ReapConverges`.

### CiBroker

Models `run_broker` with a runner configuration (`lsbx-broker/src/reconcile.rs`):
`reconcile_on_startup`, the resumption of in-flight records, poll, `dispatch`,
`provision_runner`, the two loops of `monitor_runner`, `cleanup_runner`, with the
CI job store, the guests, the Actions runners in them and GitHub's side.

| variable | code |
|---|---|
| `ci` | `<state_dir>/ci-broker/<job>.json`: sandbox, phase, `diverged` |
| `gh`, `taken` | a job's status and conclusion; whether GitHub names a runner for it |
| `sbx`, `runner`, `runs`, `logs`, `marked`, `creds` | the guests: alive, how far the runner in it is, the job it got, its log, whether the log repeats "Runner registered:", whether the App key is in it |
| `pc`, `job`, `box`, `div`, `ok`, `clean` | the broker's next call and its copy of the record |
| `todo`, `resume` | records to tail and to resume, then the jobs of the last poll |
| `stray`, `overwritten`, `stuck` | history: guests whose dispatch failed before a record existed; guests whose record could not be loaded and was replaced by that of a second dispatch; guests a failed cleanup, a crash after a terminal phase or an unreadable record left behind (only `OneRunnerAtATime` sets these aside) |

GitHub may give a listening runner *any* queued job with the label (`Assign`),
jobs end, are cancelled or are run elsewhere, sandboxes are lost, runners quit.
What `check_divergence` concludes depends on GitHub's listing, so it is the set
`Divergence` of possible answers. Sandbox creation and destruction are one step
each here: their inside is SandboxLifecycle's subject. Jobs are taken to have
different names, because the broker compares names.

### LockSentinel

Models `acquire` and `try_acquire` of `lsbx-store/src/lock.rs` system call by
system call: open or create, flock, compare inode with path, retry. `flock`
belongs to the inode; `Unlink` is somebody else removing the file, at any time;
`Die` is the kernel closing a dead process's descriptor. `orphaned` is history:
guards whose file was removed after they were granted.

### GoldenRegistry

Models what `golden_register`, `golden_delete`, `golden_build` and `golden_verify`
(`lsbx-ops`, `lsbx-golden`) do to the registry, the manifest and the VMs, for any
number of processes: one-shot commands (`OneShot`, which exit with their answer)
and servers, in which several tasks run (`Home`).

| variable | code |
|---|---|
| `file` | `images.json`: a registry, `Missing`, or `Torn` (does not parse) |
| `mem` | `LsbxOps.registry` of each process, by entries per key; `NotLoaded` when it is not running |
| `snap` | the contents a task is writing (`ImageRegistry::save`) |
| `pc`, `op`, `key` | a task's next call, operation and golden |
| `vms` | build VMs (named after the golden) and verification VMs, with the task that made each |
| `mixed`, `wrote`, `failed` | history: two processes have been writing at once; the process that began the last write; processes whose last read or write failed |
| `acked`, `dry` | history: acknowledged registrations not deleted since; keys a dry run was registered under |
| `kept`, `leaked` | history: VMs left on request; VMs left by a failed call or a crash |

`Start` is `build_deps`: no file, or any error reading it, is an empty registry, a
file that does not parse stops the process. `Register`, `Delete` and `DryBuild`
change the registry under the write lock (`WriteLocked`), `BeginSave` and
`EndSave` are `persist_registry`, which takes a *read* lock after the write lock
was released; `std::fs::write` truncates and then writes, so there are states in
between, and other processes may be in them too. `--replace` is a delete whose
result is ignored, then a register. `RequestVm`, `CreateVm`, `RunSteps` and
`TakeDown` are build and verify; since the facade supplies no flattener, a build
that is not a dry run always ends in an error, and registers nothing. Requests with a
malformed key and read-only operations change nothing and have no action.

### BrokerIntake

How work reaches the broker: `Poller::tick` (`poll.rs`) call by call over the paged
listings of `github_client.rs`, the label and fallback rules of `labels.rs`, the
life of the App's installation token, which errors `run_broker` retries and which
end it, and the loop that decides what to dispatch. CiBroker takes it from there
for a broker that provisions runners; for one that does not (`runner = FALSE`)
this module goes on to dispatch, the job record and `tail_to_completion`. With
runners it keeps what decides whether a job is claimed again, save by save: phase
`completed` (`Settle`), `cleaning` (`BeginCleanup`), the destroy (`Destroy`), the
deletion of the record (`DeleteRecord`), each of which may fail, a crash between any
two of them, and `Resume` at the next start. `Claimed` is the claim check over
records that load; any error of `load` counts as "no record" in the code, which is
an action of its own (`DispatchMisread`).

| variable | code |
|---|---|
| `status`, `age`, `installed`, `world` | GitHub: jobs, how long they have been queued, repositories, which runs jobs belong to |
| `token` | what is left of the installation token |
| `known`, `refreshed` | `Poller.repos`, `last_repo_refresh` |
| `plan`, `page`, `got`, `runs` | the scan under way: (repository, label, status) to come, page number, items so far |
| `found`, `ripe` | the jobs this tick lets through, those past the fallback delay at its `now` |
| `passed` | time has passed since the last sleep or job |
| `disk`, `mem`, `guest` | job records, `in_flight`, the sandboxes made |
| `unsaved`, `misread`, `doubled` | history: jobs whose sandbox never got a record; jobs dispatched because their record did not load; jobs that had two sandboxes at work |

GitHub lists a set of repositories or jobs oldest first (`Ascending`), of runs newest
first (`Descending`). A page is the slice of that list *at the time of the call*
(`PageOf`), and the lists change between calls, so items shift across page borders as
they do there.
Times are counted in units; ages stop at the delay that matters.

### GuestAccess

`exec`, `put` and `get` (`lsbx-ops`) over both backends, next to the creates and
destroys that pass a name, a disk file and an address from one VM to the next.
`kind` is the sort of guest: libvirt with a Linux golden (`linux`: the seed has the
sandbox's own key) or a Windows golden (`windows`: one key for all), exe.dev over
ssh by a client that has no key of the account but the sandbox's (`ssh`), or by one
that has more of it (`account`: a token, an agent's or configured key, which ssh and
scp offer next to `-i`, or a record without a key). A VM is identified by the sandbox it was made for and *found* by name
(`vmAt`) and address (`addr`); `disk` and `seed` are the files under the VM's
name, `cache` is every process's `ip_cache`, `trusts` whose key the guest took
from its seed when it first booted. Each file operation, libvirt call and ssh
connection is a step; so is the entry in `ip_cache`, which is made after the wait for
the cache's lock, when the address may be out of date (`Address`, `CacheInsert`). History: `overlap` (sandboxes that shared a name with a
create or destroy under way), `leaked`, `slipped`, `lost`, and `strayed`: pairs of
a sandbox and the other sandbox's VM one of its commands ran in.

### Gateway

The doors to the facade: the router of `lsbx-gateway` (`rest`), lsbx-stream's
routes merged behind its authentication or on a port of their own (`merged`,
`bare`), and the MCP tools (`mcp`). A request is a task that passes its layers
(`Arrive`, `Limit`, `Audit`, `BadRequest` or `Handle`, `Admit`, `Stage`, `Call`), other
tasks run at every await, and `HangUp` drops the task where it stands; the
blocking task that stages an upload runs on without its handler, whether its file
was made yet or not (`orphan`). Tokens
of a bucket are kept in sixtieths, so that a refill of `Rpm` per minute is exact
in seconds. `TokenBucket::check` is two steps: the clock is read when the request
arrives (`stamp`), the lock is taken in `Limit`, and other checks may come in between.
Of a facade call only its records are kept (`store`), each with the door that made
it; a renewal loads a record (`copy`) and saves it in a second step (`Renew`), whether
or not it was deleted meanwhile (`back`). Routes whose handlers differ in the call's name only are one route.

### DuplexChannel and ConsoleRelay

`DuplexChannel` is the abstract promise: two ends, each receives a prefix of what
the other sent; either may close; once one has, the other is closed; and while
both are open everything arrives. `ConsoleRelay` is `stream_handler` and
`run_relay` (`proxy.rs`): the record is looked up before the upgrade, then `ws_to_tcp`
(`up`) and `tcp_to_ws` (`down`) copy one item at a time through bounded socket
buffers, and `select!` ends both with whichever ends first (`Finish`).
`Channel == INSTANCE DuplexChannel WITH ...` maps `sent`, `got` and `open` to the
ends' own view, and `IsDuplexChannel == Channel!Spec` is checked as a property of
the run, its fairness included.

### Terminals

Two operators on one store: lsbx-tui's dashboard and wizards at one terminal (raw
mode, alternate screen, `TUI_ACTIVE`, the panic hook), `lsbx up --count` and
`lsbx down` at the other. `frame` is what the last frame drawn tells the operator:
the highlighted sandbox, the question, the answers; `draw` and the handling of a
key are separate steps, and the ticker's refresh may come in between. A facade call
is one step that succeeds or fails.

### MC modules

`MCSandboxLifecycle`, `MCCiBroker`, `MCGoldenRegistry`, `MCBrokerIntake`,
`MCGuestAccess`, `MCGateway` and `MCTerminals` hold the constant functions and the
symmetry sets of the runs. LockSentinel and ConsoleRelay are run directly.

## 3. Runs

| run | instance | shows |
|---|---|---|
| `lifecycle_exedev` | 2 ids, **1 reusable VM name**, 2 handlers, 1 reaper, cap 1, 1 failure | `NoLostVm`, `KeyDirTracked`, `UntrackedVmExplained`, `CapUnlessRevived`, `DestroyHitsOwnVm` |
| `lifecycle_libvirt` | 2 ids named after themselves, handler, CLI, reaper, one record of an older version, 2 failures | `ReapConverges`, `IsSandboxService` (refinement) |
| `lifecycle_reconcile` | exe.dev, grace window 1, fair reaper, 1 failure | `OrphanKeysRevoked` |
| `broker_safety` | 2 jobs with one label, 2 sandboxes, 2 failures | `UntrackedGuestExplained`, `CredentialsTracked`, `OneRunnerAtATime` |
| `broker_liveness` | the same, 1 failure, fair broker | `RecordsResolve` |
| `lock` | 3 processes, 2 removals | `GuardsExclude`, `AcquireReturns` |
| `golden` | a server with 2 tasks and a command, 1 golden, 1 failure | `ManifestCurrent`, `DuplicatesOnlyFromDryRuns`, `GoldenVmsExplained` |
| `intake` | 2 jobs (one label each, one also with the fallback label) in one run or two, pages of 1, token life 2, App broker with runners or gh broker without, 1 failure and 1 record that does not load, fair broker | `OneSandboxPerJob`, `FallbackWaits`, `PollsForEver`, `QueuedJobsServed` |
| `guest_access` | 2 sandboxes, **1 name**, 2 addresses, a server's request and a command, the 4 kinds of guest, 2 failures | `CommandReachesOwnGuest`, `DiskKept`, `ArtifactsExplained`, `OwnCacheFresh` |
| `gateway` | 2 requests at a time, 3 in all, with the token or with none, 3 deployments, 40 per minute, burst 1, 2 seconds, cap 1, 1 failure | `RateBound`, `RetryAfterHonest`, `NothingLeftBehind`, `ShareBounded` |
| `relay` | 3 items each way, buffers of 1, 1 ping | `IsDuplexChannel` (refinement with liveness) |
| `terminals` | 3 sandboxes, counts up to 2, all fields with at least 2 values | `OnlyWhatWasShown`, `TerminalRestored`, `ExitCodeHonest` |

Most runs also check their module's `TypeOK`; the types of `ConsoleRelay`,
`GoldenRegistry` and `LockSentinel` are left to their theorems (section 5).

Bounds and why they are enough: two ids over one name give every conflict of a
name reused while an old record or an old destroy still refers to it; two handlers
and a reaper give every pairing of operations, the reaper included; `MaxTime` is
one more than the longest lease plus grace, so that a lease can be valid, expired
and past its grace; `MaxFaults` counts crashes, failing calls and vanished VMs
together, and two of them give a failure during the recovery from another. Two
jobs and two sandboxes give divergence (a runner taking the other job) and a
second dispatch after a crash; when `Sandboxes` is used up creation fails, as it
does at the cap. Three processes and two removals give a waiter, a holder and a
process on a newer file at once. All clocks and counters are guarded by these
bounds; `MaxFaults` is given for each run in the table. A server with two tasks
and a command on one manifest give overlapping saves inside a process and between
processes; one golden is enough for the invariants, which speak of one key at a
time or of the whole registry, and the lost update needs two. `golden` sets
`CHECK_DEADLOCK FALSE`: a manifest that does not parse stops every command, as it
does in the code, until somebody repairs it. CiBroker's jobs are interchangeable,
hence `JobSymmetry` in the safety run (not in the liveness run), and so are the
two tasks of the server.

In `intake` two jobs on pages of one item are enough for an item to shift to a
page already read, or back to one not yet read, while the other is listed; a
token life of two units against a refresh interval of one gives a token that runs
out inside a scan. A record is left for the claim check to find only after a crash or a
failed cleanup, so records that do not load have a bound of their own (`MaxMisreads`),
next to the one failure. In `guest_access` two sandboxes over one name and two addresses
give every way in which a name or an address goes to a successor. In `gateway`,
three arrivals in two slots use a slot and a key again, and, since the
store may begin with a record, are a renewal that loads it, a delete and a create that
takes its place before the renewal saves. 40
requests per minute are two thirds of a token per second, so buckets hold fractions
and Retry-After has to round; a request may hold its reading of the clock for two
seconds, more than a token, while others are checked. In `relay`, one item in flight in each of four places fills both
buffers and blocks both pumps. In `terminals`, three sandboxes let the highlighted
one, the one asked about and another differ. These runs set `CHECK_DEADLOCK FALSE`
where the system may stop: all requests sent, all sandboxes used, both ends closed.

The liveness property of SandboxLifecycle that needs the listing to succeed on
exe.dev (`OrphanKeysRevoked`) is checked with one client
next to the reaper. With two clients, one renewing and one destroying the same
sandbox for ever, a renewal can write the record back after every delete, and
every pass of the reaper can meet a record that vanishes between the directory
listing and its load, so the pass fails each time.

Fairness:

- *reap loop*: `lsbx serve` runs it for ever and only logs an error of a pass
  ("never let a reap error crash serving", `lsbx-cli/src/lib.rs`): weak fairness
  of the reaper's steps. Clients get none.
- *broker*: systemd restarts it (`Restart=on-failure`,
  `lsbx-bootstrap/src/systemd.rs`) and its loops poll with a sleep: weak fairness
  of its steps. The deadline of each monitoring loop is compared at every
  iteration, and once passed it stays passed: strong fairness of `Timeout`.
  Nothing is assumed of GitHub or of runners.
- *intake*: the same restart, and time passes: weak fairness of the broker's steps
  and of `TimePasses`. Nothing is assumed of GitHub: `QueuedJobsServed` speaks of a
  job that stays queued.
- *relay*: the runtime polls the task and both futures, TCP delivers
  (`TaskFairness`), and the ends read what they are sent (`PeerFairness`). The last
  is an assumption on the ends, not on the code; section 4 says what happens
  without it.
- *lock*: processes run, guards are dropped, and a waiter that finds the lock free
  again and again gets it (the kernel queues flock waiters).

A property holds for the code only if a mistake in the code would break it:
every checked property has a mutant definition (`Admit_NoGate`,
`Rollback_KeepsVm`, `ProbeFound_DropsError`, `Start_NoResume`, ...) under which TLC
reports that property violated.

## 4. Where the code and its words differ

Formulas that state what a doc or a comment says and that TLC refutes. They stay in
the modules, next to the properties that do hold; a cfg with the constants named
here reproduces each counterexample in seconds.

- `ReapOnlyExpired` (SandboxLifecycle; one id, one handler, one reaper, no failure):
  `reap` decides from its listing (`reap.rs:148`), `destroy` reloads the record
  without looking at the lease; a renewal acknowledged in between does not save the
  sandbox. `lease.rs:27` calls it a "silent trigger for `reap` to destroy a VM it
  can't actually prove is past its lease".
- `RevokesOnlyOrphans` (the same instance): known labels are read before the
  account's keys, so the key of a create running meanwhile is revoked as an orphan;
  `lsbx-kernel/src/backend.rs:102` says reconciliation is for credentials "left by
  interrupted lifecycle operations".
- `RegisteredSurvives` (GoldenRegistry; a server and a command, 2 goldens, no
  failure): each process saves the registry it loaded at its start
  (`lsbx-ops/src/lib.rs:801`), so a registration acknowledged meanwhile by another
  process is erased; `lib.rs:610` says it is persisted "so a one-shot `lsbx golden
  register` survives the process exiting".
- `DivergedVmKeepsRunning` (CiBroker; the instance of `broker_liveness`): when the
  dispatched job completes elsewhere the guest is destroyed under the other job;
  `reconcile.rs:402` says "the dispatched VM keeps running".
- `ResumesEveryGuest` (the same): phase `completed` is saved before cleanup and
  completed records are not resumed, so a crash in between leaves the guest and the
  App key in it; `reconcile.rs:1235` says "Resume guests left behind by a broker
  restart before claiming new work."
- `SustainedRate` (Gateway; the instance of `gateway`): `TokenBucket::check` reads the clock
  (`ratelimit.rs:84`), then waits for the lock (89), and stores its own reading
  as `last_refill` (97) even when a later one is there. The next check refills the
  seconds in between again. `ratelimit.rs:15` calls the configuration the "sustained
  rate plus how many requests can burst above that rate before throttling kicks in";
  with a burst of one, two requests are admitted a second apart, though a token takes
  one and a half. `RateBound` is what holds: the burst, the refill, and the refill of
  the seconds that late checks moved the bucket back by (`rewound`).
- `ClosePropagates` under `HungGuestSpec` (ConsoleRelay): when the guest's VNC server
  stops reading while `ws_to_tcp` is in `write_all`, that future reads no further
  frame, so the client's close is not seen until the guest sends or its connection
  breaks; `proxy.rs:322` promises "no half-open connection leak".

Seen while modelling, and modelled as the code does it:

- The up wizard lets the user choose a cpu and a memory size and shows them;
  `answers_to_create_request` leaves both unset, while `wizard.rs:449` says that its
  request is "exactly what `lsbx up <profile> --cpu N --memory M --lease D` would
  construct, field for field" (219-226 says the same of the wizard as a whole).
  `OnlyWhatWasShown` compares the fields that reach the request.
- `auth.rs:8` calls `GET /console` "the sole route this extractor is never applied to",
  `routes.rs:138` "the sole unauthenticated route". That is true of the gateway's own
  router and of the merged one. With a stream port of its own (`lsbx-cli/src/lib.rs:1396`)
  the routes of lsbx-stream are served there as they are, without a layer of the
  gateway (`Doors`, `Guarded`). No property is stated about which calls are
  authenticated: it would only restate the guard of `Handle`.
- The claim check of the runner loop is `load(..).is_ok()` (`reconcile.rs:1264`), under
  the comment "Durable records are the idempotency barrier": a record that is there and
  cannot be loaded is no barrier. The job gets a second sandbox, whose record
  replaces the first. This is an exception of `OneSandboxPerJob` (`misread`), of
  `UntrackedGuestExplained` and of `CredentialsTracked` (`overwritten`).
- The same check takes a record in a terminal phase for a claim. When a runner was given
  another job, `completed` is saved for the job it was made for
  (`reconcile.rs:1076`), and if the process dies before `cleaning` is saved (1003), or
  that save fails, no start resumes the record and no poll dispatches the
  job, queued as it is. `QueuedJobsServed` excepts this state, and is violated without
  the exception.
- Callers may ask for a name again, and exe.dev removes a VM by name. Destroying a
  sandbox a second time (a retry, two requests, a request and the reaper) can
  remove the VM of the next sandbox of that name. `DestroyHitsOwnVm` excepts sandboxes destroyed
  before and those whose VM went some other way (`loose`); it says that one
  destroy, whatever it overlaps with, is safe.
- `ssh` and `scp` are called with `-i` and without `IdentitiesOnly`
  (`lsbx-backend-exedev/src/lib.rs:635`, `guest_ssh.rs:87`), so keys of an agent or of
  the ssh configuration are offered as well. Where such a key opens the account's
  VMs, revoking the sandbox's key does not keep a late `put` or `get` out of the next VM
  of the name. `CommandReachesOwnGuest` claims nothing for such clients
  (`kind = "account"`), nor for Windows guests, which share a key.
- `TerminalGuard::enter` returns an error after `enable_raw_mode` when the alternate
  screen cannot be entered, and nothing leaves raw mode then (`TerminalRestored`
  excepts it, history variable `broken`).

`CapUnlessRevived`, `ShareBounded`, `OneRunnerAtATime`, `GuardsExclude`,
`CommandReachesOwnGuest` and `ArtifactsExplained`, too, hold only with the
exceptions their statements name: a renew racing a destroy writes a record back, and
that record is not counted; a guest whose cleanup failed (`stuck`) may keep its runner;
sandboxes in `overlap`, `lost`, `leaked` or `slipped`; a lock file removed while a guard
is held lets a second process in, since the inode comparison is made only before the guard is granted.
`KeyDirTracked` is checked and proved on exe.dev only. On libvirt it does not hold:
the reaper retires the record of a VM that vanished without `cleanup_keypair`
(`reap.rs:165`), and nothing names the private key directory any more.

## 5. Proofs

`SandboxLifecycleProofs` proves, for any ids, names, actors, durations and bounds
and for both backends, from the named assumptions of SandboxLifecycle (ids are
numbers, the actor sets are disjoint, the "none" values are not real ones):

- `TypeCorrect`: `Spec => []TypeOK`
- `NoVmIsLost`: `Spec => []NoLostVm`
- `UntrackedVmsExplained`: `Spec => []UntrackedVmExplained`
- `KeyDirsTrackedOnExedev`: with `AccountKeys`, `Spec => []KeyDirTracked`
  (without, it does not hold, see section 4)
- `CapIsKept`: if the records `Init` finds (`Legacy`) are within the cap,
  `Spec => []CapUnlessRevived`
- `DestroysHitOwnVm`: `Spec => []DestroyHitsOwnVm`, with names reused at will
- `LifecycleImplementsService`: `Spec => IsSandboxService`, the whole refinement, on
  either backend and with names reused at will

`NoLostVm` is not inductive: that deleting a record is safe depends on what the
deleting actor's earlier calls established, and on nothing that happened since
having brought the VM back. The inductive invariant is the conjunction of `TypeOK`,
`LocalsInv` (what an actor at each step holds), `CreatorInv` (no id is created by two
clients at a time, and none that has a record), `RecordsInv` (recorded ids were saved,
saved ids were used), `NameInv` (a record and an actor's copy name the sandbox's
VM, if it runs, by its name), `GoneInv` (past the backend's answer the sandbox's VM does not
run, though another sandbox may have taken its name), `NoLostVm`,
`UntrackedVmExplained` and `KeyInv`. The key fact is that only `Clone` makes a VM,
for an id no record has yet: a VM once gone never comes back under the same id,
however stale the copy a destroyer works from. The proof has one lemma per action
and one step per conjunct the action disturbs.

`CapIsKept` and `DestroysHitOwnVm` have invariants of their own on top. `CapInv` says that who
is creating holds the gate, and that the records, not counting those written back,
leave a place free for them: every step but the admission and the save of a create
only takes records away (`AddsNothing`), so the number counted at admission is
still good at the save. `OwnVmInv` says, of a sandbox that is not `loose`: until its
destroy begins, the VM under the name that its record and every copy of it has is its
own; from then on one destroyer has a copy, and until that one's `rm` the VM is still
there. The name can pass to another sandbox only after that, and nobody who will
remove anything by it is left. A stale copy in a renewal may bring the record back,
which is why whoever destroys the sandbox again is excepted.

The refinement needs no more than the first invariant. One lemma each says what the few
visible steps are: the request gets its id (`RequestStep`), a clone ends, one way or the
other (`CloneEnds`: `CreatorInv` keeps the stages of all other requests), the record is
saved (`AcknowledgeStep`), a VM goes, whoever removes it and whosesoever it is
(`StopStep`), a record goes (`DelistStep`: by `GoneInv` its VM is gone), a renewal comes
late (`RelistStep`: by `NoLostVm` a saved sandbox without a record does not run). All other
steps, of any actor, keep every stage (`ActorStep`).

`GoldenRegistryProofs` proves for any number of processes, tasks and goldens

- `TypeCorrect`: `Spec => []TypeOK`
- `ManifestIsCurrent`: `Spec => []ManifestCurrent`
- `OnlyDryRunsDuplicate`: `Spec => []DuplicatesOnlyFromDryRuns`
- `GoldenVmsAreExplained`: `Spec => []GoldenVmsExplained`

from the named assumptions on `Home` (a one-shot process has one task) and on the
"none" values. `ManifestCurrent` needs `SnapInv` (what a task writes is what its
process still has in memory: the read lock it holds keeps changes out), `WriterInv`
(unless processes overlap, every writer belongs to the process that began the last
write) and `FileInv` (a file that was written is not missing, so a restarted process
loads it). `DuplicatesOnlyFromDryRuns` has to be said of the file and of what is
being written too (`DupInv`), since entries travel from process to process through
the file. `ActiveInv` says that a task at work belongs to a running process.

`GatewayProofs` proves for any rate, burst, cap and number of requests

- `TypeCorrect`: `Spec => []TypeOK`
- `RateIsBounded`: `Spec => []RateBound`
- `RetryAfterIsHonest`: `Spec => []RetryAfterHonest`
- `NothingIsLeftBehind`: `Spec => []NothingLeftBehind`
- `ShareIsBounded`: `Spec => []ShareBounded`

from the named assumptions on the rate (not zero), the cap, the bounds and `None`.
The limiter and the pipeline are proved apart. `RateBound` speaks of admitted
requests only and is not inductive; `BudgetInv` also counts the tokens left: since
any admitted request, the admissions and the tokens left are at most the burst and
the refill. Time in it is `Filled`, `last_refill` and the seconds by which late checks
moved it back; unlike `last_refill` it never runs back, and an admission's place in it is
its `Phase`. `PromiseInv` says that the bucket and the refill until the promised time
make a token; a late check only adds to that. Both rest on lemmas about products and the
rounded-up division, since
rate and time are multiplied. For the pipeline, `Sound` says what is known of a
request at each step (its door and route), `StampInv` that no check holds a
time still to come, `CopyInv` that a record is in hand exactly between the load and the save
of a renewal, `GateInv`
that a create of the gateway is in its call only under the gate, and that the gate is
held only while a slot is free (a renewal that saves a deleted record adds
it to `back`, so the gateway's share does not grow), `TempInv` that two handlers have
temporary files.

`ConsoleRelayProofs` proves for any amount of data, any buffers and any number of pings

- `RelayImplementsChannel`:
  `Spec => Channel!Init /\ [][Channel!Next]_(Channel!chanVars)`, the safety half of
  `IsDuplexChannel`
- `TypeCorrect`: `Spec => []TypeOK`

from `RelayAssumption`. The n-th item an end sends is n, so `From(s, n)` ("s counts on
from n") says order, loss and repetition at once. `CountInv` says it of what the ends
sent and received; `UpInv` and `DownInv` say that what lies in a socket and in a
future's hand continues the count of what was received, and, while the direction is
still read, that the frames or bytes waiting continue that. `WsInv` is the delicate
part: pings lie between the data frames, so those are not counted by their place but by
having a predecessor. Only a direction that was cut (its end gone, its future ended,
the relay over) may drop what it holds, and then nothing more is taken from it.

`CiBrokerProofs` proves for any jobs, sandboxes and number of failures

- `TypeCorrect`: `Spec => []TypeOK`
- `GuestsAreExplained`: `Spec => []UntrackedGuestExplained`
- `CredentialsAreTracked`: `Spec => []CredentialsTracked`
- `RunnersAreSingle`: `Spec => []OneRunnerAtATime`

from the named assumptions on the "none" values. The first two follow the records: a
guest loses its record only by the deletion that comes after scrub and destroy, or when
a dispatch replaces one that did not load, whatever failed before. The third is about
who has a record open. Call a record open if its sandbox was not given up (`stuck`). At most one
record is open (`OpenInv`), and the broker is at work on it, has it in line to
resume, or is down and will find it in flight, because its phase is not terminal.
A dispatch begins only with nothing left to resume (`QueueInv`), hence with no open
record, and a runner is set up only in a guest that a record names (`RunnerInv`);
so two guests with runners would be two open records. `WorkInv` ties the broker's
copy (`job`, `box`) to the record on disk, `RecordInv` says that no two records name
one sandbox. What the world does by itself (jobs, runners, lost guests) leaves
records alone and is one lemma.

`BrokerIntakeProofs` proves for any jobs, workflow runs, labels, repositories, page
sizes, delays and failures, with and without runners

- `TypeCorrect`: `Spec => []TypeOK`
- `JobsHaveOneSandbox`: `Spec => []OneSandboxPerJob`
- `FallbackJobsWait`: `Spec => FallbackWaits`, an action property

from the named assumptions on the sizes, the worlds, `NoJob`, and that jobs and
repositories are finitely many. `OneSandboxPerJob` speaks of history and says nothing
of why a job is not dispatched again. `DiskInv` does: a job whose sandbox is up has a
record that claims it (`Recorded`: any record with runners, an open one without), unless
its dispatch is between the create and the save or went wrong there (`Unrecorded`). A broker
with runners reads that record before it dispatches, so it takes a record that does not
load to dispatch the job again; and it deletes the record only when the sandbox is gone
(`GoneInv`), through every save of its cleanup and every crash between them. One without
looks at what it remembers, so `MemInv` says the same of `in_flight` for as long as the
process lives: `Boot` has it from the disk, and `TailJob` gives a record up, on disk or
only in memory, when the log shows the end of a job, and then the sandbox is not at work
any more. For `FallbackWaits`, `RipeInv` says that what the tick took for old enough at
its `now` still is, and `FoundInv` that everything the scan has let through so far has
waited, over however many pages, runs and listings it was collected. What lists, pages
and concatenations hold are lemmas of their own (`ListType`, `PageType`, `WantedJobs`,
`ConcatElements`).

All of this is about one broker. That there is no second one is the task of
`broker_lock`, whose guard `run_broker` holds as long as it lives, so the same module
extends LockSentinel, too, and proves for any number of processes and of removals of
the file, from LockSentinel's assumptions on its bound and its "none" values,

- `LockTypeCorrect`: `LockSpec => []LockTypeOK`
- `OneBroker`: `LockSpec => []GuardsExclude`

with `GuardHolds` (a process past flock owns its inode's lock), `GuardCurrent` (the file
of a guard that is not orphaned is the path's) and `GuardRoom` (there is an inode left
whenever a file is created).

`GuestAccessProofs` proves for any sandboxes, names, addresses, actors, processes and
failures and for all four kinds of guest

- `TypeCorrect`: `Spec => []TypeOK`
- `CommandsReachTheirGuest`: `Spec => []CommandReachesOwnGuest`
- `DisksAreKept`: `Spec => []DiskKept`
- `ArtifactsAreExplained`: `Spec => []ArtifactsExplained`
- `OwnCacheIsFresh`: `Spec => []OwnCacheFresh`

from the named assumptions on `None`, `ProcOf` and `Kinds`. The argument goes by
names. A create has its sandbox to itself until the record is saved (`CreatorInv`),
whoever looks for a sandbox looks under its one name (`NameInv`), and two creates or
destroys at work under one name know of each other (`OverlapInv`), since the second
notes the first when it begins. Therefore what a call leaves at its name (a disk and
a seed, `PreparedInv`; a domain, `LateInv`; nothing, `WipeInv`; a cached address,
`InsertInv` and `CacheInv`) is its own sandbox's, or the sandbox it belongs to is
excused. `DiskInv` and `ForgetInv` account for the disks, the second because the
files go before the record does. For commands, `TrustInv` says whose key a Linux
guest took from its seed, `KeyInv` that for kind `ssh` a key on the account belongs to
the VM of that name or the VM was lost.

`TerminalsProofs` proves for any sandboxes and any choices the wizards offer

- `TypeCorrect`: `Spec => []TypeOK`
- `TerminalIsRestored`: `Spec => []TerminalRestored`
- `ExitCodesAreHonest`: `Spec => []ExitCodeHonest`
- `OnlyTheShownIsDone`: `Spec => OnlyWhatWasShown`, an action property

from the named assumptions on the choices and `None`. `GuardInv` says that the guard
object is there from the first mode that is set to the last that is reset,
`FrameInv` that while a key is waited for the frame shows what the key acts on (every
refresh is followed by a drawing before the next key), `CommandInv` that the exit
code is 0 exactly as long as what a command has done and has still to do make up what
it was asked for, `IndexInv` and the finiteness of the store keep indices inside
their lists.

Every inductive invariant was checked by TLC on the instance of the module's run
before it was proved.

Only model-checked:

- all liveness (`ReapConverges`, `OrphanKeysRevoked`, `RecordsResolve`,
  `AcquireReturns`, `PollsForEver`, `QueuedJobsServed` and the liveness half of
  `IsDuplexChannel`): fairness and `ENABLED` are out of the prover's reach;
- the order in which a scan goes through repositories, labels and statuses (`Plan`, made
  with `FlattenSeq`): the proofs hold for whatever plan there is; that the plan visits
  everything is part of `QueuedJobsServed`.

## 6. Not modelled

- *demo and testkit backends*: an in-memory stand-in and the conformance suite.
- *bootstrap*: unit files and host probes, sequential I/O.
- *transports*: the russh session with its trust-on-first-use file, retries inside a
  session, the bytes of the HTTP fallback; GuestAccess keeps which VM they reach.
- *domain XML, disk image formats, key generation, JWT signing*: pure conversions
  or external tools.
- *binding the gateway's listeners* (`enforce_fail_closed_bind`, `run_server`): one
  check before the server exists.
- *argument parsing, output formatting, rendering, JSON schemas, MCP error mapping*:
  stateless conversions without a property of the kind checked here.

## 7. Plan

Done: every module, and proofs for all of them. Every safety property a run checks, the
safety half of both refinements included, is a theorem. Left:

1. GoldenRegistry: an abstract registry that one process alone implements, and the
   refinement proved.
2. CiBroker over SandboxService: there a create is one step, in the service it is at
   least three, so the broker's model would have to be split at its calls.
