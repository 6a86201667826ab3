----------------------------- MODULE BrokerIntake -----------------------------
(***************************************************************************)
(* How work reaches the CI broker (lsbx-broker): the Poller, the GitHub    *)
(* client it asks page by page, the App's installation token, the rules    *)
(* that make a job eligible, and the loop of run_broker that decides what  *)
(* to dispatch.  Module CiBroker takes it from there for a broker that     *)
(* provisions runners; a broker without App credentials stops at dispatch  *)
(* and tails the runner log of the sandboxes it made.                      *)
(*                                                                         *)
(* GitHub's lists change between the calls of one scan, so a job may be    *)
(* listed twice, or not at all.  A call may fail, the token runs out, and  *)
(* systemd (Restart=on-failure) starts a broker that ended.                *)
(***************************************************************************)
EXTENDS Integers, SequencesExt, FiniteSetsExt

CONSTANTS
    Jobs,            \* job ids; a later job has a larger id
    Worlds,          \* how jobs may belong to workflow runs (numbers), and
                     \* which of them have a created_at that does not parse
    LabelsOf,        \* the labels of a job
    Repos,           \* repositories (numbers)
    RepoOf,          \* the repository of a run
    QueueLabels,     \* PollConfig.queue_labels, a sequence
    FallbackLabel,   \* FALLBACK_QUEUE_LABEL
    FallbackDelay,   \* in units of time, as are the next two
    RefreshInterval,
    TokenLife,
    Deployments,     \* the configurations of interest, see Init
    PerPage,
    MaxFaults,       \* bound on failing calls, crashes and lost sandboxes
    MaxMisreads,     \* bound on the jobs whose record fails to load
    NoJob

ASSUME SizesAssumption ==
    /\ FallbackDelay \in Nat /\ RefreshInterval \in Nat
    /\ MaxFaults \in Nat /\ MaxMisreads \in Nat
    /\ PerPage \in Nat \ {0}
    /\ TokenLife \in Nat /\ TokenLife > 1
ASSUME WorldAssumption ==
    /\ Deployments \subseteq [app : BOOLEAN, runner : BOOLEAN, static : BOOLEAN]
    /\ Worlds \subseteq [runOf : [Jobs -> Nat], undated : SUBSET Jobs]
ASSUME JobsAssumption == Jobs \subseteq Nat /\ NoJob \notin Jobs
ASSUME FiniteAssumption == IsFiniteSet(Jobs) /\ IsFiniteSet(Repos)

Never == RefreshInterval + 1   \* last_repo_refresh = None

VARIABLES
    world,     \* GitHub: one of Worlds
    app,       \* the client: App installation (TRUE) or the gh command
    runner,    \* config.runner is set: run_runner_broker
    static,    \* config.repos is set
    status,    \* GitHub: "absent", "queued", "running" or "done"
    age,       \* GitHub: time a queued job has waited, up to FallbackDelay
    installed, \* GitHub: the repositories the installation can access
    guest,     \* the last sandbox made for a job: "none", "up", "over", "gone"
    disk,      \* the job's CiJobRecord: "none", "open" or "terminal"
    mem,       \* in_flight, by job: "none", "open" or "terminal"
    token,     \* what is left of the installation token's life
    known, refreshed, \* Poller: repos, age of last_repo_refresh (or Never)
    pc,        \* the broker's next call
    ripe,      \* jobs at least FallbackDelay old at the `now` of this tick
    plan,      \* (repository, label, status) still to scan, this one included
    page, got, \* paging: number of the next page, items so far
    runs,      \* runs whose jobs are still to be listed
    found,     \* the tick's result so far
    cur,       \* the job being dispatched or run
    tailing,   \* in-flight jobs still to be tailed, or to be resumed
    passed,    \* time has passed since the last sleep or job
    faults,
    unsaved,   \* history: jobs with a sandbox that got no record
    misread,   \* history: jobs dispatched because their record did not load
    doubled    \* history: jobs given a sandbox while an earlier one was up

config  == <<world, app, runner, static>>
github  == <<status, age, installed>>
scan    == <<ripe, plan, page, got, runs, found>>
memory  == <<mem, token, known, refreshed, cur, tailing, scan>>
history == <<unsaved, misread, doubled>>
vars == <<config, github, guest, disk, memory, pc, passed, faults, history>>

Failure == faults < MaxFaults /\ faults' = faults + 1

\* App credentials select the App client and then RunnerConfig::from_env must
\* succeed, too; its values may also come from the runner's env file alone.  The
\* gh client only works with the repositories listed.
Configurable == (app => runner) /\ (~app => static)

Init ==
    /\ \E d \in Deployments : app = d.app /\ runner = d.runner /\ static = d.static
    /\ Configurable
    /\ world \in Worlds
    /\ status = [j \in Jobs |-> "absent"] /\ age = [j \in Jobs |-> 0]
    /\ installed = IF static THEN Repos ELSE {}
    /\ guest = [j \in Jobs |-> "none"]
    /\ disk = [j \in Jobs |-> "none"] /\ mem = [j \in Jobs |-> "none"]
    /\ token = 0 /\ known = <<>> /\ refreshed = Never
    /\ pc = "down" /\ ripe = {} /\ plan = <<>> /\ page = 1 /\ got = <<>>
    /\ runs = <<>> /\ found = <<>> /\ cur = NoJob /\ tailing = {}
    /\ passed = FALSE /\ faults = 0
    /\ unsaved = {} /\ misread = {} /\ doubled = {}

-----------------------------------------------------------------------------
(* GitHub and time.                                                        *)

RunStatus(r) ==
    LET js == {status[j] : j \in {k \in Jobs : world.runOf[k] = r}} \ {"absent"}
    IN  CASE js = {} -> "absent"
          [] js = {"queued"} -> "queued"
          [] js = {"done"} -> "completed"
          [] OTHER -> "in_progress"

\* The lists of a set that GitHub may return: oldest first, or newest first.
Ascending(S)  == {s \in SetToSeqs(S) : \A i, k \in DOMAIN s : i < k => s[i] < s[k]}
Descending(S) == {s \in SetToSeqs(S) : \A i, k \in DOMAIN s : i < k => s[i] > s[k]}

JobAppears(j) ==
    /\ status[j] = "absent"
    /\ status' = [status EXCEPT ![j] = "queued"]
    /\ UNCHANGED <<config, age, installed, guest, disk, memory, pc, passed, faults, history>>

\* Some runner with the job's labels takes it.
JobStarts(j) ==
    /\ status[j] = "queued"
    /\ status' = [status EXCEPT ![j] = "running"]
    /\ UNCHANGED <<config, age, installed, guest, disk, memory, pc, passed, faults, history>>

\* The runner was one in a sandbox, made for whichever job, or another one.
JobEnds(j) ==
    /\ status[j] = "running"
    /\ status' = [status EXCEPT ![j] = "done"]
    /\ \/ UNCHANGED guest
       \/ \E k \in Jobs : guest[k] = "up" /\ guest' = [guest EXCEPT ![k] = "over"]
    /\ UNCHANGED <<config, age, installed, disk, memory, pc, passed, faults, history>>

Installed(r) ==
    /\ r \notin installed
    /\ installed' = installed \cup {r}
    /\ UNCHANGED <<config, status, age, guest, disk, memory, pc, passed, faults, history>>

\* Where the broker may stay for long: down, or in run_runner_job.
AtLeisure == pc \in {"down", "job"}

\* A scan is short beside the unit of time: one boundary at most falls into it.
TimePasses ==
    /\ ~passed \/ AtLeisure
    /\ passed' = ~AtLeisure
    /\ age' = [j \in Jobs |-> IF status[j] = "queued" /\ age[j] < FallbackDelay
                              THEN age[j] + 1 ELSE age[j]]
    /\ token' = IF token = 0 THEN 0 ELSE token - 1
    /\ refreshed' = IF refreshed < RefreshInterval THEN refreshed + 1 ELSE refreshed
    /\ UNCHANGED <<config, status, installed, guest, disk, mem, known, cur, tailing,
                   scan, pc, faults, history>>

\* The reaper, or the host, takes a sandbox away.
GuestLost(j) ==
    /\ guest[j] = "up"
    /\ guest' = [guest EXCEPT ![j] = "gone"]
    /\ Failure
    /\ UNCHANGED <<config, github, disk, memory, pc, passed, history>>

-----------------------------------------------------------------------------
(* The process starts and ends.                                            *)

\* What a tick knows ends with it.
Forget == ripe' = {} /\ plan' = <<>> /\ page' = 1 /\ got' = <<>> /\ runs' = <<>> /\ found' = <<>>

\* The process is gone, and with it everything it had in memory.
Exit ==
    /\ pc' = "down"
    /\ mem' = [j \in Jobs |-> "none"] /\ token' = 0 /\ known' = <<>> /\ refreshed' = Never
    /\ cur' = NoJob /\ tailing' = {} /\ Forget

\* systemd starts the broker: from_app_auth exchanges the App's JWT for an
\* installation token, once; Poller::new; list_in_flight.
Boot ==
    /\ pc = "down"
    /\ pc' = "startup"
    /\ token' = IF app THEN TokenLife ELSE 0
    /\ known' \in IF static THEN Ascending(Repos) ELSE {<<>>}
    /\ mem' = [j \in Jobs |-> IF disk[j] = "open" THEN "open" ELSE "none"]
    /\ tailing' = {j \in Jobs : mem'[j] = "open"}
    /\ passed' = FALSE
    /\ UNCHANGED <<config, github, guest, disk, refreshed, cur, scan, faults, history>>

Crash ==
    /\ pc # "down"
    /\ Failure /\ Exit
    /\ unsaved' = unsaved \cup (IF pc = "save" THEN {cur} ELSE {})
    /\ UNCHANGED <<config, github, guest, disk, passed, misread, doubled>>

-----------------------------------------------------------------------------
(* One tick of the poller.                                                 *)

\* Mutant: the interval counts from the wrong end.
RepoRefreshDue_Inverted == refreshed <= RefreshInterval

RepoRefreshDue == refreshed >= RefreshInterval

\* The (repository, label, status) triples of a tick in the order of the loops.
Plan(repos) ==
    FlattenSeq([i \in DOMAIN repos |->
        FlattenSeq([k \in DOMAIN QueueLabels |->
            << <<repos[i], QueueLabels[k], "queued">>,
               <<repos[i], QueueLabels[k], "in_progress">> >>])])

\* The next listing of the scan, or its end.
Goto(rest) ==
    /\ plan' = rest
    /\ pc' = IF rest = <<>> THEN "claim" ELSE "runs"
    /\ page' = 1 /\ got' = <<>> /\ runs' = <<>>

\* queued_age_seconds at the `now` of the tick.
Ripe == {j \in Jobs : status[j] = "queued" /\ age[j] >= FallbackDelay}

StartTick ==
    /\ pc = "tick"
    /\ ripe' = Ripe
    /\ found' = <<>>
    /\ IF ~static /\ RepoRefreshDue
       THEN pc' = "repos" /\ page' = 1 /\ got' = <<>> /\ runs' = <<>> /\ plan' = <<>>
       ELSE Goto(Plan(known))
    /\ UNCHANGED <<config, github, guest, disk, mem, token, known, refreshed, cur, tailing,
                   passed, faults, history>>

Authorized == app => token > 0

\* Page `page` of what GitHub lists now, and whether the client stops after it:
\* it has total_count items, or the page was empty.
PageOf(list) == SubSeq(list, (page - 1) * PerPage + 1,
                       IF page * PerPage < Len(list) THEN page * PerPage ELSE Len(list))
LastPage(list) == Len(got \o PageOf(list)) >= Len(list) \/ PageOf(list) = <<>>

\* installation_repositories: as known repositories only once all are listed.
ListRepos ==
    /\ pc = "repos" /\ Authorized
    /\ \E list \in Ascending(installed) :
        IF LastPage(list)
        THEN /\ known' = got \o PageOf(list) /\ refreshed' = 0
             /\ Goto(Plan(got \o PageOf(list)))
        ELSE /\ got' = got \o PageOf(list) /\ page' = page + 1
             /\ UNCHANGED <<known, refreshed, plan, pc, runs>>
    /\ UNCHANGED <<config, github, guest, disk, mem, token, cur, tailing, ripe, found,
                   passed, faults, history>>

\* workflow_runs(repo, status), newest first.
ListRuns ==
    /\ pc = "runs" /\ Authorized
    /\ \E list \in Descending({r \in {world.runOf[j] : j \in Jobs} :
                    RepoOf[r] = Head(plan)[1] /\ RunStatus(r) = Head(plan)[3]}) :
        LET all == got \o PageOf(list) IN
        IF ~LastPage(list)
        THEN got' = all /\ page' = page + 1 /\ UNCHANGED <<plan, pc, runs>>
        ELSE IF all = <<>>
        THEN Goto(Tail(plan))
        ELSE pc' = "jobs" /\ runs' = all /\ page' = 1 /\ got' = <<>> /\ UNCHANGED plan
    /\ UNCHANGED <<config, github, guest, disk, mem, token, known, refreshed, cur, tailing,
                   ripe, found, passed, faults, history>>

Configured(j) == LabelsOf[j] \cap ToSet(QueueLabels)

\* Mutant: a job whose created_at does not parse counts as old enough.
IsEligible_FailsOpen(j) ==
    \/ Configured(j) \ {FallbackLabel} # {}
    \/ FallbackLabel \in Configured(j) /\ j \in ripe \cup world.undated

\* is_eligible: a configured label of its own, or the fallback label and a
\* created_at far enough in the past.
IsEligible(j) ==
    \/ Configured(j) \ {FallbackLabel} # {}
    \/ FallbackLabel \in Configured(j) /\ j \in ripe \ world.undated

\* queued_jobs's and tick's filters.
Wanted(j) == status[j] = "queued" /\ Head(plan)[2] \in LabelsOf[j] /\ IsEligible(j)

\* run_jobs of the next run.
ListJobs ==
    /\ pc = "jobs" /\ Authorized
    /\ \E list \in Ascending({j \in Jobs : world.runOf[j] = Head(runs) /\ status[j] # "absent"}) :
        /\ \E wanted \in Ascending({j \in ToSet(PageOf(list)) : Wanted(j)}) :
             found' = found \o wanted
        /\ IF ~LastPage(list)
           THEN got' = got \o PageOf(list) /\ page' = page + 1 /\ UNCHANGED <<plan, pc, runs>>
           ELSE IF Len(runs) > 1
           THEN runs' = Tail(runs) /\ page' = 1 /\ got' = <<>> /\ UNCHANGED <<plan, pc>>
           ELSE Goto(Tail(plan))
    /\ UNCHANGED <<config, github, guest, disk, mem, token, known, refreshed, cur, tailing,
                   ripe, passed, faults, history>>

-----------------------------------------------------------------------------
(* Errors of a poll.                                                       *)

\* Mutant: a rejected token is retried like an outage.
IsRetryablePollError_Auth(e) == e \in {"BackendUnavailable", "AuthFailed"}

IsRetryablePollError(e) == e = "BackendUnavailable"

\* The errors a GitHub call may end in.  A rejected token is AuthFailed; every
\* other error status, and a rate limit, is BackendUnavailable (error_map.rs);
\* the gh command's own failure is AuthFailed whatever the reason.
Errors == {"BackendUnavailable", "ContractViolated"} \cup (IF app THEN {} ELSE {"AuthFailed"})

PollError(e) ==
    IF IsRetryablePollError(e)
    THEN pc' = "sleep" /\ Forget /\ UNCHANGED <<mem, token, known, refreshed, cur, tailing>>
    ELSE Exit

PollFails(e) ==
    /\ pc \in {"repos", "runs", "jobs"} /\ Authorized
    /\ Failure /\ PollError(e)
    /\ UNCHANGED <<config, github, guest, disk, passed, history>>

TokenRejected ==
    /\ pc \in {"repos", "runs", "jobs"} /\ ~Authorized
    /\ PollError("AuthFailed")
    /\ UNCHANGED <<config, github, guest, disk, passed, faults, history>>

-----------------------------------------------------------------------------
(* Dispatch.                                                               *)

\* Mutant: nothing is remembered of what was dispatched.
Claimed_Never(j) == FALSE

\* What keeps a listed job from being dispatched: with runners any record of it
\* that loads, without them an in-flight record that is not terminal.
Claimed(j) == IF runner THEN disk[j] # "none" ELSE mem[j] = "open"

Skip ==
    /\ pc = "claim" /\ found # <<>> /\ Claimed(Head(found))
    /\ found' = Tail(found)
    /\ UNCHANGED <<config, github, guest, disk, mem, token, known, refreshed, cur, tailing,
                   ripe, plan, page, got, runs, pc, passed, faults, history>>

\* dispatch's LsbxOps::create succeeds.
Create(j) ==
    /\ guest' = [guest EXCEPT ![j] = "up"]
    /\ doubled' = doubled \cup {k \in {j} : guest[k] = "up"}
    /\ cur' = j /\ pc' = "save"

\* dispatch, or its failure, after which the job is passed over.
Dispatch ==
    /\ pc = "claim" /\ found # <<>> /\ ~Claimed(Head(found))
    /\ \/ Create(Head(found)) /\ UNCHANGED faults
       \/ Failure /\ UNCHANGED <<guest, doubled, cur, pc>>
    /\ found' = Tail(found)
    /\ UNCHANGED <<config, github, disk, mem, token, known, refreshed, tailing,
                   ripe, plan, page, got, runs, passed, unsaved, misread>>

\* With runners any error of load counts as "no record": a record that is there but
\* does not load lets the job be dispatched a second time.
DispatchMisread ==
    /\ pc = "claim" /\ found # <<>> /\ runner /\ disk[Head(found)] # "none"
    /\ Cardinality(misread) < MaxMisreads
    /\ Create(Head(found))
    /\ misread' = misread \cup {Head(found)}
    /\ found' = Tail(found)
    /\ UNCHANGED <<config, github, disk, mem, token, known, refreshed, tailing,
                   ripe, plan, page, got, runs, passed, faults, unsaved>>

\* dispatch, continued: the record is saved; a broker with runners goes on to
\* run_runner_job and drops the rest of the list.
SaveRecord ==
    /\ pc = "save"
    /\ disk' = [disk EXCEPT ![cur] = "open"]
    /\ IF runner
       THEN pc' = "job" /\ Forget /\ UNCHANGED <<mem, cur>>
       ELSE /\ pc' = "claim" /\ mem' = [mem EXCEPT ![cur] = "open"] /\ cur' = NoJob
            /\ UNCHANGED scan
    /\ UNCHANGED <<config, github, guest, token, known, refreshed, tailing, passed, faults,
                   history>>

SaveFails ==
    /\ pc = "save" /\ Failure
    /\ unsaved' = unsaved \cup {cur}
    /\ pc' = "claim" /\ cur' = NoJob
    /\ UNCHANGED <<config, github, guest, disk, mem, token, known, refreshed, tailing, scan,
                   passed, misread, doubled>>

Claims ==
    /\ pc = "claim" /\ found = <<>>
    /\ pc' = IF runner THEN "sleep" ELSE "tail"
    /\ tailing' = {j \in Jobs : ~runner /\ mem[j] = "open"}
    /\ Forget
    /\ UNCHANGED <<config, github, guest, disk, mem, token, known, refreshed, cur, passed,
                   faults, history>>

\* The markers in the runner's log say that a job is over.
LogShowsEnd(j) == guest[j] = "over"

\* run_runner_job (module CiBroker) ends: well, once the runner's log or the status
\* of the job shows an end, and "completed" is saved; or with an error (deadlines
\* among them), or the save fails, and the phase stays what it was.
Settle ==
    /\ pc = "job"
    /\ pc' = "cleaning"
    /\ \/ /\ LogShowsEnd(cur) \/ status[cur] = "done"
          /\ disk' = [disk EXCEPT ![cur] = "terminal"]
       \/ UNCHANGED disk
    /\ UNCHANGED <<config, github, guest, memory, passed, faults, history>>

\* The job is dealt with or given up: on to the next record, or the next poll.
EndJob == pc' = "resume" /\ cur' = NoJob

\* cleanup_runner saves "cleaning", or that fails and so does the cleanup ...
BeginCleanup ==
    /\ pc = "cleaning"
    /\ \/ /\ disk' = [disk EXCEPT ![cur] = "open"]
          /\ pc' = "destroy" /\ UNCHANGED <<cur, faults>>
       \/ Failure /\ EndJob /\ UNCHANGED disk
    /\ UNCHANGED <<config, github, guest, mem, token, known, refreshed, tailing, scan,
                   passed, history>>

\* ... scrubs and destroys the guest; if one of the two fails the record stays ...
Destroy ==
    /\ pc = "destroy"
    /\ \/ /\ guest' = [guest EXCEPT ![cur] = "gone"]
          /\ pc' = "delete" /\ UNCHANGED <<cur, faults>>
       \/ /\ Failure /\ EndJob
          /\ guest' \in {guest, [guest EXCEPT ![cur] = "gone"]}
    /\ UNCHANGED <<config, github, disk, mem, token, known, refreshed, tailing, scan,
                   passed, history>>

\* ... and deletes the record last.
DeleteRecord ==
    /\ pc = "delete"
    /\ \/ disk' = [disk EXCEPT ![cur] = "none"] /\ UNCHANGED faults
       \/ Failure /\ UNCHANGED disk
    /\ EndJob
    /\ UNCHANGED <<config, github, guest, mem, token, known, refreshed, tailing, scan,
                   passed, history>>

\* The next record that reconcile_on_startup returned: run_runner_job saves a phase
\* of its own, whatever the tail had made of it, before the work begins.
Resume(j) ==
    /\ pc = "resume" /\ j \in tailing
    /\ tailing' = tailing \ {j} /\ cur' = j /\ pc' = "job"
    /\ \/ disk' = [disk EXCEPT ![j] = "open"] /\ UNCHANGED faults
       \/ Failure /\ UNCHANGED disk
    /\ UNCHANGED <<config, github, guest, mem, token, known, refreshed, scan, passed, history>>

Resumed ==
    /\ pc = "resume" /\ tailing = {}
    /\ pc' = "tick"
    /\ UNCHANGED <<config, github, guest, disk, memory, passed, faults, history>>

\* Mutant: the log's own word is saved as the phase.
TailJob_Raw(j) ==
    /\ pc \in {"startup", "tail"} /\ j \in tailing
    /\ tailing' = tailing \ {j}
    /\ disk' = [disk EXCEPT ![j] = guest[j]] /\ mem' = [mem EXCEPT ![j] = guest[j]]
    /\ UNCHANGED <<config, github, guest, token, known, refreshed, cur, scan, pc, passed,
                   faults, history>>

\* tail_and_update, of every in-flight record at startup and, without runners, after
\* every poll: a log that shows the end of a job makes the record terminal, in
\* memory even if the save fails; one that cannot be read changes nothing.
\* (check_divergence, which follows, sets a flag this loop does not read: module
\* CiBroker.)
TailJob(j) ==
    /\ pc \in {"startup", "tail"} /\ j \in tailing
    /\ tailing' = tailing \ {j}
    /\ \/ /\ IF LogShowsEnd(j)
             THEN disk' = [disk EXCEPT ![j] = "terminal"] /\ mem' = [mem EXCEPT ![j] = "terminal"]
             ELSE UNCHANGED <<disk, mem>>
          /\ UNCHANGED faults
       \/ /\ Failure /\ UNCHANGED disk
          /\ \/ UNCHANGED mem
             \/ LogShowsEnd(j) /\ mem' = [mem EXCEPT ![j] = "terminal"]
    /\ UNCHANGED <<config, github, guest, token, known, refreshed, cur, scan, pc, passed,
                   history>>

\* All are tailed.  With runners reconcile_on_startup returns its list, the records
\* it found ended included, to be resumed one by one.
Tailed ==
    /\ pc \in {"startup", "tail"} /\ tailing = {}
    /\ IF runner
       THEN /\ pc' = "resume"
            /\ tailing' = {j \in Jobs : mem[j] # "none"}
            /\ mem' = [j \in Jobs |-> "none"]
       ELSE /\ pc' = IF pc = "startup" THEN "tick" ELSE "sleep"
            /\ UNCHANGED <<tailing, mem>>
    /\ UNCHANGED <<config, github, guest, disk, token, known, refreshed, cur, scan, passed,
                   faults, history>>

\* The poll interval; time may pass.
Sleep ==
    /\ pc = "sleep"
    /\ pc' = "tick" /\ passed' = FALSE
    /\ UNCHANGED <<config, github, guest, disk, memory, faults, history>>

-----------------------------------------------------------------------------

BrokerStep ==
    \/ Boot \/ StartTick \/ ListRepos \/ ListRuns \/ ListJobs \/ TokenRejected
    \/ Skip \/ Dispatch \/ SaveRecord \/ Claims \/ Tailed \/ Sleep
    \/ Settle \/ BeginCleanup \/ Destroy \/ DeleteRecord \/ Resumed
    \/ \E j \in Jobs : Resume(j) \/ TailJob(j)

GitHubStep ==
    \/ \E j \in Jobs : JobAppears(j) \/ JobStarts(j) \/ JobEnds(j)
    \/ \E r \in Repos : Installed(r)

Next ==
    \/ BrokerStep \/ GitHubStep \/ TimePasses
    \/ DispatchMisread \/ SaveFails \/ Crash
    \/ \E e \in Errors : PollFails(e)
    \/ \E j \in Jobs : GuestLost(j)

Spec == Init /\ [][Next]_vars

\* The broker goes on as long as the host does, systemd restarts it, and time
\* passes.
FairSpec == Spec /\ WF_vars(BrokerStep) /\ WF_vars(TimePasses)

-----------------------------------------------------------------------------

TypeOK ==
    /\ app \in BOOLEAN /\ runner \in BOOLEAN /\ static \in BOOLEAN /\ world \in Worlds
    /\ status \in [Jobs -> {"absent", "queued", "running", "done"}]
    /\ age \in [Jobs -> 0 .. FallbackDelay]
    /\ installed \subseteq Repos
    /\ guest \in [Jobs -> {"none", "up", "over", "gone"}]
    /\ disk \in [Jobs -> {"none", "open", "terminal"}]
    /\ mem \in [Jobs -> {"none", "open", "terminal"}]
    /\ token \in 0 .. TokenLife
    /\ known \in Seq(Repos) /\ refreshed \in 0 .. Never
    /\ pc \in {"down", "startup", "tick", "repos", "runs", "jobs", "claim", "save", "job",
               "cleaning", "destroy", "delete", "resume", "tail", "sleep"}
    /\ ripe \subseteq Jobs /\ found \in Seq(Jobs)
    /\ cur \in Jobs \cup {NoJob} /\ tailing \subseteq Jobs
    /\ faults \in 0 .. MaxFaults
    /\ unsaved \subseteq Jobs /\ misread \subseteq Jobs /\ doubled \subseteq Jobs

\* A job has two sandboxes at work only if one of them never got its record
\* (the save failed, or the process died before it) or its record was there and
\* did not load: however often a changing list names a job, and across restarts
\* and failed cleanups, run_broker dispatches it once until the log of its runner
\* shows the end of a job.
OneSandboxPerJob == doubled \subseteq unsaved \cup misread

\* No job that only the fallback label matches is dispatched before it has been
\* queued for the fallback delay, whatever its labels and timestamps are: the
\* hosts with a dedicated label have had their time (is_eligible).
FallbackWaits ==
    [][\A j \in Jobs : pc = "claim" /\ pc' = "save" /\ cur' = j =>
        \/ Configured(j) \ {FallbackLabel} # {}
        \/ j \notin world.undated /\ age[j] >= FallbackDelay]_vars

\* The broker never stops polling for good: after an expired token, an outage
\* or a crash there is another tick that lists every repository to the end.
PollsForEver == []<>(pc = "claim")

Visible(j) ==
    /\ status[j] = "queued"
    /\ IF static THEN TRUE ELSE RepoOf[world.runOf[j]] \in installed
    /\ \/ Configured(j) \ {FallbackLabel} # {}
       \/ Configured(j) # {} /\ j \notin world.undated

\* A job that stays queued has its record, hence a sandbox, again and again: it is
\* not overlooked for ever by shifting pages or a repository list that is out of
\* date.  With runners the broker takes one job at a time, newest first, so other
\* jobs may keep it busy; and a record left in a terminal phase (the job's runner
\* was given another job, "completed" was saved, and then the process died or
\* "cleaning" could not be saved) is one that no startup resumes and every poll
\* takes for a claim: that job is passed over for ever.
QueuedJobsServed ==
    \A j \in Jobs :
        <>[]Visible(j) => []<>(\/ disk[j] = "open"
                               \/ runner /\ disk[j] = "terminal"
                               \/ runner /\ cur \notin {j, NoJob})
=============================================================================
