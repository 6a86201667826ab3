------------------------------- MODULE CiBroker -------------------------------
(***************************************************************************)
(* The CI broker of lsbx (lsbx-broker): it polls GitHub for queued Actions *)
(* jobs, gives each a fresh sandbox, provisions an ephemeral runner in it  *)
(* with the GitHub App's key, watches the job and scrubs and destroys the  *)
(* sandbox again.  Its only memory across restarts is one CiJobRecord per  *)
(* job.  GitHub hands a job to any runner with its label, so the runner    *)
(* made for one job may get another.                                       *)
(*                                                                         *)
(* There is one broker: ci-broker.lock, held for the life of the process,  *)
(* keeps a second one out (module LockSentinel).  pc names the call it     *)
(* makes next; a crash at any point is followed by a restart.              *)
(***************************************************************************)
EXTENDS Naturals, FiniteSets

CONSTANTS
    Jobs,        \* Actions jobs carrying the broker's label
    Sandboxes,   \* sandbox ids; the bound on how many are ever made
    MaxFaults,   \* bound on failing calls, crashes and lost sandboxes
    NoJob, NoBox, NoCi

ASSUME BoxesAreNumbers == Sandboxes \subseteq Nat /\ NoBox \notin Sandboxes
ASSUME JobsAssumption  == NoJob \notin Jobs /\ MaxFaults \in Nat

Terminal == {"completed", "failed"}
Phases == Terminal \cup {"dispatched", "provisioning", "waiting_runner", "running",
                         "registered", "listening", "cleaning"}
CiRecord == [sandbox : Sandboxes, phase : Phases, diverged : BOOLEAN]
ASSUME NoCiIsNoRecord == NoCi \notin CiRecord

VARIABLES
    ci,       \* <state_dir>/ci-broker/<job>.json
    gh,       \* GitHub's status (and conclusion) of a job
    taken,    \* jobs GitHub has named a runner for
    sbx,      \* "unused", "live" or "gone"
    runner,   \* how far the Actions runner in a sandbox is
    runs,     \* the job that runner was given
    logs,     \* sandboxes whose runner log exists
    marked,   \* sandboxes whose runner log repeats "Runner registered:"
    creds,    \* sandboxes that hold the App's private key
    pc, job, box, \* the broker: next call, job and sandbox it works on
    div, ok, clean, \* record.diverged, how monitoring ended, how the scrub went
    todo,     \* records to tail at startup, then the jobs of the last poll
    resume,   \* records to resume
    faults,
    stray,    \* history: sandboxes made for a job that never got a record
    overwritten, \* history: sandboxes whose record, unreadable, was replaced
    stuck     \* history: sandboxes a failed cleanup, a crash after a terminal
              \* phase was saved, or an unreadable record left behind

github  == <<gh, taken>>
guests  == <<sbx, runner, runs, logs, marked, creds>>
working == <<job, box, div, ok, clean>>
history == <<stray, overwritten, stuck>>
vars == <<ci, github, guests, pc, working, todo, resume, faults, history>>

Init ==
    /\ ci = [j \in Jobs |-> NoCi]
    /\ gh = [j \in Jobs |-> "queued"] /\ taken = {}
    /\ sbx = [s \in Sandboxes |-> "unused"]
    /\ runner = [s \in Sandboxes |-> "none"]
    /\ runs = [s \in Sandboxes |-> NoJob]
    /\ logs = {} /\ marked = {} /\ creds = {}
    /\ pc = "down" /\ job = NoJob /\ box = NoBox
    /\ div = FALSE /\ ok = FALSE /\ clean = FALSE
    /\ todo = {} /\ resume = {} /\ faults = 0 /\ stray = {}
    /\ overwritten = {} /\ stuck = {}

Live(s)     == s \in Sandboxes /\ sbx[s] = "live"
Readable(s) == Live(s) /\ s \in logs
Finished(j) == gh[j] \in {"success", "failure"}
InFlight    == {j \in Jobs : ci[j] # NoCi /\ ci[j].phase \notin Terminal}
Failure     == faults < MaxFaults /\ faults' = faults + 1

\* What the runner log shows: a runner configured anew has not replaced the log
\* of the one before it yet.
Shows(s) == IF runner[s] = "reconfigured" THEN "done" ELSE runner[s]

\* job_store.save of the broker's copy of the record.
SavePhase(phase) == ci' = [ci EXCEPT ![job].phase = phase, ![job].diverged = div]

\* The job is dealt with or given up: on to the next record or poll.
EndJob ==
    /\ pc' = "resume"
    /\ job' = NoJob /\ box' = NoBox /\ div' = FALSE /\ ok' = FALSE /\ clean' = FALSE

-----------------------------------------------------------------------------
(* Startup: reconcile_on_startup, then run_runner_job for what it returned. *)

\* Mutant: the restarted broker goes straight to polling.
Start_NoResume ==
    /\ pc = "down"
    /\ pc' = "poll"
    /\ UNCHANGED <<ci, github, guests, working, todo, resume, faults, history>>

\* run_broker with ci-broker.lock taken: list_in_flight skips terminal records.
Start ==
    /\ pc = "down"
    /\ pc' = "tail"
    /\ todo' = InFlight /\ resume' = InFlight
    /\ UNCHANGED <<ci, github, guests, working, faults, history>>

\* Mutant: the log's own word is saved as the phase.
TailPhase_Raw(s, phase) == IF Readable(s) THEN Shows(s) ELSE phase

\* tail_and_update: the phase the runner log, read from its start, leads to.
TailPhase(s, phase) ==
    CASE ~Readable(s) -> phase
      [] Shows(s) \in {"starting", "quit"} ->
           IF s \in marked /\ phase # "running" THEN "registered" ELSE phase
      [] Shows(s) \in {"listening", "exited"} -> "listening"
      [] Shows(s) = "busy" -> "running"
      [] Shows(s) = "done" -> IF gh[runs[s]] = "success" THEN "completed" ELSE "failed"
      [] OTHER -> phase

\* One record is tailed; when the log cannot be read only last_error changes.
Tail(j) ==
    /\ pc = "tail" /\ j \in todo
    /\ todo' = todo \ {j}
    /\ \/ /\ ci' = [ci EXCEPT ![j].phase = TailPhase(ci[j].sandbox, @)]
          /\ UNCHANGED faults
       \/ Failure /\ UNCHANGED ci
    /\ UNCHANGED <<github, guests, pc, working, resume, history>>

TailDone ==
    /\ pc = "tail" /\ todo = {}
    /\ pc' = "resume"
    /\ UNCHANGED <<ci, github, guests, working, todo, resume, faults, history>>

ResumeNext(j) ==
    /\ pc = "resume" /\ j \in resume
    /\ resume' = resume \ {j}
    /\ job' = j /\ box' = ci[j].sandbox /\ div' = ci[j].diverged
    /\ pc' = "inspect"
    /\ UNCHANGED <<ci, github, guests, ok, clean, todo, faults, history>>

ResumeDone ==
    /\ pc = "resume" /\ resume = {}
    /\ pc' = "poll"
    /\ UNCHANGED <<ci, github, guests, working, todo, resume, faults, history>>

-----------------------------------------------------------------------------
(* Poll and dispatch.                                                      *)

\* Poller::tick: the queued jobs that are eligible by now.
Poll(eligible) ==
    /\ pc = "poll"
    /\ eligible \subseteq {j \in Jobs : gh[j] = "queued"}
    /\ todo' = eligible
    /\ pc' = "claim"
    /\ UNCHANGED <<ci, github, guests, working, resume, faults, history>>

\* A poll error other than BackendUnavailable ends the process.
PollFails ==
    /\ pc = "poll"
    /\ Failure
    /\ pc' = "down"
    /\ UNCHANGED <<ci, github, guests, working, todo, resume, history>>

\* The record is the idempotency barrier: a job that has one is passed over,
\* unless loading it fails.
Claim(j) ==
    /\ pc = "claim" /\ j \in todo
    /\ todo' = todo \ {j}
    /\ \/ ci[j] # NoCi /\ UNCHANGED <<pc, job, faults>>
       \/ ci[j] = NoCi /\ pc' = "create" /\ job' = j /\ UNCHANGED faults
       \/ ci[j] # NoCi /\ Failure /\ pc' = "create" /\ job' = j
    /\ UNCHANGED <<ci, github, guests, box, div, ok, clean, resume, history>>

ClaimDone ==
    /\ pc = "claim" /\ todo = {}
    /\ pc' = "poll"
    /\ UNCHANGED <<ci, github, guests, working, todo, resume, faults, history>>

Fresh(s) == sbx[s] = "unused" /\ \A r \in Sandboxes : r < s => sbx[r] # "unused"

\* dispatch: ops.create with verify.
Create(s) ==
    /\ pc = "create" /\ Fresh(s)
    /\ sbx' = [sbx EXCEPT ![s] = "live"]
    /\ box' = s
    /\ pc' = "record"
    /\ UNCHANGED <<ci, github, runner, runs, logs, marked, creds, job, div, ok, clean,
                   todo, resume, faults, history>>

\* create fails, without a VM or, when only its readiness check failed, with
\* one: on to the next job of this poll.
CreateFails ==
    /\ pc = "create"
    /\ \/ Failure /\ UNCHANGED <<sbx, stray>>
       \/ (\A s \in Sandboxes : sbx[s] # "unused") /\ UNCHANGED <<sbx, stray, faults>>
       \/ /\ Failure
          /\ \E s \in Sandboxes : /\ Fresh(s)
                                  /\ sbx' = [sbx EXCEPT ![s] = "live"]
                                  /\ stray' = stray \cup {s}
    /\ job' = NoJob /\ pc' = "claim"
    /\ UNCHANGED <<ci, github, runner, runs, logs, marked, creds, box, div, ok, clean,
                   todo, resume, overwritten, stuck>>

\* dispatch's job_store.save, and run_runner_job begins: this is the poll's
\* last job.
SaveDispatched ==
    /\ pc = "record"
    /\ ci' = [ci EXCEPT ![job] = [sandbox |-> box, phase |-> "dispatched",
                                  diverged |-> FALSE]]
    /\ LET old == IF ci[job] = NoCi THEN {} ELSE {ci[job].sandbox} IN
         overwritten' = overwritten \cup old /\ stuck' = stuck \cup old
    /\ todo' = {}
    /\ pc' = "inspect"
    /\ UNCHANGED <<github, guests, working, resume, faults, stray>>

SaveDispatchedFails ==
    /\ pc = "record"
    /\ Failure
    /\ stray' = stray \cup {box}
    /\ job' = NoJob /\ box' = NoBox /\ pc' = "claim"
    /\ UNCHANGED <<ci, github, guests, div, ok, clean, todo, resume, overwritten, stuck>>

-----------------------------------------------------------------------------
(* run_runner_job: provision the runner, or find it in the log; monitor it. *)

Inspect ==
    /\ pc = "inspect"
    /\ \/ /\ Readable(box) /\ box \in marked
          /\ SavePhase("waiting_runner") /\ pc' = "wait" /\ UNCHANGED faults
       \/ /\ ~(Readable(box) /\ box \in marked)
          /\ SavePhase("provisioning") /\ pc' = "upload" /\ UNCHANGED faults
       \/ /\ Readable(box) /\ box \in marked /\ Failure
          /\ SavePhase("provisioning") /\ pc' = "upload"
    /\ UNCHANGED <<github, guests, working, todo, resume, history>>

\* provision_runner: the App's key goes into the guest ...
Upload ==
    /\ pc = "upload" /\ Live(box)
    /\ creds' = creds \cup {box}
    /\ pc' = "register"
    /\ UNCHANGED <<ci, github, sbx, runner, runs, logs, marked, working, todo, resume,
                   faults, history>>

\* ... config.sh registers a runner, unless one is configured there already ...
Register ==
    /\ pc = "register" /\ Live(box) /\ runner[box] \in {"none", "done"}
    /\ runner' = [runner EXCEPT ![box] = IF @ = "none" THEN "configured" ELSE "reconfigured"]
    /\ pc' = "start"
    /\ UNCHANGED <<ci, github, sbx, runs, logs, marked, creds, working, todo, resume,
                   faults, history>>

\* ... and run.sh starts with a new log; monitor_runner saves waiting_runner.
StartRunner ==
    /\ pc = "start" /\ Live(box)
    /\ runner' = [runner EXCEPT ![box] = "starting"]
    /\ runs' = [runs EXCEPT ![box] = NoJob]
    /\ logs' = logs \cup {box}
    /\ marked' \in {marked \cup {box}, marked \ {box}}
    /\ SavePhase("waiting_runner")
    /\ pc' = "wait"
    /\ UNCHANGED <<github, sbx, creds, working, todo, resume, faults, history>>

\* What check_divergence may conclude from job_for_runner: another job of this
\* runner is found only in the dispatched job's repository, and once it is
\* finished only while its workflow run goes on.
Divergence == IF runs[box] \in {NoJob, job} THEN {FALSE} ELSE BOOLEAN

\* Provisioning or monitoring ends with Err.
Fails == pc' = "settle" /\ ok' = FALSE /\ UNCHANGED <<job, box, div, clean>>

\* Monitoring ends with result o, or with Err if its deadline passed meanwhile.
Ends(o) == pc' = "settle" /\ ok' \in {o, FALSE} /\ UNCHANGED <<job, box, clean>>

\* A call inside the sandbox fails: it is gone, config.sh refuses, or a fault;
\* an upload that fails may have brought the key over.
CallFails ==
    /\ \/ /\ pc \in {"upload", "register", "start", "renew"} /\ ~Live(box)
          /\ UNCHANGED <<faults, creds>>
       \/ /\ pc = "register" /\ runner[box] \notin {"none", "done"}
          /\ UNCHANGED <<faults, creds>>
       \/ /\ pc \in {"inspect", "upload", "register", "start", "renew"} /\ Failure
          /\ \/ UNCHANGED creds
             \/ pc = "upload" /\ Live(box) /\ creds' = creds \cup {box}
    /\ Fails
    /\ UNCHANGED <<ci, github, sbx, runner, runs, logs, marked, todo, resume, history>>

\* The first loop of monitor_runner, until the log says Listening for Jobs.
Wait ==
    /\ pc = "wait" /\ Readable(box)
    /\ \/ /\ Shows(box) \in {"listening", "busy", "done", "exited"}
          /\ \/ div' \in Divergence /\ UNCHANGED faults
             \/ div' = div /\ Failure
          /\ ci' = [ci EXCEPT ![job].phase = "running", ![job].diverged = div']
          /\ pc' = "watch"
          /\ UNCHANGED <<job, box, ok, clean>>
       \/ Shows(box) = "quit" /\ Fails /\ UNCHANGED <<ci, faults>>
    /\ UNCHANGED <<github, guests, todo, resume, history>>

\* The second loop: read the log and GitHub's assignment; a job completed in
\* the log or a runner that exited ends it.
WatchLog ==
    /\ pc = "watch" /\ Readable(box)
    /\ \/ div' \in Divergence /\ UNCHANGED faults
       \/ Failure /\ div' = (div \/ runs[box] \notin {NoJob, job})
    /\ ci' = [ci EXCEPT ![job].diverged = div']
    /\ \/ Shows(box) = "done" /\ Ends(div' \/ gh[runs[box]] = "success")
       \/ Shows(box) \in {"quit", "exited"} /\ Ends(div')
       \/ /\ Shows(box) \in {"starting", "listening", "busy"}
          /\ pc' = "status" /\ UNCHANGED <<job, box, ok, clean>>
    /\ UNCHANGED <<github, guests, todo, resume, history>>

\* Then the dispatched job's own status: over on GitHub, over here.
WatchStatus ==
    /\ pc = "status"
    /\ \/ /\ div' = (div \/ (job \in taken /\ runs[box] # job))
          /\ IF Finished(job)
               THEN Ends(div' \/ gh[job] = "success")
               ELSE pc' = "renew" /\ UNCHANGED <<job, box, ok, clean>>
          /\ UNCHANGED faults
       \/ Failure /\ pc' = "renew" /\ UNCHANGED working
    /\ UNCHANGED <<ci, github, guests, todo, resume, history>>

\* The lease is renewed, and the record saved, when due; the next iteration
\* follows.
Renew ==
    /\ pc = "renew"
    /\ (Live(box) /\ SavePhase("running")) \/ UNCHANGED ci
    /\ pc' = "watch"
    /\ UNCHANGED <<github, guests, working, todo, resume, faults, history>>

\* Mutant: the second loop has no deadline.
Deadline_Missing == pc = "wait"

\* runner_wait_timeout and job_timeout bound the two loops.
Deadline == pc \in {"wait", "watch"}

Timeout ==
    /\ Deadline
    /\ Fails
    /\ UNCHANGED <<ci, github, guests, todo, resume, faults, history>>

-----------------------------------------------------------------------------
(* The end of run_runner_job: the outcome is noted, cleanup_runner runs.   *)

Settle ==
    /\ pc = "settle"
    /\ \/ SavePhase(IF ok THEN "completed" ELSE ci[job].phase) /\ UNCHANGED faults
       \/ Failure /\ UNCHANGED ci
    /\ pc' = "cleaning"
    /\ UNCHANGED <<github, guests, working, todo, resume, history>>

BeginCleanup ==
    /\ pc = "cleaning"
    /\ SavePhase("cleaning")
    /\ pc' = "scrub"
    /\ UNCHANGED <<github, guests, working, todo, resume, faults, history>>

\* The save fails and with it cleanup_runner: nothing is scrubbed or destroyed.
BeginCleanupFails ==
    /\ pc = "cleaning"
    /\ Failure
    /\ stuck' = stuck \cup {box}
    /\ EndJob
    /\ UNCHANGED <<ci, github, guests, todo, resume, stray, overwritten>>

\* The key, the environment file and the log go; a missing sandbox is fine.
Scrub ==
    /\ pc = "scrub"
    /\ \/ creds' = creds \ {box} /\ logs' = logs \ {box} /\ clean' = TRUE /\ UNCHANGED faults
       \/ Failure /\ clean' = FALSE /\ UNCHANGED <<creds, logs>>
    /\ pc' = "destroy"
    /\ UNCHANGED <<ci, github, sbx, runner, runs, marked, job, box, div, ok, todo, resume,
                   history>>

\* ops.destroy; the record goes only if both succeeded.
Destroy ==
    /\ pc = "destroy"
    /\ sbx' = [sbx EXCEPT ![box] = "gone"]
    /\ creds' = creds \ {box} /\ logs' = logs \ {box}
    /\ IF clean THEN ci' = [ci EXCEPT ![job] = NoCi] /\ UNCHANGED stuck
                ELSE stuck' = stuck \cup {box} /\ UNCHANGED ci
    /\ EndJob
    /\ UNCHANGED <<github, runner, runs, marked, todo, resume, faults, stray, overwritten>>

\* Mutant: the record is deleted whatever destroy returned.
DestroyFails_Deletes ==
    /\ pc = "destroy"
    /\ Failure
    /\ ci' = [ci EXCEPT ![job] = NoCi]
    /\ stuck' = stuck \cup {box}
    /\ EndJob
    /\ UNCHANGED <<github, guests, todo, resume, stray, overwritten>>

\* destroy fails, or the deletion of the record after it: the record stays, in
\* phase cleaning, until the broker is restarted.
DestroyFails ==
    /\ pc = "destroy"
    /\ Failure
    /\ \/ UNCHANGED <<sbx, creds, logs>>
       \/ /\ sbx' = [sbx EXCEPT ![box] = "gone"]
          /\ creds' = creds \ {box} /\ logs' = logs \ {box}
    /\ stuck' = stuck \cup {box}
    /\ EndJob
    /\ UNCHANGED <<ci, github, runner, runs, marked, todo, resume, stray, overwritten>>

-----------------------------------------------------------------------------
(* Crashes, the guests, GitHub and the reaper.                             *)

Crash ==
    /\ pc # "down"
    /\ Failure
    /\ pc' = "down" /\ job' = NoJob /\ box' = NoBox
    /\ div' = FALSE /\ ok' = FALSE /\ clean' = FALSE
    /\ todo' = {} /\ resume' = {}
    /\ stray' = IF pc = "record" THEN stray \cup {box} ELSE stray
    /\ stuck' = stuck \cup {ci[j].sandbox : j \in {k \in Jobs \ InFlight : ci[k] # NoCi}}
    /\ UNCHANGED <<ci, github, guests, overwritten>>

\* run.sh connects, or gives up before or after it did.
RunnerMoves(s) ==
    /\ Live(s)
    /\ \/ runner[s] = "starting" /\ runner' = [runner EXCEPT ![s] = "listening"]
       \/ runner[s] = "starting" /\ runner' = [runner EXCEPT ![s] = "quit"]
       \/ runner[s] = "listening" /\ runner' = [runner EXCEPT ![s] = "exited"]
    /\ UNCHANGED <<ci, github, sbx, runs, logs, marked, creds, pc, working, todo, resume,
                   faults, history>>

\* GitHub gives a listening runner any queued job with its label.
Assign(s, j) ==
    /\ Live(s) /\ runner[s] = "listening" /\ gh[j] = "queued"
    /\ gh' = [gh EXCEPT ![j] = "in_progress"] /\ taken' = taken \cup {j}
    /\ runner' = [runner EXCEPT ![s] = "busy"]
    /\ runs' = [runs EXCEPT ![s] = j]
    /\ UNCHANGED <<ci, sbx, logs, marked, creds, pc, working, todo, resume, faults, history>>

\* The job ends; with its sandbox gone GitHub fails it in the end.
JobEnds(s, result) ==
    /\ runner[s] = "busy"
    /\ result = "success" => Live(s)
    /\ gh' = [gh EXCEPT ![runs[s]] = result]
    /\ runner' = [runner EXCEPT ![s] = "done"]
    /\ UNCHANGED <<ci, taken, sbx, runs, logs, marked, creds, pc, working, todo, resume,
                   faults, history>>

\* A queued job is cancelled, or run by a runner of someone else.
GoneElsewhere(j) ==
    /\ gh[j] = "queued"
    /\ \/ gh' = [gh EXCEPT ![j] = "failure"] /\ UNCHANGED taken
       \/ gh' = [gh EXCEPT ![j] = "success"] /\ taken' = taken \cup {j}
    /\ UNCHANGED <<ci, guests, pc, working, todo, resume, faults, history>>

\* The lease lapses and the reaper takes the sandbox, or it is removed by hand.
SandboxLost(s) ==
    /\ Live(s)
    /\ Failure
    /\ sbx' = [sbx EXCEPT ![s] = "gone"]
    /\ creds' = creds \ {s} /\ logs' = logs \ {s}
    /\ UNCHANGED <<ci, github, runner, runs, marked, pc, working, todo, resume, history>>

BrokerStep ==
    \/ Start \/ TailDone \/ ResumeDone \/ ClaimDone \/ CreateFails
    \/ \E j \in Jobs : Tail(j) \/ ResumeNext(j) \/ Claim(j)
    \/ \E eligible \in SUBSET Jobs : Poll(eligible)
    \/ \E s \in Sandboxes : Create(s)
    \/ SaveDispatched \/ Inspect \/ Upload \/ Register \/ StartRunner \/ CallFails
    \/ Wait \/ WatchLog \/ WatchStatus \/ Renew \/ Timeout
    \/ Settle \/ BeginCleanup \/ Scrub \/ Destroy

FailureStep ==
    \/ PollFails \/ SaveDispatchedFails \/ BeginCleanupFails \/ DestroyFails \/ Crash
    \/ \E s \in Sandboxes : SandboxLost(s)

OutsideStep ==
    \/ \E s \in Sandboxes : RunnerMoves(s)
    \/ \E s \in Sandboxes, j \in Jobs : Assign(s, j)
    \/ \E s \in Sandboxes, result \in {"success", "failure"} : JobEnds(s, result)
    \/ \E j \in Jobs : GoneElsewhere(j)

Next == BrokerStep \/ FailureStep \/ OutsideStep

Spec == Init /\ [][Next]_vars

\* The broker is never idle for good (systemd restarts it), and a deadline that
\* has passed is seen at the latest by the next iteration of its loop.
FairSpec == Spec /\ WF_vars(BrokerStep) /\ SF_vars(Timeout)

-----------------------------------------------------------------------------
(* Properties.                                                             *)

\* Every variable has its type.
TypeOK ==
    /\ ci \in [Jobs -> CiRecord \cup {NoCi}]
    /\ gh \in [Jobs -> {"queued", "in_progress", "success", "failure"}]
    /\ taken \subseteq Jobs
    /\ sbx \in [Sandboxes -> {"unused", "live", "gone"}]
    /\ runner \in [Sandboxes -> {"none", "configured", "reconfigured", "starting", "quit",
                                 "listening", "exited", "busy", "done"}]
    /\ runs \in [Sandboxes -> Jobs \cup {NoJob}]
    /\ logs \subseteq Sandboxes /\ marked \subseteq Sandboxes /\ creds \subseteq Sandboxes
    /\ pc \in {"down", "tail", "resume", "poll", "claim", "create", "record", "inspect",
               "upload", "register", "start", "wait", "watch", "status", "renew",
               "settle", "cleaning", "scrub", "destroy"}
    /\ job \in Jobs \cup {NoJob} /\ box \in Sandboxes \cup {NoBox}
    /\ div \in BOOLEAN /\ ok \in BOOLEAN /\ clean \in BOOLEAN
    /\ todo \subseteq Jobs /\ resume \subseteq Jobs /\ faults \in Nat
    /\ stray \subseteq Sandboxes /\ overwritten \subseteq Sandboxes
    /\ stuck \subseteq Sandboxes

Tracked(s) == \E j \in Jobs : ci[j] # NoCi /\ ci[j].sandbox = s

\* A live sandbox of the broker has its job record: whatever fails in a cleanup
\* (the save of "cleaning", the scrub, the destroy, the deletion) and wherever a
\* crash strikes, "completed" just saved included, the record is there until the
\* guest is gone.  Two exceptions: a dispatch that did not get to its own record,
\* and a record that could not be loaded, which a second dispatch of the job
\* replaced.
UntrackedGuestExplained ==
    \A s \in Sandboxes : Live(s) =>
        Tracked(s) \/ s \in stray \cup overwritten \/ (pc = "record" /\ box = s)

\* The App's private key is in no guest but those a job record names (it goes in
\* after the record is durable, and the record goes after scrub and destroy), or
\* named until an unreadable record was replaced.
CredentialsTracked == \A s \in creds : Tracked(s) \/ s \in overwritten

Registered == {"configured", "reconfigured", "starting", "listening", "busy"}

\* At most one guest of the broker has a runner GitHub can give work to,
\* whatever crashes and restarts come between ("one-runner-at-a-time"), not
\* counting guests whose cleanup failed.
OneRunnerAtATime ==
    \A r, s \in Sandboxes \ stuck :
        /\ Live(r) /\ runner[r] \in Registered
        /\ Live(s) /\ runner[s] \in Registered
        => r = s

\* Every job record is worked off, across crashes, lost sandboxes and runners
\* that never report, unless a failed cleanup or a crash after a terminal phase
\* left it behind.
RecordsResolve ==
    \A j \in Jobs : ci[j] # NoCi ~> (ci[j] = NoCi \/ ci[j].sandbox \in stuck)

\* A guest whose runner got another job is not destroyed under that job while
\* monitoring ends well.  It does not hold of the code (README, section 4).
DivergedVmKeepsRunning ==
    pc = "destroy" /\ ok /\ div /\ Live(box) => runner[box] # "busy"

\* A restarted broker resumes every guest its predecessor left behind.  It does
\* not hold of the code: completed records are skipped (README, section 4).
ResumesEveryGuest ==
    [][pc = "down" /\ pc' # "down" =>
         \A j \in Jobs : ci[j] # NoCi /\ Live(ci[j].sandbox) => j \in resume']_vars
=============================================================================
