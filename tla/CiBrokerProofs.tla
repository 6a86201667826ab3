----------------------------- MODULE CiBrokerProofs -----------------------------
(***************************************************************************)
(* Theorems about CiBroker, for any jobs, sandboxes and number of faults:  *)
(* a guest keeps its record until it is gone, whatever fails in its        *)
(* cleanup, so does the App's key, and one guest at a time has a runner.   *)
(*                                                                         *)
(* The argument is about the job records.  Call a record open if its       *)
(* sandbox was not given up.  At most one is open; the broker is at work   *)
(* on it, has it in line to resume, or will find it in flight when it      *)
(* starts.  A dispatch begins only when none is.                           *)
(***************************************************************************)
EXTENDS CiBroker, TLAPS

Work == {"inspect", "upload", "register", "start", "wait", "watch", "status", "renew",
         "settle", "cleaning", "scrub", "destroy"}

\* What the broker has in hand.
WorkInv ==
    /\ pc \in Work => /\ job \in Jobs /\ box \in Sandboxes
                      /\ ci[job] # NoCi /\ ci[job].sandbox = box /\ job \notin resume
    /\ pc = "create" => job \in Jobs
    /\ pc = "record" => job \in Jobs /\ box \in Sandboxes /\ sbx[box] # "unused" /\ ~Tracked(box)

\* A record names a sandbox that was made, and no two name the same.
RecordInv ==
    /\ \A j \in Jobs : ci[j] # NoCi => sbx[ci[j].sandbox] # "unused"
    /\ \A j, k \in Jobs : ci[j] # NoCi /\ ci[k] # NoCi /\ ci[j].sandbox = ci[k].sandbox => j = k

\* What waits to be tailed or resumed has a record.
QueueInv ==
    /\ \A j \in resume : ci[j] # NoCi
    /\ pc = "tail" => \A j \in todo : ci[j] # NoCi
    /\ pc \in {"poll", "claim", "create", "record"} => resume = {}

OpenRecord(j) == ci[j] # NoCi /\ ci[j].sandbox \notin stuck

OpenInv ==
    /\ \A j, k \in Jobs : OpenRecord(j) /\ OpenRecord(k) => j = k
    /\ \A j \in Jobs : OpenRecord(j) =>
         \/ pc = "down" /\ ci[j].phase \notin Terminal
         \/ pc \in Work \cup {"tail", "resume"} /\ j \in resume
         \/ pc \in Work /\ j = job

\* A runner is only ever set up in a guest that a record names.
RunnerInv ==
    \A s \in Sandboxes : runner[s] # "none" =>
        sbx[s] # "unused" /\ (Live(s) => Tracked(s) \/ s \in stuck)

IInv == /\ TypeOK /\ WorkInv /\ RecordInv /\ QueueInv /\ OpenInv /\ RunnerInv
        /\ UntrackedGuestExplained /\ CredentialsTracked

USE BoxesAreNumbers, JobsAssumption, NoCiIsNoRecord

-----------------------------------------------------------------------------
(* Saving a record                                                         *)

Records == [Jobs -> CiRecord \cup {NoCi}]

\* The same jobs have records, of the same sandboxes.
SameRecords ==
    \A j \in Jobs : /\ ci'[j] # NoCi <=> ci[j] # NoCi
                    /\ ci[j] # NoCi => ci'[j].sandbox = ci[j].sandbox

\* Writing one record over with the same sandbox keeps the others.
LEMMA OneRecord ==
  ASSUME ci \in Records, NEW j \in Jobs, NEW r \in CiRecord, ci[j] # NoCi,
         r.sandbox = ci[j].sandbox, ci' = [ci EXCEPT ![j] = r]
  PROVE  ci' \in Records /\ SameRecords
BY DEF Records, SameRecords

\* So does saving a phase ...
LEMMA PhaseSaved ==
  ASSUME ci \in Records, NEW j \in Jobs, ci[j] # NoCi, NEW p \in Phases,
         ci' = [ci EXCEPT ![j].phase = p]
  PROVE  ci' \in Records /\ SameRecords
<1> DEFINE r == [ci[j] EXCEPT !.phase = p]
<1>1. r \in CiRecord /\ r.sandbox = ci[j].sandbox BY DEF Records, CiRecord
<1>2. ci' = [ci EXCEPT ![j] = r] OBVIOUS
<1> QED BY <1>1, <1>2, OneRecord

\* ... or the diverged flag ...
LEMMA DivergedSaved ==
  ASSUME ci \in Records, NEW j \in Jobs, ci[j] # NoCi, NEW d \in BOOLEAN,
         ci' = [ci EXCEPT ![j].diverged = d]
  PROVE  ci' \in Records /\ SameRecords
<1> DEFINE r == [ci[j] EXCEPT !.diverged = d]
<1>1. r \in CiRecord /\ r.sandbox = ci[j].sandbox BY DEF Records, CiRecord
<1>2. ci' = [ci EXCEPT ![j] = r] OBVIOUS
<1> QED BY <1>1, <1>2, OneRecord

\* ... or both at once.
LEMMA BothSaved ==
  ASSUME ci \in Records, NEW j \in Jobs, ci[j] # NoCi, NEW p \in Phases, NEW d \in BOOLEAN,
         ci' = [ci EXCEPT ![j].phase = p, ![j].diverged = d]
  PROVE  ci' \in Records /\ SameRecords
<1> DEFINE r == [ci[j] EXCEPT !.phase = p, !.diverged = d]
<1>1. r \in CiRecord /\ r.sandbox = ci[j].sandbox BY DEF Records, CiRecord
<1>2. ci' = [ci EXCEPT ![j] = r] BY DEF Records
<1> QED BY <1>1, <1>2, OneRecord

-----------------------------------------------------------------------------
(* What a step may leave to the invariant                                  *)

\* With the same records the same guests are tracked,
LEMMA TrackedStays ==
  ASSUME SameRecords
  PROVE  \A s \in Sandboxes : Tracked(s)' <=> Tracked(s)
BY DEF SameRecords, Tracked

\* and no two records come to name one sandbox.
LEMMA RecordsStay ==
  ASSUME TypeOK, RecordInv, SameRecords,
         \A s \in Sandboxes : sbx'[s] = "unused" => sbx[s] = "unused"
  PROVE  RecordInv'
<1>1. \A j \in Jobs : ci[j] # NoCi => ci[j].sandbox \in Sandboxes BY DEF TypeOK, CiRecord
<1>2. \A j \in Jobs : ci'[j] # NoCi => sbx'[ci'[j].sandbox] # "unused"
  BY <1>1 DEF RecordInv, SameRecords
<1>3. \A j, k \in Jobs : ci'[j] # NoCi /\ ci'[k] # NoCi /\ ci'[j].sandbox = ci'[k].sandbox => j = k
  BY DEF RecordInv, SameRecords
<1> QED BY <1>2, <1>3 DEF RecordInv

\* Nothing but sbx, runner and the key in the guests changed, none of them for the
\* better: a guest, a runner, the world.
LEMMA GuestStep ==
  ASSUME IInv, TypeOK', UNCHANGED <<ci, pc, job, box, todo, resume, history>>,
         \A s \in Sandboxes : /\ sbx'[s] = "unused" <=> sbx[s] = "unused"
                              /\ sbx'[s] = "live" => sbx[s] = "live"
                              /\ runner'[s] = "none" <=> runner[s] = "none",
         creds' \subseteq creds
  PROVE  IInv'
<1>0. TypeOK /\ UNCHANGED <<stray, overwritten, stuck>> BY DEF IInv, history
<1>1. SameRecords BY DEF SameRecords
<1>2. \A s \in Sandboxes : (Tracked(s)' <=> Tracked(s)) /\ (Live(s)' => Live(s))
  BY <1>1, TrackedStays DEF Live
<1>3. RecordInv' BY <1>0, <1>1, RecordsStay DEF IInv
<1>4. WorkInv' BY <1>0, <1>2 DEF IInv, WorkInv
<1>5. QueueInv' BY DEF IInv, QueueInv
<1>6. OpenInv' BY <1>0 DEF IInv, OpenInv, OpenRecord
<1>7. RunnerInv' BY <1>0, <1>2 DEF IInv, RunnerInv
<1>8. UntrackedGuestExplained' BY <1>0, <1>2 DEF IInv, UntrackedGuestExplained
<1>9. CredentialsTracked' BY <1>0, <1>2 DEF IInv, CredentialsTracked, TypeOK
<1> QED BY <1>3, <1>4, <1>5, <1>6, <1>7, <1>8, <1>9 DEF IInv

\* A step of run_runner_job, which stays with its job: it may set up a runner and
\* leave the key in its own guest, which its record names.
LEMMA WorkStep ==
  ASSUME IInv, TypeOK', pc \in Work, pc' \in Work, SameRecords,
         UNCHANGED <<job, box, sbx, resume, history>>,
         \A s \in Sandboxes \ {box} : runner'[s] = runner[s],
         creds' \subseteq creds \cup {box}
  PROVE  IInv'
<1>0. TypeOK /\ UNCHANGED <<stray, overwritten, stuck>> BY DEF IInv, history
<1>1. /\ job \in Jobs /\ box \in Sandboxes /\ ci[job] # NoCi /\ ci[job].sandbox = box
      /\ job \notin resume
  BY DEF IInv, WorkInv
<1>2. \A s \in Sandboxes : Tracked(s)' <=> Tracked(s) BY TrackedStays
<1>3. Tracked(box) /\ sbx[box] # "unused" BY <1>1 DEF Tracked, IInv, RecordInv
<1>4. RecordInv' BY <1>0, RecordsStay DEF IInv
<1>5. WorkInv' BY <1>1 DEF WorkInv, SameRecords, Work
<1>6. QueueInv' BY <1>0 DEF IInv, QueueInv, SameRecords, TypeOK, Work
<1>7. \A j \in Jobs : OpenRecord(j)' => OpenRecord(j) BY <1>0 DEF OpenRecord, SameRecords
<1>8. OpenInv' BY <1>7 DEF IInv, OpenInv, Work
<1>9. RunnerInv' BY <1>0, <1>2, <1>3 DEF IInv, RunnerInv, Live
<1>10. UntrackedGuestExplained' BY <1>0, <1>2 DEF IInv, UntrackedGuestExplained, Live, Work
<1>11. CredentialsTracked' BY <1>0, <1>1, <1>2, <1>3 DEF IInv, CredentialsTracked, TypeOK
<1> QED BY <1>4, <1>5, <1>6, <1>8, <1>9, <1>10, <1>11 DEF IInv

-----------------------------------------------------------------------------
(* The guests, GitHub and the reaper                                       *)

\* What GitHub, the runners and the guests do by themselves keeps IInv.
LEMMA OutsideKeeps ==
  ASSUME IInv, OutsideStep \/ \E s \in Sandboxes : SandboxLost(s)
  PROVE  IInv'
<1>0. TypeOK BY DEF IInv
<1>1. ASSUME NEW s \in Sandboxes, RunnerMoves(s) PROVE IInv'
  <2>1. TypeOK' BY <1>0, <1>1 DEF TypeOK, RunnerMoves, github, working, history
  <2> QED BY <1>0, <1>1, <2>1, GuestStep DEF RunnerMoves, TypeOK, working
<1>2. ASSUME NEW s \in Sandboxes, NEW j \in Jobs, Assign(s, j) PROVE IInv'
  <2>1. TypeOK' BY <1>0, <1>2 DEF TypeOK, Assign, working, history
  <2> QED BY <1>0, <1>2, <2>1, GuestStep DEF Assign, TypeOK, working
<1>3. ASSUME NEW s \in Sandboxes, NEW result \in {"success", "failure"}, JobEnds(s, result)
      PROVE  IInv'
  <2>1. TypeOK'
    <3>1. /\ gh' = [gh EXCEPT ![runs[s]] = result] /\ runner' = [runner EXCEPT ![s] = "done"]
          /\ UNCHANGED <<ci, taken, sbx, runs, logs, marked, creds, pc, working, todo, resume,
                         faults, history>>
      BY <1>3 DEF JobEnds
    <3>2. gh' \in [Jobs -> {"queued", "in_progress", "success", "failure"}]
      BY <1>0, <3>1 DEF TypeOK
    <3>3. runner' \in [Sandboxes -> {"none", "configured", "reconfigured", "starting", "quit",
                                     "listening", "exited", "busy", "done"}]
      BY <1>0, <3>1 DEF TypeOK
    <3> QED BY <1>0, <3>1, <3>2, <3>3 DEF TypeOK, working, history
  <2> QED BY <1>0, <1>3, <2>1, GuestStep DEF JobEnds, TypeOK, working
<1>4. ASSUME NEW j \in Jobs, GoneElsewhere(j) PROVE IInv'
  <2>1. TypeOK' BY <1>0, <1>4 DEF TypeOK, GoneElsewhere, guests, working, history
  <2> QED BY <1>0, <1>4, <2>1, GuestStep DEF GoneElsewhere, TypeOK, guests, working
<1>5. ASSUME NEW s \in Sandboxes, SandboxLost(s) PROVE IInv'
  <2>1. TypeOK' BY <1>0, <1>5 DEF TypeOK, SandboxLost, Failure, github, working, history
  <2> QED BY <1>0, <1>5, <2>1, GuestStep DEF SandboxLost, Live, TypeOK, working
<1> QED BY <1>1, <1>2, <1>3, <1>4, <1>5 DEF OutsideStep

-----------------------------------------------------------------------------
(* run_runner_job                                                          *)

\* The job at work has a record of the sandbox at work.
LEMMA InHand ==
  ASSUME IInv, pc \in Work
  PROVE  /\ TypeOK /\ ci \in Records /\ job \in Jobs /\ box \in Sandboxes /\ ci[job] # NoCi
         /\ div \in BOOLEAN /\ ci[job].phase \in Phases
BY DEF IInv, WorkInv, TypeOK, Records, CiRecord

\* Saving a phase of the job at work leaves its sandbox in the record.
LEMMA PhaseKept ==
  ASSUME IInv, pc \in Work, NEW p \in Phases, SavePhase(p)
  PROVE  ci' \in Records /\ SameRecords
BY InHand, BothSaved DEF SavePhase

\* A step that writes no record keeps them.
LEMMA Unsaved == ASSUME ci' = ci PROVE SameRecords
BY DEF SameRecords

\* The look at the guest decides only where the broker goes on.
LEMMA InspectKeeps == ASSUME IInv, Inspect PROVE IInv'
<1>0. pc \in Work /\ pc' \in Work BY DEF Inspect, Work
<1>1. ci' \in Records /\ SameRecords BY <1>0, PhaseKept DEF Inspect, Phases
<1>2. TypeOK' BY <1>0, <1>1, InHand
  DEF TypeOK, Records, Inspect, Failure, github, guests, working, history
<1> QED BY <1>0, <1>1, <1>2, WorkStep DEF Inspect, guests, working

\* Uploading and registering happen in the guest the record names.
LEMMA ProvisionKeeps == ASSUME IInv, Upload \/ Register PROVE IInv'
<1>0. pc \in Work /\ pc' \in Work BY DEF Upload, Register, Work
<1>1. SameRecords BY Unsaved DEF Upload, Register
<1>2. TypeOK' BY <1>0, InHand DEF TypeOK, Upload, Register, github, working, history
<1> QED BY <1>0, <1>1, <1>2, InHand, WorkStep DEF Upload, Register, working, TypeOK

\* The runner and the App key come into a tracked guest.
LEMMA StartRunnerKeeps == ASSUME IInv, StartRunner PROVE IInv'
<1>0. pc \in Work /\ pc' \in Work BY DEF StartRunner, Work
<1>1. ci' \in Records /\ SameRecords BY <1>0, PhaseKept DEF StartRunner, Phases
<1>2. TypeOK' BY <1>0, <1>1, InHand
  DEF TypeOK, Records, StartRunner, github, working, history
<1> QED BY <1>0, <1>1, <1>2, InHand, WorkStep DEF StartRunner, working, TypeOK

\* A failing call leads to cleanup, with the record in place.
LEMMA CallFailsKeeps == ASSUME IInv, CallFails PROVE IInv'
<1>0. pc \in Work /\ pc' \in Work BY DEF CallFails, Fails, Work
<1>1. SameRecords BY Unsaved DEF CallFails
<1>2. creds' \subseteq creds \cup {box} /\ faults' \in Nat
  BY <1>0, InHand DEF CallFails, Failure, TypeOK
<1>3. TypeOK' BY <1>0, <1>2, InHand DEF TypeOK, CallFails, Fails, github, history
<1> QED BY <1>0, <1>1, <1>2, <1>3, WorkStep DEF CallFails, Fails

\* Waiting for the runner's first job saves at most phase and divergence.
LEMMA WaitKeeps == ASSUME IInv, Wait PROVE IInv'
<1>0. pc \in Work /\ pc' \in Work BY DEF Wait, Fails, Work
<1>1. div' \in BOOLEAN /\ faults' \in Nat
  <2>1. faults' \in Nat BY <1>0, InHand DEF Wait, Failure, TypeOK
  <2>2. div' \in Divergence \/ div' = div BY DEF Wait, Fails
  <2>3. div' \in BOOLEAN BY <1>0, <2>2, InHand DEF Divergence
  <2> QED BY <2>1, <2>3
<1>2. ci' \in Records /\ SameRecords
  <2>1. CASE ci' = [ci EXCEPT ![job].phase = "running", ![job].diverged = div']
    BY <1>0, <1>1, <2>1, InHand, BothSaved DEF Phases
  <2>2. CASE ci' = ci BY <1>0, <2>2, InHand, Unsaved
  <2> QED BY <2>1, <2>2 DEF Wait
<1>3. UNCHANGED <<job, box, clean>> /\ ok' \in BOOLEAN
  BY <1>0, InHand DEF Wait, Fails, TypeOK
<1>4. TypeOK' BY <1>0, <1>1, <1>2, <1>3, InHand
  DEF TypeOK, Records, Wait, Fails, github, guests, history
<1> QED BY <1>0, <1>2, <1>3, <1>4, WorkStep DEF Wait, guests

\* So does watching its log,
LEMMA WatchLogKeeps == ASSUME IInv, WatchLog PROVE IInv'
<1>0. pc \in Work /\ pc' \in Work BY DEF WatchLog, Ends, Work
<1>1. div' \in BOOLEAN /\ faults' \in Nat
  <2>1. faults' \in Nat BY <1>0, InHand DEF WatchLog, Failure, TypeOK
  <2>2. div' \in Divergence \/ div' = (div \/ runs[box] \notin {NoJob, job}) BY DEF WatchLog
  <2>3. div' \in BOOLEAN BY <1>0, <2>2, InHand DEF Divergence
  <2> QED BY <2>1, <2>3
<1>2. ci' \in Records /\ SameRecords
  BY <1>0, <1>1, InHand, DivergedSaved DEF WatchLog
<1>3. UNCHANGED <<job, box, clean>> /\ ok' \in BOOLEAN
  BY <1>0, <1>1, InHand DEF WatchLog, Ends, TypeOK
<1>4. TypeOK' BY <1>0, <1>1, <1>2, <1>3, InHand
  DEF TypeOK, Records, WatchLog, Ends, github, guests, history
<1> QED BY <1>0, <1>2, <1>3, <1>4, WorkStep DEF WatchLog, guests

\* and watching the job's status.
LEMMA WatchStatusKeeps == ASSUME IInv, WatchStatus PROVE IInv'
<1>0. pc \in Work /\ pc' \in Work BY DEF WatchStatus, Ends, Work
<1>1. div' \in BOOLEAN /\ faults' \in Nat
  <2>1. faults' \in Nat BY <1>0, InHand DEF WatchStatus, Failure, TypeOK
  <2>2. div' = (div \/ (job \in taken /\ runs[box] # job)) \/ div' = div BY DEF WatchStatus, working
  <2>3. div' \in BOOLEAN BY <1>0, <2>2, InHand
  <2> QED BY <2>1, <2>3
<1>2. SameRecords BY Unsaved DEF WatchStatus
<1>3. UNCHANGED <<job, box, clean>> /\ ok' \in BOOLEAN
  BY <1>0, <1>1, InHand DEF WatchStatus, Ends, TypeOK, working
<1>4. TypeOK' BY <1>0, <1>1, <1>3, InHand
  DEF TypeOK, WatchStatus, Ends, github, guests, history
<1> QED BY <1>0, <1>2, <1>3, <1>4, WorkStep DEF WatchStatus, guests

\* Renewing the lease saves at most a phase.
LEMMA RenewKeeps == ASSUME IInv, Renew PROVE IInv'
<1>0. pc \in Work /\ pc' \in Work BY DEF Renew, Work
<1>1. ci' \in Records /\ SameRecords
  BY <1>0, InHand, PhaseKept, Unsaved DEF Renew, Phases
<1>2. TypeOK' BY <1>0, <1>1, InHand
  DEF TypeOK, Records, Renew, github, guests, working, history
<1> QED BY <1>0, <1>1, <1>2, WorkStep DEF Renew, guests, working

\* A deadline leads to cleanup.
LEMMA TimeoutKeeps == ASSUME IInv, Timeout PROVE IInv'
<1>0. pc \in Work /\ pc' \in Work BY DEF Timeout, Deadline, Fails, Work
<1>1. SameRecords BY Unsaved DEF Timeout
<1>2. TypeOK' BY <1>0, InHand DEF TypeOK, Timeout, Fails, github, guests, history
<1> QED BY <1>0, <1>1, <1>2, WorkStep DEF Timeout, Fails, guests

\* The outcome is saved before the cleanup begins.
LEMMA SettleKeeps == ASSUME IInv, Settle \/ BeginCleanup PROVE IInv'
<1>0. pc \in Work /\ pc' \in Work BY DEF Settle, BeginCleanup, Work
<1>1. ci' \in Records /\ SameRecords
  <2>1. ASSUME NEW p \in Phases, SavePhase(p) PROVE ci' \in Records /\ SameRecords
    BY <1>0, <2>1, PhaseKept
  <2>2. (IF ok THEN "completed" ELSE ci[job].phase) \in Phases
    BY <1>0, InHand DEF Phases, Terminal
  <2>3. "cleaning" \in Phases BY DEF Phases
  <2>4. CASE ci' = ci BY <1>0, <2>4, InHand, Unsaved
  <2> QED BY <2>1, <2>2, <2>3, <2>4 DEF Settle, BeginCleanup
<1>2. TypeOK' BY <1>0, <1>1, InHand
  DEF TypeOK, Records, Settle, BeginCleanup, Failure, github, guests, working, history
<1> QED BY <1>0, <1>1, <1>2, WorkStep DEF Settle, BeginCleanup, guests, working

\* Scrubbing takes the key out of the guest, or its failure gives the guest up.
LEMMA ScrubKeeps == ASSUME IInv, Scrub PROVE IInv'
<1>0. pc \in Work /\ pc' \in Work BY DEF Scrub, Work
<1>1. SameRecords BY Unsaved DEF Scrub
<1>2. /\ faults' \in Nat /\ creds' \subseteq Sandboxes /\ logs' \subseteq Sandboxes
      /\ clean' = TRUE \/ clean' = FALSE
  BY <1>0, InHand DEF TypeOK, Scrub, Failure
<1>3. TypeOK' BY <1>0, <1>2, InHand DEF TypeOK, Scrub, github, history
<1> QED BY <1>0, <1>1, <1>3, WorkStep DEF Scrub

-----------------------------------------------------------------------------
(* Startup, poll and dispatch: the guests and the records stay             *)

\* A step that leaves guests and records alone keeps what is said of them.
LEMMA GuestsStay ==
  ASSUME IInv, SameRecords, UNCHANGED <<sbx, runner, creds, history>>
  PROVE  /\ TypeOK /\ UNCHANGED <<stray, overwritten, stuck>> /\ RecordInv' /\ RunnerInv' /\ CredentialsTracked'
         /\ (pc = "record" => UNCHANGED <<pc, box>>) => UntrackedGuestExplained'
<1>0. TypeOK /\ UNCHANGED <<stray, overwritten, stuck>> BY DEF IInv, history
<1>1. \A s \in Sandboxes : Tracked(s)' <=> Tracked(s) BY TrackedStays
<1>2. RecordInv' BY <1>0, RecordsStay DEF IInv
<1>3. RunnerInv' BY <1>0, <1>1 DEF IInv, RunnerInv, Live
<1>4. CredentialsTracked' BY <1>0, <1>1 DEF IInv, CredentialsTracked, TypeOK
<1>5. (pc = "record" => UNCHANGED <<pc, box>>) => UntrackedGuestExplained'
  BY <1>0, <1>1 DEF IInv, UntrackedGuestExplained, Live
<1> QED BY <1>0, <1>2, <1>3, <1>4, <1>5

\* The broker's own state changes, and neither a record nor a guest.
LEMMA IdleStep ==
  ASSUME IInv, TypeOK', UNCHANGED <<ci, sbx, runner, creds, history>>,
         pc # "record", WorkInv', QueueInv',
         \A j \in Jobs : OpenRecord(j) =>
            \/ pc' = "down" /\ ci[j].phase \notin Terminal
            \/ pc' \in Work \cup {"tail", "resume"} /\ j \in resume'
            \/ pc' \in Work /\ j = job'
  PROVE  IInv'
<1>1. SameRecords BY Unsaved
<1>2. OpenInv' BY <1>1, GuestsStay DEF IInv, OpenInv, OpenRecord
<1> QED BY <1>1, <1>2, GuestsStay DEF IInv

\* A start finds the open record, if there is one, in flight.
LEMMA StartKeeps == ASSUME IInv, Start PROVE IInv'
<1>0. TypeOK /\ OpenInv BY DEF IInv
<1>1. TypeOK' BY <1>0 DEF TypeOK, Start, InFlight, github, guests, working, history
<1>2. WorkInv' /\ QueueInv' BY DEF Start, WorkInv, QueueInv, InFlight, Work
<1>3. \A j \in Jobs : OpenRecord(j) => j \in resume'
  BY <1>0 DEF OpenInv, Start, InFlight, OpenRecord, Work
<1> QED BY <1>1, <1>2, <1>3, IdleStep DEF Start, guests

\* Tailing leaves the records that are in line to resume.
LEMMA TailKeeps == ASSUME IInv, NEW j \in Jobs, Tail(j) PROVE IInv'
<1>0. TypeOK /\ OpenInv /\ QueueInv /\ WorkInv /\ ci \in Records BY DEF IInv, TypeOK, Records
<1>1. ci[j] # NoCi /\ ci[j].phase \in Phases BY <1>0 DEF Tail, QueueInv, TypeOK, CiRecord
<1>2. TailPhase(ci[j].sandbox, ci[j].phase) \in Phases
  BY <1>1 DEF TailPhase, Phases, Terminal
<1>3. ci' \in Records /\ SameRecords
  <2>1. CASE ci' = ci BY <1>0, <2>1, Unsaved
  <2>2. CASE ci' = [ci EXCEPT ![j].phase = TailPhase(ci[j].sandbox, @)]
    BY <1>0, <1>1, <1>2, <2>2, PhaseSaved
  <2> QED BY <2>1, <2>2 DEF Tail
<1>4. TypeOK' BY <1>0, <1>3 DEF TypeOK, Records, Tail, Failure, github, guests, working, history
<1>5. WorkInv' BY DEF Tail, WorkInv, Work
<1>6. QueueInv' BY <1>0, <1>3 DEF Tail, QueueInv, SameRecords, TypeOK
<1>7. OpenInv'
  <2>1. \A k \in Jobs : OpenRecord(k)' => OpenRecord(k)
    BY <1>3 DEF Tail, OpenRecord, SameRecords, history
  <2> QED BY <1>0, <2>1 DEF OpenInv, Tail, Work
<1> QED BY <1>3, <1>4, <1>5, <1>6, <1>7, GuestsStay DEF IInv, Tail, guests

\* Resuming takes the open record in hand.
LEMMA ResumeKeeps ==
  ASSUME IInv, TailDone \/ ResumeDone \/ \E j \in Jobs : ResumeNext(j)
  PROVE  IInv'
<1>0. TypeOK /\ OpenInv /\ QueueInv /\ WorkInv BY DEF IInv
<1>1. CASE TailDone
  <2>1. TypeOK' BY <1>0, <1>1 DEF TypeOK, TailDone, github, guests, working, history
  <2>2. WorkInv' /\ QueueInv' BY <1>0, <1>1 DEF TailDone, WorkInv, QueueInv, Work
  <2> QED BY <1>0, <1>1, <2>1, <2>2, IdleStep DEF TailDone, OpenInv, Work, guests
<1>2. CASE ResumeDone
  <2>1. TypeOK' BY <1>0, <1>2 DEF TypeOK, ResumeDone, github, guests, working, history
  <2>2. WorkInv' /\ QueueInv' BY <1>0, <1>2 DEF ResumeDone, WorkInv, QueueInv, Work
  <2> QED BY <1>0, <1>2, <2>1, <2>2, IdleStep DEF ResumeDone, OpenInv, Work, guests
<1>3. ASSUME NEW j \in Jobs, ResumeNext(j) PROVE IInv'
  <2>1. ci[j] # NoCi /\ ci[j] \in CiRecord BY <1>0, <1>3 DEF ResumeNext, QueueInv, TypeOK
  <2>2. TypeOK' BY <1>0, <1>3, <2>1 DEF TypeOK, ResumeNext, CiRecord, github, guests, history
  <2>3. WorkInv' BY <1>3, <2>1 DEF ResumeNext, WorkInv, CiRecord, Work
  <2>4. QueueInv' BY <1>0, <1>3 DEF ResumeNext, QueueInv
  <2>5. \A k \in Jobs : OpenRecord(k) => k \in resume' \/ k = job'
    BY <1>0, <1>3 DEF OpenInv, ResumeNext, Work
  <2> QED BY <1>3, <2>2, <2>3, <2>4, <2>5, IdleStep DEF ResumeNext, Work, guests
<1> QED BY <1>1, <1>2, <1>3

\* Between jobs no record is open.
LEMMA NoneOpen ==
  ASSUME IInv, pc \in {"poll", "claim", "create", "record"}
  PROVE  \A j \in Jobs : ~OpenRecord(j)
BY DEF IInv, OpenInv, Work

\* The broker polls and claims only with nothing left to resume.
LEMMA PollKeeps ==
  ASSUME IInv,
         PollFails \/ ClaimDone \/ (\E e \in SUBSET Jobs : Poll(e)) \/ (\E j \in Jobs : Claim(j))
  PROVE  IInv'
<1>0. TypeOK /\ QueueInv /\ pc \in {"poll", "claim"}
  BY DEF IInv, PollFails, ClaimDone, Poll, Claim
<1>1. TypeOK'
  <2>1. CASE PollFails BY <1>0, <2>1 DEF TypeOK, PollFails, Failure, github, guests, working, history
  <2>4. CASE ClaimDone BY <1>0, <2>4 DEF TypeOK, ClaimDone, github, guests, working, history
  <2>2. ASSUME NEW e \in SUBSET Jobs, Poll(e) PROVE TypeOK'
    BY <1>0, <2>2 DEF TypeOK, Poll, github, guests, working, history
  <2>3. ASSUME NEW j \in Jobs, Claim(j) PROVE TypeOK'
    BY <1>0, <2>3 DEF TypeOK, Claim, Failure, github, guests, history
  <2> QED BY <2>1, <2>2, <2>3, <2>4
<1>2. WorkInv'
  BY <1>0 DEF PollFails, ClaimDone, Poll, Claim, WorkInv, Work
<1>3. QueueInv'
  BY <1>0 DEF PollFails, ClaimDone, Poll, Claim, QueueInv
<1>4. UNCHANGED <<ci, sbx, runner, creds, history>>
  BY DEF PollFails, ClaimDone, Poll, Claim, guests
<1> QED BY <1>0, <1>1, <1>2, <1>3, <1>4, NoneOpen, IdleStep

-----------------------------------------------------------------------------
(* Sandboxes and records come and go                                       *)

\* A new sandbox has no record, no runner and no key.
LEMMA FreshIsClean ==
  ASSUME IInv, NEW s \in Sandboxes, Fresh(s)
  PROVE  ~Tracked(s) /\ runner[s] = "none"
BY DEF IInv, RecordInv, RunnerInv, Fresh, Tracked

\* A new guest is one that no record names.
LEMMA CreateKeeps == ASSUME IInv, NEW s \in Sandboxes, Create(s) PROVE IInv'
<1>0. TypeOK /\ OpenInv /\ WorkInv /\ RecordInv /\ ~Tracked(s) /\ runner[s] = "none" /\ pc = "create"
  BY FreshIsClean DEF IInv, Create
<1>1. TypeOK' BY <1>0 DEF TypeOK, Create, github, history
<1>2. SameRecords /\ \A t \in Sandboxes : Tracked(t)' <=> Tracked(t)
  BY Unsaved, TrackedStays DEF Create
<1>3. /\ sbx'[s] = "live" /\ \A t \in Sandboxes \ {s} : sbx'[t] = sbx[t]
      /\ UNCHANGED <<ci, runner, creds, stray, overwritten, stuck, job, resume, todo>>
  BY <1>0 DEF Create, TypeOK, history
<1>4. RecordInv' BY <1>0, <1>2, <1>3, RecordsStay
<1>5. WorkInv' BY <1>0, <1>2, <1>3 DEF Create, WorkInv, Work
<1>6. QueueInv' BY <1>3 DEF IInv, QueueInv, Create
<1>7. OpenInv' BY <1>0, <1>3 DEF OpenInv, OpenRecord, Work
<1>8. RunnerInv' BY <1>0, <1>2, <1>3 DEF IInv, RunnerInv, Live
<1>9. UntrackedGuestExplained'
  BY <1>0, <1>2, <1>3 DEF IInv, UntrackedGuestExplained, Live, Create
<1>10. CredentialsTracked' BY <1>0, <1>2, <1>3 DEF IInv, CredentialsTracked, TypeOK
<1> QED BY <1>1, <1>4, <1>5, <1>6, <1>7, <1>8, <1>9, <1>10 DEF IInv

\* A create that fails may leave a guest, counted as stray.
LEMMA CreateFailsKeeps == ASSUME IInv, CreateFails PROVE IInv'
<1>0. TypeOK /\ pc = "create" BY DEF IInv, CreateFails
<1>1. /\ pc' = "claim" /\ job' = NoJob
      /\ UNCHANGED <<ci, runner, creds, overwritten, stuck, resume, todo>>
  BY DEF CreateFails
<1>2. CASE sbx' = sbx /\ stray' = stray
  <2>1. TypeOK' BY <1>0, <1>2 DEF TypeOK, CreateFails, Failure, github
  <2>2. WorkInv' BY <1>1 DEF WorkInv, Work
  <2>3. QueueInv' BY <1>0, <1>1 DEF IInv, QueueInv
  <2> QED BY <1>0, <1>1, <1>2, <2>1, <2>2, <2>3, NoneOpen, IdleStep DEF history
<1>3. ASSUME Failure, NEW s \in Sandboxes, Fresh(s), sbx' = [sbx EXCEPT ![s] = "live"],
             stray' = stray \cup {s}
      PROVE  IInv'
  <2>1. TypeOK' BY <1>0, <1>3 DEF TypeOK, CreateFails, Failure, github
  <2>2. SameRecords /\ \A t \in Sandboxes : Tracked(t)' <=> Tracked(t)
    BY <1>1, Unsaved, TrackedStays
  <2>3. /\ ~Tracked(s) /\ runner[s] = "none"
        /\ sbx'[s] = "live" /\ \A t \in Sandboxes \ {s} : sbx'[t] = sbx[t]
    BY <1>0, <1>3, FreshIsClean DEF TypeOK
  <2>4. RecordInv' BY <1>0, <2>2, <2>3, RecordsStay DEF IInv
  <2>5. WorkInv' BY <1>1 DEF WorkInv, Work
  <2>6. QueueInv' BY <1>0, <1>1 DEF IInv, QueueInv
  <2>7. OpenInv' BY <1>0, <1>1, NoneOpen DEF OpenInv, OpenRecord
  <2>8. RunnerInv' BY <1>1, <2>2, <2>3 DEF IInv, RunnerInv, Live
  <2>9. UntrackedGuestExplained'
    BY <1>0, <1>1, <1>3, <2>2, <2>3 DEF IInv, UntrackedGuestExplained, Live
  <2>10. CredentialsTracked' BY <1>0, <1>1, <2>2 DEF IInv, CredentialsTracked, TypeOK
  <2> QED BY <2>1, <2>4, <2>5, <2>6, <2>7, <2>8, <2>9, <2>10 DEF IInv
<1> QED BY <1>2, <1>3 DEF CreateFails

\* The record of the dispatched job is its only one; a record it replaces could
\* not be read, and its sandbox is given up.
LEMMA SaveDispatchedKeeps == ASSUME IInv, SaveDispatched PROVE IInv'
<1> DEFINE r == [sandbox |-> box, phase |-> "dispatched", diverged |-> FALSE]
<1>0. /\ TypeOK /\ RecordInv /\ RunnerInv /\ QueueInv /\ pc = "record"
      /\ job \in Jobs /\ box \in Sandboxes /\ sbx[box] # "unused" /\ ~Tracked(box)
  BY DEF IInv, WorkInv, SaveDispatched
<1>1. r \in CiRecord /\ r.sandbox = box /\ r # NoCi
  <2>1. r \in CiRecord BY <1>0 DEF CiRecord, Phases
  <2> QED BY <2>1
<1> HIDE DEF r
<1>2. /\ ci' = [ci EXCEPT ![job] = r] /\ pc' = "inspect" /\ todo' = {}
      /\ UNCHANGED <<sbx, runner, creds, job, box, resume, stray>>
  BY DEF SaveDispatched, r, guests, working
<1>3. /\ ci'[job] = r /\ \A j \in Jobs \ {job} : ci'[j] = ci[j]
      /\ \A j \in Jobs : ci[j] # NoCi => ci[j].sandbox \in Sandboxes
  BY <1>0, <1>2 DEF TypeOK, CiRecord
<1>4. /\ stuck' \subseteq Sandboxes /\ stuck \subseteq stuck'
      /\ overwritten' \subseteq Sandboxes /\ overwritten \subseteq overwritten'
      /\ ci[job] # NoCi => ci[job].sandbox \in stuck' /\ ci[job].sandbox \in overwritten'
  <2> DEFINE old == IF ci[job] = NoCi THEN {} ELSE {ci[job].sandbox}
  <2>1. stuck' = stuck \cup old /\ overwritten' = overwritten \cup old BY DEF SaveDispatched
  <2>2. old \subseteq Sandboxes /\ (ci[job] # NoCi => ci[job].sandbox \in old) BY <1>0, <1>3
  <2> HIDE DEF old
  <2> QED BY <1>0, <2>1, <2>2 DEF TypeOK
<1>5. TypeOK'
  <2>1. ci' \in [Jobs -> CiRecord \cup {NoCi}] BY <1>0, <1>1, <1>2 DEF TypeOK
  <2> QED BY <1>0, <1>2, <1>4, <2>1 DEF TypeOK, SaveDispatched, github, guests, working
<1>6. \A s \in Sandboxes : Tracked(s) => Tracked(s)' \/ (s \in stuck' /\ s \in overwritten')
  BY <1>3, <1>4 DEF Tracked
<1>7. Tracked(box)' BY <1>0, <1>1, <1>2, <1>3 DEF Tracked
<1>8. \A j \in Jobs : ci[j] # NoCi => ci[j].sandbox # box BY <1>0 DEF Tracked
<1>9. RecordInv'
  <2>1. \A j \in Jobs : ci'[j] # NoCi => sbx'[ci'[j].sandbox] # "unused"
    BY <1>0, <1>1, <1>2, <1>3 DEF RecordInv
  <2>2. \A j, k \in Jobs : ci'[j] # NoCi /\ ci'[k] # NoCi /\ ci'[j].sandbox = ci'[k].sandbox => j = k
    BY <1>0, <1>1, <1>3, <1>8 DEF RecordInv
  <2> QED BY <2>1, <2>2 DEF RecordInv
<1>10. resume = {} BY <1>0 DEF QueueInv
<1>11. QueueInv' BY <1>0, <1>1, <1>2, <1>3 DEF QueueInv, TypeOK
<1>12. OpenInv'
  <2>1. \A j \in Jobs \ {job} : ~OpenRecord(j)'
    BY <1>0, <1>3, <1>4, NoneOpen DEF OpenRecord
  <2> QED BY <1>2, <2>1 DEF OpenInv, Work
<1>13. RunnerInv' BY <1>0, <1>2, <1>4, <1>6 DEF RunnerInv, Live
<1>14. UntrackedGuestExplained'
  BY <1>0, <1>2, <1>4, <1>6, <1>7 DEF IInv, UntrackedGuestExplained, Live
<1>15. CredentialsTracked' BY <1>0, <1>2, <1>4, <1>6 DEF IInv, CredentialsTracked, TypeOK
<1>16. WorkInv' BY <1>0, <1>1, <1>2, <1>3, <1>10 DEF WorkInv, Work
<1> QED BY <1>5, <1>9, <1>11, <1>12, <1>13, <1>14, <1>15, <1>16 DEF IInv

\* A failed save leaves the guest counted as stray.
LEMMA SaveDispatchedFailsKeeps == ASSUME IInv, SaveDispatchedFails PROVE IInv'
<1>0. TypeOK /\ QueueInv /\ pc = "record" /\ box \in Sandboxes BY DEF IInv, WorkInv, SaveDispatchedFails
<1>1. /\ pc' = "claim" /\ stray' = stray \cup {box}
      /\ UNCHANGED <<ci, sbx, runner, creds, resume, todo, overwritten, stuck>>
  BY DEF SaveDispatchedFails, guests
<1>2. TypeOK' BY <1>0 DEF TypeOK, SaveDispatchedFails, Failure, github, guests
<1>3. SameRecords /\ \A t \in Sandboxes : Tracked(t)' <=> Tracked(t)
  BY <1>1, Unsaved, TrackedStays
<1>4. RecordInv' BY <1>0, <1>1, <1>3, RecordsStay DEF IInv
<1>5. WorkInv' BY <1>1 DEF WorkInv, Work
<1>6. QueueInv' BY <1>0, <1>1 DEF QueueInv
<1>7. OpenInv' BY <1>0, <1>1, NoneOpen DEF OpenInv, OpenRecord
<1>8. RunnerInv' BY <1>1, <1>3 DEF IInv, RunnerInv, Live
<1>9. UntrackedGuestExplained' BY <1>0, <1>1, <1>3 DEF IInv, UntrackedGuestExplained, Live
<1>10. CredentialsTracked' BY <1>0, <1>1, <1>3 DEF IInv, CredentialsTracked, TypeOK
<1> QED BY <1>2, <1>4, <1>5, <1>6, <1>7, <1>8, <1>9, <1>10 DEF IInv

\* The job is given up with its record, which is open no longer.
LEMMA GivenUp ==
  ASSUME IInv, TypeOK', pc \in Work, pc' = "resume", stuck' = stuck \cup {box},
         UNCHANGED <<ci, runner, resume, stray, overwritten>>,
         \A s \in Sandboxes : /\ sbx'[s] = "unused" <=> sbx[s] = "unused"
                              /\ sbx'[s] = "live" => sbx[s] = "live",
         creds' \subseteq creds
  PROVE  IInv'
<1>0. /\ TypeOK /\ job \in Jobs /\ box \in Sandboxes /\ ci[job].sandbox = box
  BY InHand DEF IInv, WorkInv
<1>1. SameRecords /\ \A t \in Sandboxes : (Tracked(t)' <=> Tracked(t)) /\ (Live(t)' => Live(t))
  BY Unsaved, TrackedStays DEF Live
<1>2. RecordInv' BY <1>0, <1>1, RecordsStay DEF IInv
<1>3. WorkInv' BY DEF WorkInv, Work
<1>4. QueueInv' BY DEF IInv, QueueInv
<1>5. \A j \in Jobs : OpenRecord(j)' => OpenRecord(j) /\ j # job BY <1>0 DEF OpenRecord
<1>6. OpenInv' BY <1>5 DEF IInv, OpenInv, Work
<1>7. RunnerInv' BY <1>1 DEF IInv, RunnerInv
<1>8. UntrackedGuestExplained' BY <1>1 DEF IInv, UntrackedGuestExplained, Work
<1>9. CredentialsTracked' BY <1>0, <1>1 DEF IInv, CredentialsTracked, TypeOK
<1> QED BY <1>2, <1>3, <1>4, <1>6, <1>7, <1>8, <1>9 DEF IInv

\* The end of the work on a job is well typed.
LEMMA EndTyped ==
  ASSUME EndJob
  PROVE  /\ pc' = "resume" /\ job' = NoJob /\ box' = NoBox
         /\ div' \in BOOLEAN /\ ok' \in BOOLEAN /\ clean' \in BOOLEAN
BY DEF EndJob

\* A failed cleanup gives the guest up.
LEMMA CleanupFailsKeeps == ASSUME IInv, BeginCleanupFails \/ DestroyFails PROVE IInv'
<1>0. pc \in Work /\ pc' = "resume" BY DEF BeginCleanupFails, DestroyFails, EndJob, Work
<1>1. CASE BeginCleanupFails
  <2>1. TypeOK' BY <1>0, <1>1, InHand, EndTyped
    DEF TypeOK, BeginCleanupFails, Failure, github, guests
  <2> QED BY <1>0, <1>1, <2>1, GivenUp DEF BeginCleanupFails, guests
<1>2. CASE DestroyFails
  <2>1. \/ UNCHANGED <<sbx, creds, logs>>
        \/ /\ sbx' = [sbx EXCEPT ![box] = "gone"]
           /\ creds' = creds \ {box} /\ logs' = logs \ {box}
    BY <1>2 DEF DestroyFails
  <2>2. TypeOK' BY <1>0, <1>2, <2>1, InHand, EndTyped
    DEF TypeOK, DestroyFails, Failure, github
  <2>3. sbx[box] # "unused" BY <1>0, InHand DEF IInv, WorkInv, RecordInv
  <2>4. \A s \in Sandboxes : /\ sbx'[s] = "unused" <=> sbx[s] = "unused"
                             /\ sbx'[s] = "live" => sbx[s] = "live"
    BY <1>0, <2>1, <2>3, InHand DEF TypeOK
  <2>5. creds' \subseteq creds BY <2>1
  <2> QED BY <1>0, <1>2, <2>2, <2>4, <2>5, GivenUp DEF DestroyFails
<1> QED BY <1>1, <1>2

\* The record goes only with its sandbox.
LEMMA DestroyKeeps == ASSUME IInv, Destroy PROVE IInv'
<1>0. /\ TypeOK /\ job \in Jobs /\ box \in Sandboxes /\ ci[job] # NoCi /\ ci[job].sandbox = box
      /\ job \notin resume /\ sbx[box] # "unused" /\ pc \in Work
  BY DEF IInv, WorkInv, RecordInv, Destroy, Work
<1>1. /\ pc' = "resume" /\ sbx' = [sbx EXCEPT ![box] = "gone"]
      /\ creds' = creds \ {box} /\ logs' = logs \ {box}
      /\ UNCHANGED <<runner, todo, resume, stray, overwritten>>
  BY DEF Destroy, EndJob
<1>2. /\ sbx'[box] = "gone" /\ \A s \in Sandboxes \ {box} : sbx'[s] = sbx[s]
  BY <1>0, <1>1 DEF TypeOK
<1>3. CASE clean /\ ci' = [ci EXCEPT ![job] = NoCi] /\ stuck' = stuck
  <2>1. TypeOK' BY <1>0, <1>1, <1>3, EndTyped DEF TypeOK, Destroy, github
  <2>2. ci'[job] = NoCi /\ \A j \in Jobs \ {job} : ci'[j] = ci[j] BY <1>0, <1>3 DEF TypeOK
  <2>3. \A s \in Sandboxes \ {box} : Tracked(s) => Tracked(s)' BY <1>0, <2>2 DEF Tracked
  <2>4. \A s \in Sandboxes : Live(s)' => Live(s) /\ s # box BY <1>2 DEF Live
  <2>5. RecordInv'
    <3>1. \A j \in Jobs : ci[j] # NoCi => ci[j].sandbox \in Sandboxes BY <1>0 DEF TypeOK, CiRecord
    <3> QED BY <1>0, <1>2, <2>2, <3>1 DEF IInv, RecordInv
  <2>6. WorkInv' BY <1>1 DEF WorkInv, Work
  <2>7. QueueInv' BY <1>0, <1>1, <2>2 DEF IInv, QueueInv, TypeOK
  <2>8. \A j \in Jobs : OpenRecord(j)' => OpenRecord(j) /\ j # job
    BY <1>3, <2>2 DEF OpenRecord
  <2>9. OpenInv' BY <1>0, <1>1, <2>8 DEF IInv, OpenInv, Work
  <2>10. RunnerInv' BY <1>0, <1>1, <1>2, <1>3, <2>3, <2>4 DEF IInv, RunnerInv
  <2>11. UntrackedGuestExplained'
    BY <1>0, <1>1, <1>3, <2>3, <2>4 DEF IInv, UntrackedGuestExplained, Work
  <2>12. CredentialsTracked' BY <1>0, <1>1, <1>3, <2>3 DEF IInv, CredentialsTracked, TypeOK
  <2> QED BY <2>1, <2>5, <2>6, <2>7, <2>9, <2>10, <2>11, <2>12 DEF IInv
<1>4. CASE stuck' = stuck \cup {box} /\ ci' = ci
  <2>1. TypeOK' BY <1>0, <1>1, <1>4, EndTyped DEF TypeOK, Destroy, github
  <2> QED BY <1>0, <1>1, <1>2, <1>4, <2>1, GivenUp
<1> QED BY <1>3, <1>4 DEF Destroy

\* What a crash leaves: the record in flight, if there is one, is found again.
LEMMA CrashKeeps == ASSUME IInv, Crash PROVE IInv'
<1>0. TypeOK BY DEF IInv
<1> DEFINE late == {ci[j].sandbox : j \in {k \in Jobs \ InFlight : ci[k] # NoCi}}
<1>1. /\ pc' = "down" /\ todo' = {} /\ resume' = {} /\ stuck' = stuck \cup late
      /\ stray' = IF pc = "record" THEN stray \cup {box} ELSE stray
      /\ UNCHANGED <<ci, sbx, runner, creds, overwritten>>
  BY DEF Crash, guests
<1>2. late \subseteq Sandboxes BY <1>0 DEF TypeOK, CiRecord
<1>3. \A j \in Jobs : ci[j] # NoCi /\ ci[j].phase \in Terminal => ci[j].sandbox \in late
  BY DEF InFlight
<1> HIDE DEF late
<1>4. pc = "record" => box \in Sandboxes BY DEF IInv, WorkInv
<1>5. TypeOK'
  <2>1. job' = NoJob /\ box' = NoBox /\ UNCHANGED <<gh, taken, runs, logs, marked>>
    BY DEF Crash, github, guests
  <2>3. div' \in BOOLEAN /\ ok' \in BOOLEAN /\ clean' \in BOOLEAN BY DEF Crash
  <2>4. faults' \in Nat BY <1>0 DEF TypeOK, Crash, Failure
  <2>2. stray' \subseteq Sandboxes /\ stuck' \subseteq Sandboxes BY <1>0, <1>1, <1>2, <1>4 DEF TypeOK
  <2> QED BY <1>0, <1>1, <2>1, <2>2, <2>3, <2>4 DEF TypeOK
<1>6. SameRecords /\ \A t \in Sandboxes : Tracked(t)' <=> Tracked(t)
  BY <1>1, Unsaved, TrackedStays
<1>7. RecordInv' BY <1>0, <1>1, <1>6, RecordsStay DEF IInv
<1>8. WorkInv' BY <1>1 DEF WorkInv, Work
<1>9. QueueInv' BY <1>1 DEF QueueInv
<1>10. \A j \in Jobs : OpenRecord(j)' => OpenRecord(j) /\ ci[j].phase \notin Terminal
  BY <1>1, <1>3 DEF OpenRecord
<1>11. OpenInv' BY <1>1, <1>10 DEF IInv, OpenInv
<1>12. RunnerInv' BY <1>1, <1>6 DEF IInv, RunnerInv, Live
<1>13. UntrackedGuestExplained' BY <1>1, <1>6 DEF IInv, UntrackedGuestExplained, Live
<1>14. CredentialsTracked' BY <1>0, <1>1, <1>6 DEF IInv, CredentialsTracked, TypeOK
<1> QED BY <1>5, <1>7, <1>8, <1>9, <1>11, <1>12, <1>13, <1>14 DEF IInv

-----------------------------------------------------------------------------
(* The theorems                                                            *)

\* With no record there is nothing to explain.
LEMMA InitHolds == Init => IInv
<1> SUFFICES ASSUME Init PROVE IInv OBVIOUS
<1>1. TypeOK BY DEF Init, TypeOK
<1>2. WorkInv /\ QueueInv BY DEF Init, WorkInv, QueueInv, Work
<1>3. RecordInv /\ OpenInv BY DEF Init, RecordInv, OpenInv, OpenRecord
<1>4. RunnerInv /\ UntrackedGuestExplained /\ CredentialsTracked
  BY DEF Init, RunnerInv, UntrackedGuestExplained, CredentialsTracked, Live
<1> QED BY <1>1, <1>2, <1>3, <1>4 DEF IInv

\* Every step of the broker and of the world around it keeps IInv.
LEMMA StepKeeps == IInv /\ [Next]_vars => IInv'
<1>1. ASSUME IInv, BrokerStep PROVE IInv'
  BY <1>1, StartKeeps, TailKeeps, ResumeKeeps, PollKeeps, CreateKeeps, CreateFailsKeeps,
     SaveDispatchedKeeps, InspectKeeps, ProvisionKeeps, StartRunnerKeeps, CallFailsKeeps,
     WaitKeeps, WatchLogKeeps, WatchStatusKeeps, RenewKeeps, TimeoutKeeps, SettleKeeps,
     ScrubKeeps, DestroyKeeps
  DEF BrokerStep
<1>2. ASSUME IInv, FailureStep PROVE IInv'
  BY <1>2, PollKeeps, SaveDispatchedFailsKeeps, CleanupFailsKeeps, CrashKeeps, OutsideKeeps
  DEF FailureStep
<1>3. ASSUME IInv, OutsideStep PROVE IInv' BY <1>3, OutsideKeeps
<1>4. ASSUME IInv, UNCHANGED vars PROVE IInv'
  <2>1. TypeOK' BY <1>4 DEF IInv, TypeOK, vars, github, guests, working, history
  <2> QED BY <1>4, <2>1, GuestStep DEF vars, guests, working
<1> QED BY <1>1, <1>2, <1>3, <1>4 DEF Next

\* IInv holds throughout every behaviour.
LEMMA Invariance == Spec => []IInv
BY InitHolds, StepKeeps, PTL DEF Spec

\* Every reachable state is well typed.
THEOREM TypeCorrect == Spec => []TypeOK
<1>1. IInv => TypeOK BY DEF IInv
<1> QED BY <1>1, Invariance, PTL

\* Across failing creates, saves, scrubs and destroys and crashes at every point, a
\* live guest has its job record, unless its dispatch did not get to save one or
\* the record could not be read and a second dispatch replaced it.
THEOREM GuestsAreExplained == Spec => []UntrackedGuestExplained
<1>1. IInv => UntrackedGuestExplained BY DEF IInv
<1> QED BY <1>1, Invariance, PTL

\* The App's private key is only ever in a guest that a job record names, or named
\* until an unreadable record was replaced: provision_runner runs after the record
\* is on disk, and a failed scrub or destroy keeps the record.
THEOREM CredentialsAreTracked == Spec => []CredentialsTracked
<1>1. IInv => CredentialsTracked BY DEF IInv
<1> QED BY <1>1, Invariance, PTL

\* However many jobs, crashes and restarts: one guest at a time, of those not
\* given up, has a runner that GitHub can give work to.
THEOREM RunnersAreSingle == Spec => []OneRunnerAtATime
<1>1. IInv => OneRunnerAtATime
  <2> SUFFICES ASSUME IInv, NEW r \in Sandboxes \ stuck, NEW s \in Sandboxes \ stuck,
                      Live(r), runner[r] \in Registered, Live(s), runner[s] \in Registered
               PROVE  r = s
    BY DEF OneRunnerAtATime
  <2>1. Tracked(r) /\ Tracked(s) BY DEF IInv, RunnerInv, Registered
  <2>2. PICK j \in Jobs : ci[j] # NoCi /\ ci[j].sandbox = r BY <2>1 DEF Tracked
  <2>3. PICK k \in Jobs : ci[k] # NoCi /\ ci[k].sandbox = s BY <2>1 DEF Tracked
  <2>4. OpenRecord(j) /\ OpenRecord(k) BY <2>2, <2>3 DEF OpenRecord
  <2>5. j = k BY <2>4 DEF IInv, OpenInv
  <2> QED BY <2>2, <2>3, <2>5
<1> QED BY <1>1, Invariance, PTL
=============================================================================
