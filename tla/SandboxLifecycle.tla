--------------------------- MODULE SandboxLifecycle ---------------------------
(***************************************************************************)
(* The sandbox state machine of lsbx: create, destroy, renew and reap of   *)
(* lsbx-lifecycle over the record store (lsbx-store), the ephemeral keys   *)
(* (lsbx-keys) and a VM backend, as the gateway's request handlers, CLI    *)
(* invocations and the background reap loop run them concurrently.         *)
(*                                                                         *)
(* Nothing locks a sandbox: every actor works from the record it loaded,   *)
(* so each call that another actor can overtake is a step of its own, and  *)
(* pc[a] names the call actor a makes next.  A sandbox id is never reused; *)
(* a VM name may be, because the caller chooses it.                        *)
(***************************************************************************)
EXTENDS Naturals, FiniteSets

CONSTANTS
    Ids,          \* sandbox ids, in the order the reaper sorts them by
    Tags,         \* VM names (vm_tag)
    Names,        \* Names[id]: the VM names the request that gets id may ask for
    Handlers,     \* gateway request handlers
    Cli,          \* CLI invocations (no creation gate)
    Reapers,      \* reap loops
    AccountKeys,  \* TRUE: exe.dev (keys on the account), FALSE: libvirt or demo
    Durations,    \* lease durations callers ask for
    Grace,        \* reap --ttl
    MaxSandboxes, \* the gateway's cap on records
    Legacy,       \* ids of records an older lsbx left marked cleanup_failed
    MaxTime,      \* bound on the clock
    MaxFaults,    \* bound on failing calls, crashes and vanished VMs
    NoId, NoRec, NoActor

Actors  == Handlers \cup Cli \cup Reapers
Clients == Handlers \cup Cli

ASSUME IdsAreNumbers  == Ids \subseteq Nat /\ NoId \notin Ids
ASSUME NamesAssumption == Names \in [Ids -> SUBSET Tags]
ASSUME ActorsDisjoint ==
    /\ Handlers \cap Cli = {} /\ Handlers \cap Reapers = {} /\ Cli \cap Reapers = {}
    /\ NoActor \notin Actors
ASSUME NumbersAssumption ==
    /\ Durations \subseteq Nat /\ Grace \in Nat /\ MaxSandboxes \in Nat
    /\ MaxTime \in Nat /\ MaxFaults \in Nat /\ AccountKeys \in BOOLEAN
    /\ Legacy \subseteq Ids

\* The fields of SandboxRecord the lifecycle reads: the VM it names, the
\* lease_expires_at deadline and the cleanup_failed flag.
Record == [tag : Tags, lease : Nat, cleanup_failed : BOOLEAN]
ASSUME NoRecIsNoRecord == NoRec \notin Record

VARIABLES
    now,      \* Clock::now
    recs,     \* <state_dir>/state/<id>.json
    keydirs,  \* ids whose lsbx-key-* directory exists
    vms,      \* the backend's VMs: the id each VM was created for
    acct,     \* ids whose public key is registered with the account
    gate,     \* holder of the gateway's creation_gate
    pc, cur, loc, \* per actor: next call, sandbox id, its copy of the record
    todo,     \* per reaper: ids listed and not handled yet
    known,    \* per reaper: labels found in the store
    faults,   \* failures so far
    used,     \* ids handed out
    saved,    \* history: ids whose record was saved by create
    leaked,   \* history: ids whose VM a failure left without a record
    revived,  \* history: ids whose record renew wrote back after its deletion
    tried,    \* history: ids a destroy was begun for
    loose     \* history: ids destroyed again, or whose VM went without a destroy
              \* of theirs (it vanished, or another sandbox's removal took it)

store   == <<recs, keydirs>>
backend == <<vms, acct>>
locals  == <<cur, loc, todo, known>>
trail   == <<tried, loose>>
history == <<used, saved, leaked, revived, trail>>
vars == <<now, store, backend, gate, pc, locals, faults, history>>

Recorded == {i \in Ids : recs[i] # NoRec}
Live(i)  == \E t \in Tags : vms[t] = i

\* A store without records, or with those of an older version (the VMs they
\* name still run, f says under which name): only there is cleanup_failed set.
Init ==
    /\ now = 0
    /\ \E f \in [Legacy -> Tags] :
         /\ \A i \in Legacy : f[i] \in Names[i] /\ \A j \in Legacy : f[i] = f[j] => i = j
         /\ recs = [i \in Ids |-> IF i \in Legacy
                      THEN [tag |-> f[i], lease |-> 0, cleanup_failed |-> TRUE]
                      ELSE NoRec]
         /\ vms \in [Tags -> Legacy \cup {NoId}]
         /\ \A t \in Tags : \A i \in Legacy : vms[t] = i <=> f[i] = t
    /\ keydirs = Legacy
    /\ acct = IF AccountKeys THEN Legacy ELSE {}
    /\ gate = NoActor
    /\ pc = [a \in Actors |-> "idle"]
    /\ cur = [a \in Actors |-> NoId]
    /\ loc = [a \in Actors |-> NoRec]
    /\ todo = [a \in Actors |-> {}]
    /\ known = [a \in Actors |-> {}]
    /\ faults = 0
    /\ used = Legacy /\ saved = Legacy /\ leaked = {} /\ revived = {}
    /\ tried = {} /\ loose = {}

-----------------------------------------------------------------------------
(* How an actor moves on.                                                  *)

Goto(a, step) == pc' = [pc EXCEPT ![a] = step]

\* An operation on one sandbox is over: a client's request is answered (the
\* drop of _creation_guard with it), the reaper goes to its next sandbox.
Return(a) ==
    /\ pc'  = [pc EXCEPT ![a] = IF a \in Reapers THEN "sweep" ELSE "idle"]
    /\ cur' = [cur EXCEPT ![a] = NoId]
    /\ loc' = [loc EXCEPT ![a] = NoRec]
    /\ gate' = IF gate = a THEN NoActor ELSE gate
    /\ UNCHANGED <<todo, known>>

\* A reap pass is over, finished or given up on an error.
EndPass(r) ==
    /\ pc' = [pc EXCEPT ![r] = "idle"]
    /\ cur' = [cur EXCEPT ![r] = NoId]
    /\ loc' = [loc EXCEPT ![r] = NoRec]
    /\ todo' = [todo EXCEPT ![r] = {}]
    /\ known' = [known EXCEPT ![r] = {}]

\* One more call fails, within the bound.
Failure == faults < MaxFaults /\ faults' = faults + 1

\* A VM is removed by the name the actor's record has, whosever it is.
RemoveByName(a) ==
    /\ vms' = [vms EXCEPT ![loc[a].tag] = NoId]
    /\ loose' = loose \cup ({vms[loc[a].tag]} \ {cur[a], NoId})
    /\ UNCHANGED tried

-----------------------------------------------------------------------------
(* create.                                                                 *)

\* Mutant: the cap is checked without holding the creation gate.
Admit_NoGate(a) == Cardinality(Recorded) < MaxSandboxes /\ UNCHANGED gate

\* create_sandbox takes the creation gate and, holding it, counts the listed
\* records; a request over the cap is refused and changes nothing.  `lsbx up`
\* goes straight to create.
Admit(a) ==
    \/ /\ a \in Handlers /\ gate = NoActor
       /\ Cardinality(Recorded) < MaxSandboxes
       /\ gate' = a
    \/ a \in Cli /\ UNCHANGED gate

\* create begins: the id is fresh, the VM has the name the request asks for or
\* the id's and, unless the guest is Windows, the key directory exists from here
\* on.
StartCreate(a, i, t, windows) ==
    /\ pc[a] = "idle" /\ a \in Clients
    /\ i \notin used /\ \A j \in Ids : j < i => j \in used
    /\ t \in Names[i]
    /\ Admit(a)
    /\ used' = used \cup {i}
    /\ keydirs' = IF windows THEN keydirs ELSE keydirs \cup {i}
    /\ Goto(a, "clone")
    /\ cur' = [cur EXCEPT ![a] = i]
    /\ loc' = [loc EXCEPT ![a] = [tag |-> t, lease |-> 0, cleanup_failed |-> FALSE]]
    /\ UNCHANGED <<now, recs, backend, todo, known, faults, saved, leaked, revived, trail>>

\* create_from_golden, first half: the VM comes to exist (cp, or the disk,
\* the seed and Domain::create_xml).  A name in use is refused.
Clone(a) ==
    /\ pc[a] = "clone"
    /\ vms[loc[a].tag] = NoId
    /\ vms' = [vms EXCEPT ![loc[a].tag] = cur[a]]
    /\ Goto(a, "finish")
    /\ UNCHANGED <<now, store, acct, gate, locals, faults, history>>

\* Mutant: a clone that was refused is rolled back like one that failed later.
CloneFails_RollsBack(a) ==
    /\ pc[a] = "clone" /\ vms[loc[a].tag] # NoId
    /\ Goto(a, "rollback")
    /\ UNCHANGED <<now, store, backend, gate, locals, faults, history>>

\* The clone is refused or fails: create removes the key directory and
\* returns.  An answer lost in transit is a failure too, but leaves the VM.
CloneFails(a) ==
    /\ pc[a] = "clone"
    /\ \/ /\ vms[loc[a].tag] # NoId
          /\ UNCHANGED <<vms, faults, leaked>>
       \/ /\ vms[loc[a].tag] = NoId /\ Failure
          /\ UNCHANGED <<vms, leaked>>
       \/ /\ vms[loc[a].tag] = NoId /\ AccountKeys /\ Failure
          /\ vms' = [vms EXCEPT ![loc[a].tag] = cur[a]]
          /\ leaked' = leaked \cup {cur[a]}
    /\ keydirs' = keydirs \ {cur[a]}
    /\ Return(a)
    /\ UNCHANGED <<now, recs, acct, used, saved, revived, trail>>

\* create_from_golden, second half: tag and ssh-key add on exe.dev, the wait
\* for an address on libvirt.
Finish(a) ==
    /\ pc[a] = "finish"
    /\ acct' = IF AccountKeys THEN acct \cup ({cur[a]} \cap keydirs) ELSE acct
    /\ Goto(a, "register")
    /\ UNCHANGED <<now, store, vms, gate, locals, faults, history>>

\* ... or one of these fails (the key may have been added all the same), or
\* register_vm_key does: the VM just made has to be rolled back.
FinishFails(a) ==
    /\ \/ /\ pc[a] = "finish"
          /\ \/ UNCHANGED acct
             \/ AccountKeys /\ acct' = acct \cup ({cur[a]} \cap keydirs)
       \/ /\ pc[a] = "register" /\ AccountKeys /\ cur[a] \in keydirs
          /\ UNCHANGED acct
    /\ Failure
    /\ Goto(a, "rollback")
    /\ UNCHANGED <<now, store, vms, gate, locals, history>>

\* Mutant: create returns the error without destroying what it made.
Rollback_KeepsVm(a) ==
    /\ pc[a] = "rollback"
    /\ keydirs' = keydirs \ {cur[a]}
    /\ Return(a)
    /\ UNCHANGED <<now, recs, backend, faults, history>>

\* Mutant: after a rollback create tries once more, under the same id.
Rollback_Retries(a) ==
    /\ pc[a] = "rollback"
    /\ vms' = [vms EXCEPT ![loc[a].tag] = IF AccountKeys \/ @ = cur[a] THEN NoId ELSE @]
    /\ Goto(a, "clone")
    /\ UNCHANGED <<now, store, acct, gate, locals, faults, history>>

\* The rollback destroys the VM (exe.dev by name, libvirt the domain it holds),
\* ignores how that went, removes the key directory and returns; the account
\* key is not revoked.
Rollback(a) ==
    /\ pc[a] = "rollback"
    /\ \/ /\ IF AccountKeys \/ vms[loc[a].tag] = cur[a]
               THEN RemoveByName(a) ELSE UNCHANGED <<vms, trail>>
          /\ UNCHANGED <<faults, leaked>>
       \/ /\ Failure
          /\ leaked' = leaked \cup {cur[a]}
          /\ UNCHANGED <<vms, trail>>
    /\ keydirs' = keydirs \ {cur[a]}
    /\ Return(a)
    /\ UNCHANGED <<now, recs, acct, used, saved, revived>>

\* register_vm_key succeeds.
RegisterKey(a) ==
    /\ pc[a] = "register"
    /\ Goto(a, "save")
    /\ UNCHANGED <<now, store, backend, gate, locals, faults, history>>

\* Mutant: the lease is subtracted from the clock.
LeaseFor_Past(d) == now - d

\* rfc3339_now_plus.
LeaseFor(d) == now + d

\* store.save: the record is durable before anything is acknowledged.
SaveRecord(a, d) ==
    /\ pc[a] = "save"
    /\ recs' = [recs EXCEPT ![cur[a]] = [loc[a] EXCEPT !.lease = LeaseFor(d)]]
    /\ saved' = saved \cup {cur[a]}
    /\ Goto(a, "verify")
    /\ UNCHANGED <<now, keydirs, backend, gate, locals, faults, used, leaked, revived, trail>>

\* store.save(&record)? fails: create returns the error, VM and key stay.
SaveFails(a) ==
    /\ pc[a] = "save"
    /\ Failure
    /\ leaked' = leaked \cup {cur[a]}
    /\ Return(a)
    /\ UNCHANGED <<now, store, backend, used, saved, revived, trail>>

\* poll_ready passes, times out or is skipped: the record stays either way.
Verified(a) ==
    /\ pc[a] = "verify"
    /\ Return(a)
    /\ UNCHANGED <<now, store, backend, faults, history>>

-----------------------------------------------------------------------------
(* destroy, as `lsbx down`, DELETE /sandboxes/<id> and the reaper run it.  *)

\* store.load finds the record: from here on the actor goes by its copy.
LoadForDestroy(a, i) ==
    /\ recs[i] # NoRec
    /\ cur' = [cur EXCEPT ![a] = i]
    /\ loc' = [loc EXCEPT ![a] = recs[i]]
    /\ Goto(a, IF AccountKeys THEN "revoke" ELSE "probe")
    /\ tried' = tried \cup {i}
    /\ loose' = loose \cup ({i} \cap tried)

StartDestroy(a, i) ==
    /\ pc[a] = "idle" /\ a \in Clients
    /\ LoadForDestroy(a, i)
    /\ UNCHANGED <<now, store, backend, gate, todo, known, faults,
                   used, saved, leaked, revived>>

\* destroy_with_key on exe.dev: ssh-key remove; a key already gone is fine.
RevokeKey(a) ==
    /\ pc[a] = "revoke"
    /\ acct' = acct \ {cur[a]}
    /\ Goto(a, "probe")
    /\ UNCHANGED <<now, store, vms, gate, locals, faults, history>>

\* Mutant: the backend's error is dropped and the destroy goes on.
ProbeFound_DropsError(a) ==
    /\ pc[a] = "probe" /\ vms[loc[a].tag] # NoId
    /\ Goto(a, "keyclean")
    /\ UNCHANGED <<now, store, backend, gate, locals, faults, history>>

\* The VM is looked up by name.  exe.dev removes it with a second command;
\* libvirt destroys the very domain it found.
ProbeFound(a) ==
    /\ pc[a] = "probe" /\ vms[loc[a].tag] # NoId
    /\ IF AccountKeys
         THEN Goto(a, "rm") /\ UNCHANGED <<vms, trail>>
         ELSE Goto(a, "keyclean") /\ RemoveByName(a)
    /\ UNCHANGED <<now, store, acct, gate, locals, faults, used, saved, leaked, revived>>

\* Mutant: the reaper retains the record of a VM that is gone.
ProbeNotFound_Retains(a) ==
    /\ pc[a] = "probe" /\ vms[loc[a].tag] = NoId
    /\ Return(a)
    /\ UNCHANGED <<now, store, backend, faults, history>>

\* No VM of that name.  exe.dev's destroy_with_key takes it as success; with
\* libvirt `lsbx down` reports NotFound and keeps the record, and the reaper
\* retires the record.
ProbeNotFound(a) ==
    /\ pc[a] = "probe" /\ vms[loc[a].tag] = NoId
    /\ \/ /\ AccountKeys
          /\ Goto(a, "keyclean") /\ UNCHANGED <<gate, locals>>
       \/ /\ ~AccountKeys /\ a \in Reapers
          /\ Goto(a, "retire") /\ UNCHANGED <<gate, locals>>
       \/ /\ ~AccountKeys /\ a \in Clients
          /\ Return(a)
    /\ UNCHANGED <<now, store, backend, faults, history>>

\* exe.dev's rm, by name and idempotent.
RemoveVm(a) ==
    /\ pc[a] = "rm"
    /\ RemoveByName(a)
    /\ Goto(a, "keyclean")
    /\ UNCHANGED <<now, store, acct, gate, locals, faults, used, saved, leaked, revived>>

\* Mutant: the record goes first, the key directory is left to a later step.
CleanupKeypair_Skipped(a) ==
    /\ pc[a] = "keyclean"
    /\ Goto(a, "delete")
    /\ UNCHANGED <<now, store, backend, gate, locals, faults, history>>

\* cleanup_keypair, idempotent.
CleanupKeypair(a) ==
    /\ pc[a] = "keyclean"
    /\ keydirs' = keydirs \ {cur[a]}
    /\ Goto(a, "delete")
    /\ UNCHANGED <<now, recs, backend, gate, locals, faults, history>>

\* store.delete, idempotent: at the end of destroy and, for the reaper, on
\* its own after a NotFound.
DeleteRecord(a) ==
    /\ pc[a] \in {"delete", "retire"}
    /\ recs' = [recs EXCEPT ![cur[a]] = NoRec]
    /\ Return(a)
    /\ UNCHANGED <<now, keydirs, backend, faults, history>>

-----------------------------------------------------------------------------
(* renew: load, check, write the whole record back.                        *)

StartRenew(a, i) ==
    /\ pc[a] = "idle" /\ a \in Clients
    /\ recs[i] # NoRec /\ ~recs[i].cleanup_failed
    /\ cur' = [cur EXCEPT ![a] = i]
    /\ loc' = [loc EXCEPT ![a] = recs[i]]
    /\ Goto(a, "renew")
    /\ UNCHANGED <<now, store, backend, gate, todo, known, faults, history>>

SaveRenewal(a, d) ==
    /\ pc[a] = "renew"
    /\ recs' = [recs EXCEPT ![cur[a]] = [loc[a] EXCEPT !.lease = LeaseFor(d)]]
    /\ revived' = IF recs[cur[a]] = NoRec THEN revived \cup {cur[a]} ELSE revived
    /\ Return(a)
    /\ UNCHANGED <<now, keydirs, backend, faults, used, saved, leaked, trail>>

-----------------------------------------------------------------------------
(* reap.                                                                   *)

\* lease::is_expired and is_past_grace_window.
IsExpired(rec)         == rec.lease < now
IsPastGraceWindow(rec) == Grace = 0 \/ rec.lease + Grace < now
Reapable(i) == recs[i] # NoRec /\ IsExpired(recs[i]) /\ IsPastGraceWindow(recs[i])

\* SandboxStore::list reads the directory, then loads file after file.
ReapReadDir(r) ==
    /\ pc[r] = "idle" /\ r \in Reapers
    /\ todo' = [todo EXCEPT ![r] = Recorded]
    /\ Goto(r, "list")
    /\ UNCHANGED <<now, store, backend, gate, cur, loc, known, faults, history>>

\* All files load: the expired ones are the sweep's work.  (A dry run would
\* report them and stop, having changed nothing: it takes no step here.)
ReapList(r) ==
    /\ pc[r] = "list" /\ todo[r] \subseteq Recorded
    /\ todo' = [todo EXCEPT ![r] = {i \in @ : Reapable(i)}]
    /\ Goto(r, "sweep")
    /\ UNCHANGED <<now, store, backend, gate, cur, loc, known, faults, history>>

\* A file deleted meanwhile makes load, hence list, hence the pass fail.
ReapListFails(r) ==
    /\ pc[r] = "list" /\ ~(todo[r] \subseteq Recorded)
    /\ EndPass(r)
    /\ UNCHANGED <<now, store, backend, gate, faults, history>>

\* The next expired id, in sorted order.  destroy loads the record again but
\* looks at no lease; a record gone meanwhile is a NotFound, hence retired.
ReapNext(r, i) ==
    /\ pc[r] = "sweep" /\ i \in todo[r] /\ \A j \in todo[r] : i <= j
    /\ todo' = [todo EXCEPT ![r] = @ \ {i}]
    /\ \/ LoadForDestroy(r, i)
       \/ /\ recs[i] = NoRec
          /\ cur' = [cur EXCEPT ![r] = i]
          /\ Goto(r, "retire")
          /\ UNCHANGED <<loc, trail>>
    /\ UNCHANGED <<now, store, backend, gate, known, faults, used, saved, leaked, revived>>

\* Mutant: the pass ends without reconciling keys.
ReapKnownLabels_Skipped(r) ==
    /\ pc[r] = "sweep" /\ todo[r] = {}
    /\ Goto(r, "idle")
    /\ UNCHANGED <<now, store, backend, gate, locals, faults, history>>

\* After the sweep, the labels of the records still there.  This list, too, reads
\* the directory and then file after file; a label never changes, and a file
\* deleted in between makes the list, hence the pass, fail (CallFails), so what a
\* list that succeeds returns is what the directory held when it was read ...
ReapKnownLabels(r) ==
    /\ pc[r] = "sweep" /\ todo[r] = {}
    /\ IF AccountKeys
         THEN known' = [known EXCEPT ![r] = Recorded] /\ Goto(r, "listkeys")
         ELSE known' = known /\ Goto(r, "idle")
    /\ UNCHANGED <<now, store, backend, gate, cur, loc, todo, faults, history>>

\* ... against the account's keys, listed afterwards: the unknown ones go.
ReapListKeys(r) ==
    /\ pc[r] = "listkeys"
    /\ todo' = [todo EXCEPT ![r] = acct \ known[r]]
    /\ Goto(r, "prune")
    /\ UNCHANGED <<now, store, backend, gate, cur, loc, known, faults, history>>

PruneKey(r, i) ==
    /\ pc[r] = "prune" /\ i \in todo[r]
    /\ acct' = acct \ {i}
    /\ todo' = [todo EXCEPT ![r] = @ \ {i}]
    /\ UNCHANGED <<now, store, vms, gate, pc, cur, loc, known, faults, history>>

PruneDone(r) ==
    /\ pc[r] = "prune" /\ todo[r] = {}
    /\ EndPass(r)
    /\ UNCHANGED <<now, store, backend, gate, faults, history>>

-----------------------------------------------------------------------------
(* Failures and the environment.                                           *)

\* The call an operation on a recorded sandbox makes next returns an error:
\* destroy and renew propagate it and the record stays, the reaper goes on to
\* its next sandbox.  Key reconciliation and the listing end the pass.
CallFails(a) ==
    /\ Failure
    /\ \/ /\ pc[a] \in {"revoke", "probe", "rm", "keyclean", "delete", "retire", "renew"}
          /\ Return(a)
       \/ /\ \/ pc[a] \in {"list", "listkeys", "prune"}
             \/ pc[a] = "sweep" /\ todo[a] = {}
          /\ EndPass(a) /\ UNCHANGED gate
    /\ \/ UNCHANGED <<backend, trail>>
       \/ pc[a] = "revoke" /\ acct' = acct \ {cur[a]} /\ UNCHANGED <<vms, trail>>
       \/ pc[a] = "rm" /\ RemoveByName(a) /\ UNCHANGED acct
    /\ UNCHANGED <<now, store, used, saved, leaked, revived>>

\* The process dies or the client hangs up, which drops the handler: whatever
\* the operation had done stays done.
Crash(a) ==
    /\ pc[a] # "idle"
    /\ Failure
    /\ EndPass(a)
    /\ gate' = IF gate = a THEN NoActor ELSE gate
    /\ leaked' = IF pc[a] \in {"finish", "register", "save", "rollback"}
                   THEN leaked \cup {cur[a]} ELSE leaked
    /\ UNCHANGED <<now, store, backend, used, saved, revived, trail>>

\* A VM vanishes behind lsbx's back (host reboot, removed by hand).
VmVanishes(t) ==
    /\ vms[t] # NoId
    /\ Failure
    /\ vms' = [vms EXCEPT ![t] = NoId]
    /\ loose' = loose \cup {vms[t]}
    /\ UNCHANGED <<now, store, acct, gate, pc, locals, used, saved, leaked, revived, tried>>

Tick ==
    /\ now < MaxTime
    /\ now' = now + 1
    /\ UNCHANGED <<store, backend, gate, pc, locals, faults, history>>

CreateStep(a) ==
    \/ \E i \in Ids, t \in Tags, windows \in BOOLEAN : StartCreate(a, i, t, windows)
    \/ Clone(a) \/ CloneFails(a) \/ Finish(a) \/ FinishFails(a) \/ Rollback(a)
    \/ RegisterKey(a) \/ SaveFails(a) \/ Verified(a)
    \/ \E d \in Durations : SaveRecord(a, d)

DestroyStep(a) ==
    \/ RevokeKey(a) \/ ProbeFound(a) \/ ProbeNotFound(a) \/ RemoveVm(a)
    \/ CleanupKeypair(a) \/ DeleteRecord(a)

RenewStep(a) ==
    \/ \E i \in Ids : StartRenew(a, i)
    \/ \E d \in Durations : SaveRenewal(a, d)

ReapStep(r) ==
    \/ ReapReadDir(r) \/ ReapList(r) \/ ReapListFails(r)
    \/ \E i \in Ids : ReapNext(r, i)
    \/ ReapKnownLabels(r) \/ ReapListKeys(r) \/ PruneDone(r)
    \/ \E i \in Ids : PruneKey(r, i)

Next ==
    \/ \E a \in Clients :
         CreateStep(a) \/ RenewStep(a) \/ \E i \in Ids : StartDestroy(a, i)
    \/ \E a \in Actors : DestroyStep(a) \/ CallFails(a) \/ Crash(a)
    \/ \E r \in Reapers : ReapStep(r)
    \/ \E t \in Tags : VmVanishes(t)
    \/ Tick

Spec == Init /\ [][Next]_vars

\* lsbx serve runs the reap loop for ever, whatever a pass returns.
FairSpec == Spec /\ \A r \in Reapers : WF_vars(ReapStep(r) \/ DestroyStep(r))

-----------------------------------------------------------------------------
(* Properties.                                                             *)

Steps == {"idle", "clone", "finish", "register", "save", "verify", "rollback",
          "revoke", "probe", "rm", "keyclean", "delete", "retire", "renew",
          "list", "sweep", "listkeys", "prune"}

\* Every variable has its type.
TypeOK ==
    /\ now \in Nat /\ faults \in Nat
    /\ recs \in [Ids -> Record \cup {NoRec}]
    /\ keydirs \subseteq Ids /\ acct \subseteq Ids
    /\ vms \in [Tags -> Ids \cup {NoId}]
    /\ gate \in Actors \cup {NoActor}
    /\ pc \in [Actors -> Steps]
    /\ cur \in [Actors -> Ids \cup {NoId}]
    /\ loc \in [Actors -> Record \cup {NoRec}]
    /\ todo \in [Actors -> SUBSET Ids] /\ known \in [Actors -> SUBSET Ids]
    /\ used \subseteq Ids /\ saved \subseteq Ids
    /\ leaked \subseteq Ids /\ revived \subseteq Ids
    /\ tried \subseteq Ids /\ loose \subseteq Ids

\* A sandbox create has once made durable is never lost: while its VM runs its
\* record is there, whoever destroys, renews or reaps it and whatever fails
\* (create's durability-before-ack and destroy's "record survives" ordering).
NoLostVm == \A i \in saved : Live(i) => recs[i] # NoRec

\* The key directory of a recorded sandbox goes before its record does, so a
\* private key left on disk can always be found from a record (destroy keeps
\* the record until cleanup_keypair has succeeded).
KeyDirTracked == \A i \in saved : i \in keydirs => recs[i] # NoRec

\* A VM nobody has a record of is being created right now, or one of the
\* failures create cannot undo left it behind: a crash before save, a failed
\* save, a failed rollback, a lost answer to cp.
Creating(i) ==
    \E a \in Clients : cur[a] = i /\ pc[a] \in {"finish", "register", "save", "rollback"}
UntrackedVmExplained ==
    \A i \in Ids : Live(i) /\ recs[i] = NoRec => i \in leaked \/ Creating(i)

\* With every creation going through one gateway, its creation gate keeps the
\* number of records within max_sandboxes, not counting records that a renew
\* racing a destroy wrote back.
CapUnlessRevived ==
    Cli = {} => Cardinality(Recorded \ revived) <= MaxSandboxes

\* Callers may reuse a name, and destroy and rollback remove a VM by its name;
\* they still take no other sandbox's VM, unless their own sandbox is being
\* destroyed for the second time (two requests, a request and the reaper, a retry
\* of a destroy that failed, a record that renew wrote back) or its VM went some
\* other way.  So one create, one destroy and any number of renewals of each
\* sandbox are safe, however they interleave and whatever fails.
DestroyHitsOwnVm ==
    \A a \in Actors :
        pc[a] \in {"rollback", "probe", "rm"} /\ cur[a] \notin loose
          => vms[loc[a].tag] \in {cur[a], NoId}

\* The reaper takes down no sandbox whose lease, as recorded, has not expired.
\* It does not hold of the code: a renewal after the listing is not seen
\* (README, section 4).
ReapOnlyExpired ==
    [][\A r \in Reapers :
         pc[r] \in {"probe", "rm"} /\ pc'[r] # pc[r] /\ Live(cur[r]) /\ ~Live(cur[r])'
           => recs[cur[r]] = NoRec \/ IsExpired(recs[cur[r]])]_vars

\* Key reconciliation revokes only keys left by interrupted operations: of no
\* recorded sandbox, and of none being created.  It does not hold of the code:
\* the known labels are read before the keys (README, section 4).
RevokesOnlyOrphans ==
    [][\A r \in Reapers : \A i \in acct \ acct' :
         pc[r] = "prune" /\ i \in todo[r] \ todo'[r] => recs[i] = NoRec /\ ~Creating(i)]_vars

\* An expired sandbox does not stay: its record goes or its lease is renewed.
\* A VM already gone must not keep the record alive for ever.
ReapConverges ==
    \A i \in Ids : Reapable(i) ~> ~Reapable(i)

\* A key on the account without a record or a create behind it is revoked in
\* the end.
OrphanKeysRevoked ==
    \A i \in Ids : (i \in acct /\ recs[i] = NoRec /\ ~Creating(i))
                     ~> (i \notin acct \/ recs[i] # NoRec)

\* How far a sandbox has come, as its users see it.
Cloning(i) == \E a \in Clients : cur[a] = i /\ pc[a] = "clone"
Stage(i) ==
    CASE i \notin used -> "free"
      [] i \in used /\ Cloning(i) -> "requested"
      [] i \in used /\ ~Cloning(i) /\ Live(i) -> "running"
      [] OTHER -> "stopped"

Service == INSTANCE SandboxService WITH
    stage <- [i \in Ids |-> Stage(i)], listed <- Recorded, acked <- saved

\* Whatever overlaps, fails or is dropped, creates, destroys, renewals and reap
\* passes implement the service: a sandbox runs at most once, it is recorded
\* before create returns, its record goes only after its VM, and no stale copy of
\* a record brings a VM back.
IsSandboxService == Service!Spec
=============================================================================
