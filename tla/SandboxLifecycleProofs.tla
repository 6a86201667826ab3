------------------------ MODULE SandboxLifecycleProofs ------------------------
(***************************************************************************)
(* Proofs about SandboxLifecycle for every set of ids, names and actors,   *)
(* every number of failures and both backends.                             *)
(*                                                                         *)
(* NoLostVm alone is not inductive.  That a record is deleted only once    *)
(* its VM is gone rests on what each actor knows at its step: that the id  *)
(* it works on was saved (or, in create, was not), that the copy of the    *)
(* record it holds names the VM the id lives in, and that past the         *)
(* backend's answer this VM no longer exists.  IInv says so step by step.  *)
(*                                                                         *)
(* Two more invariants lean on it: CapInv, that the place a creating       *)
(* handler counted is still free, and OwnVmInv, that the first destroy of  *)
(* a sandbox still finds its VM under its name.  And with IInv every step  *)
(* is one of SandboxService.                                               *)
(***************************************************************************)
EXTENDS SandboxLifecycle, FiniteSetTheorems, TLAPS

CreateSteps  == {"clone", "finish", "register", "save", "rollback"}
HolderSteps  == {"revoke", "probe", "rm", "keyclean", "delete", "renew"}
CopySteps    == CreateSteps \cup HolderSteps
WorkSteps    == CopySteps \cup {"verify"}

\* What an actor works on: an id and a copy of a record, saved by nobody while
\* it is being created and saved by then in every other operation.
LocalsInv == \A a \in Actors :
    /\ pc[a] \in WorkSteps => cur[a] \in Ids /\ loc[a] \in Record
    /\ pc[a] \in CreateSteps => a \in Clients /\ cur[a] \in used /\ cur[a] \notin saved
    /\ pc[a] \in HolderSteps \cup {"retire"} => cur[a] \in saved
    /\ pc[a] # "prune" => todo[a] \subseteq saved

\* No id is created twice at a time.
CreatorInv == \A a, b \in Actors :
    pc[a] \in CreateSteps /\ pc[b] \in CreateSteps /\ cur[a] = cur[b] => a = b

\* Records exist only for ids that create saved, which were handed out.
RecordsInv == saved \subseteq used /\ \A i \in Ids : recs[i] # NoRec => i \in saved

\* A VM lives under the name its record, and every copy of it, has.
NameInv == \A t \in Tags : vms[t] # NoId =>
    /\ vms[t] \in used
    /\ recs[vms[t]] # NoRec => recs[vms[t]].tag = t
    /\ \A a \in Actors : pc[a] \in CopySteps /\ cur[a] = vms[t] => loc[a].tag = t

\* Before the clone there is no VM, after the backend's answer there is none.
GoneInv == \A a \in Actors : \A t \in Tags :
    pc[a] \in {"clone", "keyclean", "delete", "retire"} => vms[t] # cur[a]

\* With exe.dev, the key directory is gone by the time the record may go.
KeyInv == AccountKeys =>
    /\ \A a \in Actors : pc[a] \in {"delete", "retire"} => cur[a] \notin keydirs
    /\ KeyDirTracked

IInv ==
    /\ TypeOK /\ LocalsInv /\ CreatorInv /\ RecordsInv /\ NameInv /\ GoneInv
    /\ NoLostVm /\ UntrackedVmExplained /\ KeyInv

USE IdsAreNumbers, ActorsDisjoint, NumbersAssumption, NoRecIsNoRecord
    DEF Actors, Clients, CreateSteps, HolderSteps, CopySteps, WorkSteps,
        store, backend, locals, history, trail, RemoveByName

\* A removal by name keeps the types.
LEMMA RemoveTypes ==
  ASSUME TypeOK, LocalsInv, NEW a \in Actors, pc[a] \in {"rollback", "probe", "rm"},
         RemoveByName(a)
  PROVE  vms' \in [Tags -> Ids \cup {NoId}] /\ loose' \subseteq Ids /\ tried' \subseteq Ids
<1>1. loc[a].tag \in Tags BY DEF LocalsInv, Record
<1>2. vms[loc[a].tag] \in Ids \cup {NoId} BY <1>1 DEF TypeOK
<1>3. {vms[loc[a].tag]} \ {cur[a], NoId} \subseteq Ids BY <1>2
<1>4. loose' \subseteq Ids BY <1>3 DEF RemoveByName, TypeOK
<1>5. vms' \in [Tags -> Ids \cup {NoId}] BY <1>1 DEF RemoveByName, TypeOK
<1> QED BY <1>4, <1>5 DEF RemoveByName, TypeOK

\* A fresh id has no record, no VM and no other creator.
LEMMA StartCreateInv ==
  ASSUME IInv, NEW a \in Clients, NEW i \in Ids, NEW t \in Tags, NEW w \in BOOLEAN,
         StartCreate(a, i, t, w)
  PROVE  IInv'
<1> USE DEF IInv
<1>1. TypeOK' BY DEF StartCreate, Admit, Goto, TypeOK, Steps, Record
<1>2. LocalsInv' BY DEF StartCreate, Goto, LocalsInv, TypeOK, RecordsInv, Record
<1>3. CreatorInv' BY DEF StartCreate, Goto, CreatorInv, TypeOK, LocalsInv
<1>4. RecordsInv' BY DEF StartCreate, RecordsInv
<1>5. NameInv' BY DEF StartCreate, Goto, NameInv, TypeOK
<1>6. GoneInv' BY DEF StartCreate, Goto, GoneInv, TypeOK, NameInv
<1>7. NoLostVm' BY DEF StartCreate, NoLostVm, Live
<1>8. UntrackedVmExplained' BY DEF StartCreate, Goto, UntrackedVmExplained, Live,
          Creating
<1>9. KeyInv' BY DEF StartCreate, Goto, KeyInv, LocalsInv, RecordsInv,
          KeyDirTracked
<1> QED BY <1>1, <1>2, <1>3, <1>4, <1>5, <1>6, <1>7, <1>8, <1>9

\* The VM made is the creator's own, under the name its copy has.
LEMMA CloneInv ==
  ASSUME IInv, NEW a \in Clients, Clone(a)
  PROVE  IInv'
<1> USE DEF IInv
<1>1. TypeOK' BY DEF Clone, Goto, TypeOK, Steps
<1>2. LocalsInv' BY DEF Clone, Goto, LocalsInv
<1>3. CreatorInv' BY DEF Clone, Goto, CreatorInv
<1>4. RecordsInv' BY DEF Clone, RecordsInv
<1>5. NameInv'
  <2> SUFFICES ASSUME NEW t \in Tags, vms'[t] # NoId
               PROVE  /\ vms'[t] \in used'
                      /\ recs'[vms'[t]] # NoRec => recs'[vms'[t]].tag = t
                      /\ \A b \in Actors : pc'[b] \in CopySteps /\ cur'[b] = vms'[t]
                                          => loc'[b].tag = t
    BY DEF NameInv
  <2>1. UNCHANGED <<recs, used, cur, loc>> BY DEF Clone
  <2>2. pc[a] = "clone" /\ \A b \in Actors : b # a => pc'[b] = pc[b]
    BY DEF Clone, Goto, TypeOK
  <2>3. CASE t = loc[a].tag
    <3>1. vms'[t] = cur[a] BY <2>3 DEF Clone, TypeOK
    <3>2. recs[cur[a]] = NoRec /\ cur[a] \in used
      BY <2>2 DEF LocalsInv, RecordsInv
    <3>3. \A b \in Actors : pc'[b] \in CopySteps /\ cur[b] = cur[a] => b = a
      BY <2>2 DEF LocalsInv, CreatorInv
    <3> QED BY <2>1, <2>3, <3>1, <3>2, <3>3
  <2>4. CASE t # loc[a].tag
    <3>1. vms'[t] = vms[t] BY <2>4 DEF Clone, TypeOK
    <3>2. vms[t] # cur[a] BY <2>2 DEF GoneInv
    <3> QED BY <2>1, <2>2, <3>1, <3>2 DEF NameInv
  <2> QED BY <2>3, <2>4
<1>6. GoneInv' BY DEF Clone, Goto, GoneInv, TypeOK, LocalsInv, CreatorInv
<1>7. NoLostVm' BY DEF Clone, NoLostVm, LocalsInv, Live
<1>8. UntrackedVmExplained' BY DEF Clone, Goto, UntrackedVmExplained, TypeOK,
          Live, Creating
<1>9. KeyInv' BY DEF Clone, Goto, KeyInv, KeyDirTracked
<1> QED BY <1>1, <1>2, <1>3, <1>4, <1>5, <1>6, <1>7, <1>8, <1>9

\* A clone that fails leaves no VM, or one counted as leaked.
LEMMA CloneFailsInv ==
  ASSUME IInv, NEW a \in Clients, CloneFails(a)
  PROVE  IInv'
<1> USE DEF IInv
<1>1. TypeOK'
  <2>1. faults' \in Nat BY DEF CloneFails, Failure, TypeOK
  <2>2. cur[a] \in Ids BY DEF CloneFails, LocalsInv
  <2>3. leaked' = leaked \/ leaked' = leaked \cup {cur[a]} BY DEF CloneFails
  <2>4. leaked' \subseteq Ids BY <2>2, <2>3 DEF TypeOK
  <2>5. vms' \in [Tags -> Ids \cup {NoId}] BY <2>2 DEF CloneFails, TypeOK
  <2> QED BY <2>1, <2>4, <2>5 DEF CloneFails, Return, TypeOK, Steps
<1>2. LocalsInv' BY DEF CloneFails, Return, LocalsInv, TypeOK
<1>3. CreatorInv' BY DEF CloneFails, Return, CreatorInv, TypeOK
<1>4. RecordsInv' BY DEF CloneFails, RecordsInv
<1>5. NameInv'
  <2> SUFFICES ASSUME NEW t \in Tags, vms'[t] # NoId
               PROVE  /\ vms'[t] \in used'
                      /\ recs'[vms'[t]] # NoRec => recs'[vms'[t]].tag = t
                      /\ \A b \in Actors : pc'[b] \in CopySteps /\ cur'[b] = vms'[t]
                                          => loc'[b].tag = t
    BY DEF NameInv
  <2>1. UNCHANGED <<recs, used>> BY DEF CloneFails
  <2>2. /\ pc[a] = "clone" /\ pc'[a] = "idle"
        /\ \A b \in Actors : b # a => pc'[b] = pc[b] /\ cur'[b] = cur[b] /\ loc'[b] = loc[b]
    BY DEF CloneFails, Return, TypeOK
  <2>3. CASE vms'[t] = vms[t] BY <2>1, <2>2, <2>3 DEF NameInv
  <2>4. CASE vms'[t] # vms[t]
    <3>1. vms'[t] = cur[a] BY <2>4 DEF CloneFails, TypeOK
    <3>2. recs[cur[a]] = NoRec /\ cur[a] \in used BY <2>2 DEF LocalsInv, RecordsInv
    <3>3. \A b \in Actors : pc'[b] \in CopySteps => cur'[b] # cur[a]
      BY <2>2 DEF LocalsInv, CreatorInv
    <3> QED BY <2>1, <3>1, <3>2, <3>3
  <2> QED BY <2>3, <2>4
<1>6. GoneInv' BY DEF CloneFails, Return, GoneInv, TypeOK, LocalsInv, CreatorInv
<1>7. NoLostVm' BY DEF CloneFails, NoLostVm, TypeOK, LocalsInv, Live
<1>8. UntrackedVmExplained' BY DEF CloneFails, Return, UntrackedVmExplained,
          TypeOK, Live, Creating
<1>9. KeyInv' BY DEF CloneFails, Return, KeyInv, KeyDirTracked
<1> QED BY <1>1, <1>2, <1>3, <1>4, <1>5, <1>6, <1>7, <1>8, <1>9

\* Tagging and ssh-key add touch neither VMs nor records.
LEMMA FinishInv ==
  ASSUME IInv, NEW a \in Clients, Finish(a)
  PROVE  IInv'
<1> USE DEF IInv
<1>1. TypeOK' BY DEF Finish, Goto, TypeOK, Steps
<1>2. LocalsInv' BY DEF Finish, Goto, LocalsInv
<1>3. CreatorInv' BY DEF Finish, Goto, CreatorInv
<1>4. RecordsInv' BY DEF Finish, RecordsInv
<1>5. NameInv' BY DEF Finish, Goto, NameInv
<1>6. GoneInv' BY DEF Finish, Goto, GoneInv
<1>7. NoLostVm' BY DEF Finish, NoLostVm, Live
<1>8. UntrackedVmExplained' BY DEF Finish, Goto, UntrackedVmExplained, Live,
          Creating
<1>9. KeyInv' BY DEF Finish, Goto, KeyInv, KeyDirTracked
<1> QED BY <1>1, <1>2, <1>3, <1>4, <1>5, <1>6, <1>7, <1>8, <1>9

\* Nor does their failure: the creator still holds the VM.
LEMMA FinishFailsInv ==
  ASSUME IInv, NEW a \in Clients, FinishFails(a)
  PROVE  IInv'
<1> USE DEF IInv
<1>1. TypeOK'
  <2>1. acct' \subseteq Ids BY DEF FinishFails, TypeOK
  <2>2. faults' \in Nat BY DEF FinishFails, Failure, TypeOK
  <2> QED BY <2>1, <2>2 DEF FinishFails, Goto, TypeOK, Steps
<1>2. LocalsInv' BY DEF FinishFails, Goto, LocalsInv
<1>3. CreatorInv' BY DEF FinishFails, Goto, CreatorInv
<1>4. RecordsInv' BY DEF FinishFails, RecordsInv
<1>5. NameInv' BY DEF FinishFails, Goto, NameInv
<1>6. GoneInv' BY DEF FinishFails, Goto, GoneInv
<1>7. NoLostVm' BY DEF FinishFails, NoLostVm, Live
<1>8. UntrackedVmExplained' BY DEF FinishFails, Goto, UntrackedVmExplained, Live,
          Creating
<1>9. KeyInv' BY DEF FinishFails, Goto, KeyInv, KeyDirTracked
<1> QED BY <1>1, <1>2, <1>3, <1>4, <1>5, <1>6, <1>7, <1>8, <1>9

\* The rollback removes the VM or counts it as leaked.
LEMMA RollbackInv ==
  ASSUME IInv, NEW a \in Clients, Rollback(a)
  PROVE  IInv'
<1> USE DEF IInv
<1>1. TypeOK'
  <2>1. faults' \in Nat BY DEF Rollback, Failure, TypeOK
  <2>2. cur[a] \in Ids BY DEF Rollback, LocalsInv
  <2>3. leaked' = leaked \/ leaked' = leaked \cup {cur[a]} BY DEF Rollback
  <2>4. leaked' \subseteq Ids BY <2>2, <2>3 DEF TypeOK
  <2>5. vms' \in [Tags -> Ids \cup {NoId}] BY <2>2 DEF Rollback, TypeOK
  <2>6. loose' \subseteq Ids /\ tried' \subseteq Ids
    <3>1. CASE UNCHANGED trail BY <3>1 DEF TypeOK
    <3>2. CASE RemoveByName(a) BY <3>2, RemoveTypes DEF Rollback
    <3> QED BY <3>1, <3>2 DEF Rollback
  <2> QED BY <2>1, <2>4, <2>5, <2>6 DEF Rollback, Return, TypeOK, Steps
<1>2. LocalsInv' BY DEF Rollback, Return, LocalsInv, TypeOK
<1>3. CreatorInv' BY DEF Rollback, Return, CreatorInv, TypeOK
<1>4. RecordsInv' BY DEF Rollback, RecordsInv
<1>5. NameInv' BY DEF Rollback, Return, NameInv, TypeOK
<1>6. GoneInv'
  <2> SUFFICES ASSUME NEW b \in Actors, NEW t \in Tags,
                      pc'[b] \in {"clone", "keyclean", "delete", "retire"}
               PROVE  vms'[t] # cur'[b]
    BY DEF GoneInv
  <2>1. cur'[b] \in Ids BY <1>1, <1>2 DEF TypeOK, LocalsInv
  <2>2. vms'[t] = vms[t] \/ vms'[t] = NoId BY DEF Rollback, TypeOK, LocalsInv, Record
  <2>3. pc'[b] = pc[b] /\ cur'[b] = cur[b] BY DEF Rollback, Return, TypeOK
  <2> QED BY <2>1, <2>2, <2>3 DEF GoneInv
<1>7. NoLostVm' BY DEF Rollback, NoLostVm, TypeOK, Live
<1>8. UntrackedVmExplained' BY DEF Rollback, Return, UntrackedVmExplained, TypeOK,
          NameInv, Live, Creating
<1>9. KeyInv' BY DEF Rollback, Return, KeyInv, KeyDirTracked
<1> QED BY <1>1, <1>2, <1>3, <1>4, <1>5, <1>6, <1>7, <1>8, <1>9

\* register_vm_key only moves the creator on.
LEMMA RegisterKeyInv ==
  ASSUME IInv, NEW a \in Clients, RegisterKey(a)
  PROVE  IInv'
<1> USE DEF IInv
<1>1. TypeOK' BY DEF RegisterKey, Goto, TypeOK, Steps
<1>2. LocalsInv' BY DEF RegisterKey, Goto, LocalsInv
<1>3. CreatorInv' BY DEF RegisterKey, Goto, CreatorInv
<1>4. RecordsInv' BY DEF RegisterKey, RecordsInv
<1>5. NameInv' BY DEF RegisterKey, Goto, NameInv
<1>6. GoneInv' BY DEF RegisterKey, Goto, GoneInv
<1>7. NoLostVm' BY DEF RegisterKey, NoLostVm, Live
<1>8. UntrackedVmExplained' BY DEF RegisterKey, Goto, UntrackedVmExplained, Live,
          Creating
<1>9. KeyInv' BY DEF RegisterKey, Goto, KeyInv, KeyDirTracked
<1> QED BY <1>1, <1>2, <1>3, <1>4, <1>5, <1>6, <1>7, <1>8, <1>9

\* The saved record names the creator's VM; nobody else creates that id.
LEMMA SaveRecordInv ==
  ASSUME IInv, NEW a \in Clients, NEW d \in Durations, SaveRecord(a, d)
  PROVE  IInv'
<1> USE DEF IInv
<1>1. TypeOK' BY DEF SaveRecord, Goto, LeaseFor, TypeOK, LocalsInv, Steps, Record
<1>2. LocalsInv'
  <2>1. /\ pc[a] = "save" /\ pc' = [pc EXCEPT ![a] = "verify"]
        /\ saved' = saved \cup {cur[a]} /\ UNCHANGED <<cur, loc, todo, used>>
    BY DEF SaveRecord, Goto
  <2>2. \A b \in Actors : b # a /\ pc[b] \in CreateSteps => cur[b] # cur[a]
    BY <2>1 DEF CreatorInv
  <2>3. \A b \in Actors : b # a => pc'[b] = pc[b] BY <2>1 DEF TypeOK
  <2>4. pc'[a] = "verify" BY <2>1 DEF TypeOK
  <2> QED BY <2>1, <2>2, <2>3, <2>4 DEF LocalsInv
<1>3. CreatorInv' BY DEF SaveRecord, Goto, CreatorInv
<1>4. RecordsInv' BY DEF SaveRecord, RecordsInv, LocalsInv
<1>5. NameInv' BY DEF SaveRecord, Goto, NameInv
<1>6. GoneInv' BY DEF SaveRecord, Goto, GoneInv
<1>7. NoLostVm' BY DEF SaveRecord, LeaseFor, NoLostVm, TypeOK, LocalsInv, Live,
          Record
<1>8. UntrackedVmExplained' BY DEF SaveRecord, Goto, LeaseFor,
          UntrackedVmExplained, TypeOK, LocalsInv, Live, Creating, Record
<1>9. KeyInv' BY DEF SaveRecord, Goto, LeaseFor, KeyInv, TypeOK, LocalsInv,
          KeyDirTracked, Record
<1> QED BY <1>1, <1>2, <1>3, <1>4, <1>5, <1>6, <1>7, <1>8, <1>9

\* A failed save leaves the VM counted as leaked.
LEMMA SaveFailsInv ==
  ASSUME IInv, NEW a \in Clients, SaveFails(a)
  PROVE  IInv'
<1> USE DEF IInv
<1>1. TypeOK'
  <2>1. faults' \in Nat BY DEF SaveFails, Failure, TypeOK
  <2>2. leaked' \subseteq Ids BY DEF SaveFails, TypeOK, LocalsInv
  <2> QED BY <2>1, <2>2 DEF SaveFails, Return, TypeOK, Steps
<1>2. LocalsInv' BY DEF SaveFails, Return, LocalsInv, TypeOK
<1>3. CreatorInv' BY DEF SaveFails, Return, CreatorInv, TypeOK
<1>4. RecordsInv' BY DEF SaveFails, RecordsInv
<1>5. NameInv' BY DEF SaveFails, Return, NameInv, TypeOK
<1>6. GoneInv' BY DEF SaveFails, Return, GoneInv
<1>7. NoLostVm' BY DEF SaveFails, NoLostVm, Live
<1>8. UntrackedVmExplained' BY DEF SaveFails, Return, UntrackedVmExplained, Live,
          Creating
<1>9. KeyInv' BY DEF SaveFails, Return, KeyInv, KeyDirTracked
<1> QED BY <1>1, <1>2, <1>3, <1>4, <1>5, <1>6, <1>7, <1>8, <1>9

\* The readiness check changes no record.
LEMMA VerifiedInv ==
  ASSUME IInv, NEW a \in Clients, Verified(a)
  PROVE  IInv'
<1> USE DEF IInv
<1>1. TypeOK' BY DEF Verified, Return, TypeOK, Steps
<1>2. LocalsInv' BY DEF Verified, Return, LocalsInv, TypeOK
<1>3. CreatorInv' BY DEF Verified, Return, CreatorInv
<1>4. RecordsInv' BY DEF Verified, RecordsInv
<1>5. NameInv' BY DEF Verified, Return, NameInv
<1>6. GoneInv' BY DEF Verified, Return, GoneInv
<1>7. NoLostVm' BY DEF Verified, NoLostVm, Live
<1>8. UntrackedVmExplained' BY DEF Verified, Return, UntrackedVmExplained, Live,
          Creating
<1>9. KeyInv' BY DEF Verified, Return, KeyInv, KeyDirTracked
<1> QED BY <1>1, <1>2, <1>3, <1>4, <1>5, <1>6, <1>7, <1>8, <1>9

\* A copy just loaded names the VM the record names.
LEMMA StartDestroyInv ==
  ASSUME IInv, NEW a \in Clients, NEW i \in Ids, StartDestroy(a, i)
  PROVE  IInv'
<1> USE DEF IInv
<1>1. TypeOK' BY DEF StartDestroy, LoadForDestroy, Goto, TypeOK, Steps
<1>2. LocalsInv' BY DEF StartDestroy, LoadForDestroy, Goto, LocalsInv, TypeOK,
          RecordsInv
<1>3. CreatorInv' BY DEF StartDestroy, LoadForDestroy, Goto, CreatorInv
<1>4. RecordsInv' BY DEF StartDestroy, RecordsInv
<1>5. NameInv' BY DEF StartDestroy, LoadForDestroy, Goto, NameInv, TypeOK
<1>6. GoneInv' BY DEF StartDestroy, LoadForDestroy, Goto, GoneInv
<1>7. NoLostVm' BY DEF StartDestroy, NoLostVm, Live
<1>8. UntrackedVmExplained' BY DEF StartDestroy, LoadForDestroy, Goto,
          UntrackedVmExplained, Live, Creating
<1>9. KeyInv' BY DEF StartDestroy, LoadForDestroy, Goto, KeyInv, KeyDirTracked
<1> QED BY <1>1, <1>2, <1>3, <1>4, <1>5, <1>6, <1>7, <1>8, <1>9

\* Revoking the account key touches no VM.
LEMMA RevokeKeyInv ==
  ASSUME IInv, NEW a \in Actors, RevokeKey(a)
  PROVE  IInv'
<1> USE DEF IInv
<1>1. TypeOK' BY DEF RevokeKey, Goto, TypeOK, Steps
<1>2. LocalsInv' BY DEF RevokeKey, Goto, LocalsInv
<1>3. CreatorInv' BY DEF RevokeKey, Goto, CreatorInv
<1>4. RecordsInv' BY DEF RevokeKey, RecordsInv
<1>5. NameInv' BY DEF RevokeKey, Goto, NameInv
<1>6. GoneInv' BY DEF RevokeKey, Goto, GoneInv
<1>7. NoLostVm' BY DEF RevokeKey, NoLostVm, Live
<1>8. UntrackedVmExplained' BY DEF RevokeKey, Goto, UntrackedVmExplained, Live,
          Creating
<1>9. KeyInv' BY DEF RevokeKey, Goto, KeyInv, KeyDirTracked
<1> QED BY <1>1, <1>2, <1>3, <1>4, <1>5, <1>6, <1>7, <1>8, <1>9

\* After libvirt's destroy no VM of the id is left under any name.
LEMMA ProbeFoundInv ==
  ASSUME IInv, NEW a \in Actors, ProbeFound(a)
  PROVE  IInv'
<1> USE DEF IInv
<1>1. TypeOK'
  <2>1. vms' \in [Tags -> Ids \cup {NoId}] /\ loose' \subseteq Ids /\ tried' \subseteq Ids
    <3>1. CASE AccountKeys BY <3>1 DEF ProbeFound, TypeOK
    <3>2. CASE ~AccountKeys BY <3>2, RemoveTypes DEF ProbeFound
    <3> QED BY <3>1, <3>2
  <2> QED BY <2>1 DEF ProbeFound, Goto, TypeOK, Steps
<1>2. LocalsInv' BY DEF ProbeFound, Goto, LocalsInv, TypeOK
<1>3. CreatorInv' BY DEF ProbeFound, Goto, CreatorInv, TypeOK
<1>4. RecordsInv' BY DEF ProbeFound, RecordsInv
<1>5. NameInv' BY DEF ProbeFound, Goto, NameInv, TypeOK
<1>6. GoneInv'
  <2> SUFFICES ASSUME NEW b \in Actors, NEW t \in Tags,
                      pc'[b] \in {"clone", "keyclean", "delete", "retire"}
               PROVE  vms'[t] # cur'[b]
    BY DEF GoneInv
  <2>1. cur'[b] \in Ids BY <1>1, <1>2 DEF TypeOK, LocalsInv
  <2>2. cur'[b] = cur[b] /\ (b # a => pc'[b] = pc[b]) BY DEF ProbeFound, Goto, TypeOK
  <2>3. vms'[t] = vms[t] \/ vms'[t] = NoId BY DEF ProbeFound, TypeOK, LocalsInv, Record
  <2>4. CASE b # a BY <2>1, <2>2, <2>3, <2>4 DEF GoneInv
  <2>5. CASE b = a /\ t = loc[a].tag
    BY <2>1, <2>2, <2>5 DEF ProbeFound, Goto, TypeOK, LocalsInv, Record
  <2>6. CASE b = a /\ t # loc[a].tag
    <3>1. vms[t] # cur[a] BY <2>1, <2>2, <2>6 DEF ProbeFound, TypeOK, LocalsInv, NameInv
    <3> QED BY <2>1, <2>2, <2>3, <2>6, <3>1
  <2> QED BY <2>4, <2>5, <2>6
<1>7. NoLostVm' BY DEF ProbeFound, NoLostVm, TypeOK, Live
<1>8. UntrackedVmExplained' BY DEF ProbeFound, Goto, UntrackedVmExplained, TypeOK,
          Live, Creating
<1>9. KeyInv' BY DEF ProbeFound, Goto, KeyInv, TypeOK, KeyDirTracked
<1> QED BY <1>1, <1>2, <1>3, <1>4, <1>5, <1>6, <1>7, <1>8, <1>9

\* A name nobody uses is no VM of the id, whose VM has no other name.
LEMMA ProbeNotFoundInv ==
  ASSUME IInv, NEW a \in Actors, ProbeNotFound(a)
  PROVE  IInv'
<1> USE DEF IInv
<1>1. TypeOK' BY DEF ProbeNotFound, Goto, Return, TypeOK, Steps
<1>2. LocalsInv' BY DEF ProbeNotFound, Goto, Return, LocalsInv, TypeOK
<1>3. CreatorInv' BY DEF ProbeNotFound, Goto, Return, CreatorInv, TypeOK
<1>4. RecordsInv' BY DEF ProbeNotFound, RecordsInv
<1>5. NameInv' BY DEF ProbeNotFound, Goto, Return, NameInv, TypeOK
<1>6. GoneInv' BY DEF ProbeNotFound, Goto, Return, GoneInv, TypeOK, LocalsInv,
          NameInv
<1>7. NoLostVm' BY DEF ProbeNotFound, NoLostVm, Live
<1>8. UntrackedVmExplained' BY DEF ProbeNotFound, Goto, Return,
          UntrackedVmExplained, TypeOK, Live, Creating
<1>9. KeyInv' BY DEF ProbeNotFound, Goto, KeyInv, TypeOK, KeyDirTracked
<1> QED BY <1>1, <1>2, <1>3, <1>4, <1>5, <1>6, <1>7, <1>8, <1>9

\* After exe.dev's rm no VM of the id is left.
LEMMA RemoveVmInv ==
  ASSUME IInv, NEW a \in Actors, RemoveVm(a)
  PROVE  IInv'
<1> USE DEF IInv
<1>1. TypeOK'
  <2>1. vms' \in [Tags -> Ids \cup {NoId}] /\ loose' \subseteq Ids /\ tried' \subseteq Ids
    BY RemoveTypes DEF RemoveVm
  <2> QED BY <2>1 DEF RemoveVm, Goto, TypeOK, Steps
<1>2. LocalsInv' BY DEF RemoveVm, Goto, LocalsInv
<1>3. CreatorInv' BY DEF RemoveVm, Goto, CreatorInv
<1>4. RecordsInv' BY DEF RemoveVm, RecordsInv
<1>5. NameInv' BY DEF RemoveVm, Goto, NameInv
<1>6. GoneInv'
  <2> SUFFICES ASSUME NEW b \in Actors, NEW t \in Tags,
                      pc'[b] \in {"clone", "keyclean", "delete", "retire"}
               PROVE  vms'[t] # cur'[b]
    BY DEF GoneInv
  <2>1. cur'[b] \in Ids BY <1>1, <1>2 DEF TypeOK, LocalsInv
  <2>2. cur'[b] = cur[b] /\ (b # a => pc'[b] = pc[b]) BY DEF RemoveVm, Goto, TypeOK
  <2>3. vms'[t] = vms[t] \/ vms'[t] = NoId BY DEF RemoveVm, TypeOK, LocalsInv, Record
  <2>4. CASE b # a BY <2>1, <2>2, <2>3, <2>4 DEF GoneInv
  <2>5. CASE b = a /\ t = loc[a].tag
    BY <2>1, <2>2, <2>5 DEF RemoveVm, Goto, TypeOK, LocalsInv, Record
  <2>6. CASE b = a /\ t # loc[a].tag
    <3>1. vms[t] # cur[a] BY <2>1, <2>2, <2>6 DEF RemoveVm, TypeOK, LocalsInv, NameInv
    <3> QED BY <2>1, <2>2, <2>3, <2>6, <3>1
  <2> QED BY <2>4, <2>5, <2>6
<1>7. NoLostVm' BY DEF RemoveVm, NoLostVm, TypeOK, Live
<1>8. UntrackedVmExplained' BY DEF RemoveVm, Goto, UntrackedVmExplained, Live,
          Creating
<1>9. KeyInv' BY DEF RemoveVm, Goto, KeyInv, KeyDirTracked
<1> QED BY <1>1, <1>2, <1>3, <1>4, <1>5, <1>6, <1>7, <1>8, <1>9

\* The key directory goes while the record is there.
LEMMA CleanupKeypairInv ==
  ASSUME IInv, NEW a \in Actors, CleanupKeypair(a)
  PROVE  IInv'
<1> USE DEF IInv
<1>1. TypeOK' BY DEF CleanupKeypair, Goto, TypeOK, Steps
<1>2. LocalsInv' BY DEF CleanupKeypair, Goto, LocalsInv
<1>3. CreatorInv' BY DEF CleanupKeypair, Goto, CreatorInv
<1>4. RecordsInv' BY DEF CleanupKeypair, RecordsInv
<1>5. NameInv' BY DEF CleanupKeypair, Goto, NameInv
<1>6. GoneInv' BY DEF CleanupKeypair, Goto, GoneInv
<1>7. NoLostVm' BY DEF CleanupKeypair, NoLostVm, Live
<1>8. UntrackedVmExplained' BY DEF CleanupKeypair, Goto, UntrackedVmExplained,
          Live, Creating
<1>9. KeyInv' BY DEF CleanupKeypair, Goto, KeyInv, KeyDirTracked
<1> QED BY <1>1, <1>2, <1>3, <1>4, <1>5, <1>6, <1>7, <1>8, <1>9

\* The record goes after the VM.
LEMMA DeleteRecordInv ==
  ASSUME IInv, NEW a \in Actors, DeleteRecord(a)
  PROVE  IInv'
<1> USE DEF IInv
<1>1. TypeOK' BY DEF DeleteRecord, Return, TypeOK, Steps
<1>2. LocalsInv' BY DEF DeleteRecord, Return, LocalsInv, TypeOK
<1>3. CreatorInv' BY DEF DeleteRecord, Return, CreatorInv
<1>4. RecordsInv' BY DEF DeleteRecord, RecordsInv
<1>5. NameInv' BY DEF DeleteRecord, Return, NameInv, TypeOK
<1>6. GoneInv' BY DEF DeleteRecord, Return, GoneInv, TypeOK
<1>7. NoLostVm' BY DEF DeleteRecord, NoLostVm, GoneInv, Live
<1>8. UntrackedVmExplained' BY DEF DeleteRecord, Return, UntrackedVmExplained,
          GoneInv, Live, Creating
<1>9. KeyInv' BY DEF DeleteRecord, Return, KeyInv, TypeOK, KeyDirTracked
<1> QED BY <1>1, <1>2, <1>3, <1>4, <1>5, <1>6, <1>7, <1>8, <1>9

\* A copy just loaded names the VM the record names.
LEMMA StartRenewInv ==
  ASSUME IInv, NEW a \in Clients, NEW i \in Ids, StartRenew(a, i)
  PROVE  IInv'
<1> USE DEF IInv
<1>1. TypeOK' BY DEF StartRenew, Goto, TypeOK, Steps
<1>2. LocalsInv' BY DEF StartRenew, Goto, LocalsInv, TypeOK, RecordsInv
<1>3. CreatorInv' BY DEF StartRenew, Goto, CreatorInv
<1>4. RecordsInv' BY DEF StartRenew, RecordsInv
<1>5. NameInv' BY DEF StartRenew, Goto, NameInv, TypeOK
<1>6. GoneInv' BY DEF StartRenew, Goto, GoneInv
<1>7. NoLostVm' BY DEF StartRenew, NoLostVm, Live
<1>8. UntrackedVmExplained' BY DEF StartRenew, Goto, UntrackedVmExplained, Live,
          Creating
<1>9. KeyInv' BY DEF StartRenew, Goto, KeyInv, KeyDirTracked
<1> QED BY <1>1, <1>2, <1>3, <1>4, <1>5, <1>6, <1>7, <1>8, <1>9

\* A renewal writes the same name back, of an id that was saved.
LEMMA SaveRenewalInv ==
  ASSUME IInv, NEW a \in Clients, NEW d \in Durations, SaveRenewal(a, d)
  PROVE  IInv'
<1> USE DEF IInv
<1>1. TypeOK' BY DEF SaveRenewal, Return, LeaseFor, TypeOK, LocalsInv, Steps,
          Record
<1>2. LocalsInv' BY DEF SaveRenewal, Return, LocalsInv, TypeOK
<1>3. CreatorInv' BY DEF SaveRenewal, Return, CreatorInv
<1>4. RecordsInv' BY DEF SaveRenewal, RecordsInv, LocalsInv
<1>5. NameInv' BY DEF SaveRenewal, Return, NameInv, TypeOK
<1>6. GoneInv' BY DEF SaveRenewal, Return, GoneInv
<1>7. NoLostVm' BY DEF SaveRenewal, LeaseFor, NoLostVm, TypeOK, LocalsInv, Live,
          Record
<1>8. UntrackedVmExplained' BY DEF SaveRenewal, Return, LeaseFor,
          UntrackedVmExplained, TypeOK, LocalsInv, Live, Creating, Record
<1>9. KeyInv' BY DEF SaveRenewal, Return, LeaseFor, KeyInv, TypeOK, LocalsInv,
          KeyDirTracked, Record
<1> QED BY <1>1, <1>2, <1>3, <1>4, <1>5, <1>6, <1>7, <1>8, <1>9

\* A listing holds ids of records, which were saved.
LEMMA ReapReadDirInv ==
  ASSUME IInv, NEW a \in Reapers, ReapReadDir(a)
  PROVE  IInv'
<1> USE DEF IInv
<1>1. TypeOK' BY DEF ReapReadDir, Goto, Recorded, TypeOK, Steps
<1>2. LocalsInv' BY DEF ReapReadDir, Goto, Recorded, LocalsInv, TypeOK, RecordsInv
<1>3. CreatorInv' BY DEF ReapReadDir, Goto, CreatorInv
<1>4. RecordsInv' BY DEF ReapReadDir, RecordsInv
<1>5. NameInv' BY DEF ReapReadDir, Goto, NameInv
<1>6. GoneInv' BY DEF ReapReadDir, Goto, GoneInv
<1>7. NoLostVm' BY DEF ReapReadDir, NoLostVm, Live
<1>8. UntrackedVmExplained' BY DEF ReapReadDir, Goto, UntrackedVmExplained, Live,
          Creating
<1>9. KeyInv' BY DEF ReapReadDir, Goto, KeyInv, KeyDirTracked
<1> QED BY <1>1, <1>2, <1>3, <1>4, <1>5, <1>6, <1>7, <1>8, <1>9

\* Filtering a listing keeps it one.
LEMMA ReapListInv ==
  ASSUME IInv, NEW a \in Reapers, ReapList(a)
  PROVE  IInv'
<1> USE DEF IInv
<1>1. TypeOK' BY DEF ReapList, Goto, TypeOK, Steps
<1>2. LocalsInv' BY DEF ReapList, Goto, LocalsInv
<1>3. CreatorInv' BY DEF ReapList, Goto, CreatorInv
<1>4. RecordsInv' BY DEF ReapList, RecordsInv
<1>5. NameInv' BY DEF ReapList, Goto, NameInv
<1>6. GoneInv' BY DEF ReapList, Goto, GoneInv
<1>7. NoLostVm' BY DEF ReapList, NoLostVm, Live
<1>8. UntrackedVmExplained' BY DEF ReapList, Goto, UntrackedVmExplained, Live,
          Creating
<1>9. KeyInv' BY DEF ReapList, Goto, KeyInv, KeyDirTracked
<1> QED BY <1>1, <1>2, <1>3, <1>4, <1>5, <1>6, <1>7, <1>8, <1>9

\* A failed listing only ends the pass.
LEMMA ReapListFailsInv ==
  ASSUME IInv, NEW a \in Reapers, ReapListFails(a)
  PROVE  IInv'
<1> USE DEF IInv
<1>1. TypeOK' BY DEF ReapListFails, EndPass, TypeOK, Steps
<1>2. LocalsInv' BY DEF ReapListFails, EndPass, LocalsInv
<1>3. CreatorInv' BY DEF ReapListFails, EndPass, CreatorInv
<1>4. RecordsInv' BY DEF ReapListFails, RecordsInv
<1>5. NameInv' BY DEF ReapListFails, EndPass, NameInv
<1>6. GoneInv' BY DEF ReapListFails, EndPass, GoneInv
<1>7. NoLostVm' BY DEF ReapListFails, NoLostVm, Live
<1>8. UntrackedVmExplained' BY DEF ReapListFails, EndPass, UntrackedVmExplained,
          Live, Creating
<1>9. KeyInv' BY DEF ReapListFails, EndPass, KeyInv, KeyDirTracked
<1> QED BY <1>1, <1>2, <1>3, <1>4, <1>5, <1>6, <1>7, <1>8, <1>9

\* A copy just loaded names the record's VM; without a record there is no VM.
LEMMA ReapNextInv ==
  ASSUME IInv, NEW a \in Reapers, NEW i \in Ids, ReapNext(a, i)
  PROVE  IInv'
<1> USE DEF IInv
<1>1. TypeOK'
  <2>1. tried' \subseteq Ids /\ loose' \subseteq Ids
    BY DEF ReapNext, LoadForDestroy, TypeOK
  <2>2. /\ pc' \in [Actors -> Steps] /\ cur' \in [Actors -> Ids \cup {NoId}]
        /\ loc' \in [Actors -> Record \cup {NoRec}] /\ todo' \in [Actors -> SUBSET Ids]
    BY DEF ReapNext, LoadForDestroy, Goto, TypeOK, Steps
  <2> QED BY <2>1, <2>2 DEF ReapNext, TypeOK
<1>2. LocalsInv' BY DEF ReapNext, LoadForDestroy, Goto, LocalsInv, TypeOK
<1>3. CreatorInv' BY DEF ReapNext, LoadForDestroy, Goto, CreatorInv, TypeOK
<1>4. RecordsInv' BY DEF ReapNext, RecordsInv
<1>5. NameInv' BY DEF ReapNext, LoadForDestroy, Goto, NameInv, TypeOK
<1>6. GoneInv' BY DEF ReapNext, LoadForDestroy, Goto, GoneInv, TypeOK, LocalsInv,
          NoLostVm, Live
<1>7. NoLostVm' BY DEF ReapNext, NoLostVm, Live
<1>8. UntrackedVmExplained' BY DEF ReapNext, LoadForDestroy, Goto,
          UntrackedVmExplained, TypeOK, Live, Creating
<1>9. KeyInv' BY DEF ReapNext, LoadForDestroy, Goto, KeyInv, TypeOK, LocalsInv,
          KeyDirTracked
<1> QED BY <1>1, <1>2, <1>3, <1>4, <1>5, <1>6, <1>7, <1>8, <1>9

\* Collecting labels only moves the reaper on.
LEMMA ReapKnownLabelsInv ==
  ASSUME IInv, NEW a \in Reapers, ReapKnownLabels(a)
  PROVE  IInv'
<1> USE DEF IInv
<1>1. TypeOK' BY DEF ReapKnownLabels, Goto, Recorded, TypeOK, Steps
<1>2. LocalsInv' BY DEF ReapKnownLabels, Goto, LocalsInv, TypeOK
<1>3. CreatorInv' BY DEF ReapKnownLabels, Goto, CreatorInv, TypeOK
<1>4. RecordsInv' BY DEF ReapKnownLabels, RecordsInv
<1>5. NameInv' BY DEF ReapKnownLabels, Goto, NameInv, TypeOK
<1>6. GoneInv' BY DEF ReapKnownLabels, Goto, GoneInv, TypeOK
<1>7. NoLostVm' BY DEF ReapKnownLabels, NoLostVm, Live
<1>8. UntrackedVmExplained' BY DEF ReapKnownLabels, Goto, UntrackedVmExplained,
          TypeOK, Live, Creating
<1>9. KeyInv' BY DEF ReapKnownLabels, Goto, KeyInv, TypeOK, KeyDirTracked
<1> QED BY <1>1, <1>2, <1>3, <1>4, <1>5, <1>6, <1>7, <1>8, <1>9

\* Listing keys only moves the reaper on.
LEMMA ReapListKeysInv ==
  ASSUME IInv, NEW a \in Reapers, ReapListKeys(a)
  PROVE  IInv'
<1> USE DEF IInv
<1>1. TypeOK' BY DEF ReapListKeys, Goto, TypeOK, Steps
<1>2. LocalsInv' BY DEF ReapListKeys, Goto, LocalsInv, TypeOK
<1>3. CreatorInv' BY DEF ReapListKeys, Goto, CreatorInv
<1>4. RecordsInv' BY DEF ReapListKeys, RecordsInv
<1>5. NameInv' BY DEF ReapListKeys, Goto, NameInv
<1>6. GoneInv' BY DEF ReapListKeys, Goto, GoneInv
<1>7. NoLostVm' BY DEF ReapListKeys, NoLostVm, Live
<1>8. UntrackedVmExplained' BY DEF ReapListKeys, Goto, UntrackedVmExplained, Live,
          Creating
<1>9. KeyInv' BY DEF ReapListKeys, Goto, KeyInv, KeyDirTracked
<1> QED BY <1>1, <1>2, <1>3, <1>4, <1>5, <1>6, <1>7, <1>8, <1>9

\* Revoking an orphaned key touches no VM and no record.
LEMMA PruneKeyInv ==
  ASSUME IInv, NEW a \in Reapers, NEW i \in Ids, PruneKey(a, i)
  PROVE  IInv'
<1> USE DEF IInv
<1>1. TypeOK' BY DEF PruneKey, TypeOK
<1>2. LocalsInv' BY DEF PruneKey, LocalsInv
<1>3. CreatorInv' BY DEF PruneKey, CreatorInv
<1>4. RecordsInv' BY DEF PruneKey, RecordsInv
<1>5. NameInv' BY DEF PruneKey, NameInv
<1>6. GoneInv' BY DEF PruneKey, GoneInv
<1>7. NoLostVm' BY DEF PruneKey, NoLostVm, Live
<1>8. UntrackedVmExplained' BY DEF PruneKey, UntrackedVmExplained, Live, Creating
<1>9. KeyInv' BY DEF PruneKey, KeyInv, KeyDirTracked
<1> QED BY <1>1, <1>2, <1>3, <1>4, <1>5, <1>6, <1>7, <1>8, <1>9

\* The end of a pass forgets the reaper's state only.
LEMMA PruneDoneInv ==
  ASSUME IInv, NEW a \in Reapers, PruneDone(a)
  PROVE  IInv'
<1> USE DEF IInv
<1>1. TypeOK' BY DEF PruneDone, EndPass, TypeOK, Steps
<1>2. LocalsInv' BY DEF PruneDone, EndPass, LocalsInv
<1>3. CreatorInv' BY DEF PruneDone, EndPass, CreatorInv
<1>4. RecordsInv' BY DEF PruneDone, RecordsInv
<1>5. NameInv' BY DEF PruneDone, EndPass, NameInv
<1>6. GoneInv' BY DEF PruneDone, EndPass, GoneInv
<1>7. NoLostVm' BY DEF PruneDone, NoLostVm, Live
<1>8. UntrackedVmExplained' BY DEF PruneDone, EndPass, UntrackedVmExplained, Live,
          Creating
<1>9. KeyInv' BY DEF PruneDone, EndPass, KeyInv, KeyDirTracked
<1> QED BY <1>1, <1>2, <1>3, <1>4, <1>5, <1>6, <1>7, <1>8, <1>9

\* A failed call removes at most the VM it was to remove.
LEMMA CallFailsInv ==
  ASSUME IInv, NEW a \in Actors, CallFails(a)
  PROVE  IInv'
<1> USE DEF IInv
<1>1. TypeOK'
  <2>1. faults' \in Nat BY DEF CallFails, Failure, TypeOK
  <2>2. vms' \in [Tags -> Ids \cup {NoId}] BY DEF CallFails, TypeOK, LocalsInv, Record
  <2>3. acct' \subseteq Ids BY DEF CallFails, TypeOK
  <2>4. /\ pc' \in [Actors -> Steps] /\ gate' \in Actors \cup {NoActor}
        /\ cur' \in [Actors -> Ids \cup {NoId}] /\ loc' \in [Actors -> Record \cup {NoRec}]
        /\ todo' \in [Actors -> SUBSET Ids] /\ known' \in [Actors -> SUBSET Ids]
        BY DEF CallFails, Return, EndPass, TypeOK, Steps
  <2>5. loose' \subseteq Ids /\ tried' \subseteq Ids
    <3>1. CASE UNCHANGED trail BY <3>1 DEF TypeOK
    <3>2. CASE pc[a] = "rm" /\ RemoveByName(a) BY <3>2, RemoveTypes
    <3> QED BY <3>1, <3>2 DEF CallFails
  <2> QED BY <2>1, <2>2, <2>3, <2>4, <2>5 DEF CallFails, TypeOK, Steps
<1>2. LocalsInv' BY DEF CallFails, EndPass, Return, LocalsInv, TypeOK
<1>3. CreatorInv' BY DEF CallFails, EndPass, Return, CreatorInv, TypeOK
<1>4. RecordsInv' BY DEF CallFails, RecordsInv
<1>5. NameInv' BY DEF CallFails, EndPass, Return, NameInv, TypeOK
<1>6. GoneInv'
  <2> SUFFICES ASSUME NEW b \in Actors, NEW t \in Tags,
                      pc'[b] \in {"clone", "keyclean", "delete", "retire"}
               PROVE  vms'[t] # cur'[b]
    BY DEF GoneInv
  <2>1. cur'[b] \in Ids BY <1>1, <1>2 DEF TypeOK, LocalsInv
  <2>2. vms'[t] = vms[t] \/ vms'[t] = NoId BY DEF CallFails, TypeOK, LocalsInv, Record
  <2>3. pc'[b] = pc[b] /\ cur'[b] = cur[b] BY DEF CallFails, Return, EndPass, TypeOK
  <2> QED BY <2>1, <2>2, <2>3 DEF GoneInv
<1>7. NoLostVm' BY DEF CallFails, NoLostVm, TypeOK, Live
<1>8. UntrackedVmExplained' BY DEF CallFails, EndPass, Return,
          UntrackedVmExplained, TypeOK, Live, Creating
<1>9. KeyInv' BY DEF CallFails, EndPass, Return, KeyInv, TypeOK, KeyDirTracked
<1> QED BY <1>1, <1>2, <1>3, <1>4, <1>5, <1>6, <1>7, <1>8, <1>9

\* A crash during create leaves the VM counted as leaked.
LEMMA CrashInv ==
  ASSUME IInv, NEW a \in Actors, Crash(a)
  PROVE  IInv'
<1> USE DEF IInv
<1>1. TypeOK'
  <2>1. faults' \in Nat BY DEF Crash, Failure, TypeOK
  <2>2. leaked' \subseteq Ids
    <3>1. leaked \subseteq Ids /\ (cur[a] \in Ids \/ cur[a] = NoId) BY DEF TypeOK
    <3>2. leaked' = leaked \/ (leaked' = leaked \cup {cur[a]} /\ cur[a] # NoId)
      BY DEF Crash, TypeOK, LocalsInv
    <3> QED BY <3>1, <3>2
  <2> QED BY <2>1, <2>2 DEF Crash, EndPass, TypeOK, Steps
<1>2. LocalsInv' BY DEF Crash, EndPass, LocalsInv, TypeOK
<1>3. CreatorInv' BY DEF Crash, EndPass, CreatorInv, TypeOK
<1>4. RecordsInv' BY DEF Crash, RecordsInv
<1>5. NameInv' BY DEF Crash, EndPass, NameInv, TypeOK
<1>6. GoneInv' BY DEF Crash, EndPass, GoneInv, TypeOK
<1>7. NoLostVm' BY DEF Crash, NoLostVm, Live
<1>8. UntrackedVmExplained' BY DEF Crash, EndPass, UntrackedVmExplained, Live,
          Creating
<1>9. KeyInv' BY DEF Crash, EndPass, KeyInv, TypeOK, KeyDirTracked
<1> QED BY <1>1, <1>2, <1>3, <1>4, <1>5, <1>6, <1>7, <1>8, <1>9

\* A VM less leaves nothing untracked.
LEMMA VmVanishesInv ==
  ASSUME IInv, NEW t \in Tags, VmVanishes(t)
  PROVE  IInv'
<1> USE DEF IInv
<1>1. TypeOK'
  <2>1. vms[t] \in Ids BY DEF VmVanishes, TypeOK
  <2>2. loose' \subseteq Ids BY <2>1 DEF VmVanishes, TypeOK
  <2> QED BY <2>2 DEF VmVanishes, Failure, TypeOK
<1>2. LocalsInv' BY DEF VmVanishes, LocalsInv
<1>3. CreatorInv' BY DEF VmVanishes, CreatorInv
<1>4. RecordsInv' BY DEF VmVanishes, RecordsInv
<1>5. NameInv' BY DEF VmVanishes, NameInv
<1>6. GoneInv' BY DEF VmVanishes, GoneInv, TypeOK, LocalsInv, NoLostVm
<1>7. NoLostVm' BY DEF VmVanishes, NoLostVm, TypeOK, Live
<1>8. UntrackedVmExplained' BY DEF VmVanishes, UntrackedVmExplained, Live,
          Creating
<1>9. KeyInv' BY DEF VmVanishes, KeyInv, KeyDirTracked
<1> QED BY <1>1, <1>2, <1>3, <1>4, <1>5, <1>6, <1>7, <1>8, <1>9

\* Time changes no record.
LEMMA TickInv ==
  ASSUME IInv, Tick
  PROVE  IInv'
<1> USE DEF IInv
<1>1. TypeOK' BY DEF Tick, TypeOK
<1>2. LocalsInv' BY DEF Tick, LocalsInv
<1>3. CreatorInv' BY DEF Tick, CreatorInv
<1>4. RecordsInv' BY DEF Tick, RecordsInv
<1>5. NameInv' BY DEF Tick, NameInv
<1>6. GoneInv' BY DEF Tick, GoneInv
<1>7. NoLostVm' BY DEF Tick, NoLostVm, Live
<1>8. UntrackedVmExplained' BY DEF Tick, UntrackedVmExplained, Live, Creating
<1>9. KeyInv' BY DEF Tick, KeyInv, KeyDirTracked
<1> QED BY <1>1, <1>2, <1>3, <1>4, <1>5, <1>6, <1>7, <1>8, <1>9

\* The initial states, with an older version's records or without, satisfy it.
LEMMA InitInv == Init => IInv
<1> SUFFICES ASSUME Init PROVE IInv
  OBVIOUS
<1> USE NamesAssumption
<1>0. PICK f \in [Legacy -> Tags] :
        /\ recs = [i \in Ids |-> IF i \in Legacy
                     THEN [tag |-> f[i], lease |-> 0, cleanup_failed |-> TRUE]
                     ELSE NoRec]
        /\ vms \in [Tags -> Legacy \cup {NoId}]
        /\ \A t \in Tags : \A i \in Legacy : vms[t] = i <=> f[i] = t
  BY DEF Init
<1>1. TypeOK
  <2>1. recs \in [Ids -> Record \cup {NoRec}]
    <3>1. \A i \in Legacy : [tag |-> f[i], lease |-> 0, cleanup_failed |-> TRUE] \in Record
      BY DEF Record
    <3> QED BY <1>0, <3>1
  <2>2. vms \in [Tags -> Ids \cup {NoId}]
    <3>1. vms \in [Tags -> Legacy \cup {NoId}] /\ Legacy \subseteq Ids BY <1>0
    <3> QED BY <3>1
  <2> QED BY <2>1, <2>2 DEF Init, TypeOK, Steps
<1>2. LocalsInv /\ CreatorInv BY DEF Init, LocalsInv, CreatorInv
<1>3. RecordsInv BY DEF Init, RecordsInv
<1>4. NameInv
  <2>1. \A t \in Tags : vms[t] # NoId => vms[t] \in used /\ recs[vms[t]].tag = t
    <3> SUFFICES ASSUME NEW t \in Tags, vms[t] # NoId
                 PROVE  vms[t] \in used /\ recs[vms[t]].tag = t
      OBVIOUS
    <3>1. vms[t] \in Legacy \cup {NoId} BY <1>0
    <3>2. vms[t] \in Legacy /\ vms[t] \in Ids BY <3>1
    <3>3. f[vms[t]] = t BY <1>0, <3>2
    <3>4. recs[vms[t]] = [tag |-> t, lease |-> 0, cleanup_failed |-> TRUE] BY <1>0, <3>2, <3>3
    <3>5. used = Legacy BY DEF Init
    <3> QED BY <3>2, <3>4, <3>5
  <2> QED BY <2>1 DEF Init, NameInv
<1>5. GoneInv BY DEF Init, GoneInv
<1>6. \A i \in Legacy : recs[i] # NoRec
  <2> SUFFICES ASSUME NEW i \in Legacy PROVE recs[i] # NoRec
    OBVIOUS
  <2>1. recs[i] = [tag |-> f[i], lease |-> 0, cleanup_failed |-> TRUE] /\ f[i] \in Tags
    BY <1>0
  <2>2. recs[i] \in Record BY <2>1 DEF Record
  <2> QED BY <2>2
<1>7. NoLostVm BY <1>6 DEF Init, NoLostVm
<1>8. UntrackedVmExplained
  <2>1. \A t \in Tags : vms[t] \in Legacy \cup {NoId} BY <1>0
  <2> QED BY <1>6, <2>1 DEF UntrackedVmExplained, Live
<1>9. KeyInv BY <1>6 DEF Init, KeyInv, KeyDirTracked
<1> QED BY <1>1, <1>2, <1>3, <1>4, <1>5, <1>7, <1>8, <1>9 DEF IInv

\* A step that changes no variable preserves it.
LEMMA StutterInv ==
  ASSUME IInv, UNCHANGED vars
  PROVE  IInv'
<1> USE DEF IInv, vars
<1>1. TypeOK' BY DEF TypeOK
<1>2. LocalsInv' /\ CreatorInv' BY DEF LocalsInv, CreatorInv
<1>3. RecordsInv' /\ NameInv' BY DEF RecordsInv, NameInv
<1>4. GoneInv' /\ NoLostVm' BY DEF GoneInv, NoLostVm, Live
<1>5. UntrackedVmExplained' BY DEF UntrackedVmExplained, Live, Creating
<1>6. KeyInv' BY DEF KeyInv, KeyDirTracked
<1> QED BY <1>1, <1>2, <1>3, <1>4, <1>5, <1>6

\* Every step of every actor, of the environment and of the clock preserves it.
LEMMA NextInv == IInv /\ [Next]_vars => IInv'
<1> SUFFICES ASSUME IInv, [Next]_vars PROVE IInv'
  OBVIOUS
<1>1. CASE UNCHANGED vars BY <1>1, StutterInv
<1>2. ASSUME NEW a \in Clients, CreateStep(a) PROVE IInv'
  BY <1>2, StartCreateInv, CloneInv, CloneFailsInv, FinishInv, FinishFailsInv,
     RollbackInv, RegisterKeyInv, SaveRecordInv, SaveFailsInv, VerifiedInv
     DEF CreateStep
<1>3. ASSUME NEW a \in Clients, RenewStep(a) PROVE IInv'
  BY <1>3, StartRenewInv, SaveRenewalInv DEF RenewStep
<1>4. ASSUME NEW a \in Actors, DestroyStep(a) PROVE IInv'
  BY <1>4, RevokeKeyInv, ProbeFoundInv, ProbeNotFoundInv, RemoveVmInv,
     CleanupKeypairInv, DeleteRecordInv DEF DestroyStep
<1>5. ASSUME NEW r \in Reapers, ReapStep(r) PROVE IInv'
  BY <1>5, ReapReadDirInv, ReapListInv, ReapListFailsInv, ReapNextInv,
     ReapKnownLabelsInv, ReapListKeysInv, PruneKeyInv, PruneDoneInv DEF ReapStep
<1>6. CASE Next
  BY <1>2, <1>3, <1>4, <1>5, <1>6, StartDestroyInv, CallFailsInv, CrashInv,
     VmVanishesInv, TickInv DEF Next
<1> QED BY <1>1, <1>6

-----------------------------------------------------------------------------
\* IInv holds throughout every behaviour.
THEOREM Invariance == Spec => []IInv
  BY InitInv, NextInv, PTL DEF Spec

\* Every variable keeps its type whatever create, destroy, renew and reap do to
\* each other.
THEOREM TypeCorrect == Spec => []TypeOK
<1>1. IInv => TypeOK BY DEF IInv
<1> QED BY <1>1, Invariance, PTL

\* A sandbox once acknowledged as durable is never running without its record:
\* create saves before it answers, and destroy and reap delete a record only
\* after the backend has said that the VM is gone.
THEOREM NoVmIsLost == Spec => []NoLostVm
<1>1. IInv => NoLostVm BY DEF IInv
<1> QED BY <1>1, Invariance, PTL

\* Every VM without a record is being created or is one of the four leaks that
\* create cannot undo; no other interleaving or failure makes one.
THEOREM UntrackedVmsExplained == Spec => []UntrackedVmExplained
<1>1. IInv => UntrackedVmExplained BY DEF IInv
<1> QED BY <1>1, Invariance, PTL

\* On exe.dev the record of a sandbox outlives its private key's directory:
\* destroy_with_key takes a VM already gone as success, so cleanup_keypair
\* always runs first.
THEOREM KeyDirsTrackedOnExedev == ASSUME AccountKeys PROVE Spec => []KeyDirTracked
<1>1. IInv => KeyDirTracked BY DEF IInv, KeyInv
<1> QED BY <1>1, Invariance, PTL

-----------------------------------------------------------------------------
(* The cap.  A handler holds the creation gate from the count to the save,  *)
(* and meanwhile records only go or are written back by renewals: the place *)
(* it was granted is still free when it saves.                              *)

Counted == Recorded \ revived

CapInv ==
    /\ IsFiniteSet(used)
    /\ Cardinality(Counted) <= MaxSandboxes
    /\ \A a \in Actors : pc[a] \in CreateSteps =>
         gate = a /\ Cardinality(Counted) < MaxSandboxes

\* What every step but the admission and the save of a create does: it hands
\* out no id, adds no record but one written back, begins no create and leaves
\* the gate to a creator that holds it.
AddsNothing ==
    /\ Counted' \subseteq Counted
    /\ UNCHANGED used
    /\ \A a \in Actors : pc'[a] \in CreateSteps =>
         pc[a] \in CreateSteps /\ (gate = a => gate' = a)

Admission  == \E a \in Clients, i \in Ids, t \in Tags, w \in BOOLEAN : StartCreate(a, i, t, w)
CreateSave == \E a \in Clients, d \in Durations : SaveRecord(a, d)

\* Every other step is such a step.
LEMMA OtherStepsAddNothing ==
  ASSUME IInv, [Next]_vars
  PROVE  AddsNothing \/ Admission \/ CreateSave
<1> USE DEF IInv, TypeOK
<1>1. ASSUME NEW a \in Clients, Clone(a) PROVE AddsNothing
  BY <1>1 DEF Clone, Goto, AddsNothing, Counted, Recorded
<1>2. ASSUME NEW a \in Clients, CloneFails(a) PROVE AddsNothing
  BY <1>2 DEF CloneFails, Return, AddsNothing, Counted, Recorded
<1>3. ASSUME NEW a \in Clients, Finish(a) PROVE AddsNothing
  BY <1>3 DEF Finish, Goto, AddsNothing, Counted, Recorded
<1>4. ASSUME NEW a \in Clients, FinishFails(a) PROVE AddsNothing
  BY <1>4 DEF FinishFails, Goto, AddsNothing, Counted, Recorded
<1>5. ASSUME NEW a \in Clients, Rollback(a) PROVE AddsNothing
  BY <1>5 DEF Rollback, Return, AddsNothing, Counted, Recorded
<1>6. ASSUME NEW a \in Clients, RegisterKey(a) PROVE AddsNothing
  BY <1>6 DEF RegisterKey, Goto, AddsNothing, Counted, Recorded
<1>7. ASSUME NEW a \in Clients, SaveFails(a) PROVE AddsNothing
  BY <1>7 DEF SaveFails, Return, AddsNothing, Counted, Recorded
<1>8. ASSUME NEW a \in Clients, Verified(a) PROVE AddsNothing
  BY <1>8 DEF Verified, Return, AddsNothing, Counted, Recorded
<1>9. ASSUME NEW a \in Clients, NEW i \in Ids, StartDestroy(a, i) PROVE AddsNothing
  BY <1>9 DEF StartDestroy, LoadForDestroy, Goto, AddsNothing, Counted, Recorded
<1>10. ASSUME NEW a \in Actors, RevokeKey(a) PROVE AddsNothing
  BY <1>10 DEF RevokeKey, Goto, AddsNothing, Counted, Recorded
<1>11. ASSUME NEW a \in Actors, ProbeFound(a) PROVE AddsNothing
  BY <1>11 DEF ProbeFound, Goto, AddsNothing, Counted, Recorded
<1>12. ASSUME NEW a \in Actors, ProbeNotFound(a) PROVE AddsNothing
  BY <1>12 DEF ProbeNotFound, Goto, Return, AddsNothing, Counted, Recorded
<1>13. ASSUME NEW a \in Actors, RemoveVm(a) PROVE AddsNothing
  BY <1>13 DEF RemoveVm, Goto, AddsNothing, Counted, Recorded
<1>14. ASSUME NEW a \in Actors, CleanupKeypair(a) PROVE AddsNothing
  BY <1>14 DEF CleanupKeypair, Goto, AddsNothing, Counted, Recorded
<1>15. ASSUME NEW a \in Actors, DeleteRecord(a) PROVE AddsNothing
  BY <1>15 DEF DeleteRecord, Return, AddsNothing, Counted, Recorded
<1>16. ASSUME NEW a \in Clients, NEW i \in Ids, StartRenew(a, i) PROVE AddsNothing
  BY <1>16 DEF StartRenew, Goto, AddsNothing, Counted, Recorded
<1>17. ASSUME NEW a \in Clients, NEW d \in Durations, SaveRenewal(a, d) PROVE AddsNothing
  BY <1>17 DEF SaveRenewal, Return, LeaseFor, AddsNothing, Counted, Recorded
<1>18. ASSUME NEW a \in Reapers, ReapReadDir(a) PROVE AddsNothing
  BY <1>18 DEF ReapReadDir, Goto, AddsNothing, Counted, Recorded
<1>19. ASSUME NEW a \in Reapers, ReapList(a) PROVE AddsNothing
  BY <1>19 DEF ReapList, Goto, AddsNothing, Counted, Recorded
<1>20. ASSUME NEW a \in Reapers, ReapListFails(a) PROVE AddsNothing
  BY <1>20 DEF ReapListFails, EndPass, AddsNothing, Counted, Recorded
<1>21. ASSUME NEW a \in Reapers, NEW i \in Ids, ReapNext(a, i) PROVE AddsNothing
  BY <1>21 DEF ReapNext, LoadForDestroy, Goto, AddsNothing, Counted, Recorded
<1>22. ASSUME NEW a \in Reapers, ReapKnownLabels(a) PROVE AddsNothing
  BY <1>22 DEF ReapKnownLabels, Goto, AddsNothing, Counted, Recorded
<1>23. ASSUME NEW a \in Reapers, ReapListKeys(a) PROVE AddsNothing
  BY <1>23 DEF ReapListKeys, Goto, AddsNothing, Counted, Recorded
<1>24. ASSUME NEW a \in Reapers, NEW i \in Ids, PruneKey(a, i) PROVE AddsNothing
  BY <1>24 DEF PruneKey, AddsNothing, Counted, Recorded
<1>25. ASSUME NEW a \in Reapers, PruneDone(a) PROVE AddsNothing
  BY <1>25 DEF PruneDone, EndPass, AddsNothing, Counted, Recorded
<1>26. ASSUME NEW a \in Actors, CallFails(a) PROVE AddsNothing
  BY <1>26 DEF CallFails, Return, EndPass, AddsNothing, Counted, Recorded
<1>27. ASSUME NEW a \in Actors, Crash(a) PROVE AddsNothing
  BY <1>27 DEF Crash, EndPass, AddsNothing, Counted, Recorded
<1>28. ASSUME NEW t \in Tags, VmVanishes(t) PROVE AddsNothing
  BY <1>28 DEF VmVanishes, AddsNothing, Counted, Recorded
<1>29. ASSUME Tick PROVE AddsNothing BY <1>29 DEF Tick, AddsNothing, Counted, Recorded
<1>30. CASE UNCHANGED vars BY <1>30 DEF vars, AddsNothing, Counted, Recorded
<1>31. ASSUME NEW a \in Clients, CreateStep(a) PROVE AddsNothing \/ Admission \/ CreateSave
  BY <1>31, <1>1, <1>2, <1>3, <1>4, <1>5, <1>6, <1>7, <1>8 DEF CreateStep, Admission,
     CreateSave
<1>32. ASSUME NEW a \in Actors, DestroyStep(a) PROVE AddsNothing
  BY <1>32, <1>10, <1>11, <1>12, <1>13, <1>14, <1>15 DEF DestroyStep
<1>33. ASSUME NEW a \in Clients, RenewStep(a) PROVE AddsNothing
  BY <1>33, <1>16, <1>17 DEF RenewStep
<1>34. ASSUME NEW a \in Reapers, ReapStep(a) PROVE AddsNothing
  BY <1>34, <1>18, <1>19, <1>20, <1>21, <1>22, <1>23, <1>24, <1>25 DEF ReapStep
<1> QED
  BY <1>30, <1>31, <1>32, <1>33, <1>34, <1>9, <1>26, <1>27, <1>28, <1>29 DEF Next

\* A step that adds nothing keeps to the cap.
LEMMA AddsNothingCap ==
  ASSUME IInv, IInv', CapInv, AddsNothing
  PROVE  CapInv'
<1>1. IsFiniteSet(Counted)
  <2>1. Counted \in SUBSET used BY DEF Counted, Recorded, IInv, RecordsInv
  <2> QED BY <2>1, FS_Subset DEF CapInv
<1>2. Counted' \in SUBSET Counted BY DEF AddsNothing
<1>3. Cardinality(Counted') <= Cardinality(Counted) /\ IsFiniteSet(Counted')
  BY <1>1, <1>2, FS_Subset
<1>4. Cardinality(Counted) \in Nat /\ Cardinality(Counted') \in Nat
  BY <1>1, <1>3, FS_CardinalityType
<1>5. /\ Cardinality(Counted') <= MaxSandboxes
      /\ Cardinality(Counted) < MaxSandboxes => Cardinality(Counted') < MaxSandboxes
  BY <1>3, <1>4 DEF CapInv
<1> QED BY <1>5 DEF CapInv, AddsNothing

\* The handler that is let in found a place free, and nobody else is creating:
\* they would hold the gate.
LEMMA AdmissionCap ==
  ASSUME Cli = {}, IInv, CapInv, Admission
  PROVE  CapInv'
<1>1. PICK a \in Clients, i \in Ids, t \in Tags, w \in BOOLEAN : StartCreate(a, i, t, w)
  BY DEF Admission
<1>2. /\ gate = NoActor /\ gate' = a /\ Cardinality(Recorded) < MaxSandboxes
      /\ used' = used \cup {i} /\ UNCHANGED <<recs, revived>>
  BY <1>1 DEF StartCreate, Admit
<1>3. Counted' = Counted BY <1>2 DEF Counted, Recorded
<1>4. IsFiniteSet(Recorded)
  <2>1. Recorded \in SUBSET used BY DEF Recorded, IInv, RecordsInv
  <2> QED BY <2>1, FS_Subset DEF CapInv
<1>5. Counted \in SUBSET Recorded BY DEF Counted
<1>6. IsFiniteSet(Counted) /\ Cardinality(Counted) <= Cardinality(Recorded)
  BY <1>4, <1>5, FS_Subset
<1>7. Cardinality(Counted) \in Nat /\ Cardinality(Recorded) \in Nat
  BY <1>4, <1>6, FS_CardinalityType
<1>8. Cardinality(Counted') < MaxSandboxes /\ Cardinality(Counted') <= MaxSandboxes
  BY <1>2, <1>3, <1>6, <1>7
<1>9. IsFiniteSet(used') BY <1>2, FS_AddElement DEF CapInv
<1>10. \A b \in Actors : pc'[b] \in CreateSteps => gate' = b
  <2>1. \A b \in Actors : pc[b] \notin CreateSteps BY <1>2 DEF CapInv
  <2>2. \A b \in Actors : b # a => pc'[b] = pc[b] BY <1>1 DEF StartCreate, Goto, IInv, TypeOK
  <2> QED BY <1>2, <2>1, <2>2
<1> QED BY <1>8, <1>9, <1>10 DEF CapInv

\* The save takes the place granted; no other create is under way.
LEMMA CreateSaveCap ==
  ASSUME IInv, CapInv, CreateSave
  PROVE  CapInv'
<1>1. PICK a \in Clients, d \in Durations : SaveRecord(a, d)
  BY DEF CreateSave
<1>2. /\ pc[a] = "save" /\ pc' = [pc EXCEPT ![a] = "verify"]
      /\ UNCHANGED <<used, revived, gate>>
  BY <1>1 DEF SaveRecord, Goto
<1>3. gate = a /\ Cardinality(Counted) < MaxSandboxes BY <1>2 DEF CapInv
<1>4. IsFiniteSet(Counted)
  <2>1. Counted \in SUBSET used BY DEF Counted, Recorded, IInv, RecordsInv
  <2> QED BY <2>1, FS_Subset DEF CapInv
<1>5. IsFiniteSet(Counted \cup {cur[a]})
      /\ Cardinality(Counted \cup {cur[a]}) <= Cardinality(Counted) + 1
  <2>1. /\ IsFiniteSet(Counted \cup {cur[a]})
        /\ Cardinality(Counted \cup {cur[a]}) =
             IF cur[a] \in Counted THEN Cardinality(Counted) ELSE Cardinality(Counted) + 1
  BY <1>4, FS_AddElement
  <2>2. Cardinality(Counted) \in Nat BY <1>4, FS_CardinalityType
  <2> QED BY <2>1, <2>2
<1>6. Counted' \in SUBSET (Counted \cup {cur[a]})
  BY <1>1, <1>2 DEF SaveRecord, Counted, Recorded, IInv, TypeOK
<1>7. IsFiniteSet(Counted') /\ Cardinality(Counted') <= Cardinality(Counted \cup {cur[a]})
  BY <1>5, <1>6, FS_Subset
<1>8. Cardinality(Counted') \in Nat /\ Cardinality(Counted) \in Nat
      /\ Cardinality(Counted \cup {cur[a]}) \in Nat
  BY <1>4, <1>5, <1>7, FS_CardinalityType
<1>9. Cardinality(Counted') <= MaxSandboxes BY <1>3, <1>5, <1>7, <1>8
<1>10. \A b \in Actors : pc'[b] \notin CreateSteps
  <2>1. \A b \in Actors : b # a => pc[b] \notin CreateSteps BY <1>3 DEF CapInv
  <2> QED BY <1>2, <2>1 DEF IInv, TypeOK
<1> QED BY <1>2, <1>9, <1>10 DEF CapInv

\* The records an older version left are within the cap to begin with.
LEMMA InitCap ==
  ASSUME IsFiniteSet(Legacy), Cardinality(Legacy) <= MaxSandboxes, Init
  PROVE  CapInv
<1>1. Recorded \in SUBSET Legacy BY DEF Init, Recorded
<1>2. revived = {} /\ used = Legacy /\ \A a \in Actors : pc[a] = "idle" BY DEF Init
<1>3. Counted \in SUBSET Legacy BY <1>1 DEF Counted
<1>4. IsFiniteSet(Counted) /\ Cardinality(Counted) <= Cardinality(Legacy) BY <1>3, FS_Subset
<1>5. Cardinality(Counted) \in Nat /\ Cardinality(Legacy) \in Nat BY <1>4, FS_CardinalityType
<1>6. Cardinality(Counted) <= MaxSandboxes BY <1>4, <1>5
<1> QED BY <1>2, <1>6 DEF CapInv

\* With every creation going through one gateway that finds a store within its
\* cap, max_sandboxes bounds the records for ever, whatever requests overlap,
\* fail or are dropped; only a renewal that writes back a record just destroyed
\* adds one beyond it.
THEOREM CapIsKept ==
  ASSUME IsFiniteSet(Legacy), Cardinality(Legacy) <= MaxSandboxes
  PROVE  Spec => []CapUnlessRevived
<1>1. CASE Cli = {}
  <2>1. Init => CapInv BY InitCap
  <2>2. IInv /\ IInv' /\ CapInv /\ [Next]_vars => CapInv'
  BY <1>1, OtherStepsAddNothing, AddsNothingCap, AdmissionCap, CreateSaveCap
  <2>3. CapInv => CapUnlessRevived BY DEF CapInv, Counted, CapUnlessRevived
  <2> QED BY <2>1, <2>2, <2>3, Invariance, PTL DEF Spec
<1>2. CASE Cli # {}
  <2>1. CapUnlessRevived BY <1>2 DEF CapUnlessRevived
  <2> QED BY <2>1, PTL
<1> QED BY <1>1, <1>2

-----------------------------------------------------------------------------
(* Names.  Until its destroy begins, the VM of a sandbox whose name is not  *)
(* loose has the name its record and every copy of the record say; from     *)
(* then on one destroyer knows it, and nobody else will remove it.          *)

Making    == {"finish", "register", "save", "rollback"}
Unmaking  == {"revoke", "probe", "rm"}

OwnVmInv ==
    /\ \A i \in Ids : recs[i] # NoRec /\ i \notin tried \cup loose => vms[recs[i].tag] = i
    /\ \A a \in Actors :
         /\ pc[a] \in Making \cup Unmaking /\ cur[a] \notin loose => vms[loc[a].tag] = cur[a]
         /\ pc[a] = "renew" /\ cur[a] \notin tried \cup loose => vms[loc[a].tag] = cur[a]
         /\ pc[a] \in Unmaking => cur[a] \in tried
    /\ \A a, b \in Actors :
         a # b /\ pc[a] \in Unmaking /\ pc[b] \in Unmaking /\ cur[a] = cur[b] => cur[a] \in loose
    /\ tried \subseteq saved

\* A removal by name takes the VM that only the remover knows, or one whose
\* sandbox is loose from then on.
LEMMA RemoveOwnVm ==
  ASSUME IInv, OwnVmInv, NEW a \in Actors, pc[a] \in {"rollback", "probe", "rm"},
         RemoveByName(a), UNCHANGED <<recs, saved>>,
         pc'[a] \notin Making \cup Unmaking \cup {"renew"},
         \A b \in Actors : b # a => pc'[b] = pc[b] /\ cur'[b] = cur[b] /\ loc'[b] = loc[b]
  PROVE  OwnVmInv'
<1> DEFINE g == loc[a].tag
           v == vms[g]
<1>1. g \in Tags /\ cur[a] \in Ids BY DEF IInv, LocalsInv, Record
<1>2. /\ vms' = [vms EXCEPT ![g] = NoId]
      /\ tried' = tried /\ loose' = loose \cup ({v} \ {cur[a], NoId})
  BY DEF RemoveByName
<1>3. \A t \in Tags, i \in Ids :
        i \notin loose' /\ i # cur[a] /\ vms[t] = i => vms'[t] = i
  BY <1>1, <1>2 DEF IInv, TypeOK
<1>4. \A b \in Actors : b # a /\ cur[a] \notin loose =>
        /\ pc[b] \in Making \cup Unmaking => cur[b] # cur[a]
        /\ pc[b] = "renew" /\ cur[b] \notin tried => cur[b] # cur[a]
  BY DEF IInv, LocalsInv, CreatorInv, OwnVmInv, Making, Unmaking
<1>5. cur[a] \in tried \/ recs[cur[a]] = NoRec
  BY <1>1 DEF IInv, LocalsInv, RecordsInv, OwnVmInv, Unmaking
<1>6. \A i \in Ids : recs'[i] # NoRec /\ i \notin tried' \cup loose' => vms'[recs'[i].tag] = i
  <2> SUFFICES ASSUME NEW i \in Ids, recs[i] # NoRec, i \notin tried \cup loose'
               PROVE  vms'[recs[i].tag] = i
    BY <1>2
  <2>1. recs[i].tag \in Tags BY DEF IInv, TypeOK, Record
  <2>2. vms[recs[i].tag] = i BY <1>2 DEF OwnVmInv
  <2> QED BY <1>3, <1>5, <2>1, <2>2
<1>7. ASSUME NEW b \in Actors
      PROVE  /\ pc'[b] \in Making \cup Unmaking /\ cur'[b] \notin loose'
                  => vms'[loc'[b].tag] = cur'[b]
             /\ pc'[b] = "renew" /\ cur'[b] \notin tried' \cup loose'
                  => vms'[loc'[b].tag] = cur'[b]
             /\ pc'[b] \in Unmaking => cur'[b] \in tried'
  <2> USE DEF Making, Unmaking
  <2>1. CASE b = a BY <2>1
  <2>2. CASE b # a
    <3>1. pc'[b] = pc[b] /\ cur'[b] = cur[b] /\ loc'[b] = loc[b] BY <2>2
    <3>2. pc[b] \in Making \cup Unmaking \cup {"renew"} => loc[b].tag \in Tags /\ cur[b] \in Ids
      BY DEF IInv, LocalsInv, Record
    <3>3. loose \subseteq loose' BY <1>2
    <3>4. pc[b] \in Unmaking => cur[b] \in tried BY DEF OwnVmInv
    <3>5. pc[b] \in Making \cup Unmaking /\ cur[b] \notin loose => vms[loc[b].tag] = cur[b]
      BY DEF OwnVmInv
    <3>6. pc[b] = "renew" /\ cur[b] \notin tried \cup loose => vms[loc[b].tag] = cur[b]
      BY DEF OwnVmInv
    <3>7. pc[b] \in Making \cup Unmaking /\ cur[b] \notin loose' => cur[b] # cur[a]
      BY <1>4, <2>2, <3>3
    <3>8. pc[b] = "renew" /\ cur[b] \notin tried \cup loose' => cur[b] # cur[a]
      BY <1>4, <2>2, <3>3
    <3> HIDE DEF Making, Unmaking
    <3> QED BY <1>2, <1>3, <3>1, <3>2, <3>3, <3>4, <3>5, <3>6, <3>7, <3>8
  <2> QED BY <2>1, <2>2
<1>8. \A b, c \in Actors :
        b # c /\ pc'[b] \in Unmaking /\ pc'[c] \in Unmaking /\ cur'[b] = cur'[c]
          => cur'[b] \in loose'
  BY <1>2 DEF OwnVmInv
<1>9. tried' \subseteq saved' BY <1>2 DEF OwnVmInv
<1> QED BY <1>6, <1>7, <1>8, <1>9 DEF OwnVmInv

\* The first destroy to begin finds the VM where the record says it is.
LEMMA LoadOwnVm ==
  ASSUME IInv, OwnVmInv, NEW a \in Actors, NEW i \in Ids, LoadForDestroy(a, i),
         UNCHANGED <<recs, vms, saved>>
  PROVE  OwnVmInv'
<1>1. /\ recs[i] # NoRec /\ i \in saved /\ recs[i].tag \in Tags
      /\ tried' = tried \cup {i} /\ loose' = loose \cup ({i} \cap tried)
  BY DEF LoadForDestroy, IInv, RecordsInv, TypeOK, Record
<1>2. pc'[a] \in Unmaking /\ cur'[a] = i /\ loc'[a] = recs[i]
  BY DEF LoadForDestroy, Goto, IInv, TypeOK, Unmaking
<1>3. \A b \in Actors : b # a => pc'[b] = pc[b] /\ cur'[b] = cur[b] /\ loc'[b] = loc[b]
  BY DEF LoadForDestroy, Goto, IInv, TypeOK
<1>4. \A j \in Ids : recs'[j] # NoRec /\ j \notin tried' \cup loose' => vms'[recs'[j].tag] = j
  BY <1>1 DEF OwnVmInv
<1>5. ASSUME NEW b \in Actors
      PROVE  /\ pc'[b] \in Making \cup Unmaking /\ cur'[b] \notin loose'
                  => vms'[loc'[b].tag] = cur'[b]
             /\ pc'[b] = "renew" /\ cur'[b] \notin tried' \cup loose'
                  => vms'[loc'[b].tag] = cur'[b]
             /\ pc'[b] \in Unmaking => cur'[b] \in tried'
  <2>1. CASE b = a
    <3>1. i \notin loose' => vms[recs[i].tag] = i BY <1>1 DEF OwnVmInv
    <3> QED BY <1>1, <1>2, <2>1, <3>1 DEF Unmaking
  <2>2. CASE b # a BY <1>1, <1>3, <2>2 DEF OwnVmInv
  <2> QED BY <2>1, <2>2
<1>6. ASSUME NEW b \in Actors, NEW c \in Actors,
             b # c, pc'[b] \in Unmaking, pc'[c] \in Unmaking, cur'[b] = cur'[c]
      PROVE  cur'[b] \in loose'
  <2>1. CASE b = a
    <3>1. cur[c] = i /\ cur[c] \in tried BY <1>2, <1>3, <1>6, <2>1 DEF OwnVmInv
    <3> QED BY <1>1, <1>2, <2>1, <3>1
  <2>2. CASE c = a
    <3>1. cur[b] = i /\ cur[b] \in tried BY <1>2, <1>3, <1>6, <2>2 DEF OwnVmInv
    <3> QED BY <1>1, <1>3, <1>6, <2>2, <3>1
  <2>3. CASE b # a /\ c # a BY <1>1, <1>3, <1>6, <2>3 DEF OwnVmInv
  <2> QED BY <2>1, <2>2, <2>3
<1>7. tried' \subseteq saved' BY <1>1 DEF OwnVmInv
<1> QED BY <1>4, <1>5, <1>6, <1>7 DEF OwnVmInv

\* An actor that gives up its sandbox disturbs nothing.
LEMMA QuietOwnVm ==
  ASSUME OwnVmInv, NEW a \in Actors, UNCHANGED <<recs, vms, saved, tried, loose>>,
         pc'[a] \notin Making \cup Unmaking \cup {"renew"},
         \A b \in Actors : b # a => pc'[b] = pc[b] /\ cur'[b] = cur[b] /\ loc'[b] = loc[b]
  PROVE  OwnVmInv'
BY DEF OwnVmInv

\* Every step keeps to it.
LEMMA NextOwnVm ==
  ASSUME IInv, OwnVmInv, [Next]_vars
  PROVE  OwnVmInv'
<1> USE DEF IInv, TypeOK, LocalsInv, Making, Unmaking
<1>1. ASSUME NEW a \in Clients, NEW i \in Ids, NEW t \in Tags, NEW w \in BOOLEAN,
             StartCreate(a, i, t, w)
      PROVE  OwnVmInv'
  BY <1>1 DEF StartCreate, Goto, OwnVmInv, Record
<1>2. ASSUME NEW a \in Clients, Clone(a) PROVE OwnVmInv'
  BY <1>2 DEF Clone, Goto, OwnVmInv, Record
<1>3. ASSUME NEW a \in Clients, CloneFails(a) PROVE OwnVmInv'
  BY <1>3 DEF CloneFails, Return, OwnVmInv, Record
<1>4. ASSUME NEW a \in Clients, Finish(a) PROVE OwnVmInv'
  BY <1>4 DEF Finish, Goto, OwnVmInv, Record
<1>5. ASSUME NEW a \in Clients, FinishFails(a) PROVE OwnVmInv'
  BY <1>5 DEF FinishFails, Goto, OwnVmInv, Record
<1>6. ASSUME NEW a \in Clients, Rollback(a) PROVE OwnVmInv'
  <2>1. UNCHANGED <<recs, saved>> /\ pc[a] = "rollback" /\ pc'[a] = "idle"
        /\ \A b \in Actors : b # a => pc'[b] = pc[b] /\ cur'[b] = cur[b] /\ loc'[b] = loc[b]
    BY <1>6 DEF Rollback, Return
  <2>2. CASE RemoveByName(a) BY <2>1, <2>2, RemoveOwnVm
  <2>3. CASE UNCHANGED <<vms, trail>> BY <2>1, <2>3, QuietOwnVm
  <2> QED BY <1>6, <2>2, <2>3 DEF Rollback
<1>7. ASSUME NEW a \in Clients, RegisterKey(a) PROVE OwnVmInv'
  BY <1>7 DEF RegisterKey, Goto, OwnVmInv, Record
<1>8. ASSUME NEW a \in Clients, SaveFails(a) PROVE OwnVmInv'
  BY <1>8 DEF SaveFails, Return, OwnVmInv, Record
<1>9. ASSUME NEW a \in Clients, Verified(a) PROVE OwnVmInv'
  BY <1>9 DEF Verified, Return, OwnVmInv, Record
<1>10. ASSUME NEW a \in Clients, NEW i \in Ids, StartDestroy(a, i) PROVE OwnVmInv'
  BY <1>10, LoadOwnVm DEF StartDestroy
<1>11. ASSUME NEW a \in Actors, RevokeKey(a) PROVE OwnVmInv'
  BY <1>11 DEF RevokeKey, Goto, OwnVmInv, Record
<1>12. ASSUME NEW a \in Actors, ProbeFound(a) PROVE OwnVmInv'
  <2>1. CASE AccountKeys
    <3>1. /\ UNCHANGED <<recs, vms, saved, tried, loose, cur, loc>>
          /\ pc[a] = "probe" /\ pc'[a] = "rm"
          /\ \A b \in Actors : b # a => pc'[b] = pc[b]
      BY <1>12, <2>1 DEF ProbeFound, Goto
    <3>2. \A b \in Actors : (pc'[b] \in Unmaking <=> pc[b] \in Unmaking)
                           /\ (pc'[b] \in Making <=> pc[b] \in Making)
                           /\ (pc'[b] = "renew" <=> pc[b] = "renew")
      BY <3>1
    <3> HIDE DEF Making, Unmaking
    <3> QED BY <3>1, <3>2 DEF OwnVmInv
  <2>2. CASE ~AccountKeys
    <3>1. UNCHANGED <<recs, saved>> /\ pc[a] = "probe" /\ pc'[a] = "keyclean"
          /\ \A b \in Actors : b # a => pc'[b] = pc[b] /\ cur'[b] = cur[b] /\ loc'[b] = loc[b]
      BY <1>12, <2>2 DEF ProbeFound, Goto
    <3>2. RemoveByName(a) BY <1>12, <2>2 DEF ProbeFound
    <3> QED BY <3>1, <3>2, RemoveOwnVm
  <2> QED BY <2>1, <2>2
<1>13. ASSUME NEW a \in Actors, ProbeNotFound(a) PROVE OwnVmInv'
  BY <1>13 DEF ProbeNotFound, Goto, Return, OwnVmInv, Record
<1>14. ASSUME NEW a \in Actors, RemoveVm(a) PROVE OwnVmInv'
  <2>1. UNCHANGED <<recs, saved>> /\ pc[a] = "rm" /\ pc'[a] = "keyclean"
        /\ \A b \in Actors : b # a => pc'[b] = pc[b] /\ cur'[b] = cur[b] /\ loc'[b] = loc[b]
    BY <1>14 DEF RemoveVm, Goto
  <2>2. RemoveByName(a) BY <1>14 DEF RemoveVm
  <2> QED BY <2>1, <2>2, RemoveOwnVm
<1>15. ASSUME NEW a \in Actors, CleanupKeypair(a) PROVE OwnVmInv'
  BY <1>15 DEF CleanupKeypair, Goto, OwnVmInv, Record
<1>16. ASSUME NEW a \in Actors, DeleteRecord(a) PROVE OwnVmInv'
  BY <1>16 DEF DeleteRecord, Return, OwnVmInv, Record
<1>17. ASSUME NEW a \in Clients, NEW i \in Ids, StartRenew(a, i) PROVE OwnVmInv'
  BY <1>17 DEF StartRenew, Goto, OwnVmInv, Record
<1>18. ASSUME NEW a \in Clients, NEW d \in Durations, SaveRenewal(a, d) PROVE OwnVmInv'
  BY <1>18 DEF SaveRenewal, Return, LeaseFor, OwnVmInv, Record
<1>19. ASSUME NEW a \in Reapers, ReapReadDir(a) PROVE OwnVmInv'
  BY <1>19 DEF ReapReadDir, Goto, OwnVmInv, Record
<1>20. ASSUME NEW a \in Reapers, ReapList(a) PROVE OwnVmInv'
  BY <1>20 DEF ReapList, Goto, OwnVmInv, Record
<1>21. ASSUME NEW a \in Reapers, ReapListFails(a) PROVE OwnVmInv'
  BY <1>21 DEF ReapListFails, EndPass, OwnVmInv, Record
<1>22. ASSUME NEW a \in Reapers, NEW i \in Ids, ReapNext(a, i) PROVE OwnVmInv'
  <2>1. UNCHANGED <<recs, vms, saved>> BY <1>22 DEF ReapNext
  <2>2. CASE LoadForDestroy(a, i) BY <2>1, <2>2, LoadOwnVm
  <2>3. CASE ~LoadForDestroy(a, i)
    <3>1. UNCHANGED <<tried, loose>> /\ pc'[a] = "retire"
          /\ \A b \in Actors : b # a => pc'[b] = pc[b] /\ cur'[b] = cur[b] /\ loc'[b] = loc[b]
      BY <1>22, <2>3 DEF ReapNext, Goto
    <3> QED BY <2>1, <3>1, QuietOwnVm
  <2> QED BY <2>2, <2>3
<1>23. ASSUME NEW a \in Reapers, ReapKnownLabels(a) PROVE OwnVmInv'
  BY <1>23 DEF ReapKnownLabels, Goto, OwnVmInv, Record
<1>24. ASSUME NEW a \in Reapers, ReapListKeys(a) PROVE OwnVmInv'
  BY <1>24 DEF ReapListKeys, Goto, OwnVmInv, Record
<1>25. ASSUME NEW a \in Reapers, NEW i \in Ids, PruneKey(a, i) PROVE OwnVmInv'
  BY <1>25 DEF PruneKey, OwnVmInv, Record
<1>26. ASSUME NEW a \in Reapers, PruneDone(a) PROVE OwnVmInv'
  BY <1>26 DEF PruneDone, EndPass, OwnVmInv, Record
<1>27. ASSUME NEW a \in Actors, CallFails(a) PROVE OwnVmInv'
  <2>1. UNCHANGED <<recs, saved>> /\ pc'[a] \in {"idle", "sweep"}
        /\ \A b \in Actors : b # a => pc'[b] = pc[b] /\ cur'[b] = cur[b] /\ loc'[b] = loc[b]
    BY <1>27 DEF CallFails, Return, EndPass
  <2>2. CASE pc[a] = "rm" /\ RemoveByName(a) BY <2>1, <2>2, RemoveOwnVm
  <2>3. CASE UNCHANGED <<vms, trail>> BY <2>1, <2>3, QuietOwnVm
  <2> QED BY <1>27, <2>2, <2>3 DEF CallFails
<1>28. ASSUME NEW a \in Actors, Crash(a) PROVE OwnVmInv'
  BY <1>28 DEF Crash, EndPass, OwnVmInv, Record
<1>29. ASSUME NEW t \in Tags, VmVanishes(t) PROVE OwnVmInv'
  BY <1>29 DEF VmVanishes, OwnVmInv, Record
<1>30. ASSUME Tick PROVE OwnVmInv' BY <1>30 DEF Tick, OwnVmInv, Record
<1>31. ASSUME NEW a \in Clients, NEW d \in Durations, SaveRecord(a, d) PROVE OwnVmInv'
  BY <1>31 DEF SaveRecord, Goto, LeaseFor, OwnVmInv, Record
<1>32. CASE UNCHANGED vars BY <1>32 DEF vars, OwnVmInv, Record
<1>33. ASSUME NEW a \in Clients, CreateStep(a) PROVE OwnVmInv'
  BY <1>33, <1>1, <1>2, <1>3, <1>4, <1>5, <1>6, <1>7, <1>31, <1>8, <1>9 DEF CreateStep
<1>34. ASSUME NEW a \in Actors, DestroyStep(a) PROVE OwnVmInv'
  BY <1>34, <1>11, <1>12, <1>13, <1>14, <1>15, <1>16 DEF DestroyStep
<1>35. ASSUME NEW a \in Clients, RenewStep(a) PROVE OwnVmInv'
  BY <1>35, <1>17, <1>18 DEF RenewStep
<1>36. ASSUME NEW a \in Reapers, ReapStep(a) PROVE OwnVmInv'
  BY <1>36, <1>19, <1>20, <1>21, <1>22, <1>23, <1>24, <1>25, <1>26 DEF ReapStep
<1> QED
  BY <1>32, <1>33, <1>34, <1>35, <1>36, <1>10, <1>27, <1>28, <1>29, <1>30 DEF Next

\* An older version's records name the VMs that run.
LEMMA InitOwnVm == Init => OwnVmInv
<1> SUFFICES ASSUME Init PROVE OwnVmInv
  OBVIOUS
<1>1. PICK f \in [Legacy -> Tags] :
        /\ recs = [i \in Ids |-> IF i \in Legacy
                     THEN [tag |-> f[i], lease |-> 0, cleanup_failed |-> TRUE]
                     ELSE NoRec]
        /\ \A t \in Tags : \A i \in Legacy : vms[t] = i <=> f[i] = t
  BY DEF Init
<1>2. \A i \in Ids : recs[i] # NoRec => vms[recs[i].tag] = i BY <1>1
<1>3. \A a \in Actors : pc[a] = "idle" BY DEF Init
<1> QED BY <1>2, <1>3 DEF Init, OwnVmInv, Making, Unmaking

\* Whatever names callers reuse, a destroy or a rollback removes by name the VM
\* of its own sandbox or none, unless that sandbox was destroyed before or lost
\* its VM some other way.
THEOREM DestroysHitOwnVm == Spec => []DestroyHitsOwnVm
<1>1. OwnVmInv => DestroyHitsOwnVm BY DEF OwnVmInv, DestroyHitsOwnVm, Making, Unmaking
<1>2. IInv /\ OwnVmInv /\ [Next]_vars => OwnVmInv' BY NextOwnVm
<1> QED BY <1>1, <1>2, InitOwnVm, Invariance, PTL DEF Spec

-----------------------------------------------------------------------------
(* The lifecycle implements SandboxService.  Every step moves at most one  *)
(* sandbox on, as its users see it, or takes one on or off the list.       *)

\* What a stage depends on.
LEMMA StageKept ==
  ASSUME NEW i, i \in used' <=> i \in used, Cloning(i)' <=> Cloning(i), Live(i)' <=> Live(i)
  PROVE  Stage(i)' = Stage(i)
  BY DEF Stage

\* An actor at work on something else clones nothing.
LEMMA CloningKept ==
  ASSUME NEW a \in Actors, pc[a] # "clone", pc'[a] # "clone",
         \A b \in Actors : b # a => pc'[b] = pc[b] /\ cur'[b] = cur[b]
  PROVE  \A i : Cloning(i)' <=> Cloning(i)
  BY DEF Cloning

\* One sandbox moves on.
LEMMA OneMoves ==
  ASSUME NEW i \in Ids, NEW from, NEW to, Stage(i) = from, Stage(i)' = to,
         \A j \in Ids : j # i => Stage(j)' = Stage(j), Recorded' = Recorded, saved' = saved
  PROVE  Service!Move(i, from, to)
  BY DEF Service!Move

\* None does.
LEMMA NoneMoves ==
  ASSUME \A j \in Ids : Stage(j)' = Stage(j), Recorded' = Recorded, saved' = saved
  PROVE  UNCHANGED Service!serviceVars
  BY DEF Service!serviceVars

\* A step is one of the service, or invisible.
ServiceStep == Service!Next \/ UNCHANGED Service!serviceVars

\* A VM goes, or none: nobody else's sandbox stops.
LEMMA StopStep ==
  ASSUME TypeOK, NEW t \in Tags, vms' \in {vms, [vms EXCEPT ![t] = NoId]},
         \A i : Cloning(i)' <=> Cloning(i), UNCHANGED <<used, saved>>, Recorded' = Recorded
  PROVE  ServiceStep
<1>1. \A j \in Ids : j # vms[t] => (Live(j)' <=> Live(j)) BY DEF TypeOK, Live
<1>2. \A j \in Ids : Live(j)' => Live(j) BY DEF TypeOK, Live
<1>3. \A j \in Ids : j # vms[t] => Stage(j)' = Stage(j) BY <1>1, StageKept
<1>4. CASE \A j \in Ids : Stage(j)' = Stage(j) BY <1>4, NoneMoves DEF ServiceStep
<1>5. ASSUME NEW i \in Ids, Stage(i)' # Stage(i) PROVE ServiceStep
  <2>1. i = vms[t] BY <1>3, <1>5
  <2>2. Live(i) /\ ~Live(i)' BY <1>2, <1>5, StageKept
  <2>3. i \in used /\ ~Cloning(i) BY <1>5, <2>2 DEF Stage
  <2>4. Stage(i) = "running" BY <2>2, <2>3 DEF Stage
  <2>5. Stage(i)' = "stopped" BY <2>2, <2>3 DEF Stage
  <2>6. \A j \in Ids : j # i => Stage(j)' = Stage(j) BY <1>3, <2>1
  <2>7. Service!Stop(i) BY <2>4, <2>5, <2>6, OneMoves DEF Service!Stop
  <2> QED BY <2>7 DEF Service!Next, ServiceStep
<1> QED BY <1>4, <1>5

\* Most steps do not touch a VM, the list or a request that is cloning.
LEMMA QuietStep ==
  ASSUME TypeOK, \A i : Cloning(i)' <=> Cloning(i), UNCHANGED <<used, saved, vms>>,
         Recorded' = Recorded
  PROVE  ServiceStep
<1>1. \A j \in Ids : Live(j)' <=> Live(j) BY DEF Live
<1>2. \A j \in Ids : Stage(j)' = Stage(j) BY <1>1, StageKept
<1> QED BY <1>2, NoneMoves DEF ServiceStep

\* Nobody else is cloning what an actor creates.
LEMMA OnlyCloner ==
  ASSUME IInv, NEW a \in Actors, pc[a] \in CreateSteps, NEW b \in Actors, b # a, pc[b] = "clone"
  PROVE  cur[b] # cur[a]
  BY DEF IInv, CreatorInv

\* The request gets its id.
LEMMA RequestStep ==
  ASSUME IInv, NEW a \in Clients, NEW i \in Ids, NEW t \in Tags, NEW w \in BOOLEAN,
         StartCreate(a, i, t, w)
  PROVE  ServiceStep
<1>1. /\ pc[a] = "idle" /\ i \notin used /\ used' = used \cup {i}
      /\ pc' = [pc EXCEPT ![a] = "clone"] /\ cur' = [cur EXCEPT ![a] = i]
      /\ UNCHANGED <<recs, vms, saved>>
  BY DEF StartCreate, Goto
<1>2. /\ pc'[a] = "clone" /\ cur'[a] = i
      /\ \A b \in Actors : b # a => pc'[b] = pc[b] /\ cur'[b] = cur[b]
  BY <1>1 DEF IInv, TypeOK
<1>3. \A j \in Ids : j # i => (Cloning(j)' <=> Cloning(j)) BY <1>1, <1>2 DEF Cloning
<1>4. Cloning(i)' BY <1>2 DEF Cloning
<1>5. \A j \in Ids : Live(j)' <=> Live(j) BY <1>1 DEF Live
<1>6. \A j \in Ids : j # i => Stage(j)' = Stage(j) BY <1>1, <1>3, <1>5, StageKept
<1>7. Stage(i) = "free" BY <1>1 DEF Stage
<1>8. Stage(i)' = "requested" BY <1>1, <1>4 DEF Stage
<1>9. Recorded' = Recorded BY <1>1 DEF Recorded
<1>10. Service!Request(i) BY <1>1, <1>6, <1>7, <1>8, <1>9, OneMoves DEF Service!Request
<1> QED BY <1>10 DEF Service!Next, ServiceStep

\* The end of a clone: the VM runs, or there will be none for this request.
LEMMA CloneEnds ==
  ASSUME IInv, NEW a \in Clients, pc[a] = "clone", pc'[a] # "clone",
         \A b \in Actors : b # a => pc'[b] = pc[b] /\ cur'[b] = cur[b],
         UNCHANGED <<recs, used, saved>>,
         \/ UNCHANGED vms
         \/ vms[loc[a].tag] = NoId /\ vms' = [vms EXCEPT ![loc[a].tag] = cur[a]]
  PROVE  ServiceStep
<1>1. PICK i \in Ids : i = cur[a] BY DEF IInv, LocalsInv
<1>2. i \in used BY <1>1 DEF IInv, LocalsInv
<1>3. Cloning(i) BY <1>1 DEF Cloning
<1>4. ~Cloning(i)' BY <1>1, OnlyCloner DEF Cloning
<1>5. \A j \in Ids : j # i => (Cloning(j)' <=> Cloning(j)) BY <1>1 DEF Cloning
<1>6. loc[a].tag \in Tags BY DEF IInv, LocalsInv, Record
<1>7. \A j \in Ids : j # i => (Live(j)' <=> Live(j)) BY <1>1, <1>6 DEF IInv, TypeOK, Live
<1>8. \A j \in Ids : j # i => Stage(j)' = Stage(j) BY <1>5, <1>7, StageKept
<1>9. Stage(i) = "requested" BY <1>2, <1>3 DEF Stage
<1>10. Recorded' = Recorded BY DEF Recorded
<1>11. CASE UNCHANGED vms
  <2>1. ~Live(i)' BY <1>1, <1>11 DEF IInv, GoneInv, Live
  <2>2. Stage(i)' = "stopped" BY <1>2, <1>4, <2>1 DEF Stage
  <2>3. Service!Refuse(i) BY <1>8, <1>9, <1>10, <2>2, OneMoves DEF Service!Refuse
  <2> QED BY <2>3 DEF Service!Next, ServiceStep
<1>12. CASE vms' = [vms EXCEPT ![loc[a].tag] = cur[a]]
  <2>1. Live(i)' BY <1>1, <1>6, <1>12 DEF IInv, TypeOK, Live
  <2>2. Stage(i)' = "running" BY <1>2, <1>4, <2>1 DEF Stage
  <2>3. Service!Start(i) BY <1>8, <1>9, <1>10, <2>2, OneMoves DEF Service!Start
  <2> QED BY <2>3 DEF Service!Next, ServiceStep
<1> QED BY <1>11, <1>12

\* The record is made durable: the sandbox is listed for the first time.
LEMMA AcknowledgeStep ==
  ASSUME IInv, NEW a \in Clients, NEW d \in Durations, SaveRecord(a, d)
  PROVE  ServiceStep
<1>1. /\ pc[a] = "save" /\ pc' = [pc EXCEPT ![a] = "verify"]
      /\ saved' = saved \cup {cur[a]} /\ UNCHANGED <<cur, vms, used>>
      /\ recs' = [recs EXCEPT ![cur[a]] = [loc[a] EXCEPT !.lease = LeaseFor(d)]]
  BY DEF SaveRecord, Goto
<1>2. PICK i \in Ids : i = cur[a] BY <1>1 DEF IInv, LocalsInv
<1>3. i \in used /\ i \notin saved BY <1>1, <1>2 DEF IInv, LocalsInv
<1>4. ~Cloning(i) BY <1>1, <1>2, OnlyCloner DEF Cloning
<1>5. [loc[a] EXCEPT !.lease = LeaseFor(d)] # NoRec
  <2>1. loc[a] \in Record /\ LeaseFor(d) \in Nat BY <1>1 DEF IInv, LocalsInv, TypeOK, LeaseFor
  <2>2. [loc[a] EXCEPT !.lease = LeaseFor(d)] \in Record BY <2>1 DEF Record
  <2> QED BY <2>2
<1>6. Recorded' = Recorded \cup {i} BY <1>1, <1>2, <1>5 DEF Recorded, IInv, TypeOK
<1>7. pc'[a] = "verify" /\ \A b \in Actors : b # a => pc'[b] = pc[b] BY <1>1 DEF IInv, TypeOK
<1>8. \A j : Cloning(j)' <=> Cloning(j) BY <1>1, <1>7, CloningKept
<1>9. \A j \in Ids : Stage(j)' = Stage(j)
  <2>1. \A j \in Ids : Live(j)' <=> Live(j) BY <1>1 DEF Live
  <2> QED BY <1>1, <1>8, <2>1, StageKept
<1>10. Stage(i) \in {"running", "stopped"} BY <1>3, <1>4 DEF Stage
<1>11. Service!Acknowledge(i)
  BY <1>1, <1>2, <1>3, <1>6, <1>9, <1>10 DEF Service!Acknowledge
<1> QED BY <1>11 DEF Service!Next, ServiceStep

\* A sandbox that was acknowledged and does not run has stopped.
LEMMA StoppedStage ==
  ASSUME IInv, NEW i \in saved, ~Live(i)
  PROVE  Stage(i) = "stopped"
<1>1. i \in used BY DEF IInv, RecordsInv
<1>2. ~Cloning(i) BY DEF IInv, LocalsInv, Cloning
<1> QED BY <1>1, <1>2 DEF Stage

\* A record goes after its VM did.
LEMMA DelistStep ==
  ASSUME IInv, NEW a \in Actors, DeleteRecord(a)
  PROVE  ServiceStep
<1>1. /\ pc[a] \in {"delete", "retire"} /\ recs' = [recs EXCEPT ![cur[a]] = NoRec]
      /\ pc' = [pc EXCEPT ![a] = IF a \in Reapers THEN "sweep" ELSE "idle"]
      /\ cur' = [cur EXCEPT ![a] = NoId] /\ UNCHANGED <<vms, used, saved>>
  BY DEF DeleteRecord, Return
<1>2. PICK i \in saved : i = cur[a] BY <1>1 DEF IInv, LocalsInv
<1>3. i \in Ids /\ ~Live(i) BY <1>1, <1>2 DEF IInv, TypeOK, GoneInv, Live
<1>4. Stage(i) = "stopped" BY <1>3, StoppedStage
<1>5. Recorded' = Recorded \ {i} BY <1>1, <1>2 DEF Recorded, IInv, TypeOK
<1>6. pc'[a] # "clone" /\ \A b \in Actors : b # a => pc'[b] = pc[b] /\ cur'[b] = cur[b]
  BY <1>1 DEF IInv, TypeOK
<1>7. \A j : Cloning(j)' <=> Cloning(j) BY <1>1, <1>6, CloningKept
<1>8. \A j \in Ids : Stage(j)' = Stage(j)
  <2>1. \A j \in Ids : Live(j)' <=> Live(j) BY <1>1 DEF Live
  <2> QED BY <1>1, <1>7, <2>1, StageKept
<1>9. CASE i \in Recorded
  <2>1. Service!Delist(i) BY <1>1, <1>3, <1>4, <1>5, <1>8, <1>9 DEF Service!Delist
  <2> QED BY <1>3, <2>1 DEF Service!Next, ServiceStep
<1>10. CASE i \notin Recorded BY <1>1, <1>5, <1>8, <1>10, NoneMoves DEF ServiceStep
<1> QED BY <1>9, <1>10

\* A renewal changes a record, or lists a sandbox again that has stopped.
LEMMA RelistStep ==
  ASSUME IInv, NEW a \in Clients, NEW d \in Durations, SaveRenewal(a, d)
  PROVE  ServiceStep
<1>1. /\ pc[a] = "renew" /\ pc' = [pc EXCEPT ![a] = IF a \in Reapers THEN "sweep" ELSE "idle"]
      /\ cur' = [cur EXCEPT ![a] = NoId] /\ UNCHANGED <<vms, used, saved>>
      /\ recs' = [recs EXCEPT ![cur[a]] = [loc[a] EXCEPT !.lease = LeaseFor(d)]]
  BY DEF SaveRenewal, Return
<1>2. PICK i \in saved : i = cur[a] BY <1>1 DEF IInv, LocalsInv
<1>3. i \in Ids BY DEF IInv, TypeOK
<1>4. [loc[a] EXCEPT !.lease = LeaseFor(d)] # NoRec
  <2>1. loc[a] \in Record /\ LeaseFor(d) \in Nat BY <1>1 DEF IInv, LocalsInv, TypeOK, LeaseFor
  <2>2. [loc[a] EXCEPT !.lease = LeaseFor(d)] \in Record BY <2>1 DEF Record
  <2> QED BY <2>2
<1>5. Recorded' = Recorded \cup {i} BY <1>1, <1>2, <1>3, <1>4 DEF Recorded, IInv, TypeOK
<1>6. pc'[a] # "clone" /\ \A b \in Actors : b # a => pc'[b] = pc[b] /\ cur'[b] = cur[b]
  BY <1>1 DEF IInv, TypeOK
<1>7. \A j : Cloning(j)' <=> Cloning(j) BY <1>1, <1>6, CloningKept
<1>8. \A j \in Ids : Stage(j)' = Stage(j)
  <2>1. \A j \in Ids : Live(j)' <=> Live(j) BY <1>1 DEF Live
  <2> QED BY <1>1, <1>7, <2>1, StageKept
<1>9. CASE i \notin Recorded
  <2>1. ~Live(i) BY <1>3, <1>9 DEF IInv, NoLostVm, Recorded
  <2>2. Stage(i) = "stopped" BY <2>1, StoppedStage
  <2>3. Service!Relist(i) BY <1>1, <1>3, <1>5, <1>8, <1>9, <2>2 DEF Service!Relist
  <2> QED BY <1>3, <2>3 DEF Service!Next, ServiceStep
<1>10. CASE i \in Recorded BY <1>1, <1>5, <1>8, <1>10, NoneMoves DEF ServiceStep
<1> QED BY <1>9, <1>10

\* What else an actor does that is not a clone, a save or a delete.
LEMMA ActorStep ==
  ASSUME IInv, NEW a \in Actors, pc[a] # "clone", pc'[a] # "clone",
         \A b \in Actors : b # a => pc'[b] = pc[b] /\ cur'[b] = cur[b],
         UNCHANGED <<recs, used, saved>>,
         UNCHANGED vms \/ \E t \in Tags : vms' = [vms EXCEPT ![t] = NoId]
  PROVE  ServiceStep
<1>1. \A i : Cloning(i)' <=> Cloning(i) BY CloningKept
<1>2. Recorded' = Recorded BY DEF Recorded
<1>3. CASE UNCHANGED vms BY <1>1, <1>2, <1>3, QuietStep DEF IInv
<1>4. ASSUME NEW t \in Tags, vms' = [vms EXCEPT ![t] = NoId] PROVE ServiceStep
  BY <1>1, <1>2, <1>4, StopStep DEF IInv
<1> QED BY <1>3, <1>4

\* Clone and its failures.
LEMMA CloneStep ==
  ASSUME IInv, NEW a \in Clients, Clone(a) \/ CloneFails(a) \/ (Crash(a) /\ pc[a] = "clone")
  PROVE  ServiceStep
<1>1. /\ pc[a] = "clone" /\ UNCHANGED <<recs, used, saved>>
      /\ \/ UNCHANGED vms
         \/ vms[loc[a].tag] = NoId /\ vms' = [vms EXCEPT ![loc[a].tag] = cur[a]]
  BY DEF Clone, CloneFails, Crash
<1>2. pc'[a] # "clone" /\ \A b \in Actors : b # a => pc'[b] = pc[b] /\ cur'[b] = cur[b]
  BY DEF Clone, CloneFails, Crash, Goto, Return, EndPass, IInv, TypeOK
<1> QED BY <1>1, <1>2, CloneEnds

\* The rest of create.
LEMMA CreateServiceStep ==
  ASSUME IInv, NEW a \in Clients, CreateStep(a)
  PROVE  ServiceStep
<1>1. CASE Finish(a) \/ FinishFails(a) \/ RegisterKey(a) \/ SaveFails(a) \/ Verified(a)
  <2>1. pc[a] # "clone" /\ pc'[a] # "clone"
        /\ \A b \in Actors : b # a => pc'[b] = pc[b] /\ cur'[b] = cur[b]
    BY <1>1 DEF Finish, FinishFails, RegisterKey, SaveFails, Verified, Goto, Return, IInv, TypeOK
  <2>2. UNCHANGED <<recs, used, saved, vms>>
    BY <1>1 DEF Finish, FinishFails, RegisterKey, SaveFails, Verified
  <2> QED BY <2>1, <2>2, ActorStep
<1>2. CASE Rollback(a)
  <2>1. pc[a] # "clone" /\ pc'[a] # "clone"
        /\ \A b \in Actors : b # a => pc'[b] = pc[b] /\ cur'[b] = cur[b]
    BY <1>2 DEF Rollback, Return, IInv, TypeOK
  <2>2. loc[a].tag \in Tags BY <1>2 DEF Rollback, IInv, LocalsInv, Record
  <2>3. UNCHANGED vms \/ vms' = [vms EXCEPT ![loc[a].tag] = NoId]
    BY <1>2, <2>2 DEF Rollback, IInv, TypeOK
  <2>4. UNCHANGED <<recs, used, saved>> BY <1>2 DEF Rollback
  <2> QED BY <2>1, <2>2, <2>3, <2>4, ActorStep
<1> QED BY <1>1, <1>2, CloneStep, RequestStep, AcknowledgeStep DEF CreateStep

\* destroy, by whoever runs it.
LEMMA DestroyServiceStep ==
  ASSUME IInv, NEW a \in Actors, DestroyStep(a)
  PROVE  ServiceStep
<1>1. CASE RevokeKey(a) \/ ProbeFound(a) \/ ProbeNotFound(a) \/ RemoveVm(a) \/ CleanupKeypair(a)
  <2>1. pc[a] # "clone" /\ pc'[a] # "clone"
        /\ \A b \in Actors : b # a => pc'[b] = pc[b] /\ cur'[b] = cur[b]
    BY <1>1 DEF RevokeKey, ProbeFound, ProbeNotFound, RemoveVm, CleanupKeypair, Goto, Return, IInv,
       TypeOK
  <2>2. UNCHANGED <<recs, used, saved>>
    BY <1>1 DEF RevokeKey, ProbeFound, ProbeNotFound, RemoveVm, CleanupKeypair
  <2>3. pc[a] \in {"probe", "rm"} => loc[a].tag \in Tags BY DEF IInv, LocalsInv, Record
  <2>4. UNCHANGED vms \/ \E t \in Tags : vms' = [vms EXCEPT ![t] = NoId]
    BY <1>1, <2>3 DEF RevokeKey, ProbeFound, ProbeNotFound, RemoveVm, CleanupKeypair
  <2> QED BY <2>1, <2>2, <2>4, ActorStep
<1> QED BY <1>1, DelistStep DEF DestroyStep

\* What the reaper does itself, and how a destroy or a renewal begins.
LEMMA ReapServiceStep ==
  ASSUME IInv, \/ \E r \in Reapers : ReapStep(r)
               \/ \E a \in Clients, i \in Ids : StartDestroy(a, i) \/ StartRenew(a, i)
  PROVE  ServiceStep
<1>1. ASSUME NEW r \in Reapers, ReapStep(r) PROVE ServiceStep
  <2>1. UNCHANGED <<recs, used, saved, vms>>
    BY <1>1 DEF ReapStep, ReapReadDir, ReapList, ReapListFails, ReapNext, ReapKnownLabels,
       ReapListKeys, PruneDone, PruneKey
  <2>2. pc[r] # "clone"
    BY <1>1 DEF ReapStep, ReapReadDir, ReapList, ReapListFails, ReapNext, ReapKnownLabels,
       ReapListKeys, PruneDone, PruneKey
  <2>3. pc'[r] # "clone" /\ \A b \in Actors : b # r => pc'[b] = pc[b] /\ cur'[b] = cur[b]
    <3>1. CASE ReapReadDir(r) \/ ReapList(r) \/ ReapKnownLabels(r) \/ ReapListKeys(r)
      BY <3>1 DEF ReapReadDir, ReapList, ReapKnownLabels, ReapListKeys, Goto, IInv, TypeOK
    <3>2. CASE ReapListFails(r) \/ PruneDone(r)
      BY <3>2 DEF ReapListFails, PruneDone, EndPass, IInv, TypeOK
    <3>3. ASSUME NEW i \in Ids, ReapNext(r, i)
          PROVE  pc'[r] # "clone" /\ \A b \in Actors : b # r => pc'[b] = pc[b] /\ cur'[b] = cur[b]
      BY <3>3 DEF ReapNext, LoadForDestroy, Goto, IInv, TypeOK
    <3>4. ASSUME NEW i \in Ids, PruneKey(r, i)
          PROVE  pc'[r] # "clone" /\ \A b \in Actors : b # r => pc'[b] = pc[b] /\ cur'[b] = cur[b]
      BY <3>4 DEF PruneKey
    <3> QED BY <1>1, <3>1, <3>2, <3>3, <3>4 DEF ReapStep
  <2> QED BY <2>1, <2>2, <2>3, ActorStep
<1>2. ASSUME NEW a \in Clients, NEW i \in Ids, StartDestroy(a, i) \/ StartRenew(a, i)
      PROVE  ServiceStep
  <2>1. pc[a] # "clone" /\ pc'[a] # "clone"
        /\ \A b \in Actors : b # a => pc'[b] = pc[b] /\ cur'[b] = cur[b]
    BY <1>2 DEF StartDestroy, StartRenew, LoadForDestroy, Goto, IInv, TypeOK
  <2>2. UNCHANGED <<recs, used, saved, vms>> BY <1>2 DEF StartDestroy, StartRenew
  <2> QED BY <2>1, <2>2, ActorStep
<1> QED BY <1>1, <1>2

\* Failing calls, crashes, lost VMs and the clock.
LEMMA FailureServiceStep ==
  ASSUME IInv, \/ \E a \in Actors : CallFails(a) \/ Crash(a)
               \/ \E t \in Tags : VmVanishes(t)
               \/ Tick
  PROVE  ServiceStep
<1>1. ASSUME NEW a \in Actors, CallFails(a) PROVE ServiceStep
  <2>1. pc[a] # "clone" /\ UNCHANGED <<recs, used, saved>> BY <1>1 DEF CallFails
  <2>2. pc'[a] # "clone" /\ \A b \in Actors : b # a => pc'[b] = pc[b] /\ cur'[b] = cur[b]
    BY <1>1 DEF CallFails, Return, EndPass, IInv, TypeOK
  <2>3. pc[a] = "rm" => loc[a].tag \in Tags BY DEF IInv, LocalsInv, Record
  <2>4. UNCHANGED vms \/ \E t \in Tags : vms' = [vms EXCEPT ![t] = NoId]
    BY <1>1, <2>3 DEF CallFails
  <2> QED BY <2>1, <2>2, <2>4, ActorStep
<1>2. ASSUME NEW a \in Actors, Crash(a) PROVE ServiceStep
  <2>1. CASE pc[a] = "clone"
    <3>1. a \in Clients BY <2>1 DEF IInv, LocalsInv
    <3> QED BY <1>2, <2>1, <3>1, CloneStep
  <2>2. CASE pc[a] # "clone"
    <3>1. UNCHANGED <<recs, used, saved, vms>> BY <1>2 DEF Crash
    <3>2. pc'[a] # "clone" /\ \A b \in Actors : b # a => pc'[b] = pc[b] /\ cur'[b] = cur[b]
      BY <1>2 DEF Crash, EndPass, IInv, TypeOK
    <3> QED BY <2>2, <3>1, <3>2, ActorStep
  <2> QED BY <2>1, <2>2
<1>3. ASSUME NEW t \in Tags, VmVanishes(t) PROVE ServiceStep
  <2>1. UNCHANGED <<recs, used, saved, pc, cur>> /\ vms' = [vms EXCEPT ![t] = NoId]
    BY <1>3 DEF VmVanishes
  <2>2. Recorded' = Recorded /\ \A i : Cloning(i)' <=> Cloning(i) BY <2>1 DEF Recorded, Cloning
  <2> QED BY <2>1, <2>2, StopStep DEF IInv
<1>4. CASE Tick
  <2>1. UNCHANGED <<recs, used, saved, pc, cur, vms>> BY <1>4 DEF Tick
  <2>2. Recorded' = Recorded /\ \A i : Cloning(i)' <=> Cloning(i) BY <2>1 DEF Recorded, Cloning
  <2> QED BY <2>1, <2>2, QuietStep DEF IInv
<1> QED BY <1>1, <1>2, <1>3, <1>4

\* Every step of the lifecycle is one of the service, or invisible.
LEMMA NextService == IInv /\ [Next]_vars => ServiceStep
<1> SUFFICES ASSUME IInv, [Next]_vars PROVE ServiceStep OBVIOUS
<1>1. CASE UNCHANGED vars
  <2>1. UNCHANGED <<recs, used, saved, pc, cur, vms>> BY <1>1 DEF vars
  <2>2. Recorded' = Recorded /\ \A i : Cloning(i)' <=> Cloning(i) BY <2>1 DEF Recorded, Cloning
  <2> QED BY <2>1, <2>2, QuietStep DEF IInv
<1>2. ASSUME NEW a \in Clients, RenewStep(a) PROVE ServiceStep
  BY <1>2, ReapServiceStep, RelistStep DEF RenewStep
<1> QED BY <1>1, <1>2, CreateServiceStep, DestroyServiceStep, ReapServiceStep, FailureServiceStep
        DEF Next

\* At first there are the sandboxes of an older version, or none.
LEMMA InitService == Init => Service!Init
<1> SUFFICES ASSUME Init PROVE Service!Init OBVIOUS
<1>1. PICK f \in [Legacy -> Tags] :
        /\ \A i \in Legacy : f[i] \in Names[i] /\ \A j \in Legacy : f[i] = f[j] => i = j
        /\ recs = [i \in Ids |-> IF i \in Legacy
                     THEN [tag |-> f[i], lease |-> 0, cleanup_failed |-> TRUE]
                     ELSE NoRec]
        /\ vms \in [Tags -> Legacy \cup {NoId}]
        /\ \A t \in Tags : \A i \in Legacy : vms[t] = i <=> f[i] = t
  BY DEF Init
<1>2. used = Legacy /\ saved = Legacy /\ pc = [a \in Actors |-> "idle"] BY DEF Init
<1>3. \A i \in Legacy : Live(i) BY <1>1 DEF Live
<1>4. \A i : ~Cloning(i) BY <1>2 DEF Cloning
<1>5. \A i \in Ids : Stage(i) = IF i \in Legacy THEN "running" ELSE "free"
  BY <1>2, <1>3, <1>4 DEF Stage
<1>6. Recorded = Legacy
  <2>1. \A i \in Legacy : [tag |-> f[i], lease |-> 0, cleanup_failed |-> TRUE] \in Record
    BY <1>1 DEF Record
  <2>2. \A i \in Legacy : recs[i] = [tag |-> f[i], lease |-> 0, cleanup_failed |-> TRUE] BY <1>1
  <2>3. \A i \in Legacy : i \in Ids /\ recs[i] # NoRec
    BY <2>1, <2>2, NoRecIsNoRecord, NumbersAssumption
  <2>4. \A i \in Ids : i \notin Legacy => recs[i] = NoRec BY <1>1
  <2> QED BY <2>3, <2>4 DEF Recorded
<1> QED BY <1>2, <1>5, <1>6 DEF Service!Init

\* Whatever creates, destroys, renewals and reap passes overlap, fail or are
\* dropped: a sandbox runs once, is listed before it is acknowledged and delisted
\* only when it has stopped, and no stale copy of a record brings a VM back.
THEOREM LifecycleImplementsService == Spec => IsSandboxService
<1>1. IInv /\ [Next]_vars => [Service!Next]_(Service!serviceVars)
  BY NextService DEF ServiceStep
<1>2. Spec => Service!Init /\ [][Service!Next]_(Service!serviceVars)
  BY <1>1, InitService, Invariance, PTL DEF Spec
<1> QED BY <1>2 DEF IsSandboxService, Service!Spec
=============================================================================
