------------------------- MODULE GoldenRegistryProofs -------------------------
(***************************************************************************)
(* Proofs about GoldenRegistry for any number of processes, concurrent     *)
(* calls and goldens.                                                      *)
(*                                                                         *)
(* ManifestCurrent is not inductive: that a finished write leaves the      *)
(* memory's registry in the file rests on the read lock (what a task       *)
(* writes is what its process still has in memory) and on who may be       *)
(* writing when no two processes overlap.                                  *)
(***************************************************************************)
EXTENDS GoldenRegistry, TLAPS

\* A task at work belongs to a running process and has a golden to work on;
\* the operation it is in fits its step.
ActiveInv == \A t \in Tasks :
    /\ pc[t] # "idle" => Running(Home[t]) /\ key[t] \in Keys
    /\ pc[t] \in {"create", "run", "down"} => op[t] \in {"build", "verify"}

\* The read lock: what is being written is what is in memory.
SnapInv == \A t \in Tasks : pc[t] = "write" => snap[t] = mem[Home[t]]

\* Unless processes overlap, all writers belong to the last process that began.
WriterInv == ~mixed => \A t \in Tasks : pc[t] = "write" => Home[t] = wrote

\* A file that was written exists.
FileInv == wrote # NoProc => file # Missing

ManifestInv == SnapInv /\ WriterInv /\ FileInv /\ ManifestCurrent

\* Duplicates come from dry runs, wherever a registry is kept.
DupInv ==
    /\ DuplicatesOnlyFromDryRuns
    /\ file \in Registry => \A k \in Keys : file[k] > 1 => k \in dry
    /\ \A t \in Tasks, k \in Keys : snap[t][k] > 1 => k \in dry

BaseInv == TypeOK /\ ActiveInv

USE HomeAssumption, BoundsAssumption, NoRegistry
    DEF manifest, tasks, history, Running, Goto, Failure

-----------------------------------------------------------------------------
(* What the parts of an action do.                                         *)

\* The empty registry is a registry without entries.
LEMMA EmptyRegistry == Empty \in Registry /\ \A k \in Keys : Empty[k] = 0
BY DEF Empty, Registry

\* Changing the entries under one key leaves a registry, and the other keys
\* and processes alone.
LEMMA ChangeEffect ==
  ASSUME TypeOK, NEW t \in Tasks, NEW k \in Keys, NEW n \in Nat,
         Running(Home[t]), Change(t, k, n)
  PROVE  /\ mem' \in [Procs -> Registry \cup {NotLoaded}]
         /\ mem'[Home[t]] \in Registry
         /\ mem'[Home[t]][k] = n
         /\ \A j \in Keys : j # k => mem'[Home[t]][j] = mem[Home[t]][j]
         /\ \A p \in Procs : p # Home[t] => mem'[p] = mem[p]
<1> DEFINE r == [mem[Home[t]] EXCEPT ![k] = n]
<1>1. mem[Home[t]] \in Registry BY DEF TypeOK
<1>2. r \in Registry /\ r[k] = n /\ \A j \in Keys : j # k => r[j] = mem[Home[t]][j]
  BY <1>1 DEF Registry
<1>3. mem' = [mem EXCEPT ![Home[t]] = r] BY DEF Change
<1> HIDE DEF r
<1>4. mem'[Home[t]] = r BY <1>3 DEF TypeOK
<1>5. \A p \in Procs : p # Home[t] => mem'[p] = mem[p] BY <1>3 DEF TypeOK
<1>6. mem' \in [Procs -> Registry \cup {NotLoaded}] BY <1>2, <1>3 DEF TypeOK
<1> QED BY <1>2, <1>4, <1>5, <1>6

\* An answer makes its task idle and may end its own process.
LEMMA AnswerEffect ==
  ASSUME TypeOK, NEW t \in Tasks, Answer(t)
  PROVE  /\ mem' \in [Procs -> Registry \cup {NotLoaded}]
         /\ \A p \in Procs : mem'[p] = mem[p] \/ mem'[p] = NotLoaded
         /\ \A u \in Tasks : u # t => mem'[Home[u]] = mem[Home[u]]
         /\ pc' = [pc EXCEPT ![t] = "idle"]
         /\ op' = [op EXCEPT ![t] = "none"]
         /\ key' = [key EXCEPT ![t] = NoKey]
BY DEF TypeOK, Answer

\* After a save the task is done, or registers next with all else as it was.
LEMMA AfterSaveEffect ==
  ASSUME TypeOK, NEW t \in Tasks, AfterSave(t)
  PROVE  /\ mem' \in [Procs -> Registry \cup {NotLoaded}]
         /\ \A p \in Procs : mem'[p] = mem[p] \/ mem'[p] = NotLoaded
         /\ \A u \in Tasks : u # t => mem'[Home[u]] = mem[Home[u]]
         /\ op' \in [Tasks -> {"none", "register", "replace", "delete", "dry-run",
                               "build", "verify"}]
         /\ key' \in [Tasks -> Keys \cup {NoKey}]
         /\ \A u \in Tasks : u # t => pc'[u] = pc[u] /\ op'[u] = op[u] /\ key'[u] = key[u]
         /\ pc' \in [Tasks -> {"idle", "register", "delete", "persist", "write",
                               "create", "run", "down"}]
         /\ pc'[t] \in {"idle", "register"}
         /\ pc'[t] = "register" => key'[t] = key[t] /\ mem' = mem
<1>1. CASE op[t] = "replace" BY <1>1 DEF TypeOK, AfterSave
<1>2. CASE op[t] # "replace"
  <2>1. Answer(t) BY <1>2 DEF AfterSave
  <2> QED BY <2>1, AnswerEffect DEF TypeOK
<1> QED BY <1>1, <1>2

\* A task that has to do with a VM has a name for it.
LEMMA SlotType ==
  ASSUME TypeOK, ActiveInv, NEW t \in Tasks, pc[t] \in {"create", "run", "down"}
  PROVE  Slot(t) \in Slots
BY DEF TypeOK, ActiveInv, Slot, Slots

LEMMA InitBase == Init => BaseInv
<1> SUFFICES ASSUME Init PROVE BaseInv OBVIOUS
<1>1. file \in Registry \cup {Missing, Torn} /\ snap \in [Tasks -> Registry]
  BY EmptyRegistry DEF Init
<1>2. pc \in [Tasks -> {"idle"}] /\ op \in [Tasks -> {"none"}] BY DEF Init
<1>3. TypeOK BY <1>1, <1>2 DEF Init, TypeOK
<1>4. ActiveInv BY <1>2 DEF ActiveInv
<1> QED BY <1>3, <1>4 DEF BaseInv

LEMMA InitManifest == Init => ManifestInv
BY DEF Init, ManifestInv, SnapInv, WriterInv, FileInv, ManifestCurrent

LEMMA InitDup == Init => DupInv
BY EmptyRegistry DEF Init, DupInv, DuplicatesOnlyFromDryRuns

LEMMA InitVms == Init => GoldenVmsExplained
BY DEF Init, GoldenVmsExplained

-----------------------------------------------------------------------------
(* The inductive invariant, action by action.                              *)

IInv == BaseInv /\ ManifestInv /\ DupInv /\ GoldenVmsExplained

\* A registry that is loaded is the file, or empty.
LEMMA StartInv ==
  ASSUME IInv, NEW p \in Procs, Start(p)
  PROVE  IInv'
<1> USE DEF IInv, BaseInv, ManifestInv
<1>1. TypeOK'
  BY EmptyRegistry DEF TypeOK, Start
<1>2. ActiveInv'
  BY EmptyRegistry DEF TypeOK, ActiveInv, Start
<1>3. SnapInv'
  BY EmptyRegistry DEF TypeOK, SnapInv, ActiveInv, Start
<1>4. WriterInv'
  BY EmptyRegistry DEF TypeOK, WriterInv, Start
<1>5. FileInv'
  BY EmptyRegistry DEF TypeOK, FileInv, Start
<1>6. ManifestCurrent'
  BY EmptyRegistry DEF TypeOK, FileInv, ManifestCurrent, Saving, Start
<1>7. DupInv'
  BY EmptyRegistry DEF TypeOK, DupInv, DuplicatesOnlyFromDryRuns, Start
<1>8. GoldenVmsExplained'
  BY EmptyRegistry DEF TypeOK, GoldenVmsExplained, Slot, Slots, Start
<1> QED BY <1>1, <1>2, <1>3, <1>4, <1>5, <1>6, <1>7, <1>8

\* Nothing a stopped process was doing is left.
LEMMA StopInv ==
  ASSUME IInv, NEW p \in Procs, Stop(p)
  PROVE  IInv'
<1> USE DEF IInv, BaseInv, ManifestInv
<1>1. TypeOK'
  <2>1. leaked' \subseteq Slots
    BY SlotType DEF TypeOK, Stop
  <2> QED BY <2>1, EmptyRegistry DEF TypeOK, Stop
<1>2. ActiveInv'
  BY EmptyRegistry DEF TypeOK, ActiveInv, Stop
<1>3. SnapInv'
  BY EmptyRegistry DEF TypeOK, SnapInv, ActiveInv, Stop
<1>4. WriterInv'
  BY EmptyRegistry DEF TypeOK, WriterInv, Stop
<1>5. FileInv'
  BY EmptyRegistry DEF TypeOK, FileInv, Stop
<1>6. ManifestCurrent'
  BY EmptyRegistry DEF TypeOK, ManifestCurrent, Saving, Stop
<1>7. DupInv'
  BY EmptyRegistry DEF TypeOK, DupInv, DuplicatesOnlyFromDryRuns, Stop
<1>8. GoldenVmsExplained'
  BY EmptyRegistry DEF TypeOK, GoldenVmsExplained, Slot, Slots, Stop
<1> QED BY <1>1, <1>2, <1>3, <1>4, <1>5, <1>6, <1>7, <1>8

\* A request only starts its task.
LEMMA RequestRegisterInv ==
  ASSUME IInv, NEW t \in Tasks, NEW k \in Keys, RequestRegister(t, k)
  PROVE  IInv'
<1> USE DEF IInv, BaseInv, ManifestInv
<1>1. TypeOK'
  BY DEF TypeOK, RequestRegister, Accept
<1>2. ActiveInv'
  BY DEF TypeOK, ActiveInv, RequestRegister, Accept
<1>3. SnapInv'
  BY DEF TypeOK, SnapInv, ActiveInv, RequestRegister, Accept
<1>4. WriterInv'
  BY DEF TypeOK, WriterInv, RequestRegister, Accept
<1>5. FileInv'
  BY DEF TypeOK, FileInv, RequestRegister, Accept
<1>6. ManifestCurrent'
  BY DEF TypeOK, ManifestCurrent, Saving, RequestRegister, Accept
<1>7. DupInv'
  BY DEF TypeOK, DupInv, DuplicatesOnlyFromDryRuns, RequestRegister, Accept
<1>8. GoldenVmsExplained'
  BY DEF TypeOK, GoldenVmsExplained, Slot, Slots, RequestRegister, Accept
<1> QED BY <1>1, <1>2, <1>3, <1>4, <1>5, <1>6, <1>7, <1>8

\* The lock keeps saves of the process out.
LEMMA RegisterInv ==
  ASSUME IInv, NEW t \in Tasks, Register(t)
  PROVE  IInv'
<1> USE DEF IInv, BaseInv, ManifestInv
<1>a. Running(Home[t]) /\ key[t] \in Keys /\ 1 \in Nat
  BY DEF Register, ActiveInv, TypeOK, Registry
<1>b. Change(t, key[t], 1) BY DEF Register
<1>c. /\ mem' \in [Procs -> Registry \cup {NotLoaded}]
      /\ mem'[Home[t]] \in Registry
      /\ mem'[Home[t]][key[t]] = 1
      /\ \A j \in Keys : j # key[t] => mem'[Home[t]][j] = mem[Home[t]][j]
      /\ \A p \in Procs : p # Home[t] => mem'[p] = mem[p]
  BY <1>a, <1>b, ChangeEffect
<1>1. TypeOK'
  BY <1>a, <1>c DEF TypeOK, Register, Change
<1>2. ActiveInv'
  <2>1. pc' = [pc EXCEPT ![t] = "persist"] /\ UNCHANGED <<op, key>> BY DEF Register, Change
  <2>2. pc'[t] = "persist" /\ \A u \in Tasks : u # t => pc'[u] = pc[u] BY <2>1 DEF TypeOK
  <2>3. \A p \in Procs : Running(p) => mem'[p] # NotLoaded BY <1>c
  <2> QED BY <1>a, <2>1, <2>2, <2>3 DEF ActiveInv
<1>3. SnapInv'
  BY <1>a, <1>c DEF TypeOK, SnapInv, ActiveInv, Register, Change, WriteLocked
<1>4. WriterInv'
  BY <1>a, <1>c DEF TypeOK, WriterInv, Register, Change, WriteLocked
<1>5. FileInv'
  BY <1>a, <1>c DEF TypeOK, FileInv, Register, Change
<1>6. ManifestCurrent'
  BY <1>a, <1>c DEF TypeOK, ManifestCurrent, Saving, Register, Change
<1>7. DupInv'
  BY <1>a, <1>c DEF TypeOK, DupInv, DuplicatesOnlyFromDryRuns, Register, Change
<1>8. GoldenVmsExplained'
  BY <1>a, <1>c DEF TypeOK, GoldenVmsExplained, Slot, Slots, Register, Change
<1> QED BY <1>1, <1>2, <1>3, <1>4, <1>5, <1>6, <1>7, <1>8

\* A refusal answers the task.
LEMMA RegisterRefusedInv ==
  ASSUME IInv, NEW t \in Tasks, RegisterRefused(t)
  PROVE  IInv'
<1> USE DEF IInv, BaseInv, ManifestInv
<1>a. Answer(t) BY DEF RegisterRefused
<1>1. TypeOK'
  BY <1>a, AnswerEffect DEF TypeOK, RegisterRefused
<1>2. ActiveInv'
  BY <1>a, AnswerEffect DEF TypeOK, ActiveInv, RegisterRefused
<1>3. SnapInv'
  BY <1>a, AnswerEffect DEF TypeOK, SnapInv, ActiveInv, RegisterRefused
<1>4. WriterInv'
  BY <1>a, AnswerEffect DEF TypeOK, WriterInv, RegisterRefused
<1>5. FileInv'
  BY <1>a, AnswerEffect DEF TypeOK, FileInv, RegisterRefused
<1>6. ManifestCurrent'
  BY <1>a, AnswerEffect DEF TypeOK, ManifestCurrent, Saving, RegisterRefused
<1>7. DupInv'
  BY <1>a, AnswerEffect DEF TypeOK, DupInv, DuplicatesOnlyFromDryRuns, RegisterRefused
<1>8. GoldenVmsExplained'
  BY <1>a, AnswerEffect DEF TypeOK, GoldenVmsExplained, Slot, Slots, RegisterRefused
<1> QED BY <1>1, <1>2, <1>3, <1>4, <1>5, <1>6, <1>7, <1>8

\* As Register, with no entry left.
LEMMA DeleteInv ==
  ASSUME IInv, NEW t \in Tasks, NEW k \in Keys, Delete(t, k)
  PROVE  IInv'
<1> USE DEF IInv, BaseInv, ManifestInv
<1>a. Running(Home[t]) /\ k \in Keys /\ 0 \in Nat
  BY DEF Delete, Accept, ActiveInv, TypeOK, Registry
<1>b. Change(t, k, 0) BY DEF Delete
<1>c. /\ mem' \in [Procs -> Registry \cup {NotLoaded}]
      /\ mem'[Home[t]] \in Registry
      /\ mem'[Home[t]][k] = 0
      /\ \A j \in Keys : j # k => mem'[Home[t]][j] = mem[Home[t]][j]
      /\ \A p \in Procs : p # Home[t] => mem'[p] = mem[p]
  BY <1>a, <1>b, ChangeEffect
<1>1. TypeOK'
  BY <1>a, <1>c DEF TypeOK, Delete, Accept, Change
<1>2. ActiveInv'
  <2>1. \A u \in Tasks : mem[Home[u]] # NotLoaded => mem'[Home[u]] # NotLoaded BY <1>c
  <2>2. /\ pc' = [pc EXCEPT ![t] = "persist"]
        /\ \A u \in Tasks : u # t => key'[u] = key[u] /\ op'[u] = op[u]
    BY DEF TypeOK, Delete, Accept, Change
  <2>3. key'[t] = k BY DEF TypeOK, Delete, Accept
  <2> QED BY <1>a, <2>1, <2>2, <2>3 DEF TypeOK, ActiveInv
<1>3. SnapInv'
  BY <1>a, <1>c DEF TypeOK, SnapInv, ActiveInv, Delete, Accept, Change, WriteLocked
<1>4. WriterInv'
  BY <1>a, <1>c DEF TypeOK, WriterInv, Delete, Accept, Change, WriteLocked
<1>5. FileInv'
  BY <1>a, <1>c DEF TypeOK, FileInv, Delete, Accept, Change
<1>6. ManifestCurrent'
  BY <1>a, <1>c DEF TypeOK, ManifestCurrent, Saving, Delete, Accept, Change
<1>7. DupInv'
  BY <1>a, <1>c DEF TypeOK, DupInv, DuplicatesOnlyFromDryRuns, Delete, Accept, Change
<1>8. GoldenVmsExplained'
  BY <1>a, <1>c DEF TypeOK, GoldenVmsExplained, Slot, Slots, Delete, Accept, Change
<1> QED BY <1>1, <1>2, <1>3, <1>4, <1>5, <1>6, <1>7, <1>8

\* Nothing to delete, nothing changed.
LEMMA DeleteNothingInv ==
  ASSUME IInv, NEW t \in Tasks, DeleteNothing(t)
  PROVE  IInv'
<1> USE DEF IInv, BaseInv, ManifestInv
<1>1. TypeOK'
  BY DEF TypeOK, DeleteNothing
<1>2. ActiveInv'
  BY DEF TypeOK, ActiveInv, DeleteNothing
<1>3. SnapInv'
  BY DEF TypeOK, SnapInv, ActiveInv, DeleteNothing
<1>4. WriterInv'
  BY DEF TypeOK, WriterInv, DeleteNothing
<1>5. FileInv'
  BY DEF TypeOK, FileInv, DeleteNothing
<1>6. ManifestCurrent'
  BY DEF TypeOK, ManifestCurrent, Saving, DeleteNothing
<1>7. DupInv'
  BY DEF TypeOK, DupInv, DuplicatesOnlyFromDryRuns, DeleteNothing
<1>8. GoldenVmsExplained'
  BY DEF TypeOK, GoldenVmsExplained, Slot, Slots, DeleteNothing
<1> QED BY <1>1, <1>2, <1>3, <1>4, <1>5, <1>6, <1>7, <1>8

\* The key gets one entry more and is noted.
LEMMA DryBuildInv ==
  ASSUME IInv, NEW t \in Tasks, NEW k \in Keys, DryBuild(t, k)
  PROVE  IInv'
<1> USE DEF IInv, BaseInv, ManifestInv
<1>a. Running(Home[t]) /\ k \in Keys /\ mem[Home[t]][k] + 1 \in Nat
  BY DEF DryBuild, Accept, ActiveInv, TypeOK, Registry
<1>b. Change(t, k, mem[Home[t]][k] + 1) BY DEF DryBuild
<1>c. /\ mem' \in [Procs -> Registry \cup {NotLoaded}]
      /\ mem'[Home[t]] \in Registry
      /\ mem'[Home[t]][k] = mem[Home[t]][k] + 1
      /\ \A j \in Keys : j # k => mem'[Home[t]][j] = mem[Home[t]][j]
      /\ \A p \in Procs : p # Home[t] => mem'[p] = mem[p]
  BY <1>a, <1>b, ChangeEffect
<1>1. TypeOK'
  BY <1>a, <1>c DEF TypeOK, DryBuild, Accept, Change
<1>2. ActiveInv'
  BY <1>a, <1>c DEF TypeOK, ActiveInv, DryBuild, Accept, Change
<1>3. SnapInv'
  BY <1>a, <1>c DEF TypeOK, SnapInv, ActiveInv, DryBuild, Accept, Change, WriteLocked
<1>4. WriterInv'
  BY <1>a, <1>c DEF TypeOK, WriterInv, DryBuild, Accept, Change, WriteLocked
<1>5. FileInv'
  BY <1>a, <1>c DEF TypeOK, FileInv, DryBuild, Accept, Change
<1>6. ManifestCurrent'
  BY <1>a, <1>c DEF TypeOK, ManifestCurrent, Saving, DryBuild, Accept, Change
<1>7. DupInv'
  BY <1>a, <1>c DEF TypeOK, DupInv, DuplicatesOnlyFromDryRuns, DryBuild, Accept, Change
<1>8. GoldenVmsExplained'
  BY <1>a, <1>c DEF TypeOK, GoldenVmsExplained, Slot, Slots, DryBuild, Accept, Change
<1> QED BY <1>1, <1>2, <1>3, <1>4, <1>5, <1>6, <1>7, <1>8

\* The task writes what is in memory.
LEMMA BeginSaveInv ==
  ASSUME IInv, NEW t \in Tasks, BeginSave(t)
  PROVE  IInv'
<1> USE DEF IInv, BaseInv, ManifestInv
<1>1. TypeOK'
  BY DEF TypeOK, ActiveInv, BeginSave
<1>2. ActiveInv'
  BY DEF TypeOK, ActiveInv, BeginSave
<1>3. SnapInv'
  BY DEF TypeOK, SnapInv, ActiveInv, BeginSave
<1>4. WriterInv'
  BY DEF TypeOK, WriterInv, BeginSave
<1>5. FileInv'
  BY DEF TypeOK, FileInv, BeginSave
<1>6. ManifestCurrent'
  BY DEF TypeOK, ManifestCurrent, Saving, BeginSave
<1>7. DupInv'
  <2>1. mem[Home[t]] \in Registry /\ Running(Home[t]) BY DEF TypeOK, ActiveInv, BeginSave
  <2> QED BY <2>1 DEF TypeOK, DupInv, DuplicatesOnlyFromDryRuns, BeginSave
<1>8. GoldenVmsExplained'
  BY DEF TypeOK, GoldenVmsExplained, Slot, Slots, BeginSave
<1> QED BY <1>1, <1>2, <1>3, <1>4, <1>5, <1>6, <1>7, <1>8

\* What was written is what is in memory.
LEMMA EndSaveInv ==
  ASSUME IInv, NEW t \in Tasks, EndSave(t)
  PROVE  IInv'
<1> USE DEF IInv, BaseInv, ManifestInv
<1>a. AfterSave(t) BY DEF EndSave
<1>1. TypeOK'
  <2>1. key[t] \in Keys BY DEF EndSave, ActiveInv
  <2> QED BY <2>1, <1>a, AfterSaveEffect, EmptyRegistry DEF TypeOK, EndSave
<1>2. ActiveInv'
  BY <1>a, AfterSaveEffect DEF TypeOK, ActiveInv, EndSave
<1>3. SnapInv'
  BY <1>a, AfterSaveEffect, EmptyRegistry DEF TypeOK, SnapInv, ActiveInv, EndSave
<1>4. WriterInv'
  BY <1>a, AfterSaveEffect, EmptyRegistry DEF TypeOK, WriterInv, EndSave
<1>5. FileInv'
  BY <1>a DEF TypeOK, FileInv, EndSave
<1>6. ManifestCurrent'
  <2> SUFFICES ASSUME NEW p \in Procs, wrote' = p, Running(p)', ~Saving(p)',
                      p \notin failed', ~mixed'
               PROVE  file' = mem'[p]
    BY DEF ManifestCurrent
  <2>1. Home[t] = p /\ file' = snap[t] BY DEF EndSave, WriterInv
  <2>2. snap[t] = mem[p] BY <2>1 DEF EndSave, SnapInv
  <2> QED BY <2>1, <2>2, <1>a, AfterSaveEffect
<1>7. DupInv'
  BY <1>a, AfterSaveEffect, EmptyRegistry DEF TypeOK, DupInv, DuplicatesOnlyFromDryRuns, EndSave
<1>8. GoldenVmsExplained'
  <2> SUFFICES ASSUME NEW v \in Slots, vms[v] # NoTask, v \notin kept \cup leaked
               PROVE  (pc[vms[v]] \in {"run", "down"} /\ Slot(vms[v]) = v)'
    BY DEF GoldenVmsExplained, EndSave
  <2>1. pc[vms[v]] \in {"run", "down"} /\ Slot(vms[v]) = v BY DEF GoldenVmsExplained
  <2>2. vms[v] \in Tasks /\ vms[v] # t /\ vms' = vms BY <2>1 DEF TypeOK, EndSave
  <2> QED BY <2>1, <2>2, <1>a, AfterSaveEffect DEF Slot
<1> QED BY <1>1, <1>2, <1>3, <1>4, <1>5, <1>6, <1>7, <1>8

\* A failed save is noted.
LEMMA SaveFailsInv ==
  ASSUME IInv, NEW t \in Tasks, SaveFails(t)
  PROVE  IInv'
<1> USE DEF IInv, BaseInv, ManifestInv
<1>a. AfterSave(t) BY DEF SaveFails
<1>1. TypeOK'
  BY <1>a, AfterSaveEffect, EmptyRegistry DEF TypeOK, SaveFails
<1>2. ActiveInv'
  BY <1>a, AfterSaveEffect, EmptyRegistry DEF TypeOK, ActiveInv, SaveFails
<1>3. SnapInv'
  BY <1>a, AfterSaveEffect, EmptyRegistry DEF TypeOK, SnapInv, ActiveInv, SaveFails
<1>4. WriterInv'
  BY <1>a, AfterSaveEffect, EmptyRegistry DEF TypeOK, WriterInv, SaveFails
<1>5. FileInv'
  BY <1>a, AfterSaveEffect, EmptyRegistry DEF TypeOK, FileInv, SaveFails
<1>6. ManifestCurrent'
  <2> SUFFICES ASSUME NEW p \in Procs, wrote' = p, Running(p)', ~Saving(p)',
                      p \notin failed', ~mixed'
               PROVE  file' = mem'[p]
    BY DEF ManifestCurrent
  <2>1. p # Home[t] /\ wrote = p /\ p \notin failed /\ ~mixed BY DEF SaveFails
  <2>2. pc[t] # "write" /\ file' = file BY <2>1 DEF SaveFails, WriterInv
  <2>3. mem'[p] = mem[p] /\ Running(p) BY <1>a, AfterSaveEffect
  <2>4. ~Saving(p) BY <2>1, <1>a, AfterSaveEffect DEF Saving
  <2> QED BY <2>1, <2>2, <2>3, <2>4 DEF ManifestCurrent
<1>7. DupInv'
  BY <1>a, AfterSaveEffect, EmptyRegistry DEF TypeOK, DupInv, DuplicatesOnlyFromDryRuns, SaveFails
<1>8. GoldenVmsExplained'
  <2> SUFFICES ASSUME NEW v \in Slots, vms[v] # NoTask, v \notin kept \cup leaked
               PROVE  (pc[vms[v]] \in {"run", "down"} /\ Slot(vms[v]) = v)'
    BY DEF GoldenVmsExplained, SaveFails
  <2>1. pc[vms[v]] \in {"run", "down"} /\ Slot(vms[v]) = v BY DEF GoldenVmsExplained
  <2>2. vms[v] \in Tasks /\ vms[v] # t /\ vms' = vms BY <2>1 DEF TypeOK, SaveFails
  <2> QED BY <2>1, <2>2, <1>a, AfterSaveEffect DEF Slot
<1> QED BY <1>1, <1>2, <1>3, <1>4, <1>5, <1>6, <1>7, <1>8

\* A request only starts its task.
LEMMA RequestVmInv ==
  ASSUME IInv, NEW t \in Tasks, NEW o \in {"build", "verify"}, NEW k \in Keys, RequestVm(t, o, k)
  PROVE  IInv'
<1> USE DEF IInv, BaseInv, ManifestInv
<1>1. TypeOK'
  BY DEF TypeOK, RequestVm, Accept
<1>2. ActiveInv'
  BY DEF TypeOK, ActiveInv, RequestVm, Accept
<1>3. SnapInv'
  BY DEF TypeOK, SnapInv, ActiveInv, RequestVm, Accept
<1>4. WriterInv'
  BY DEF TypeOK, WriterInv, RequestVm, Accept
<1>5. FileInv'
  BY DEF TypeOK, FileInv, RequestVm, Accept
<1>6. ManifestCurrent'
  BY DEF TypeOK, ManifestCurrent, Saving, RequestVm, Accept
<1>7. DupInv'
  BY DEF TypeOK, DupInv, DuplicatesOnlyFromDryRuns, RequestVm, Accept
<1>8. GoldenVmsExplained'
  BY DEF TypeOK, GoldenVmsExplained, Slot, Slots, RequestVm, Accept
<1> QED BY <1>1, <1>2, <1>3, <1>4, <1>5, <1>6, <1>7, <1>8

\* The VM is made by the task that runs it.
LEMMA CreateVmInv ==
  ASSUME IInv, NEW t \in Tasks, CreateVm(t)
  PROVE  IInv'
<1> USE DEF IInv, BaseInv, ManifestInv
<1>1. TypeOK'
  <2>1. Slot(t) \in Slots BY SlotType DEF CreateVm
  <2> QED BY <2>1 DEF TypeOK, CreateVm
<1>2. ActiveInv'
  BY DEF TypeOK, ActiveInv, CreateVm
<1>3. SnapInv'
  BY DEF TypeOK, SnapInv, ActiveInv, CreateVm
<1>4. WriterInv'
  BY DEF TypeOK, WriterInv, CreateVm
<1>5. FileInv'
  BY DEF TypeOK, FileInv, CreateVm
<1>6. ManifestCurrent'
  BY DEF TypeOK, ManifestCurrent, Saving, CreateVm
<1>7. DupInv'
  BY DEF TypeOK, DupInv, DuplicatesOnlyFromDryRuns, CreateVm
<1>8. GoldenVmsExplained'
  BY DEF TypeOK, GoldenVmsExplained, Slot, Slots, CreateVm
<1> QED BY <1>1, <1>2, <1>3, <1>4, <1>5, <1>6, <1>7, <1>8

\* A VM left behind is noted.
LEMMA CreateVmFailsInv ==
  ASSUME IInv, NEW t \in Tasks, CreateVmFails(t)
  PROVE  IInv'
<1> USE DEF IInv, BaseInv, ManifestInv
<1>a. Answer(t) BY DEF CreateVmFails
<1>1. TypeOK'
  <2>1. Slot(t) \in Slots BY SlotType DEF CreateVmFails
  <2> QED BY <1>a, AnswerEffect, <2>1 DEF TypeOK, CreateVmFails
<1>2. ActiveInv'
  BY <1>a, AnswerEffect DEF TypeOK, ActiveInv, CreateVmFails
<1>3. SnapInv'
  BY <1>a, AnswerEffect DEF TypeOK, SnapInv, ActiveInv, CreateVmFails
<1>4. WriterInv'
  BY <1>a, AnswerEffect DEF TypeOK, WriterInv, CreateVmFails
<1>5. FileInv'
  BY <1>a, AnswerEffect DEF TypeOK, FileInv, CreateVmFails
<1>6. ManifestCurrent'
  BY <1>a, AnswerEffect DEF TypeOK, ManifestCurrent, Saving, CreateVmFails
<1>7. DupInv'
  BY <1>a, AnswerEffect DEF TypeOK, DupInv, DuplicatesOnlyFromDryRuns, CreateVmFails
<1>8. GoldenVmsExplained'
  BY <1>a, AnswerEffect DEF TypeOK, GoldenVmsExplained, Slot, Slots, CreateVmFails
<1> QED BY <1>1, <1>2, <1>3, <1>4, <1>5, <1>6, <1>7, <1>8

\* The VM goes next or is kept.
LEMMA RunStepsInv ==
  ASSUME IInv, NEW t \in Tasks, RunSteps(t)
  PROVE  IInv'
<1> USE DEF IInv, BaseInv, ManifestInv
<1>s. Slot(t) \in Slots /\ pc[t] = "run" BY SlotType DEF RunSteps
<1>a. /\ mem' \in [Procs -> Registry \cup {NotLoaded}]
      /\ \A p \in Procs : mem'[p] = mem[p] \/ mem'[p] = NotLoaded
      /\ \A u \in Tasks : u # t => mem'[Home[u]] = mem[Home[u]]
      /\ \/ /\ pc' = [pc EXCEPT ![t] = "down"] /\ UNCHANGED <<mem, op, key, kept>>
         \/ /\ pc' = [pc EXCEPT ![t] = "idle"] /\ op' = [op EXCEPT ![t] = "none"]
            /\ key' = [key EXCEPT ![t] = NoKey] /\ kept' = kept \cup {Slot(t)}
  <2>1. CASE Goto(t, "down") /\ UNCHANGED <<mem, op, key, kept>> BY <2>1 DEF TypeOK
  <2>2. CASE Answer(t) /\ kept' = kept \cup {Slot(t)} BY <2>2, AnswerEffect
  <2> QED BY <2>1, <2>2 DEF RunSteps
<1>b. UNCHANGED <<manifest, vms, faults, wrote, failed, acked, dry, leaked>> BY DEF RunSteps
<1>1. TypeOK'
  BY <1>s, <1>a, <1>b DEF TypeOK
<1>2. ActiveInv'
  BY <1>s, <1>a, <1>b DEF TypeOK, ActiveInv
<1>3. SnapInv'
  BY <1>s, <1>a, <1>b DEF TypeOK, SnapInv, ActiveInv
<1>4. WriterInv'
  BY <1>s, <1>a, <1>b DEF TypeOK, WriterInv
<1>5. FileInv'
  BY <1>s, <1>a, <1>b DEF TypeOK, FileInv
<1>6. ManifestCurrent'
  BY <1>s, <1>a, <1>b DEF TypeOK, ManifestCurrent, Saving
<1>7. DupInv'
  BY <1>s, <1>a, <1>b DEF TypeOK, DupInv, DuplicatesOnlyFromDryRuns
<1>8. GoldenVmsExplained'
  BY <1>s, <1>a, <1>b DEF TypeOK, GoldenVmsExplained, Slot, Slots
<1> QED BY <1>1, <1>2, <1>3, <1>4, <1>5, <1>6, <1>7, <1>8

\* The VM goes or is noted.
LEMMA TakeDownInv ==
  ASSUME IInv, NEW t \in Tasks, TakeDown(t)
  PROVE  IInv'
<1> USE DEF IInv, BaseInv, ManifestInv
<1>a. Answer(t) BY DEF TakeDown
<1>1. TypeOK'
  <2>1. Slot(t) \in Slots BY SlotType DEF TakeDown
  <2> QED BY <1>a, AnswerEffect, <2>1 DEF TypeOK, TakeDown
<1>2. ActiveInv'
  BY <1>a, AnswerEffect DEF TypeOK, ActiveInv, TakeDown
<1>3. SnapInv'
  BY <1>a, AnswerEffect DEF TypeOK, SnapInv, ActiveInv, TakeDown
<1>4. WriterInv'
  BY <1>a, AnswerEffect DEF TypeOK, WriterInv, TakeDown
<1>5. FileInv'
  BY <1>a, AnswerEffect DEF TypeOK, FileInv, TakeDown
<1>6. ManifestCurrent'
  BY <1>a, AnswerEffect DEF TypeOK, ManifestCurrent, Saving, TakeDown
<1>7. DupInv'
  BY <1>a, AnswerEffect DEF TypeOK, DupInv, DuplicatesOnlyFromDryRuns, TakeDown
<1>8. GoldenVmsExplained'
  <2>1. Slot(t) \in Slots BY SlotType DEF TakeDown
  <2> SUFFICES ASSUME NEW v \in Slots, vms'[v] # NoTask, v \notin (kept \cup leaked)'
               PROVE  (pc[vms[v]] \in {"run", "down"} /\ Slot(vms[v]) = v)'
    BY DEF GoldenVmsExplained
  <2>2. vms'[v] = vms[v] /\ v \notin kept \cup leaked BY <2>1 DEF TakeDown, TypeOK
  <2>3. pc[vms[v]] \in {"run", "down"} /\ Slot(vms[v]) = v BY <2>2 DEF GoldenVmsExplained
  <2>4. v # Slot(t) BY <2>1, <2>2 DEF TakeDown, TypeOK
  <2> QED BY <2>2, <2>3, <2>4, <1>a, AnswerEffect DEF TypeOK, Slot
<1> QED BY <1>1, <1>2, <1>3, <1>4, <1>5, <1>6, <1>7, <1>8

-----------------------------------------------------------------------------
(* Theorems.                                                               *)

LEMMA InitInv == Init => IInv
BY InitBase, InitManifest, InitDup, InitVms DEF IInv

LEMMA NextInv ==
  ASSUME IInv, [Next]_vars
  PROVE  IInv'
<1>1. CASE \E p \in Procs : Start(p) \/ Stop(p) BY <1>1, StartInv, StopInv
<1>2. CASE \E t \in Tasks : RegistryStep(t)
  BY <1>2, RequestRegisterInv, DeleteInv, DryBuildInv, RegisterInv, RegisterRefusedInv,
     DeleteNothingInv, BeginSaveInv, EndSaveInv, SaveFailsInv DEF RegistryStep
<1>3. CASE \E t \in Tasks : VmStep(t)
  BY <1>3, RequestVmInv, CreateVmInv, CreateVmFailsInv, RunStepsInv, TakeDownInv DEF VmStep
<1>4. CASE UNCHANGED vars
  BY <1>4 DEF vars, IInv, BaseInv, ManifestInv, TypeOK, ActiveInv, SnapInv, WriterInv,
     FileInv, ManifestCurrent, Saving, DupInv, DuplicatesOnlyFromDryRuns,
     GoldenVmsExplained, Slot
<1> QED BY <1>1, <1>2, <1>3, <1>4 DEF Next

LEMMA SpecInv == Spec => []IInv
BY InitInv, NextInv, PTL DEF Spec

\* Every reachable state is well typed, for any processes, calls and goldens.
THEOREM TypeCorrect == Spec => []TypeOK
<1>1. IInv => TypeOK BY DEF IInv, BaseInv
<1> QED BY <1>1, SpecInv, PTL

\* Concurrent calls of one process never leave an older registry in the
\* manifest, however many there are and whatever other processes do, unless a
\* save failed or two processes wrote at once.
THEOREM ManifestIsCurrent == Spec => []ManifestCurrent
<1>1. IInv => ManifestCurrent BY DEF IInv, ManifestInv
<1> QED BY <1>1, SpecInv, PTL

\* Only dry runs register a golden twice, on whatever path between memory, file
\* and processes the entry travelled.
THEOREM OnlyDryRunsDuplicate == Spec => []DuplicatesOnlyFromDryRuns
<1>1. IInv => DuplicatesOnlyFromDryRuns BY DEF IInv, DupInv
<1> QED BY <1>1, SpecInv, PTL

\* No error between the creation of a build or verification VM and its removal
\* leaves the VM running.
THEOREM GoldenVmsAreExplained == Spec => []GoldenVmsExplained
<1>1. IInv => GoldenVmsExplained BY DEF IInv
<1> QED BY <1>1, SpecInv, PTL
=============================================================================
