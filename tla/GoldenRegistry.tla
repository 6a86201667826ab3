---------------------------- MODULE GoldenRegistry ----------------------------
(***************************************************************************)
(* The golden images of lsbx: the registry that each process loads from    *)
(* images.json when it starts and mutates in memory (golden_register,      *)
(* golden_delete, golden_build --register of lsbx-ops), the manifest it    *)
(* writes back, and the VMs that golden_build and golden_verify            *)
(* (lsbx-golden) start and take down.                                      *)
(*                                                                         *)
(* A process is a one-shot CLI command or a server with concurrent calls.  *)
(* Its registry is behind an RwLock: a change holds it for writing, the    *)
(* save that follows takes it anew, for reading.  Nothing keeps two        *)
(* processes apart, and the file is truncated and rewritten in place.      *)
(***************************************************************************)
EXTENDS Naturals

CONSTANTS
    Keys,        \* golden keys
    Procs,       \* processes that share one manifest
    Tasks,       \* calls in progress
    Home,        \* Home[t]: the process task t runs in
    OneShot,     \* the processes that run one command and exit
    MaxEntries,  \* bound on entries of a registry under one key
    MaxFaults,   \* bound on failing calls and crashes
    NotLoaded, Missing, Torn, NoKey, NoTask, NoProc

ASSUME HomeAssumption ==
    /\ Home \in [Tasks -> Procs] /\ OneShot \subseteq Procs
    /\ \A t, u \in Tasks : Home[t] = Home[u] /\ Home[t] \in OneShot => t = u
ASSUME BoundsAssumption == MaxEntries \in Nat /\ MaxFaults \in Nat

\* ImageRegistry.goldens, by how many entries it has under each key.
Registry == [Keys -> Nat]
Empty    == [k \in Keys |-> 0]
ASSUME NoRegistry ==
    /\ {NotLoaded, Missing, Torn} \cap Registry = {} /\ Missing # Torn
    /\ NoKey \notin Keys /\ NoTask \notin Tasks /\ NoProc \notin Procs

VARIABLES
    file,     \* images.json: a registry, missing, or not parseable
    mixed,    \* two processes have been writing into it at once
    mem,      \* per process: the registry in memory
    snap,     \* per task: the contents it writes
    pc, op, key, \* per task: next call, operation, golden key
    vms,      \* build and verification VMs: the task that made them
    faults,
    wrote,    \* history: the process that began the last write
    failed,   \* history: processes whose last read or write of it failed
    acked,    \* history: keys whose registration was acknowledged, and not
              \* deleted by anybody since
    dry,      \* history: keys a dry run was registered under
    kept, leaked  \* history: VMs left on request, VMs left by a failure

manifest == <<file, mixed, snap>>
tasks    == <<pc, op, key>>
history  == <<wrote, failed, acked, dry, kept, leaked>>
vars == <<manifest, mem, tasks, vms, faults, history>>

Slots == {"build", "verify"} \X Keys   \* the names golden VMs have

Init ==
    /\ file \in {Missing, Empty} /\ mixed = FALSE
    /\ mem = [p \in Procs |-> NotLoaded]
    /\ snap = [t \in Tasks |-> Empty]
    /\ pc = [t \in Tasks |-> "idle"]
    /\ key = [t \in Tasks |-> NoKey] /\ op = [t \in Tasks |-> "none"]
    /\ vms = [v \in Slots |-> NoTask]
    /\ faults = 0 /\ wrote = NoProc /\ failed = {} /\ acked = {} /\ dry = {}
    /\ kept = {} /\ leaked = {}

Running(p) == mem[p] # NotLoaded
Failure    == faults < MaxFaults /\ faults' = faults + 1

Goto(t, step) == pc' = [pc EXCEPT ![t] = step]

\* The task is answered; a one-shot process exits with its command.
Answer(t) ==
    /\ Goto(t, "idle")
    /\ op' = [op EXCEPT ![t] = "none"] /\ key' = [key EXCEPT ![t] = NoKey]
    /\ mem' = IF Home[t] \in OneShot THEN [mem EXCEPT ![Home[t]] = NotLoaded] ELSE mem

\* An idle task of a running process takes a request: operation o on key k.
Accept(t, o, k) ==
    /\ pc[t] = "idle" /\ Running(Home[t])
    /\ op' = [op EXCEPT ![t] = o] /\ key' = [key EXCEPT ![t] = k]

\* build_deps: the registry is loaded once, when the process starts.  No file,
\* or any error reading it, is an empty registry; a file that does not parse
\* stops the process.
Start(p) ==
    /\ ~Running(p)
    /\ \/ /\ file # Torn
          /\ mem' = [mem EXCEPT ![p] = IF file = Missing THEN Empty ELSE file]
          /\ failed' = failed \ {p} /\ UNCHANGED faults
       \/ /\ Failure
          /\ mem' = [mem EXCEPT ![p] = Empty]
          /\ failed' = failed \cup {p}
    /\ UNCHANGED <<manifest, tasks, vms, wrote, acked, dry, kept, leaked>>

-----------------------------------------------------------------------------
(* Changes to the registry: each is made under the write lock, which waits *)
(* for the readers, and leads to a save.                                   *)

\* Mutant: the registry changes under a save in progress.
WriteLocked_Ignored(p) == TRUE

\* registry.write().await: no save of this process is in progress.
WriteLocked(p) == \A t \in Tasks : Home[t] = p => pc[t] # "write"

\* The task gets the lock and leaves n entries under its key.
Change(t, k, n) ==
    /\ WriteLocked(Home[t])
    /\ mem' = [mem EXCEPT ![Home[t]][k] = n]
    /\ Goto(t, "persist")

\* `golden register`; the command's --replace comes after a golden_delete,
\* whatever that returns.
RequestRegister(t, k) ==
    /\ \/ Accept(t, "register", k) /\ Goto(t, "register")
       \/ Home[t] \in OneShot /\ Accept(t, "replace", k) /\ Goto(t, "delete")
    /\ UNCHANGED <<manifest, mem, vms, faults, history>>

\* Mutant: a key that is taken is registered again.
Register_NoCheck(t) ==
    /\ pc[t] = "register"
    /\ mem[Home[t]][key[t]] < MaxEntries
    /\ Change(t, key[t], mem[Home[t]][key[t]] + 1)
    /\ UNCHANGED <<manifest, op, key, vms, faults, history>>

\* golden_register: look up and push under one write lock.
Register(t) ==
    /\ pc[t] = "register"
    /\ mem[Home[t]][key[t]] = 0
    /\ Change(t, key[t], 1)
    /\ UNCHANGED <<manifest, op, key, vms, faults, history>>

\* The key is taken: a usage error.
RegisterRefused(t) ==
    /\ pc[t] = "register"
    /\ mem[Home[t]][key[t]] > 0
    /\ Answer(t)
    /\ UNCHANGED <<manifest, vms, faults, history>>

\* golden_delete removes every entry under the key, on its own or for --replace.
Delete(t, k) ==
    /\ \/ pc[t] = "delete" /\ k = key[t] /\ UNCHANGED <<op, key>>
       \/ Accept(t, "delete", k)
    /\ mem[Home[t]][k] > 0
    /\ Change(t, k, 0)
    /\ acked' = acked \ {k}
    /\ UNCHANGED <<manifest, vms, faults, wrote, failed, dry, kept, leaked>>

\* There is none: --replace goes on.  (On its own golden_delete then reports
\* NotFound and changes nothing.)
DeleteNothing(t) ==
    /\ pc[t] = "delete" /\ mem[Home[t]][key[t]] = 0
    /\ Goto(t, "register")
    /\ op' = [op EXCEPT ![t] = "register"]
    /\ UNCHANGED <<manifest, mem, key, vms, faults, history>>

\* golden_build --dry-run --register: no VM, but the canned config is pushed,
\* without a look at the keys there are.
DryBuild(t, k) ==
    /\ Accept(t, "dry-run", k)
    /\ mem[Home[t]][k] < MaxEntries
    /\ Change(t, k, mem[Home[t]][k] + 1)
    /\ dry' = dry \cup {k}
    /\ UNCHANGED <<manifest, vms, faults, wrote, failed, acked, kept, leaked>>

-----------------------------------------------------------------------------
(* persist_registry.                                                       *)

\* The read lock is taken, the registry serialised and the file truncated.
BeginSave(t) ==
    /\ pc[t] = "persist"
    /\ snap' = [snap EXCEPT ![t] = mem[Home[t]]]
    /\ file' = Torn
    /\ mixed' = \E u \in Tasks : pc[u] = "write" /\ Home[u] # Home[t]
    /\ wrote' = Home[t]
    /\ Goto(t, "write")
    /\ UNCHANGED <<mem, op, key, vms, faults, failed, acked, dry, kept, leaked>>

\* After a save: --replace still has its registration to do.
AfterSave(t) ==
    IF op[t] = "replace"
      THEN /\ Goto(t, "register")
           /\ op' = [op EXCEPT ![t] = "register"]
           /\ UNCHANGED <<key, mem>>
      ELSE Answer(t)

\* The contents are written.  Over what another process wrote meanwhile, the
\* rest of the longer contents stays and the file does not parse.
EndSave(t) ==
    /\ pc[t] = "write"
    /\ file' \in {snap[t]} \cup (IF mixed THEN {Torn} ELSE {})
    /\ failed' = failed \ {Home[t]}
    /\ acked' = IF op[t] = "register" /\ snap[t][key[t]] > 0 THEN acked \cup {key[t]} ELSE acked
    /\ snap' = [snap EXCEPT ![t] = Empty]
    /\ AfterSave(t)
    /\ UNCHANGED <<mixed, vms, faults, wrote, dry, kept, leaked>>

\* The file cannot be opened, or the write fails half way: BackendUnavailable,
\* and the change stays in memory.
SaveFails(t) ==
    /\ pc[t] \in {"persist", "write"}
    /\ Failure
    /\ file' = IF pc[t] = "write" THEN Torn ELSE file
    /\ failed' = failed \cup {Home[t]}
    /\ snap' = [snap EXCEPT ![t] = Empty]
    /\ AfterSave(t)
    /\ UNCHANGED <<mixed, vms, wrote, acked, dry, kept, leaked>>

-----------------------------------------------------------------------------
(* golden_build and golden_verify.                                         *)

\* The VM of a task: named after the golden built, or for the verification of
\* one (verify-<golden> on the command line).
Slot(t) == <<op[t], key[t]>>

\* golden_verify needs a registered golden; it goes on with its own copy.
RequestVm(t, o, k) ==
    /\ Accept(t, o, k)
    /\ o = "verify" => mem[Home[t]][k] > 0
    /\ Goto(t, "create")
    /\ UNCHANGED <<manifest, mem, vms, faults, history>>

\* create_from_golden; a name in use is refused.
CreateVm(t) ==
    /\ pc[t] = "create" /\ vms[Slot(t)] = NoTask
    /\ vms' = [vms EXCEPT ![Slot(t)] = t]
    /\ Goto(t, "run")
    /\ UNCHANGED <<manifest, mem, op, key, faults, history>>

\* It is refused or fails; a failure may leave the VM it had begun with.
CreateVmFails(t) ==
    /\ pc[t] = "create"
    /\ \/ vms[Slot(t)] # NoTask /\ UNCHANGED <<vms, faults, leaked>>
       \/ Failure /\ UNCHANGED <<vms, leaked>>
       \/ /\ Failure /\ vms[Slot(t)] = NoTask
          /\ vms' = [vms EXCEPT ![Slot(t)] = t]
          /\ leaked' = leaked \cup {Slot(t)}
    /\ Answer(t)
    /\ UNCHANGED <<manifest, wrote, failed, acked, dry, kept>>

\* Mutant: an error of the steps returns before the VM is taken down.
RunSteps_EarlyReturn(t) ==
    /\ pc[t] = "run"
    /\ Answer(t)
    /\ UNCHANGED <<manifest, vms, faults, history>>

\* run_build_steps: the script is copied and run; the facade has no flattener,
\* so a build never succeeds.  For verify: register_vm_key and the healthchecks,
\* to the end or to the first error of a call.  Either way the VM is taken down
\* next, unless the build was asked to leave it.
RunSteps(t) ==
    /\ pc[t] = "run"
    /\ \/ Goto(t, "down") /\ UNCHANGED <<mem, op, key, kept>>
       \/ /\ op[t] = "build"
          /\ kept' = kept \cup {Slot(t)}
          /\ Answer(t)
    /\ UNCHANGED <<manifest, vms, faults, wrote, failed, acked, dry, leaked>>

\* destroy or destroy_with_key; a failure leaves the VM, which has no record.
TakeDown(t) ==
    /\ pc[t] = "down"
    /\ \/ vms' = [vms EXCEPT ![Slot(t)] = NoTask] /\ UNCHANGED <<faults, leaked>>
       \/ Failure /\ leaked' = leaked \cup {Slot(t)} /\ UNCHANGED vms
    /\ Answer(t)
    /\ UNCHANGED <<manifest, wrote, failed, acked, dry, kept>>

-----------------------------------------------------------------------------

\* The process stops or is killed, with all its tasks.
Stop(p) ==
    /\ Running(p)
    /\ Failure
    /\ mem' = [mem EXCEPT ![p] = NotLoaded]
    /\ pc' = [t \in Tasks |-> IF Home[t] = p THEN "idle" ELSE pc[t]]
    /\ op' = [t \in Tasks |-> IF Home[t] = p THEN "none" ELSE op[t]]
    /\ key' = [t \in Tasks |-> IF Home[t] = p THEN NoKey ELSE key[t]]
    /\ snap' = [t \in Tasks |-> IF Home[t] = p THEN Empty ELSE snap[t]]
    /\ leaked' = leaked \cup
           {Slot(t) : t \in {u \in Tasks : Home[u] = p /\ pc[u] \in {"run", "down"}}}
    /\ UNCHANGED <<file, mixed, vms, wrote, failed, acked, dry, kept>>

RegistryStep(t) ==
    \/ \E k \in Keys : RequestRegister(t, k) \/ Delete(t, k) \/ DryBuild(t, k)
    \/ Register(t) \/ RegisterRefused(t) \/ DeleteNothing(t)
    \/ BeginSave(t) \/ EndSave(t) \/ SaveFails(t)

VmStep(t) ==
    \/ \E o \in {"build", "verify"}, k \in Keys : RequestVm(t, o, k)
    \/ CreateVm(t) \/ CreateVmFails(t) \/ RunSteps(t) \/ TakeDown(t)

Next ==
    \/ \E p \in Procs : Start(p) \/ Stop(p)
    \/ \E t \in Tasks : RegistryStep(t) \/ VmStep(t)

Spec == Init /\ [][Next]_vars

-----------------------------------------------------------------------------
(* Properties.                                                             *)

\* Every variable has its type.
TypeOK ==
    /\ file \in Registry \cup {Missing, Torn} /\ mixed \in BOOLEAN
    /\ mem \in [Procs -> Registry \cup {NotLoaded}]
    /\ snap \in [Tasks -> Registry]
    /\ pc \in [Tasks -> {"idle", "register", "delete", "persist", "write",
                         "create", "run", "down"}]
    /\ op \in [Tasks -> {"none", "register", "replace", "delete", "dry-run",
                         "build", "verify"}]
    /\ key \in [Tasks -> Keys \cup {NoKey}]
    /\ vms \in [Slots -> Tasks \cup {NoTask}]
    /\ faults \in Nat /\ wrote \in Procs \cup {NoProc} /\ failed \subseteq Procs
    /\ acked \subseteq Keys /\ dry \subseteq Keys
    /\ kept \subseteq Slots /\ leaked \subseteq Slots

Saving(p) == \E t \in Tasks : Home[t] = p /\ pc[t] \in {"persist", "write"}

\* Concurrent calls of one process never leave an older registry in the
\* manifest: when the process that wrote last has no save outstanding, the file
\* is what it has in memory, unless its last save failed or another process
\* wrote at the same time (golden_register and golden_delete change under the
\* write lock, persist_registry saves under a read lock taken afterwards).
ManifestCurrent ==
    \A p \in Procs :
        wrote = p /\ Running(p) /\ ~Saving(p) /\ p \notin failed /\ ~mixed => file = mem[p]

\* A golden is registered twice under one key only if a dry run put it there.
DuplicatesOnlyFromDryRuns ==
    \A p \in Procs, k \in Keys : Running(p) /\ mem[p][k] > 1 => k \in dry

\* A VM that golden build or golden verify made is in use by its task, was left
\* on request, or could not be destroyed: no error of the steps in between
\* leaves it running (golden_build's cleanup and golden_verify's step 3).
GoldenVmsExplained ==
    \A v \in Slots : vms[v] # NoTask =>
        \/ v \in kept \cup leaked
        \/ pc[vms[v]] \in {"run", "down"} /\ Slot(vms[v]) = v

\* An acknowledged registration that nobody deleted is in the manifest, for the
\* processes to come.  It does not hold of the code: another process saves the
\* registry it loaded earlier (README, section 4).
RegisteredSurvives ==
    \A k \in acked : file \in Registry => file[k] > 0
=============================================================================
