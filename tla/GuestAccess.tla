------------------------------ MODULE GuestAccess ------------------------------
(***************************************************************************)
(* How lsbx reaches the guest of a sandbox, and what a guest leaves on the *)
(* host: exec, put and get (lsbx-ops) over the libvirt and exe.dev         *)
(* backends, next to the creates and destroys that give a name, a disk     *)
(* file and an address from one VM to the next.                            *)
(*                                                                         *)
(* A sandbox and the VM made for it share an identity here; a VM is found  *)
(* by its name, which a caller may choose and choose again.  On libvirt    *)
(* the disk and the cloud-init seed lie under that name too, the address   *)
(* comes from DHCP, and every process has an ip_cache of its own.          *)
(* SandboxLifecycle has the records, leases and keys in full.              *)
(***************************************************************************)
EXTENDS Naturals, FiniteSets

CONSTANTS
    Sandboxes, Names, Addresses,
    Actors,     \* requests, commands and the reaper
    Procs,      \* processes
    ProcOf,     \* the process an actor runs in
    Kinds,      \* which of the kinds of guest below are of interest
    MaxFaults,  \* bound on failing calls, crashes and VMs that vanish
    None

ASSUME NoneAssumption ==
    /\ None \notin Sandboxes /\ None \notin Names /\ None \notin Addresses
    /\ ProcOf \in [Actors -> Procs] /\ MaxFaults \in Nat

\* libvirt with a Linux golden (the seed carries the sandbox's own key) or a
\* Windows golden (one key baked into it); exe.dev with the sandbox's key as the
\* only key of the account that ssh and scp have to offer ("ssh"), or with more
\* than that ("account"): a token, whose commands go by VM name alone, or another
\* of the account's keys, which ssh takes from the agent, from its configuration
\* or from its defaults, as no call says IdentitiesOnly, or which the backend
\* itself falls back to for a record without a key_path.
ASSUME KindsAssumption == Kinds \subseteq {"linux", "windows", "ssh", "account"}

VARIABLES
    kind,
    vmAt,     \* the running VM of a name
    addr,     \* the address of a running VM (libvirt)
    trusts,   \* libvirt: whose key a VM let in when it first booted
    disk,     \* {work_dir}/{name}.qcow2: the sandbox it was made for
    seed,     \* {work_dir}/{name}-cidata.iso, likewise
    account,  \* exe.dev: sandboxes whose key is on the account
    rec,      \* the vm_tag of a sandbox's record
    cache,    \* ip_cache of a process
    used,     \* sandboxes that were ever begun
    pc, box, name, host, \* of an actor: next call, sandbox, VM name, VM or address found
    faults,
    maker,    \* history: the process that made a VM
    overlap,  \* history: sandboxes that shared a name with a create or destroy under way
    leaked,   \* history: sandboxes whose create did not come to its end
    slipped,  \* history: sandboxes whose domain was gone, or stayed, when it was destroyed
    lost,     \* history: VMs that ended other than by their own sandbox's destroy
    strayed   \* history: (sandbox, VM) where a command ran elsewhere

host_state == <<vmAt, addr, trusts, disk, seed, account>>
actor_vars == <<pc, box, name, host>>
history == <<maker, overlap, leaked, slipped, lost, strayed>>
vars == <<kind, host_state, rec, cache, used, actor_vars, faults, history>>

Init ==
    /\ kind \in Kinds
    /\ vmAt = [n \in Names |-> None] /\ addr = [s \in Sandboxes |-> None]
    /\ trusts = [s \in Sandboxes |-> None]
    /\ disk = [n \in Names |-> None] /\ seed = [n \in Names |-> None]
    /\ account = {} /\ rec = [s \in Sandboxes |-> None]
    /\ cache = [p \in Procs |-> [n \in Names |-> None]]
    /\ used = {}
    /\ pc = [a \in Actors |-> "idle"] /\ box = [a \in Actors |-> None]
    /\ name = [a \in Actors |-> None] /\ host = [a \in Actors |-> None]
    /\ faults = 0 /\ maker = [s \in Sandboxes |-> None]
    /\ overlap = {} /\ leaked = {} /\ slipped = {} /\ lost = {} /\ strayed = {}

Libvirt == kind \in {"linux", "windows"}
Failures(k) == faults + k <= MaxFaults /\ faults' = faults + k
Failure == Failures(1)

Goto(a, l) == pc' = [pc EXCEPT ![a] = l]
Return(a) ==
    /\ Goto(a, "idle")
    /\ box' = [box EXCEPT ![a] = None] /\ name' = [name EXCEPT ![a] = None]
    /\ host' = [host EXCEPT ![a] = None]
Begin(a, s, n, l) ==
    /\ pc[a] = "idle"
    /\ Goto(a, l) /\ box' = [box EXCEPT ![a] = s] /\ name' = [name EXCEPT ![a] = n]
    /\ UNCHANGED host
At(a, l) == pc[a] = l

Commanding == {"lookup", "host", "connect"}
Creating   == {"seed", "define", "address", "insert", "wipe_undone", "add_key", "save"}

\* The sandboxes others create or destroy under this name right now.
Others(n, s) ==
    {box[a] : a \in {b \in Actors : name[b] = n /\ box[b] # s /\ pc[b] \notin Commanding}}
NoteOverlap(n, s) ==
    overlap' = IF Others(n, s) = {} THEN overlap ELSE overlap \cup Others(n, s) \cup {s}

-----------------------------------------------------------------------------
(* create_from_golden.                                                     *)

\* qemu-img create or convert.  It refuses an image that a running VM has open
\* and replaces any other file of that name.
MakeDisk(a, s, n) ==
    /\ Libvirt /\ s \notin used
    /\ vmAt[n] = None \/ disk[n] = None
    /\ Begin(a, s, n, IF kind = "linux" THEN "seed" ELSE "define")
    /\ used' = used \cup {s}
    /\ disk' = [disk EXCEPT ![n] = s]
    /\ NoteOverlap(n, s)
    /\ UNCHANGED <<kind, vmAt, addr, trusts, seed, account, rec, cache, faults, maker, leaked,
                   slipped, lost, strayed>>

\* create_seed_iso; not for Windows.
MakeSeed(a) ==
    /\ At(a, "seed")
    /\ seed' = [seed EXCEPT ![name[a]] = box[a]]
    /\ Goto(a, "define")
    /\ UNCHANGED <<kind, vmAt, addr, trusts, disk, account, rec, cache, used, box, name, host,
                   faults, history>>

\* Domain::create_xml: the VM boots from the files that lie there now and DHCP
\* gives it an address no running VM has.
Define(a) ==
    /\ At(a, "define")
    /\ vmAt[name[a]] = None /\ disk[name[a]] # None
    /\ vmAt' = [vmAt EXCEPT ![name[a]] = box[a]]
    /\ \E i \in Addresses :
        /\ \A n \in Names : vmAt[n] # None => addr[vmAt[n]] # i
        /\ addr' = [addr EXCEPT ![box[a]] = i]
    /\ trusts' = [trusts EXCEPT ![box[a]] = seed[name[a]]]
    /\ maker' = [maker EXCEPT ![box[a]] = ProcOf[a]]
    /\ Goto(a, "address")
    /\ UNCHANGED <<kind, disk, seed, account, rec, cache, used, box, name, host, faults,
                   overlap, leaked, slipped, lost, strayed>>

\* An error before the domain exists, or of reading its name: create_from_golden
\* returns it and leaves what was made so far.
CreateFails(a) ==
    /\ pc[a] \in {"seed", "define", "address"}
    /\ \/ pc[a] = "define" /\ (vmAt[name[a]] # None \/ disk[name[a]] = None)
          /\ UNCHANGED faults
       \/ Failure
    /\ leaked' = leaked \cup {box[a]}
    /\ Return(a)
    /\ UNCHANGED <<kind, host_state, rec, cache, used, maker, overlap, slipped, lost, strayed>>

\* guest_host_for, by name ...
Address(a) ==
    /\ At(a, "address") /\ vmAt[name[a]] # None
    /\ host' = [host EXCEPT ![a] = addr[vmAt[name[a]]]]
    /\ Goto(a, "insert")
    /\ UNCHANGED <<kind, host_state, rec, cache, used, box, name, faults, history>>

\* Mutant: an entry that is there already is kept.
CacheInsert_KeepsEntry(a) ==
    /\ At(a, "insert")
    /\ cache' = [cache EXCEPT ![ProcOf[a]][name[a]] = IF @ = None THEN host[a] ELSE @]
    /\ Goto(a, "save")
    /\ UNCHANGED <<kind, host_state, rec, used, box, name, host, faults, history>>

\* ... and, when the lock is had, its entry in ip_cache.
CacheInsert(a) ==
    /\ At(a, "insert")
    /\ cache' = [cache EXCEPT ![ProcOf[a]][name[a]] = host[a]]
    /\ Goto(a, "save")
    /\ UNCHANGED <<kind, host_state, rec, used, box, name, host, faults, history>>

\* Mutant: the domain is left running.
NoAddress_KeepsDomain(a) ==
    /\ At(a, "address")
    /\ \/ vmAt[name[a]] = None /\ UNCHANGED faults
       \/ Failure
    /\ Goto(a, "wipe_undone")
    /\ UNCHANGED <<kind, host_state, rec, cache, used, box, name, host, history>>

\* No address in time: the domain is destroyed (by its handle; an error of that
\* is ignored) ...
NoAddress(a) ==
    /\ At(a, "address")
    /\ \/ /\ \/ vmAt[name[a]] = None /\ UNCHANGED faults
             \/ Failure
          /\ vmAt' = [n \in Names |-> IF vmAt[n] = box[a] THEN None ELSE vmAt[n]]
          /\ UNCHANGED slipped
       \/ /\ Failures(2)
          /\ slipped' = slipped \cup {box[a]} /\ UNCHANGED vmAt
    /\ Goto(a, "wipe_undone")
    /\ UNCHANGED <<kind, addr, trusts, disk, seed, account, rec, cache, used, box, name, host,
                   maker, overlap, leaked, lost, strayed>>

\* cleanup_vm_artifacts: by name.
WipeFiles(n) == disk' = [disk EXCEPT ![n] = None] /\ seed' = [seed EXCEPT ![n] = None]

\* ... and its files are removed.
WipeUndone(a) ==
    /\ At(a, "wipe_undone")
    /\ WipeFiles(name[a])
    /\ Return(a)
    /\ UNCHANGED <<kind, vmAt, addr, trusts, account, rec, cache, used, faults, history>>

\* exe.dev: cp refuses a name in use; then ssh-key add.
Cp(a, s, n) ==
    /\ ~Libvirt /\ s \notin used /\ vmAt[n] = None
    /\ Begin(a, s, n, "add_key")
    /\ used' = used \cup {s}
    /\ vmAt' = [vmAt EXCEPT ![n] = s]
    /\ maker' = [maker EXCEPT ![s] = ProcOf[a]]
    /\ NoteOverlap(n, s)
    /\ UNCHANGED <<kind, addr, trusts, disk, seed, account, rec, cache, faults, leaked,
                   slipped, lost, strayed>>

AddKey(a) ==
    /\ At(a, "add_key")
    /\ account' = account \cup {box[a]}
    /\ Goto(a, "save")
    /\ UNCHANGED <<kind, vmAt, addr, trusts, disk, seed, rec, cache, used, box, name, host,
                   faults, history>>

\* tag or ssh-key add fails: rm, by name, its result ignored; what ssh-key add
\* did may have been done.
AddKeyFails(a) ==
    LET n == name[a] IN
    /\ At(a, "add_key")
    /\ \/ /\ Failure
          /\ vmAt' = [vmAt EXCEPT ![n] = None]
          /\ lost' = lost \cup ({vmAt[n]} \ {None, box[a]})
       \/ Failures(2) /\ UNCHANGED <<vmAt, lost>>
    /\ account' \in {account, account \cup {box[a]}}
    /\ leaked' = leaked \cup {box[a]}
    /\ Return(a)
    /\ UNCHANGED <<kind, addr, trusts, disk, seed, rec, cache, used, maker, overlap, slipped, strayed>>

\* Mutant: the record has the sandbox's id where the vm_tag belongs.
Save_Id(a) ==
    /\ At(a, "save")
    /\ rec' = [rec EXCEPT ![box[a]] = box[a]]
    /\ Return(a)
    /\ UNCHANGED <<kind, host_state, cache, used, faults, history>>

\* The lifecycle's record; an error leaves the VM without one.
Save(a) ==
    /\ At(a, "save")
    /\ \/ rec' = [rec EXCEPT ![box[a]] = name[a]] /\ UNCHANGED <<faults, leaked>>
       \/ Failure /\ leaked' = leaked \cup {box[a]} /\ UNCHANGED rec
    /\ Return(a)
    /\ UNCHANGED <<kind, host_state, cache, used, maker, overlap, slipped, lost, strayed>>

-----------------------------------------------------------------------------
(* exec, put and get: the same way to the guest.                           *)

\* LsbxOps loads the record; the backend is called with its vm_tag and key_path.
Command(a, s) ==
    /\ rec[s] # None
    /\ Begin(a, s, rec[s], IF Libvirt THEN "lookup" ELSE "connect")
    /\ UNCHANGED <<kind, host_state, rec, cache, used, faults, history>>

\* lookup_domain: by name, to tell a missing VM from an unreachable one.
Lookup(a) ==
    /\ At(a, "lookup")
    /\ IF vmAt[name[a]] = None THEN Return(a)
       ELSE Goto(a, "host") /\ UNCHANGED <<box, name, host>>
    /\ UNCHANGED <<kind, host_state, rec, cache, used, faults, history>>

\* The cached address, or the one virsh domifaddr reports for the name (which is
\* not cached); no address before the deadline ends the call.
Host(a) ==
    LET cached == cache[ProcOf[a]][name[a]]
        vm == vmAt[name[a]]
    IN
    /\ At(a, "host")
    /\ IF cached = None /\ vm = None THEN Return(a)
       ELSE /\ host' = [host EXCEPT ![a] = IF cached # None THEN cached ELSE addr[vm]]
            /\ Goto(a, "connect")
            /\ UNCHANGED <<box, name>>
    /\ UNCHANGED <<kind, host_state, rec, cache, used, faults, history>>

\* The VM that answers: at the address on libvirt, at <name>.exe.xyz or in the
\* lobby's ssh command on exe.dev.
Answers(a) ==
    IF Libvirt
    THEN {vmAt[n] : n \in {m \in Names : vmAt[m] # None /\ addr[vmAt[m]] = host[a]}}
    ELSE {vmAt[name[a]]} \ {None}

\* Mutant: the backend's own key is used for every guest.
Accepts_OneKey(v, s) == TRUE

\* Whether VM v lets in the caller of sandbox s with what is offered: a Linux
\* guest of libvirt has no key but its seed's, every VM of exe.dev has all keys of
\* the account.
Accepts(v, s) ==
    CASE kind = "linux" -> trusts[v] = s
      [] kind = "ssh" -> s \in account
      [] OTHER -> TRUE

\* run_ssh, ssh or scp, or the token's /exec.
Connect(a) ==
    /\ At(a, "connect")
    /\ strayed' = strayed \cup
         {<<box[a], v>> : v \in {w \in Answers(a) : w # box[a] /\ Accepts(w, box[a])}}
    /\ Return(a)
    /\ UNCHANGED <<kind, host_state, rec, cache, used, faults, maker, overlap, leaked, slipped, lost>>

\* A time-out, a failing transport; ssh's own error is a BackendUnavailable.
CommandFails(a) ==
    /\ pc[a] \in Commanding
    /\ Failure
    /\ Return(a)
    /\ UNCHANGED <<kind, host_state, rec, cache, used, history>>

-----------------------------------------------------------------------------
(* destroy.                                                                *)

Destroy(a, s) ==
    /\ rec[s] # None
    /\ Begin(a, s, rec[s], IF Libvirt THEN "find" ELSE "revoke")
    /\ NoteOverlap(rec[s], s)
    /\ UNCHANGED <<kind, host_state, rec, cache, used, faults, maker, leaked, slipped, lost, strayed>>

\* Mutant: an absent domain is reported at once.
Find_EarlyReturn(a) ==
    /\ At(a, "find")
    /\ IF vmAt[name[a]] = None
       THEN Goto(a, "not_found") /\ UNCHANGED host
       ELSE Goto(a, "kill") /\ host' = [host EXCEPT ![a] = vmAt[name[a]]]
    /\ UNCHANGED <<kind, host_state, rec, cache, used, box, name, faults, history>>

\* lookup_domain; an absent domain has its files removed before NotFound.
Find(a) ==
    /\ At(a, "find")
    /\ IF vmAt[name[a]] = None
       THEN Goto(a, "wipe_absent") /\ UNCHANGED host
       ELSE Goto(a, "kill") /\ host' = [host EXCEPT ![a] = vmAt[name[a]]]
    /\ UNCHANGED <<kind, host_state, rec, cache, used, box, name, faults, history>>

\* domain.destroy, on the handle.  A domain that is gone by now is a NotFound of
\* its own, without the removal of its files.
Kill(a) ==
    /\ At(a, "kill")
    /\ IF vmAt[name[a]] = host[a]
       THEN vmAt' = [vmAt EXCEPT ![name[a]] = None] /\ Goto(a, "evict") /\ UNCHANGED slipped
       ELSE Goto(a, "not_found") /\ slipped' = slipped \cup {box[a]} /\ UNCHANGED vmAt
    /\ UNCHANGED <<kind, addr, trusts, disk, seed, account, rec, cache, used, box, name, host,
                   faults, maker, overlap, leaked, lost, strayed>>

Evict(a) ==
    /\ At(a, "evict")
    /\ cache' = [cache EXCEPT ![ProcOf[a]][name[a]] = None]
    /\ Goto(a, "wipe")
    /\ UNCHANGED <<kind, host_state, rec, used, box, name, host, faults, history>>

Wipe(a) ==
    /\ pc[a] \in {"wipe", "wipe_absent"}
    /\ WipeFiles(name[a])
    /\ Goto(a, IF pc[a] = "wipe" THEN "forget" ELSE "not_found")
    /\ UNCHANGED <<kind, vmAt, addr, trusts, account, rec, cache, used, box, name, host,
                   faults, history>>

\* exe.dev, destroy_with_key: the key first, then rm by name; an absent VM is
\* no error there.
Revoke(a) ==
    /\ At(a, "revoke")
    /\ account' = account \ {box[a]}
    /\ Goto(a, "rm")
    /\ UNCHANGED <<kind, vmAt, addr, trusts, disk, seed, rec, cache, used, box, name, host,
                   faults, history>>

Rm(a) ==
    /\ At(a, "rm")
    /\ vmAt' = [vmAt EXCEPT ![name[a]] = None]
    /\ lost' = lost \cup ({vmAt[name[a]]} \ {None, box[a]})
    /\ Goto(a, "forget")
    /\ UNCHANGED <<kind, addr, trusts, disk, seed, account, rec, cache, used, box, name, host,
                   faults, maker, overlap, leaked, slipped, strayed>>

\* The lifecycle deletes the record; on NotFound the reaper does, others do not.
Forget(a) ==
    /\ pc[a] \in {"forget", "not_found"}
    /\ \/ rec' = [rec EXCEPT ![box[a]] = None]
       \/ pc[a] = "not_found" /\ UNCHANGED rec
    /\ Return(a)
    /\ UNCHANGED <<kind, host_state, cache, used, faults, history>>

\* A libvirt or exe.dev error; the record stays.
DestroyFails(a) ==
    /\ pc[a] \in {"find", "kill", "revoke", "rm"}
    /\ Failure
    /\ Return(a)
    /\ UNCHANGED <<kind, host_state, rec, cache, used, history>>

-----------------------------------------------------------------------------
(* The host.                                                               *)

\* The guest powers off, or the host removes the VM.
VmVanishes(n) ==
    /\ vmAt[n] # None /\ Failure
    /\ vmAt' = [vmAt EXCEPT ![n] = None]
    /\ lost' = lost \cup {vmAt[n]}
    /\ UNCHANGED <<kind, addr, trusts, disk, seed, account, rec, cache, used, actor_vars,
                   maker, overlap, leaked, slipped, strayed>>

Crash(p) ==
    LET mine == {a \in Actors : ProcOf[a] = p} IN
    /\ Failure
    /\ cache' = [cache EXCEPT ![p] = [n \in Names |-> None]]
    /\ leaked' = leaked \cup {box[a] : a \in {b \in mine : pc[b] \in Creating}}
    /\ pc' = [a \in Actors |-> IF a \in mine THEN "idle" ELSE pc[a]]
    /\ box' = [a \in Actors |-> IF a \in mine THEN None ELSE box[a]]
    /\ name' = [a \in Actors |-> IF a \in mine THEN None ELSE name[a]]
    /\ host' = [a \in Actors |-> IF a \in mine THEN None ELSE host[a]]
    /\ UNCHANGED <<kind, host_state, rec, used, maker, overlap, slipped, lost, strayed>>

CreateStep(a) ==
    \/ \E s \in Sandboxes, n \in Names : MakeDisk(a, s, n) \/ Cp(a, s, n)
    \/ MakeSeed(a) \/ Define(a) \/ CreateFails(a) \/ Address(a) \/ CacheInsert(a)
    \/ NoAddress(a) \/ WipeUndone(a) \/ AddKey(a) \/ AddKeyFails(a) \/ Save(a)
CommandStep(a) ==
    \/ \E s \in Sandboxes : Command(a, s)
    \/ Lookup(a) \/ Host(a) \/ Connect(a) \/ CommandFails(a)
DestroyStep(a) ==
    \/ \E s \in Sandboxes : Destroy(a, s)
    \/ Find(a) \/ Kill(a) \/ Evict(a) \/ Wipe(a) \/ Revoke(a) \/ Rm(a) \/ Forget(a)
    \/ DestroyFails(a)

Next ==
    \/ \E a \in Actors : CreateStep(a) \/ CommandStep(a) \/ DestroyStep(a)
    \/ \E n \in Names : VmVanishes(n)
    \/ \E p \in Procs : Crash(p)

Spec == Init /\ [][Next]_vars

-----------------------------------------------------------------------------

Locations == Creating \cup Commanding \cup
    {"idle", "find", "kill", "evict", "wipe", "wipe_absent", "revoke", "rm", "forget", "not_found"}

TypeOK ==
    /\ kind \in Kinds
    /\ vmAt \in [Names -> Sandboxes \cup {None}]
    /\ addr \in [Sandboxes -> Addresses \cup {None}]
    /\ trusts \in [Sandboxes -> Sandboxes \cup {None}]
    /\ disk \in [Names -> Sandboxes \cup {None}] /\ seed \in [Names -> Sandboxes \cup {None}]
    /\ account \subseteq Sandboxes /\ rec \in [Sandboxes -> Names \cup {None}]
    /\ cache \in [Procs -> [Names -> Addresses \cup {None}]]
    /\ used \subseteq Sandboxes
    /\ pc \in [Actors -> Locations] /\ box \in [Actors -> Sandboxes \cup {None}]
    /\ name \in [Actors -> Names \cup {None}]
    /\ host \in [Actors -> Sandboxes \cup Addresses \cup {None}]
    /\ faults \in 0 .. MaxFaults
    /\ maker \in [Sandboxes -> Procs \cup {None}]
    /\ overlap \subseteq Sandboxes /\ leaked \subseteq Sandboxes /\ slipped \subseteq Sandboxes
    /\ lost \subseteq Sandboxes
    /\ strayed \subseteq Sandboxes \X Sandboxes

\* What exec, put and get are asked to do in one sandbox never happens in
\* another, although the name may be another VM's by the time the backend looks
\* and the cached address another's by the time ssh connects.  A Linux guest lets
\* in only the key of its seed, which is its own sandbox's unless two creates of
\* a name overlapped.  On exe.dev it takes a client that has no key of the account
\* but the sandbox's: destroy revokes that one before it frees the name, so only
\* the key of a VM that ended some other way opens its successor.  (Windows guests
\* share a key, and a token or another key of the account, which no call keeps ssh
\* and scp from offering, opens whatever VM has the name: nothing prevents it.)
CommandReachesOwnGuest ==
    \A r \in strayed :
        /\ kind = "linux" => r[2] \in overlap
        /\ kind = "ssh" => r[1] \in lost

\* The disk of a running VM lies where its domain expects it: no destroy, no
\* undone create and no retry of either removes or replaces it, unless a create
\* and a destroy (or create) of the same name overlapped, or an undone create
\* could not destroy its domain.
DiskKept ==
    Libvirt => \A n \in Names :
        vmAt[n] # None => disk[n] = vmAt[n] \/ vmAt[n] \in overlap \cup slipped

InHand(s) == \E a \in Actors : box[a] = s /\ pc[a] \notin Commanding

\* A disk without a VM is not forgotten: its sandbox is being made or destroyed,
\* still has a record for the reaper to find, or is one whose create failed
\* before its domain was made, lost its record or met another of the same name,
\* or whose VM went away between destroy's lookup and its shutdown.
ArtifactsExplained ==
    \A n \in Names :
        disk[n] # None /\ vmAt[n] # disk[n] =>
            LET s == disk[n] IN
            InHand(s) \/ rec[s] # None \/ s \in leaked \cup slipped \cup overlap

\* A process that made a VM has its right address in ip_cache, or none, once
\* create is done with it, whatever was cached for the name before: only a
\* create of the same name that overlapped can have put its own there since.
OwnCacheFresh ==
    \A p \in Procs, n \in Names :
        LET v == vmAt[n] IN
        v # None /\ maker[v] = p /\ rec[v] = n /\ v \notin overlap =>
            cache[p][n] \in {None, addr[v]}
=============================================================================
