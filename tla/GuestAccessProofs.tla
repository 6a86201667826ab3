------------------------- MODULE GuestAccessProofs -------------------------
(***************************************************************************)
(* GuestAccess, for any sandboxes, names, addresses, actors and processes. *)
(* The argument goes by names: a create has its sandbox to itself          *)
(* (CreatorInv), and two creates or destroys at work under one name know   *)
(* of each other (OverlapInv).  What either leaves at that name, a file, a *)
(* domain, a seed, a cached address, is therefore its own sandbox's or     *)
(* another's that is excused.                                              *)
(***************************************************************************)
EXTENDS GuestAccess, TLAPS

LibvirtPcs ==
    {"seed", "define", "address", "insert", "wipe_undone", "lookup", "host", "find", "kill",
     "evict", "wipe", "wipe_absent", "not_found"}
ExedevPcs == {"add_key", "revoke", "rm"}

\* An actor at work has a sandbox that was begun and a name; whatever is on the
\* host or in the store was made for a sandbox that was begun.
ActorInv ==
    /\ \A a \in Actors :
        /\ pc[a] = "idle" => box[a] = None /\ name[a] = None
        /\ pc[a] # "idle" => box[a] \in used /\ name[a] \in Names
    /\ \A s \in Sandboxes : rec[s] # None => s \in used
    /\ \A n \in Names : {vmAt[n], disk[n]} \subseteq used \cup {None}
    /\ account \subseteq used

\* Each backend has its own calls, and exe.dev no files and no ip_cache.
KindInv ==
    /\ \A a \in Actors : (pc[a] \in LibvirtPcs => Libvirt) /\ (pc[a] \in ExedevPcs => ~Libvirt)
    /\ ~Libvirt => /\ \A n \in Names : disk[n] = None
                   /\ \A p \in Procs, n \in Names : cache[p][n] = None

\* A create has its sandbox to itself until it saves the record.
CreatorInv ==
    \A a \in Actors : pc[a] \in Creating =>
        rec[box[a]] = None /\ \A b \in Actors : box[b] = box[a] => b = a

\* Whoever looks for a sandbox looks under the name of its domain and its disk.
LooksFor(s, n) ==
    rec[s] \in {None, n} /\ \A a \in Actors : box[a] = s => name[a] = n
NameInv ==
    \A n \in Names :
        /\ vmAt[n] # None => LooksFor(vmAt[n], n)
        /\ disk[n] # None => LooksFor(disk[n], n)

\* Creates and destroys at work under one name at once are known to overlap.
OverlapInv ==
    \A a, b \in Actors :
        /\ pc[a] \notin Commanding /\ pc[b] \notin Commanding
        /\ name[a] = name[b] /\ box[a] # box[b]
        => box[a] \in overlap

\* The file that a domain is about to boot from is its own.
PreparedInv ==
    \A a \in Actors :
        /\ pc[a] \in {"seed", "define"} => disk[name[a]] = box[a] \/ box[a] \in overlap
        /\ pc[a] = "define" /\ kind = "linux" => seed[name[a]] = box[a] \/ box[a] \in overlap

\* The domain that a create finds under its name once it defined its own ...
LateInv ==
    \A a \in Actors :
        pc[a] \in {"address", "insert"} => vmAt[name[a]] \in {None, box[a]} \cup overlap

\* ... and the one whose files a destroy or an undone create is about to remove.
WipeInv ==
    \A a \in Actors :
        pc[a] \in {"evict", "wipe", "wipe_absent", "wipe_undone"} =>
            vmAt[name[a]] \in {None} \cup overlap \cup slipped

\* A disk has a record or a create to account for it ...
DiskInv ==
    \A n \in Names : disk[n] # None =>
        \/ rec[disk[n]] # None \/ disk[n] \in leaked \cup slipped \cup overlap
        \/ \E a \in Actors : pc[a] \in Creating /\ box[a] = disk[n]

\* ... and is gone before the record is.
ForgetInv ==
    \A a \in Actors : pc[a] \in {"forget", "not_found"} =>
        box[a] \in slipped \/ \A n \in Names : disk[n] # box[a]

\* A Linux guest trusts its own sandbox's key or none.
TrustInv ==
    kind = "linux" => \A v \in Sandboxes : trusts[v] \in {None, v} \/ v \in overlap

\* exe.dev: while a key is on the account and someone may use it, the name
\* belongs to its VM or the VM was lost.
KeyInv ==
    kind = "ssh" =>
        /\ \A s \in account, n \in Names :
            (rec[s] = n \/ \E a \in Actors : box[a] = s /\ name[a] = n) =>
                vmAt[n] = s \/ s \in lost
        /\ \A a \in Actors :
            /\ pc[a] = "add_key" => vmAt[name[a]] = box[a] \/ box[a] \in lost
            /\ pc[a] = "rm" => box[a] \notin account

\* The address a create is about to cache is its VM's ...
InsertInv ==
    \A a \in Actors :
        /\ pc[a] \in {"address", "insert"} => maker[box[a]] = ProcOf[a]
        /\ pc[a] = "insert" => host[a] \in Addresses \cup {None}
        /\ pc[a] = "insert" /\ vmAt[name[a]] = box[a] => host[a] = addr[box[a]]

\* ... and so is the one it cached, from then on.
CachedFor(v) == v # None /\ (rec[v] # None \/ \E a \in Actors : box[a] = v /\ pc[a] = "save")
CacheInv ==
    \A p \in Procs, n \in Names :
        CachedFor(vmAt[n]) /\ maker[vmAt[n]] = p =>
            vmAt[n] \in overlap \/ cache[p][n] \in {None, addr[vmAt[n]]}

IInv ==
    /\ TypeOK /\ ActorInv /\ KindInv /\ CreatorInv /\ NameInv /\ OverlapInv /\ PreparedInv
    /\ LateInv /\ WipeInv /\ DiskKept /\ DiskInv /\ ForgetInv /\ TrustInv /\ KeyInv /\ InsertInv
    /\ CacheInv /\ CommandReachesOwnGuest
USE NoneAssumption, KindsAssumption
    DEF Goto, Return, Begin, At, Failure, Failures, host_state, actor_vars, history

-----------------------------------------------------------------------------
(* Shapes of steps.                                                        *)

\* The calls of a command after its first look nowhere but at the host: the actor
\* goes on with its sandbox and name or is done.
Looks(a) ==
    /\ pc[a] \in Commanding /\ pc' = [pc EXCEPT ![a] = pc'[a]]
    /\ host' = [host EXCEPT ![a] = host'[a]]
    /\ \/ pc[a] # "connect" /\ pc'[a] \in {"host", "connect"} /\ UNCHANGED <<box, name>>
       \/ pc'[a] = "idle" /\ box' = [box EXCEPT ![a] = None] /\ name' = [name EXCEPT ![a] = None]
    /\ UNCHANGED <<kind, host_state, rec, cache, used, maker, overlap, leaked, slipped, lost>>

\* Every call but the first of a request, and whatever happens on the host, lets
\* each actor go on with its sandbox and name or be done.
Continues ==
    /\ \A b \in Actors :
        \/ pc'[b] = "idle" /\ box'[b] = None /\ name'[b] = None
        \/ /\ box'[b] = box[b] /\ name'[b] = name[b]
           /\ pc'[b] = "idle" <=> pc[b] = "idle"
           /\ pc'[b] \in Commanding <=> pc[b] \in Commanding
           /\ pc'[b] \in Creating => pc[b] \in Creating
    /\ UNCHANGED <<kind, used, overlap>>

\* Nothing is made: domains, disks, records and keys stay or go.
Shrinks ==
    /\ \A n \in Names : vmAt'[n] \in {None, vmAt[n]} /\ disk'[n] \in {None, disk[n]}
    /\ \A s \in Sandboxes : rec'[s] \in {None, rec[s]}
    /\ account' \subseteq account

\* Which steps these are.
LEMMA LooksStep ==
    ASSUME TypeOK, ActorInv, NEW a \in Actors,
        Lookup(a) \/ Host(a) \/ Connect(a) \/ CommandFails(a)
    PROVE  Looks(a)
  <1>1. CASE Lookup(a) BY <1>1 DEF Lookup, Looks, Commanding, TypeOK
  <1>2. CASE Host(a) BY <1>2 DEF Host, Looks, Commanding, TypeOK
  <1>3. CASE Connect(a) BY <1>3 DEF Connect, Looks, Commanding, TypeOK
  <1>4. CASE CommandFails(a) BY <1>4 DEF CommandFails, Looks, TypeOK
  <1> QED BY <1>1, <1>2, <1>3, <1>4

Starts ==
    \E a \in Actors, s \in Sandboxes :
        Command(a, s) \/ Destroy(a, s) \/ \E n \in Names : MakeDisk(a, s, n) \/ Cp(a, s, n)
Makes == \E a \in Actors : Define(a) \/ AddKey(a) \/ AddKeyFails(a) \/ Save(a)

\* Every step is of one of these shapes.
LEMMA Shapes ==
    ASSUME TypeOK, ActorInv, Next
    PROVE  Starts \/ (Continues /\ (Makes \/ Shrinks))
  <1>1. ASSUME NEW a \in Actors, MakeSeed(a)
      PROVE Continues /\ (Makes \/ Shrinks)
      BY <1>1 DEF MakeSeed, Continues, Shrinks, Commanding, Creating
  <1>2. ASSUME NEW a \in Actors, Define(a)
      PROVE Continues /\ (Makes \/ Shrinks)
    <2>1. /\ pc[a] = "define" /\ pc' = [pc EXCEPT ![a] = "address"]
          /\ UNCHANGED <<kind, used, overlap, box, name>>
      BY <1>2 DEF Define
    <2>2. pc'[a] = "address" /\ \A b \in Actors \ {a} : pc'[b] = pc[b]
      BY <2>1 DEF TypeOK
    <2> QED BY <1>2, <2>1, <2>2 DEF Continues, Commanding, Creating, Makes
  <1>3. ASSUME NEW a \in Actors, CreateFails(a)
      PROVE Continues /\ (Makes \/ Shrinks)
      BY <1>3 DEF CreateFails, Continues, Shrinks, TypeOK
  <1>4. ASSUME NEW a \in Actors, Address(a)
      PROVE Continues /\ (Makes \/ Shrinks)
      BY <1>4 DEF Address, Continues, Shrinks, Commanding, Creating
  <1>5. ASSUME NEW a \in Actors, CacheInsert(a)
      PROVE Continues /\ (Makes \/ Shrinks)
      BY <1>5 DEF CacheInsert, Continues, Shrinks, Commanding, Creating
  <1>6. ASSUME NEW a \in Actors, NoAddress(a)
      PROVE Continues /\ (Makes \/ Shrinks)
      BY <1>6 DEF NoAddress, Continues, Shrinks, Commanding, Creating
  <1>7. ASSUME NEW a \in Actors, WipeUndone(a)
      PROVE Continues /\ (Makes \/ Shrinks)
      BY <1>7 DEF WipeUndone, WipeFiles, Continues, Shrinks, TypeOK
  <1>8. ASSUME NEW a \in Actors, AddKey(a)
      PROVE Continues /\ (Makes \/ Shrinks)
      BY <1>8 DEF AddKey, Continues, TypeOK, ActorInv, Commanding, Creating, Makes
  <1>9. ASSUME NEW a \in Actors, AddKeyFails(a)
      PROVE Continues /\ (Makes \/ Shrinks)
      BY <1>9 DEF AddKeyFails, Continues, TypeOK, ActorInv, Commanding, Creating, Makes
  <1>10. ASSUME NEW a \in Actors, Save(a)
      PROVE Continues /\ (Makes \/ Shrinks)
      BY <1>10 DEF Save, Continues, TypeOK, ActorInv, Commanding, Creating, Makes
  <1>11. ASSUME NEW a \in Actors, Find(a)
      PROVE Continues /\ (Makes \/ Shrinks)
      BY <1>11 DEF Find, Continues, Shrinks, Commanding, Creating, TypeOK
  <1>12. ASSUME NEW a \in Actors, Kill(a)
      PROVE Continues /\ (Makes \/ Shrinks)
      BY <1>12 DEF Kill, Continues, Shrinks, Commanding, Creating, TypeOK
  <1>13. ASSUME NEW a \in Actors, Evict(a)
      PROVE Continues /\ (Makes \/ Shrinks)
      BY <1>13 DEF Evict, Continues, Shrinks, Commanding, Creating
  <1>14. ASSUME NEW a \in Actors, Wipe(a)
      PROVE Continues /\ (Makes \/ Shrinks)
      BY <1>14 DEF Wipe, WipeFiles, Continues, Shrinks, Commanding, Creating
  <1>15. ASSUME NEW a \in Actors, Revoke(a)
      PROVE Continues /\ (Makes \/ Shrinks)
      BY <1>15 DEF Revoke, Continues, Shrinks, Commanding, Creating
  <1>16. ASSUME NEW a \in Actors, Rm(a)
      PROVE Continues /\ (Makes \/ Shrinks)
      BY <1>16 DEF Rm, Continues, Shrinks, Commanding, Creating
  <1>17. ASSUME NEW a \in Actors, Forget(a)
      PROVE Continues /\ (Makes \/ Shrinks)
      BY <1>17 DEF Forget, Continues, Shrinks, TypeOK
  <1>18. ASSUME NEW a \in Actors, DestroyFails(a)
      PROVE Continues /\ (Makes \/ Shrinks)
      BY <1>18 DEF DestroyFails, Continues, Shrinks, TypeOK
  <1>19. ASSUME NEW n \in Names, VmVanishes(n)
      PROVE Continues /\ (Makes \/ Shrinks)
      BY <1>19 DEF VmVanishes, Continues, Shrinks
  <1>20. ASSUME NEW p \in Procs, Crash(p)
      PROVE Continues /\ (Makes \/ Shrinks)
      BY <1>20 DEF Crash, Continues, Shrinks
  <1>21. ASSUME NEW a \in Actors, Looks(a) PROVE Continues /\ (Makes \/ Shrinks)
      BY <1>21 DEF Looks, Shrinks, Continues, Commanding, Creating, TypeOK
  <1> QED BY <1>1, <1>2, <1>3, <1>4, <1>5, <1>6, <1>7, <1>8, <1>9, <1>10, <1>11, <1>12,
      <1>13, <1>14, <1>15, <1>16, <1>17, <1>18, <1>19, <1>20, <1>21, LooksStep
      DEF Next, CreateStep, CommandStep, DestroyStep, Starts

\* What a request notes when it begins.
LEMMA Noted ==
    ASSUME TypeOK, ActorInv, NEW s \in Sandboxes, NEW n \in Names, NoteOverlap(n, s)
    PROVE  /\ overlap \subseteq overlap' /\ overlap' \subseteq Sandboxes
           /\ \A b \in Actors : name[b] = n /\ box[b] # s /\ pc[b] \notin Commanding =>
                box[b] \in overlap' /\ s \in overlap'
  <1>1. \A b \in Actors : name[b] = n => box[b] \in Sandboxes
    BY DEF ActorInv, TypeOK
  <1>2. Others(n, s) \subseteq Sandboxes
    BY <1>1 DEF Others
  <1>3. \A b \in Actors : name[b] = n /\ box[b] # s /\ pc[b] \notin Commanding =>
          box[b] \in Others(n, s)
    BY DEF Others
  <1>4. CASE Others(n, s) = {}
    BY <1>3, <1>4 DEF NoteOverlap, TypeOK
  <1>5. CASE Others(n, s) # {}
    BY <1>2, <1>3, <1>5 DEF NoteOverlap, TypeOK
  <1> QED BY <1>4, <1>5

\* Actors at work have what they work on.
LEMMA ActorStep ==
    ASSUME TypeOK, ActorInv, Next
    PROVE  ActorInv'
  <1>1. CASE Continues /\ Shrinks
      BY <1>1 DEF Continues, Shrinks, ActorInv
  <1>2. ASSUME NEW a \in Actors, Define(a)
      PROVE ActorInv'
      BY <1>2 DEF Define, ActorInv
  <1>3. ASSUME NEW a \in Actors, AddKey(a)
      PROVE ActorInv'
      BY <1>3 DEF AddKey, ActorInv
  <1>4. ASSUME NEW a \in Actors, AddKeyFails(a)
      PROVE ActorInv'
    <2>1. /\ pc' = [pc EXCEPT ![a] = "idle"] /\ box' = [box EXCEPT ![a] = None]
          /\ name' = [name EXCEPT ![a] = None] /\ UNCHANGED <<used, rec, disk>>
          /\ vmAt' \in {vmAt, [vmAt EXCEPT ![name[a]] = None]} /\ box[a] \in used
          /\ account' \subseteq account \cup {box[a]}
      <3>1. pc[a] = "add_key" /\ pc[a] # "idle" BY <1>4 DEF AddKeyFails, At
      <3>2. box[a] \in used BY <3>1 DEF ActorInv
      <3>3. \/ vmAt' = [vmAt EXCEPT ![name[a]] = None]
            \/ vmAt' = vmAt
        BY <1>4 DEF AddKeyFails
      <3> QED BY <1>4, <3>2, <3>3 DEF AddKeyFails, Return, Goto
    <2>2. \A n \in Names : vmAt'[n] \in {vmAt[n], None}
      BY <2>1 DEF TypeOK
    <2>3. \A b \in Actors : \/ pc'[b] = "idle" /\ box'[b] = None /\ name'[b] = None
                            \/ pc'[b] = pc[b] /\ box'[b] = box[b] /\ name'[b] = name[b]
      <3>1. /\ pc' = [pc EXCEPT ![a] = "idle"] /\ box' = [box EXCEPT ![a] = None]
            /\ name' = [name EXCEPT ![a] = None]
        BY <2>1
      <3>2. /\ pc \in [Actors -> Locations] /\ box \in [Actors -> Sandboxes \cup {None}]
            /\ name \in [Actors -> Names \cup {None}]
        BY DEF TypeOK
      <3> QED BY <3>1, <3>2
    <2> QED BY <2>1, <2>2, <2>3 DEF ActorInv
  <1>5. ASSUME NEW a \in Actors, Save(a)
      PROVE ActorInv'
      BY <1>5 DEF Save, ActorInv, TypeOK
  <1>6. ASSUME NEW a \in Actors, NEW s \in Sandboxes, NEW n \in Names, MakeDisk(a, s, n)
      PROVE ActorInv'
      BY <1>6 DEF MakeDisk, ActorInv, TypeOK
  <1>7. ASSUME NEW a \in Actors, NEW s \in Sandboxes, NEW n \in Names, Cp(a, s, n)
      PROVE ActorInv'
      BY <1>7 DEF Cp, ActorInv, TypeOK
  <1>8. ASSUME NEW a \in Actors, NEW s \in Sandboxes, Command(a, s)
      PROVE ActorInv'
      BY <1>8 DEF Command, ActorInv, TypeOK
  <1>9. ASSUME NEW a \in Actors, NEW s \in Sandboxes, Destroy(a, s)
      PROVE ActorInv'
      BY <1>9 DEF Destroy, ActorInv, TypeOK
  <1> QED BY <1>1, <1>2, <1>3, <1>4, <1>5, <1>6, <1>7, <1>8, <1>9, Shapes
      DEF Next, CreateStep, CommandStep, DestroyStep, Starts, Makes

\* A create keeps its sandbox to itself.
LEMMA CreatorStep ==
    ASSUME TypeOK, ActorInv, CreatorInv, Next
    PROVE  CreatorInv'
  <1>1. CASE Continues /\ Shrinks
      BY <1>1 DEF Continues, Shrinks, Creating, CreatorInv, ActorInv, TypeOK
  <1>2. ASSUME NEW a \in Actors, Define(a)
      PROVE CreatorInv'
      BY <1>2 DEF Define, Creating, CreatorInv
  <1>3. ASSUME NEW a \in Actors, AddKey(a)
      PROVE CreatorInv'
      BY <1>3 DEF AddKey, Creating, CreatorInv
  <1>4. ASSUME NEW a \in Actors, AddKeyFails(a)
      PROVE CreatorInv'
      BY <1>4 DEF AddKeyFails, Creating, CreatorInv, ActorInv, TypeOK
  <1>5. ASSUME NEW a \in Actors, Save(a)
      PROVE CreatorInv'
      BY <1>5 DEF Save, Creating, CreatorInv, ActorInv, TypeOK
  <1>6. ASSUME NEW a \in Actors, NEW s \in Sandboxes, NEW n \in Names, MakeDisk(a, s, n)
      PROVE CreatorInv'
      BY <1>6 DEF MakeDisk, CreatorInv, ActorInv, TypeOK
  <1>7. ASSUME NEW a \in Actors, NEW s \in Sandboxes, NEW n \in Names, Cp(a, s, n)
      PROVE CreatorInv'
      BY <1>7 DEF Cp, CreatorInv, ActorInv, TypeOK
  <1>8. ASSUME NEW a \in Actors, NEW s \in Sandboxes, Command(a, s)
      PROVE CreatorInv'
      BY <1>8 DEF Command, Creating, CreatorInv
  <1>9. ASSUME NEW a \in Actors, NEW s \in Sandboxes, Destroy(a, s)
      PROVE CreatorInv'
      BY <1>9 DEF Destroy, Creating, CreatorInv
  <1> QED BY <1>1, <1>2, <1>3, <1>4, <1>5, <1>6, <1>7, <1>8, <1>9, Shapes
      DEF Next, CreateStep, CommandStep, DestroyStep, Starts, Makes

\* A sandbox is looked for under one name.
LEMMA NameStep ==
    ASSUME TypeOK, ActorInv, CreatorInv, NameInv, Next
    PROVE  NameInv'
  <1>1. CASE Continues /\ Shrinks
      BY <1>1 DEF Continues, Shrinks, LooksFor, NameInv, TypeOK
  <1>2. ASSUME NEW a \in Actors, Define(a)
      PROVE NameInv'
      BY <1>2 DEF Define, Creating, LooksFor, NameInv, CreatorInv
  <1>3. ASSUME NEW a \in Actors, AddKey(a)
      PROVE NameInv'
      BY <1>3 DEF AddKey, LooksFor, NameInv
  <1>4. ASSUME NEW a \in Actors, AddKeyFails(a)
      PROVE NameInv'
      BY <1>4 DEF AddKeyFails, LooksFor, NameInv, TypeOK
  <1>5. ASSUME NEW a \in Actors, Save(a)
      PROVE NameInv'
      BY <1>5 DEF Save, Creating, LooksFor, NameInv, CreatorInv, TypeOK
  <1>6. ASSUME NEW a \in Actors, NEW s \in Sandboxes, NEW n \in Names, MakeDisk(a, s, n)
      PROVE NameInv'
      BY <1>6 DEF MakeDisk, LooksFor, NameInv, ActorInv, TypeOK
  <1>7. ASSUME NEW a \in Actors, NEW s \in Sandboxes, NEW n \in Names, Cp(a, s, n)
      PROVE NameInv'
      BY <1>7 DEF Cp, LooksFor, NameInv, ActorInv, TypeOK
  <1>8. ASSUME NEW a \in Actors, NEW s \in Sandboxes, Command(a, s)
      PROVE NameInv'
      BY <1>8 DEF Command, LooksFor, NameInv, TypeOK
  <1>9. ASSUME NEW a \in Actors, NEW s \in Sandboxes, Destroy(a, s)
      PROVE NameInv'
      BY <1>9 DEF Destroy, LooksFor, NameInv, TypeOK
  <1> QED BY <1>1, <1>2, <1>3, <1>4, <1>5, <1>6, <1>7, <1>8, <1>9, Shapes
      DEF Next, CreateStep, CommandStep, DestroyStep, Starts, Makes

\* Overlapping work is noted.
LEMMA OverlapStep ==
    ASSUME TypeOK, ActorInv, OverlapInv, Next
    PROVE  OverlapInv'
  <1>1. CASE Continues /\ Shrinks
      BY <1>1 DEF Continues, Shrinks, OverlapInv, ActorInv
  <1>2. ASSUME NEW a \in Actors, Define(a)
      PROVE OverlapInv'
      BY <1>2 DEF Define, Commanding, OverlapInv
  <1>3. ASSUME NEW a \in Actors, AddKey(a)
      PROVE OverlapInv'
      BY <1>3 DEF AddKey, Commanding, OverlapInv
  <1>4. ASSUME NEW a \in Actors, AddKeyFails(a)
      PROVE OverlapInv'
      BY <1>4 DEF AddKeyFails, OverlapInv, ActorInv, TypeOK
  <1>5. ASSUME NEW a \in Actors, Save(a)
      PROVE OverlapInv'
      BY <1>5 DEF Save, OverlapInv, ActorInv, TypeOK
  <1>6. ASSUME NEW a \in Actors, NEW s \in Sandboxes, NEW n \in Names, MakeDisk(a, s, n)
         PROVE OverlapInv'
    <2>1. n \in Names /\ NoteOverlap(n, s)
      BY <1>6 DEF MakeDisk
    <2> QED BY <1>6, <2>1, Noted DEF MakeDisk, OverlapInv, TypeOK
  <1>7. ASSUME NEW a \in Actors, NEW s \in Sandboxes, NEW n \in Names, Cp(a, s, n)
         PROVE OverlapInv'
    <2>1. n \in Names /\ NoteOverlap(n, s)
      BY <1>7 DEF Cp
    <2> QED BY <1>7, <2>1, Noted DEF Cp, OverlapInv, TypeOK
  <1>8. ASSUME NEW a \in Actors, NEW s \in Sandboxes, Command(a, s)
      PROVE OverlapInv'
      BY <1>8 DEF Command, Commanding, OverlapInv, TypeOK
  <1>9. ASSUME NEW a \in Actors, NEW s \in Sandboxes, Destroy(a, s) PROVE OverlapInv'
    <2>1. rec[s] \in Names /\ NoteOverlap(rec[s], s)
      BY <1>9 DEF Destroy, TypeOK
    <2> QED BY <1>9, <2>1, Noted DEF Destroy, OverlapInv, TypeOK
  <1> QED BY <1>1, <1>2, <1>3, <1>4, <1>5, <1>6, <1>7, <1>8, <1>9, Shapes
      DEF Next, CreateStep, CommandStep, DestroyStep, Starts, Makes

\* Steps are well typed.
LEMMA TypeStep ==
    ASSUME TypeOK, ActorInv, InsertInv, Next
    PROVE  TypeOK'
  <1>1. ASSUME NEW a \in Actors, NEW s \in Sandboxes, NEW n \in Names, MakeDisk(a, s, n)
         PROVE TypeOK'
    <2>1. overlap' \subseteq Sandboxes
      BY <1>1, Noted DEF MakeDisk
    <2> QED BY <1>1, <2>1 DEF MakeDisk, Locations, Creating, TypeOK
  <1>2. ASSUME NEW a \in Actors, NEW s \in Sandboxes, NEW n \in Names, Cp(a, s, n) PROVE TypeOK'
    <2>1. overlap' \subseteq Sandboxes
      BY <1>2, Noted DEF Cp
    <2> QED BY <1>2, <2>1 DEF Cp, Locations, Creating, TypeOK
  <1>3. ASSUME NEW a \in Actors, MakeSeed(a)
      PROVE TypeOK'
      BY <1>3 DEF MakeSeed, Locations, Creating, ActorInv, TypeOK
  <1>4. ASSUME NEW a \in Actors, Define(a)
      PROVE TypeOK'
      BY <1>4 DEF Define, Locations, Creating, ActorInv, TypeOK
  <1>5. ASSUME NEW a \in Actors, CreateFails(a)
      PROVE TypeOK'
      BY <1>5 DEF CreateFails, Locations, ActorInv, TypeOK
  <1>6. ASSUME NEW a \in Actors, Address(a)
      PROVE TypeOK'
      BY <1>6 DEF Address, Locations, Creating, ActorInv, TypeOK
  <1>7. ASSUME NEW a \in Actors, CacheInsert(a) PROVE TypeOK'
    <2>1. host[a] \in Addresses \cup {None}
      BY <1>7 DEF CacheInsert, InsertInv
    <2>2. cache' \in [Procs -> [Names -> Addresses \cup {None}]]
      BY <1>7, <2>1 DEF CacheInsert, ActorInv, TypeOK
    <2> QED BY <1>7, <2>2 DEF CacheInsert, Locations, Creating, TypeOK
  <1>8. ASSUME NEW a \in Actors, NoAddress(a)
      PROVE TypeOK'
      BY <1>8 DEF NoAddress, Locations, Creating, ActorInv, TypeOK
  <1>9. ASSUME NEW a \in Actors, WipeUndone(a)
      PROVE TypeOK'
      BY <1>9 DEF WipeUndone, WipeFiles, Locations, ActorInv, TypeOK
  <1>10. ASSUME NEW a \in Actors, AddKey(a)
      PROVE TypeOK'
      BY <1>10 DEF AddKey, Locations, Creating, ActorInv, TypeOK
  <1>11. ASSUME NEW a \in Actors, AddKeyFails(a) PROVE TypeOK'
    <2>1. box[a] \in Sandboxes /\ name[a] \in Names
      BY <1>11 DEF AddKeyFails, ActorInv, TypeOK
    <2>2. vmAt' \in [Names -> Sandboxes \cup {None}] /\ lost' \subseteq Sandboxes
      BY <1>11, <2>1 DEF AddKeyFails, TypeOK
    <2>3. account' \subseteq Sandboxes /\ leaked' \subseteq Sandboxes
      BY <1>11, <2>1 DEF AddKeyFails, TypeOK
    <2>4. faults' \in 0 .. MaxFaults
      BY <1>11 DEF AddKeyFails, TypeOK
    <2> QED BY <1>11, <2>2, <2>3, <2>4 DEF AddKeyFails, Locations, TypeOK
  <1>12. ASSUME NEW a \in Actors, Save(a) PROVE TypeOK'
    <2>1. rec' \in [Sandboxes -> Names \cup {None}] /\ leaked' \subseteq Sandboxes
      BY <1>12 DEF Save, ActorInv, TypeOK
    <2>2. faults' \in 0 .. MaxFaults
      BY <1>12 DEF Save, TypeOK
    <2> QED BY <1>12, <2>1, <2>2 DEF Save, Locations, TypeOK
  <1>13. ASSUME NEW a \in Actors, NEW s \in Sandboxes, Command(a, s)
      PROVE TypeOK'
      BY <1>13 DEF Command, Locations, Commanding, TypeOK
  <1>14. ASSUME NEW a \in Actors, Lookup(a) PROVE TypeOK'
    <2>1. Return(a) \/ (Goto(a, "host") /\ UNCHANGED <<box, name, host>>)
      BY <1>14 DEF Lookup
    <2>2. UNCHANGED <<kind, host_state, rec, cache, used, faults, history>>
      BY <1>14 DEF Lookup
    <2> QED BY <2>1, <2>2 DEF TypeOK, Locations, Commanding
  <1>15. ASSUME NEW a \in Actors, Host(a) PROVE TypeOK'
    <2>1. CASE Return(a)
      BY <1>15, <2>1 DEF Host, Locations, TypeOK
    <2>2. CASE ~Return(a)
      <3>1. name[a] \in Names /\ ProcOf[a] \in Procs
        BY <1>15 DEF Host, ActorInv
      <3>2. cache[ProcOf[a]][name[a]] \in Addresses \cup {None}
        BY <3>1 DEF TypeOK
      <3>3. vmAt[name[a]] # None => addr[vmAt[name[a]]] \in Addresses \cup {None}
        BY <3>1 DEF TypeOK
      <3>4. PICK h \in Addresses \cup {None} :
              host' = [host EXCEPT ![a] = h] /\ pc' = [pc EXCEPT ![a] = "connect"]
                  /\ UNCHANGED <<box, name>>
        BY <1>15, <2>2, <3>2, <3>3 DEF Host
      <3> QED BY <1>15, <3>4 DEF Host, Locations, Commanding, TypeOK
    <2> QED BY <2>1, <2>2
  <1>16. ASSUME NEW a \in Actors, Connect(a) PROVE TypeOK'
    <2>1. box[a] \in Sandboxes /\ Answers(a) \subseteq Sandboxes
      BY <1>16 DEF Connect, Answers, ActorInv, TypeOK
    <2>2. strayed' \subseteq Sandboxes \X Sandboxes
      BY <1>16, <2>1 DEF Connect, TypeOK
    <2> QED BY <1>16, <2>2 DEF Connect, Locations, TypeOK
  <1>17. ASSUME NEW a \in Actors, CommandFails(a)
      PROVE TypeOK'
      BY <1>17 DEF CommandFails, Locations, TypeOK
  <1>18. ASSUME NEW a \in Actors, NEW s \in Sandboxes, Destroy(a, s) PROVE TypeOK'
    <2>1. overlap' \subseteq Sandboxes
      BY <1>18, Noted DEF Destroy, TypeOK
    <2> QED BY <1>18, <2>1 DEF Destroy, Locations, TypeOK
  <1>19. ASSUME NEW a \in Actors, Find(a)
      PROVE TypeOK'
    <2>1. name[a] \in Names
      BY <1>19 DEF Find, ActorInv
    <2>2. vmAt[name[a]] \in Sandboxes \cup {None}
      BY <2>1 DEF TypeOK
    <2>3. /\ pc' \in {[pc EXCEPT ![a] = "wipe_absent"], [pc EXCEPT ![a] = "kill"]}
          /\ host' = host \/ host' = [host EXCEPT ![a] = vmAt[name[a]]]
      BY <1>19 DEF Find
    <2>4. pc' \in [Actors -> Locations]
      BY <2>3 DEF TypeOK, Locations, Creating
    <2>5. host' \in [Actors -> Sandboxes \cup Addresses \cup {None}]
      BY <2>2, <2>3 DEF TypeOK
    <2> QED BY <1>19, <2>4, <2>5 DEF Find, TypeOK
  <1>20. ASSUME NEW a \in Actors, Kill(a) PROVE TypeOK'
    <2>1. CASE vmAt[name[a]] = host[a]
      BY <1>20, <2>1 DEF Kill, TypeOK, Locations
    <2>2. CASE vmAt[name[a]] # host[a]
      BY <1>20, <2>2 DEF Kill, Locations, ActorInv, TypeOK
    <2> QED BY <2>1, <2>2
  <1>21. ASSUME NEW a \in Actors, Evict(a)
      PROVE TypeOK'
      BY <1>21 DEF Evict, Locations, ActorInv, TypeOK
  <1>22. ASSUME NEW a \in Actors, Wipe(a)
      PROVE TypeOK'
      BY <1>22 DEF Wipe, WipeFiles, Locations, ActorInv, TypeOK
  <1>23. ASSUME NEW a \in Actors, Revoke(a)
      PROVE TypeOK'
      BY <1>23 DEF Revoke, Locations, TypeOK
  <1>24. ASSUME NEW a \in Actors, Rm(a)
      PROVE TypeOK'
      BY <1>24 DEF Rm, Locations, ActorInv, TypeOK
  <1>25. ASSUME NEW a \in Actors, Forget(a)
      PROVE TypeOK'
      BY <1>25 DEF Forget, Locations, Commanding, Creating, TypeOK
  <1>26. ASSUME NEW a \in Actors, DestroyFails(a)
      PROVE TypeOK'
      BY <1>26 DEF DestroyFails, Locations, TypeOK
  <1>27. ASSUME NEW n \in Names, VmVanishes(n)
      PROVE TypeOK'
      BY <1>27 DEF VmVanishes, Locations, TypeOK
  <1>28. ASSUME NEW p \in Procs, Crash(p)
      PROVE TypeOK'
      BY <1>28 DEF Crash, Locations, Creating, ActorInv, TypeOK
  <1> QED BY <1>1, <1>2, <1>3, <1>4, <1>5, <1>6, <1>7, <1>8, <1>9, <1>10, <1>11, <1>12,
      <1>13, <1>14, <1>15, <1>16, <1>17, <1>18, <1>19, <1>20, <1>21, <1>22, <1>23, <1>24,
      <1>25, <1>26, <1>27, <1>28
      DEF Next, CreateStep, CommandStep, DestroyStep

\* Each backend makes its own calls.
LEMMA KindStep ==
    ASSUME TypeOK, ActorInv, KindInv, Next
    PROVE  KindInv'
  <1>1. ASSUME NEW a \in Actors, NEW s \in Sandboxes, NEW n \in Names, MakeDisk(a, s, n)
      PROVE KindInv'
      BY <1>1 DEF MakeDisk, ExedevPcs, Libvirt, KindInv
  <1>2. ASSUME NEW a \in Actors, NEW s \in Sandboxes, NEW n \in Names, Cp(a, s, n)
      PROVE KindInv'
      BY <1>2 DEF Cp, LibvirtPcs, Libvirt, KindInv
  <1>3. ASSUME NEW a \in Actors, NEW s \in Sandboxes, Command(a, s)
      PROVE KindInv'
      BY <1>3 DEF Command, LibvirtPcs, ExedevPcs, Libvirt, KindInv
  <1>4. ASSUME NEW a \in Actors, NEW s \in Sandboxes, Destroy(a, s)
      PROVE KindInv'
      BY <1>4 DEF Destroy, LibvirtPcs, ExedevPcs, Libvirt, KindInv
  <1>5. ASSUME NEW n \in Names, VmVanishes(n)
      PROVE KindInv'
      BY <1>5 DEF VmVanishes, Libvirt, KindInv
  <1>6. ASSUME NEW p \in Procs, Crash(p)
      PROVE KindInv'
      BY <1>6 DEF Crash, LibvirtPcs, ExedevPcs, Libvirt, KindInv
  <1>7. ASSUME NEW a \in Actors, MakeSeed(a) \/ Define(a) \/ CreateFails(a) \/ Address(a) \/
      CacheInsert(a) \/ NoAddress(a)
      PROVE KindInv'
      BY <1>7 DEF MakeSeed, Define, CreateFails, Address, CacheInsert, NoAddress, LibvirtPcs,
        ExedevPcs, Libvirt, KindInv, TypeOK
  <1>8. ASSUME NEW a \in Actors, WipeUndone(a) \/ AddKey(a) \/ AddKeyFails(a) \/ Save(a) \/
      Find(a) \/ Kill(a)
      PROVE KindInv'
      BY <1>8 DEF WipeUndone, AddKey, AddKeyFails, Save, Find, Kill, WipeFiles, LibvirtPcs,
        ExedevPcs, Libvirt, KindInv, TypeOK
  <1>9. ASSUME NEW a \in Actors, Evict(a) \/ Wipe(a) \/ Revoke(a) \/ Rm(a) \/ Forget(a) \/
      DestroyFails(a)
      PROVE KindInv'
      BY <1>9 DEF Evict, Wipe, Revoke, Rm, Forget, DestroyFails, WipeFiles, LibvirtPcs,
        ExedevPcs, Libvirt, KindInv, TypeOK
  <1>10. ASSUME NEW a \in Actors, Looks(a) PROVE KindInv'
      BY <1>10 DEF Looks, Commanding, LibvirtPcs, ExedevPcs, Libvirt, KindInv, TypeOK
  <1> QED BY <1>1, <1>2, <1>3, <1>4, <1>5, <1>6, <1>7, <1>8, <1>9, <1>10, LooksStep
      DEF Next, CreateStep, CommandStep, DestroyStep

\* What a create prepares is its own, or was met by another.
LEMMA PreparedStep ==
    ASSUME TypeOK, ActorInv, KindInv, CreatorInv, OverlapInv, PreparedInv, Next
    PROVE  PreparedInv'
  <1>1. ASSUME NEW a \in Actors, NEW s \in Sandboxes, NEW n \in Names, MakeDisk(a, s, n)
        PROVE PreparedInv'
    <2>1. overlap \subseteq overlap' /\
          \A b \in Actors : name[b] = n /\ box[b] # s /\ pc[b] \notin Commanding =>
              box[b] \in overlap'
      BY <1>1, Noted DEF MakeDisk
    <2>2. \A b \in Actors \ {a} : pc[b] \in {"seed", "define"} =>
            disk'[name[b]] = disk[name[b]] \/ box[b] \in overlap'
      <3> SUFFICES ASSUME NEW b \in Actors \ {a}, pc[b] \in {"seed", "define"}
                   PROVE  disk'[name[b]] = disk[name[b]] \/ box[b] \in overlap'
        OBVIOUS
      <3>1. name[b] \in Names /\ box[b] \in used /\ pc[b] \notin Commanding
        BY DEF ActorInv, Commanding
      <3>2. s \notin used /\ disk' = [disk EXCEPT ![n] = s]
        BY <1>1 DEF MakeDisk
      <3>3. CASE name[b] = n BY <2>1, <3>1, <3>2, <3>3
      <3>4. CASE name[b] # n BY <3>1, <3>2, <3>4 DEF TypeOK
      <3> QED BY <3>3, <3>4
    <2>3. disk'[n] = s /\ seed' = seed /\ (kind = "linux" => pc'[a] = "seed")
      BY <1>1 DEF MakeDisk, TypeOK
    <2>4. /\ box'[a] = s /\ name'[a] = n /\ kind' = kind
          /\ \A b \in Actors \ {a} : pc'[b] = pc[b] /\ box'[b] = box[b] /\ name'[b] = name[b]
      BY <1>1 DEF MakeDisk, TypeOK
    <2> QED BY <2>1, <2>2, <2>3, <2>4 DEF PreparedInv
  <1>2. ASSUME NEW a \in Actors, NEW s \in Sandboxes, NEW n \in Names, Cp(a, s, n)
      PROVE PreparedInv'
      BY <1>2 DEF Cp, LibvirtPcs, KindInv, PreparedInv
  <1>3. ASSUME NEW a \in Actors, NEW s \in Sandboxes, Command(a, s)
      PROVE PreparedInv'
      BY <1>3 DEF Command, PreparedInv
  <1>4. ASSUME NEW a \in Actors, NEW s \in Sandboxes, Destroy(a, s)
      PROVE PreparedInv'
    <2>1. overlap \subseteq overlap'
      BY <1>4, Noted DEF Destroy, TypeOK
    <2>2. \A b \in Actors : pc'[b] \in {"seed", "define"} =>
            pc'[b] = pc[b] /\ box'[b] = box[b] /\ name'[b] = name[b]
      BY <1>4 DEF Destroy, TypeOK
    <2>3. UNCHANGED <<vmAt, disk, seed, kind, slipped>>
      BY <1>4 DEF Destroy
    <2> QED BY <2>1, <2>2, <2>3 DEF PreparedInv
  <1>5. ASSUME NEW n \in Names, VmVanishes(n)
      PROVE PreparedInv'
      BY <1>5 DEF VmVanishes, PreparedInv
  <1>6. ASSUME NEW p \in Procs, Crash(p)
      PROVE PreparedInv'
      BY <1>6 DEF Crash, PreparedInv
  <1>7. ASSUME NEW a \in Actors, MakeSeed(a)
      PROVE PreparedInv'
    <2>1. /\ pc[a] = "seed" /\ pc' = [pc EXCEPT ![a] = "define"]
          /\ seed' = [seed EXCEPT ![name[a]] = box[a]]
          /\ UNCHANGED <<kind, disk, box, name, overlap>>
      BY <1>7 DEF MakeSeed
    <2>2. name[a] \in Names
      BY <2>1 DEF ActorInv
    <2>3. \A b \in Actors \ {a} : pc[b] = "define" /\ name[b] = name[a] => box[b] \in overlap
      BY <2>1 DEF CreatorInv, OverlapInv, Commanding, Creating
    <2>4. \A b \in Actors \ {a} : pc'[b] = pc[b]
      BY <2>1 DEF TypeOK
    <2>5. pc'[a] = "define" /\ seed'[name[a]] = box[a]
      BY <2>1, <2>2 DEF TypeOK
    <2>6. \A b \in Actors \ {a} : name[b] # name[a] => seed'[name[b]] = seed[name[b]]
      BY <2>1 DEF TypeOK
    <2> QED BY <2>1, <2>3, <2>4, <2>5, <2>6 DEF PreparedInv
  <1>8. ASSUME NEW a \in Actors, WipeUndone(a)
      PROVE PreparedInv'
    <2>1. \A b \in Actors : pc'[b] \in {"seed", "define"} =>
            b # a /\ pc'[b] = pc[b] /\ box'[b] = box[b] /\ name'[b] = name[b]
      BY <1>8 DEF WipeUndone
    <2>2. \A b \in Actors : pc[b] \in {"seed", "define"} /\ name[b] = name[a] =>
              box[b] \in overlap
      BY <1>8 DEF WipeUndone, CreatorInv, OverlapInv, Commanding, Creating
    <2> QED BY <1>8, <2>1, <2>2 DEF WipeUndone, WipeFiles, PreparedInv
  <1>9. ASSUME NEW a \in Actors, Wipe(a) PROVE PreparedInv'
    <2>1. \A b \in Actors : pc'[b] \in {"seed", "define"} =>
            b # a /\ pc'[b] = pc[b] /\ box'[b] = box[b] /\ name'[b] = name[b]
      BY <1>9 DEF Wipe
    <2>2. \A b \in Actors : pc[b] \in {"seed", "define"} /\ name[b] = name[a] =>
              box[b] \in overlap
      <3> SUFFICES ASSUME NEW b \in Actors, pc[b] \in {"seed", "define"}, name[b] = name[a]
                   PROVE  box[b] \in overlap
        OBVIOUS
      <3>1. pc[a] \in {"wipe", "wipe_absent"} /\ pc[a] \notin Commanding /\ pc[b] \notin Commanding
            /\ pc[b] \in Creating
        BY <1>9 DEF Wipe, Commanding, Creating
      <3>2. box[a] # box[b] BY <3>1 DEF CreatorInv
      <3> QED BY <3>1, <3>2 DEF OverlapInv
    <2> QED BY <1>9, <2>1, <2>2 DEF Wipe, WipeFiles, PreparedInv
  <1>10. ASSUME NEW a \in Actors, Define(a) \/ CreateFails(a) \/ Address(a)
      PROVE PreparedInv'
    <2>1. UNCHANGED <<kind, disk, seed, overlap>>
      BY <1>10 DEF Define, CreateFails, Address
    <2>2. \A b \in Actors : pc'[b] \in {"seed", "define"} =>
            pc'[b] = pc[b] /\ box'[b] = box[b] /\ name'[b] = name[b]
      <3>1. CASE Define(a) BY <3>1 DEF Define, TypeOK
      <3>2. CASE CreateFails(a) BY <3>2 DEF CreateFails, TypeOK
      <3>3. CASE Address(a) BY <3>3 DEF Address, TypeOK
      <3> QED BY <1>10, <3>1, <3>2, <3>3
    <2> QED BY <2>1, <2>2 DEF PreparedInv
  <1>11. ASSUME NEW a \in Actors, CacheInsert(a) \/ NoAddress(a) \/ AddKey(a)
      PROVE PreparedInv'
      BY <1>11 DEF CacheInsert, NoAddress, AddKey, PreparedInv, TypeOK
  <1>12. ASSUME NEW a \in Actors, AddKeyFails(a) \/ Save(a) \/ Find(a)
      PROVE PreparedInv'
      BY <1>12 DEF AddKeyFails, Save, Find, PreparedInv, TypeOK
  <1>13. ASSUME NEW a \in Actors, Kill(a) \/ Evict(a) \/ Revoke(a)
      PROVE PreparedInv'
      BY <1>13 DEF Kill, Evict, Revoke, PreparedInv, TypeOK
  <1>14. ASSUME NEW a \in Actors, Rm(a) \/ Forget(a) \/ DestroyFails(a)
      PROVE PreparedInv'
      BY <1>14 DEF Rm, Forget, DestroyFails, PreparedInv, TypeOK
  <1>15. ASSUME NEW a \in Actors, Looks(a) PROVE PreparedInv'
      BY <1>15 DEF Looks, PreparedInv, TypeOK
  <1> QED BY <1>1, <1>2, <1>3, <1>4, <1>5, <1>6, <1>7, <1>8, <1>9, <1>10, <1>11, <1>12,
      <1>13, <1>14, <1>15, LooksStep
      DEF Next, CreateStep, CommandStep, DestroyStep

\* Whatever domain comes under a create's name later is excused.
LEMMA LateStep ==
    ASSUME TypeOK, ActorInv, KindInv, CreatorInv, OverlapInv, LateInv, Next
    PROVE  LateInv'
  <1>1. ASSUME NEW a \in Actors, NEW s \in Sandboxes, NEW n \in Names, MakeDisk(a, s, n)
      PROVE LateInv'
    <2>1. overlap \subseteq overlap'
      BY <1>1, Noted DEF MakeDisk
    <2>2. \A b \in Actors : pc'[b] \in {"address", "insert"} =>
            pc'[b] = pc[b] /\ box'[b] = box[b] /\ name'[b] = name[b]
      BY <1>1 DEF MakeDisk, TypeOK
    <2>3. UNCHANGED <<vmAt, slipped>>
      BY <1>1 DEF MakeDisk
    <2> QED BY <2>1, <2>2, <2>3 DEF LateInv
  <1>2. ASSUME NEW a \in Actors, NEW s \in Sandboxes, NEW n \in Names, Cp(a, s, n)
      PROVE LateInv'
      BY <1>2 DEF Cp, LibvirtPcs, LateInv, KindInv
  <1>3. ASSUME NEW a \in Actors, NEW s \in Sandboxes, Command(a, s)
      PROVE LateInv'
      BY <1>3 DEF Command, LateInv
  <1>4. ASSUME NEW a \in Actors, NEW s \in Sandboxes, Destroy(a, s)
      PROVE LateInv'
    <2>1. overlap \subseteq overlap'
      BY <1>4, Noted DEF Destroy, TypeOK
    <2>2. \A b \in Actors : pc'[b] \in {"address", "insert"} =>
            pc'[b] = pc[b] /\ box'[b] = box[b] /\ name'[b] = name[b]
      BY <1>4 DEF Destroy, TypeOK
    <2>3. UNCHANGED <<vmAt, disk, seed, kind, slipped>>
      BY <1>4 DEF Destroy
    <2> QED BY <2>1, <2>2, <2>3 DEF LateInv
  <1>5. ASSUME NEW n \in Names, VmVanishes(n)
      PROVE LateInv'
      BY <1>5 DEF VmVanishes, LateInv
  <1>6. ASSUME NEW p \in Procs, Crash(p)
      PROVE LateInv'
      BY <1>6 DEF Crash, LateInv
  <1>7. ASSUME NEW a \in Actors, Define(a) PROVE LateInv'
    <2>1. \A b \in Actors : pc[b] \in {"address", "insert"} /\ name[b] = name[a] =>
              box[a] \in overlap
      BY <1>7 DEF Define, CreatorInv, OverlapInv, Commanding, Creating
    <2> QED BY <1>7, <2>1 DEF Define, LateInv
  <1>8. ASSUME NEW a \in Actors, MakeSeed(a) \/ CreateFails(a) \/ Address(a) \/
      CacheInsert(a) \/ NoAddress(a)
      PROVE LateInv'
      BY <1>8 DEF MakeSeed, CreateFails, Address, CacheInsert, NoAddress, LateInv, ActorInv,
        TypeOK
  <1>9. ASSUME NEW a \in Actors, WipeUndone(a) \/ AddKey(a) \/ AddKeyFails(a) \/ Save(a) \/
      Find(a)
      PROVE LateInv'
      BY <1>9 DEF WipeUndone, AddKey, AddKeyFails, Save, Find, WipeFiles, LateInv, ActorInv,
        TypeOK
  <1>10. ASSUME NEW a \in Actors, Kill(a) \/ Evict(a) \/ Wipe(a) \/ Revoke(a) \/ Rm(a)
      PROVE LateInv'
      BY <1>10 DEF Kill, Evict, Wipe, Revoke, Rm, WipeFiles, LateInv, ActorInv, TypeOK
  <1>11. ASSUME NEW a \in Actors, Forget(a) \/ DestroyFails(a)
      PROVE LateInv'
    <2>1. UNCHANGED <<vmAt, overlap>>
      BY <1>11 DEF Forget, DestroyFails
    <2>2. \A b \in Actors : pc'[b] \in {"address", "insert"} =>
            pc'[b] = pc[b] /\ box'[b] = box[b] /\ name'[b] = name[b]
      BY <1>11 DEF Forget, DestroyFails, TypeOK
    <2> QED BY <2>1, <2>2 DEF LateInv
  <1>12. ASSUME NEW a \in Actors, Looks(a) PROVE LateInv'
      BY <1>12 DEF Looks, LateInv, TypeOK
  <1> QED BY <1>1, <1>2, <1>3, <1>4, <1>5, <1>6, <1>7, <1>8, <1>9, <1>10, <1>11, <1>12,
      LooksStep
      DEF Next, CreateStep, CommandStep, DestroyStep

\* No domain is left where files are about to go.
LEMMA WipeStep ==
    ASSUME TypeOK, ActorInv, KindInv, CreatorInv, OverlapInv, LateInv, WipeInv, Next
    PROVE  WipeInv'
  <1>1. ASSUME NEW a \in Actors, NEW s \in Sandboxes, NEW n \in Names, MakeDisk(a, s, n)
      PROVE WipeInv'
    <2>1. overlap \subseteq overlap'
      BY <1>1, Noted DEF MakeDisk
    <2>2. \A b \in Actors : pc'[b] \in {"evict", "wipe", "wipe_absent", "wipe_undone"} =>
            pc'[b] = pc[b] /\ box'[b] = box[b] /\ name'[b] = name[b]
      BY <1>1 DEF MakeDisk, TypeOK
    <2>3. UNCHANGED <<vmAt, slipped>>
      BY <1>1 DEF MakeDisk
    <2> QED BY <2>1, <2>2, <2>3 DEF WipeInv
  <1>2. ASSUME NEW a \in Actors, NEW s \in Sandboxes, NEW n \in Names, Cp(a, s, n)
      PROVE WipeInv'
      BY <1>2 DEF Cp, LibvirtPcs, KindInv, WipeInv
  <1>3. ASSUME NEW a \in Actors, NEW s \in Sandboxes, Command(a, s)
      PROVE WipeInv'
      BY <1>3 DEF Command, WipeInv
  <1>4. ASSUME NEW a \in Actors, NEW s \in Sandboxes, Destroy(a, s)
      PROVE WipeInv'
    <2>1. overlap \subseteq overlap'
      BY <1>4, Noted DEF Destroy, TypeOK
    <2>2. \A b \in Actors : pc'[b] \in {"evict", "wipe", "wipe_absent", "wipe_undone"} =>
            pc'[b] = pc[b] /\ box'[b] = box[b] /\ name'[b] = name[b]
      BY <1>4 DEF Destroy, TypeOK
    <2>3. UNCHANGED <<vmAt, disk, seed, kind, slipped>>
      BY <1>4 DEF Destroy
    <2> QED BY <2>1, <2>2, <2>3 DEF WipeInv
  <1>5. ASSUME NEW n \in Names, VmVanishes(n)
      PROVE WipeInv'
      BY <1>5 DEF VmVanishes, WipeInv
  <1>6. ASSUME NEW p \in Procs, Crash(p)
      PROVE WipeInv'
      BY <1>6 DEF Crash, WipeInv
  <1>7. ASSUME NEW a \in Actors, Define(a) PROVE WipeInv'
    <2>1. \A b \in Actors : pc[b] \in {"evict", "wipe", "wipe_absent", "wipe_undone"}
              /\ name[b] = name[a] => box[a] \in overlap
      BY <1>7 DEF Define, CreatorInv, OverlapInv, Commanding, Creating
    <2> QED BY <1>7, <2>1 DEF Define, WipeInv
  <1>8. ASSUME NEW a \in Actors, MakeSeed(a) \/ CreateFails(a) \/ Address(a) \/
      CacheInsert(a) \/ NoAddress(a)
      PROVE WipeInv'
      BY <1>8 DEF MakeSeed, CreateFails, Address, CacheInsert, NoAddress, LateInv, WipeInv,
        ActorInv, TypeOK
  <1>9. ASSUME NEW a \in Actors, WipeUndone(a) \/ AddKey(a) \/ AddKeyFails(a) \/ Save(a) \/
      Find(a)
      PROVE WipeInv'
      BY <1>9 DEF WipeUndone, AddKey, AddKeyFails, Save, Find, WipeFiles, WipeInv, ActorInv,
        TypeOK
  <1>10. ASSUME NEW a \in Actors, Kill(a) \/ Evict(a) \/ Wipe(a) \/ Revoke(a) \/ Rm(a)
      PROVE WipeInv'
      BY <1>10 DEF Kill, Evict, Wipe, Revoke, Rm, WipeFiles, WipeInv, ActorInv, TypeOK
  <1>11. ASSUME NEW a \in Actors, Forget(a) \/ DestroyFails(a)
      PROVE WipeInv'
      BY <1>11 DEF Forget, DestroyFails, LibvirtPcs, LateInv, KindInv, OverlapInv, CreatorInv,
        WipeInv, TypeOK
  <1>12. ASSUME NEW a \in Actors, Looks(a) PROVE WipeInv'
      BY <1>12 DEF Looks, WipeInv, TypeOK
  <1> QED BY <1>1, <1>2, <1>3, <1>4, <1>5, <1>6, <1>7, <1>8, <1>9, <1>10, <1>11, <1>12,
      LooksStep
      DEF Next, CreateStep, CommandStep, DestroyStep

\* Disks of running VMs stay.
LEMMA DiskKeptStep ==
    ASSUME TypeOK, ActorInv, PreparedInv, WipeInv, DiskKept, Next
    PROVE  DiskKept'
  <1>1. ASSUME NEW a \in Actors, NEW s \in Sandboxes, NEW n \in Names, MakeDisk(a, s, n)
      PROVE DiskKept'
      BY <1>1 DEF MakeDisk, NoteOverlap, Others, TypeOK, ActorInv, PreparedInv, WipeInv,
        DiskKept, Libvirt, Commanding, Creating
  <1>2. ASSUME NEW a \in Actors, NEW s \in Sandboxes, NEW n \in Names, Cp(a, s, n)
      PROVE DiskKept'
      BY <1>2 DEF Cp, DiskKept, Libvirt
  <1>3. ASSUME NEW a \in Actors, NEW s \in Sandboxes, Command(a, s)
      PROVE DiskKept'
      BY <1>3 DEF Command, DiskKept, Libvirt
  <1>4. ASSUME NEW a \in Actors, NEW s \in Sandboxes, Destroy(a, s)
      PROVE DiskKept'
      BY <1>4 DEF Destroy, NoteOverlap, Others, TypeOK, ActorInv, PreparedInv, WipeInv,
        DiskKept, Libvirt, Commanding, Creating
  <1>5. ASSUME NEW n \in Names, VmVanishes(n)
      PROVE DiskKept'
      BY <1>5 DEF VmVanishes, DiskKept, Libvirt
  <1>6. ASSUME NEW p \in Procs, Crash(p)
      PROVE DiskKept'
      BY <1>6 DEF Crash, DiskKept, Libvirt
  <1>7. ASSUME NEW a \in Actors, Define(a)
      PROVE DiskKept'
      BY <1>7 DEF Define, DiskKept, Libvirt, PreparedInv
  <1>8. ASSUME NEW a \in Actors, MakeSeed(a) \/ CreateFails(a) \/ Address(a) \/
      CacheInsert(a) \/ NoAddress(a)
      PROVE DiskKept'
      BY <1>8 DEF MakeSeed, CreateFails, Address, CacheInsert, NoAddress, DiskKept, Libvirt
  <1>9. ASSUME NEW a \in Actors, WipeUndone(a) \/ AddKey(a) \/ AddKeyFails(a) \/ Save(a) \/
      Find(a)
      PROVE DiskKept'
      BY <1>9 DEF WipeUndone, AddKey, AddKeyFails, Save, Find, WipeFiles, DiskKept, Libvirt,
        PreparedInv, WipeInv, TypeOK
  <1>10. ASSUME NEW a \in Actors, Kill(a) \/ Evict(a) \/ Wipe(a) \/ Revoke(a) \/ Rm(a)
      PROVE DiskKept'
      BY <1>10 DEF Kill, Evict, Wipe, Revoke, Rm, WipeFiles, DiskKept, Libvirt, WipeInv,
        TypeOK
  <1>11. ASSUME NEW a \in Actors, Forget(a) \/ DestroyFails(a)
      PROVE DiskKept'
      BY <1>11 DEF Forget, DestroyFails, DiskKept, Libvirt
  <1>12. ASSUME NEW a \in Actors, Looks(a) PROVE DiskKept'
      BY <1>12 DEF Looks, DiskKept, Libvirt
  <1> QED BY <1>1, <1>2, <1>3, <1>4, <1>5, <1>6, <1>7, <1>8, <1>9, <1>10, <1>11, <1>12,
      LooksStep
      DEF Next, CreateStep, CommandStep, DestroyStep

\* What keeps the accounts of the disks: the disks and records are the same, and
\* creates go on.
DiskStays ==
    /\ disk' = disk /\ rec' = rec
    /\ leaked \subseteq leaked' /\ slipped \subseteq slipped' /\ overlap \subseteq overlap'
    /\ \A b \in Actors : pc[b] \in Creating => pc'[b] \in Creating /\ box'[b] = box[b]

\* Such a step keeps DiskInv.
LEMMA DiskStayed == ASSUME DiskInv, DiskStays PROVE DiskInv'
  BY DEF DiskInv, DiskStays

\* Disks are accounted for.
LEMMA DiskStep ==
    ASSUME TypeOK, ActorInv, KindInv, CreatorInv, NameInv, ForgetInv, DiskInv, Next
    PROVE  DiskInv'
  <1>1. ASSUME NEW a \in Actors, NEW s \in Sandboxes, NEW n \in Names, MakeDisk(a, s, n)
        PROVE DiskInv'
    <2>1. overlap \subseteq overlap'
      BY <1>1, Noted DEF MakeDisk
    <2>2. disk' = [disk EXCEPT ![n] = s] /\ UNCHANGED <<rec, leaked, slipped>>
      BY <1>1 DEF MakeDisk
    <2>3. pc'[a] \in Creating /\ box'[a] = s
      BY <1>1 DEF MakeDisk, Creating, TypeOK
    <2>4. \A b \in Actors : pc[b] \in Creating => pc'[b] = pc[b] /\ box'[b] = box[b]
      BY <1>1 DEF MakeDisk, Creating
    <2> QED BY <2>1, <2>2, <2>3, <2>4 DEF DiskInv
  <1>2. ASSUME NEW a \in Actors, NEW s \in Sandboxes, NEW n \in Names, Cp(a, s, n)
      PROVE DiskInv'
      BY <1>2 DEF Cp, DiskInv, KindInv
  <1>3. ASSUME NEW a \in Actors, NEW s \in Sandboxes, Command(a, s)
      PROVE DiskInv'
      BY <1>3 DEF Command, DiskInv, ActorInv
  <1>4. ASSUME NEW a \in Actors, NEW s \in Sandboxes, Destroy(a, s)
      PROVE DiskInv'
    <2>1. DiskStays BY <1>4 DEF DiskStays, Creating, Destroy, NoteOverlap, ActorInv, TypeOK
    <2> QED BY <2>1, DiskStayed
  <1>5. ASSUME NEW n \in Names, VmVanishes(n)
      PROVE DiskInv'
      BY <1>5 DEF VmVanishes, DiskInv
  <1>6. ASSUME NEW p \in Procs, Crash(p)
      PROVE DiskInv'
      BY <1>6 DEF Crash, DiskInv
  <1>7. ASSUME NEW a \in Actors, Save(a)
      PROVE DiskInv'
      BY <1>7 DEF Save, DiskInv, ForgetInv, ActorInv, TypeOK
  <1>8. ASSUME NEW a \in Actors, Forget(a)
      PROVE DiskInv'
      BY <1>8 DEF Forget, DiskInv, ForgetInv, TypeOK
  <1>9. ASSUME NEW a \in Actors, WipeUndone(a)
      PROVE DiskInv'
      BY <1>9 DEF WipeUndone, WipeFiles, DiskInv, Creating, LooksFor, Libvirt, NameInv,
        CreatorInv, ActorInv, TypeOK
  <1>10. ASSUME NEW a \in Actors, Wipe(a)
      PROVE DiskInv'
      BY <1>10 DEF Wipe, WipeFiles, DiskInv, LooksFor, NameInv, TypeOK
  <1>11. ASSUME NEW a \in Actors, Kill(a)
      PROVE DiskInv'
    <2>1. DiskStays BY <1>11 DEF DiskStays, Creating, Kill, TypeOK
    <2> QED BY <2>1, DiskStayed
  <1>12. ASSUME NEW a \in Actors, MakeSeed(a) \/ Define(a) \/ CreateFails(a)
      PROVE DiskInv'
      BY <1>12 DEF MakeSeed, Define, CreateFails, DiskInv, Creating, CreatorInv, ForgetInv,
        ActorInv, TypeOK
  <1>13. ASSUME NEW a \in Actors, Address(a) \/ CacheInsert(a) \/ NoAddress(a)
      PROVE DiskInv'
    <2>1. DiskStays BY <1>13 DEF Address, CacheInsert, NoAddress, DiskStays, Creating, TypeOK
    <2> QED BY <2>1, DiskStayed
  <1>14. ASSUME NEW a \in Actors, AddKey(a) \/ AddKeyFails(a) \/ Find(a)
      PROVE DiskInv'
    <2>1. CASE Find(a)
      <3>1. DiskStays BY <2>1 DEF Find, DiskStays, Creating, TypeOK
      <3> QED BY <3>1, DiskStayed
    <2>2. CASE AddKey(a) \/ AddKeyFails(a)
      <3>1. \A n \in Names : disk'[n] = None
        BY <2>2 DEF AddKey, AddKeyFails, KindInv, ExedevPcs
      <3> QED BY <3>1 DEF DiskInv
    <2> QED BY <1>14, <2>1, <2>2
  <1>15. ASSUME NEW a \in Actors, Evict(a) \/ Revoke(a) \/ Rm(a)
      PROVE DiskInv'
    <2>1. DiskStays BY <1>15 DEF DiskStays, Creating, Evict, Revoke, Rm, TypeOK
    <2> QED BY <2>1, DiskStayed
  <1>16. ASSUME NEW a \in Actors, DestroyFails(a)
      PROVE DiskInv'
      BY <1>16 DEF DestroyFails, DiskInv, Creating, LooksFor, CreatorInv
  <1>17. ASSUME NEW a \in Actors, Looks(a) PROVE DiskInv'
      BY <1>17 DEF Looks, DiskInv, Creating, Commanding, TypeOK
  <1> QED BY <1>1, <1>2, <1>3, <1>4, <1>5, <1>6, <1>7, <1>8, <1>9, <1>10, <1>11, <1>12,
      <1>13, <1>14, <1>15, <1>16, <1>17, LooksStep
      DEF Next, CreateStep, CommandStep, DestroyStep

\* The disk goes before the record.
LEMMA ForgetStep ==
    ASSUME TypeOK, ActorInv, KindInv, NameInv, ForgetInv, Next
    PROVE  ForgetInv'
  <1>1. ASSUME NEW a \in Actors, NEW s \in Sandboxes, NEW n \in Names, MakeDisk(a, s, n)
      PROVE ForgetInv'
      BY <1>1 DEF MakeDisk, ForgetInv, ActorInv
  <1>2. ASSUME NEW a \in Actors, NEW s \in Sandboxes, NEW n \in Names, Cp(a, s, n)
      PROVE ForgetInv'
      BY <1>2 DEF Cp, ForgetInv
  <1>3. ASSUME NEW a \in Actors, NEW s \in Sandboxes, Command(a, s)
      PROVE ForgetInv'
      BY <1>3 DEF Command, ForgetInv
  <1>4. ASSUME NEW a \in Actors, NEW s \in Sandboxes, Destroy(a, s)
      PROVE ForgetInv'
      BY <1>4 DEF Destroy, ForgetInv
  <1>5. ASSUME NEW n \in Names, VmVanishes(n)
      PROVE ForgetInv'
      BY <1>5 DEF VmVanishes, ForgetInv
  <1>6. ASSUME NEW p \in Procs, Crash(p)
      PROVE ForgetInv'
      BY <1>6 DEF Crash, ForgetInv
  <1>7. ASSUME NEW a \in Actors, Save(a)
      PROVE ForgetInv'
      BY <1>7 DEF Save, ForgetInv
  <1>8. ASSUME NEW a \in Actors, Forget(a)
      PROVE ForgetInv'
      BY <1>8 DEF Forget, ForgetInv, TypeOK
  <1>9. ASSUME NEW a \in Actors, WipeUndone(a)
      PROVE ForgetInv'
      BY <1>9 DEF WipeUndone, WipeFiles, ForgetInv, ActorInv, TypeOK
  <1>10. ASSUME NEW a \in Actors, Wipe(a)
      PROVE ForgetInv'
      BY <1>10 DEF Wipe, WipeFiles, LooksFor, NameInv, ForgetInv, ActorInv, TypeOK
  <1>11. ASSUME NEW a \in Actors, Kill(a)
      PROVE ForgetInv'
    <2>1. /\ UNCHANGED <<disk, box>> /\ slipped \subseteq slipped'
          /\ \A b \in Actors \ {a} : pc'[b] = pc[b]
          /\ pc'[a] = "evict" \/ box[a] \in slipped'
      BY <1>11 DEF Kill, TypeOK
    <2>2. \A b \in Actors : pc'[b] \in {"forget", "not_found"} =>
            box[b] \in slipped' \/ pc[b] \in {"forget", "not_found"}
      BY <2>1
    <2> QED BY <2>1, <2>2 DEF ForgetInv
  <1>12. ASSUME NEW a \in Actors, MakeSeed(a)
      PROVE ForgetInv'
      BY <1>12 DEF MakeSeed, ForgetInv
  <1>13. ASSUME NEW a \in Actors, Define(a)
      PROVE ForgetInv'
      BY <1>13 DEF Define, ForgetInv
  <1>14. ASSUME NEW a \in Actors, CreateFails(a)
      PROVE ForgetInv'
      BY <1>14 DEF CreateFails, ForgetInv
  <1>15. ASSUME NEW a \in Actors, Address(a)
      PROVE ForgetInv'
      BY <1>15 DEF Address, ForgetInv
  <1>16. ASSUME NEW a \in Actors, CacheInsert(a)
      PROVE ForgetInv'
      BY <1>16 DEF CacheInsert, ForgetInv
  <1>17. ASSUME NEW a \in Actors, NoAddress(a)
      PROVE ForgetInv'
      BY <1>17 DEF NoAddress, ForgetInv
  <1>18. ASSUME NEW a \in Actors, AddKey(a)
      PROVE ForgetInv'
      BY <1>18 DEF AddKey, ForgetInv
  <1>19. ASSUME NEW a \in Actors, AddKeyFails(a)
      PROVE ForgetInv'
      BY <1>19 DEF AddKeyFails, ForgetInv
  <1>20. ASSUME NEW a \in Actors, Find(a)
      PROVE ForgetInv'
    <2>1. \A b \in Actors : pc'[b] \in {"forget", "not_found"} => pc'[b] = pc[b]
      BY <1>20 DEF Find, TypeOK
    <2> QED BY <1>20, <2>1 DEF Find, ForgetInv
  <1>21. ASSUME NEW a \in Actors, Evict(a)
      PROVE ForgetInv'
      BY <1>21 DEF Evict, ForgetInv
  <1>22. ASSUME NEW a \in Actors, Revoke(a)
      PROVE ForgetInv'
      BY <1>22 DEF Revoke, ForgetInv
  <1>23. ASSUME NEW a \in Actors, Rm(a)
      PROVE ForgetInv'
      BY <1>23 DEF Rm, ExedevPcs, KindInv, ForgetInv, ActorInv, TypeOK
  <1>24. ASSUME NEW a \in Actors, DestroyFails(a)
      PROVE ForgetInv'
      BY <1>24 DEF DestroyFails, ForgetInv
  <1>25. ASSUME NEW a \in Actors, Looks(a) PROVE ForgetInv'
      BY <1>25 DEF Looks, TypeOK, ActorInv, KindInv, NameInv, ForgetInv, LooksFor, Libvirt,
        ExedevPcs, Commanding, Creating
  <1> QED BY <1>1, <1>2, <1>3, <1>4, <1>5, <1>6, <1>7, <1>8, <1>9, <1>10, <1>11, <1>12,
      <1>13, <1>14, <1>15, <1>16, <1>17, <1>18, <1>19, <1>20, <1>21, <1>22, <1>23, <1>24,
      <1>25, LooksStep
      DEF Next, CreateStep, CommandStep, DestroyStep

\* Guests trust their own sandbox's key.
LEMMA TrustStep ==
    ASSUME TypeOK, ActorInv, PreparedInv, TrustInv, Next
    PROVE  TrustInv'
  <1>1. ASSUME NEW a \in Actors, NEW s \in Sandboxes, NEW n \in Names, MakeDisk(a, s, n)
      PROVE TrustInv'
      BY <1>1 DEF MakeDisk, NoteOverlap, Others, TypeOK, ActorInv, PreparedInv, TrustInv,
        Libvirt, Commanding, Creating
  <1>2. ASSUME NEW a \in Actors, NEW s \in Sandboxes, NEW n \in Names, Cp(a, s, n)
      PROVE TrustInv'
      BY <1>2 DEF Cp, TrustInv, Libvirt
  <1>3. ASSUME NEW a \in Actors, NEW s \in Sandboxes, Command(a, s)
      PROVE TrustInv'
      BY <1>3 DEF Command, TrustInv
  <1>4. ASSUME NEW a \in Actors, NEW s \in Sandboxes, Destroy(a, s)
      PROVE TrustInv'
      BY <1>4 DEF Destroy, NoteOverlap, Others, TypeOK, ActorInv, PreparedInv, TrustInv,
        Libvirt, Commanding, Creating
  <1>5. ASSUME NEW n \in Names, VmVanishes(n)
      PROVE TrustInv'
      BY <1>5 DEF VmVanishes, TrustInv
  <1>6. ASSUME NEW p \in Procs, Crash(p)
      PROVE TrustInv'
      BY <1>6 DEF Crash, TrustInv
  <1>7. ASSUME NEW a \in Actors, Define(a)
      PROVE TrustInv'
      BY <1>7 DEF Define, TrustInv, PreparedInv
  <1>8. ASSUME NEW a \in Actors, MakeSeed(a) \/ CreateFails(a) \/ Address(a) \/
      CacheInsert(a) \/ NoAddress(a)
      PROVE TrustInv'
      BY <1>8 DEF MakeSeed, CreateFails, Address, CacheInsert, NoAddress, TrustInv
  <1>9. ASSUME NEW a \in Actors, WipeUndone(a) \/ AddKey(a) \/ AddKeyFails(a) \/ Save(a) \/
      Find(a)
      PROVE TrustInv'
      BY <1>9 DEF WipeUndone, AddKey, AddKeyFails, Save, Find, WipeFiles, TrustInv
  <1>10. ASSUME NEW a \in Actors, Kill(a) \/ Evict(a) \/ Wipe(a) \/ Revoke(a) \/ Rm(a)
      PROVE TrustInv'
      BY <1>10 DEF Kill, Evict, Wipe, Revoke, Rm, WipeFiles, TrustInv
  <1>11. ASSUME NEW a \in Actors, Forget(a) \/ DestroyFails(a)
      PROVE TrustInv'
      BY <1>11 DEF Forget, DestroyFails, TrustInv
  <1>12. ASSUME NEW a \in Actors, Looks(a) PROVE TrustInv'
      BY <1>12 DEF Looks, TrustInv
  <1> QED BY <1>1, <1>2, <1>3, <1>4, <1>5, <1>6, <1>7, <1>8, <1>9, <1>10, <1>11, <1>12,
      LooksStep
      DEF Next, CreateStep, CommandStep, DestroyStep

\* Keys on the account open their own VM.
LEMMA KeyStep ==
    ASSUME TypeOK, ActorInv, KindInv, CreatorInv, KeyInv, Next
    PROVE  KeyInv'
  <1>1. ASSUME NEW a \in Actors, NEW s \in Sandboxes, NEW n \in Names, MakeDisk(a, s, n)
      PROVE KeyInv'
      BY <1>1 DEF MakeDisk, KeyInv, ActorInv, TypeOK
  <1>2. ASSUME NEW a \in Actors, NEW s \in Sandboxes, NEW n \in Names, Cp(a, s, n)
      PROVE KeyInv'
      BY <1>2 DEF Cp, KeyInv, ActorInv, TypeOK
  <1>3. ASSUME NEW a \in Actors, NEW s \in Sandboxes, Command(a, s)
      PROVE KeyInv'
      BY <1>3 DEF Command, KeyInv, TypeOK
  <1>4. ASSUME NEW a \in Actors, NEW s \in Sandboxes, Destroy(a, s)
      PROVE KeyInv'
      BY <1>4 DEF Destroy, KeyInv, TypeOK
  <1>5. ASSUME NEW n \in Names, VmVanishes(n)
      PROVE KeyInv'
      BY <1>5 DEF VmVanishes, KeyInv
  <1>6. ASSUME NEW p \in Procs, Crash(p)
      PROVE KeyInv'
      BY <1>6 DEF Crash, KeyInv
  <1>7. ASSUME NEW a \in Actors, AddKey(a)
      PROVE KeyInv'
      BY <1>7 DEF AddKey, KeyInv, Creating, CreatorInv
  <1>8. ASSUME NEW a \in Actors, AddKeyFails(a)
      PROVE KeyInv'
      BY <1>8 DEF AddKeyFails, KeyInv, Creating, CreatorInv, ActorInv, TypeOK
  <1>9. ASSUME NEW a \in Actors, Save(a)
      PROVE KeyInv'
      BY <1>9 DEF Save, KeyInv, TypeOK
  <1>10. ASSUME NEW a \in Actors, Revoke(a)
      PROVE KeyInv'
      BY <1>10 DEF Revoke, KeyInv
  <1>11. ASSUME NEW a \in Actors, Rm(a)
      PROVE KeyInv'
      BY <1>11 DEF Rm, KeyInv, Creating, CreatorInv
  <1>12. ASSUME NEW a \in Actors, Forget(a)
      PROVE KeyInv'
      BY <1>12 DEF Forget, KeyInv, TypeOK
  <1>13. ASSUME NEW a \in Actors, MakeSeed(a)
      PROVE KeyInv'
      BY <1>13 DEF MakeSeed, KeyInv
  <1>14. ASSUME NEW a \in Actors, Define(a)
      PROVE KeyInv'
      BY <1>14 DEF Define, KeyInv, ActorInv, TypeOK
  <1>15. ASSUME NEW a \in Actors, CreateFails(a)
      PROVE KeyInv'
      BY <1>15 DEF CreateFails, KeyInv, TypeOK
  <1>16. ASSUME NEW a \in Actors, Address(a)
      PROVE KeyInv'
      BY <1>16 DEF Address, KeyInv
  <1>17. ASSUME NEW a \in Actors, CacheInsert(a)
      PROVE KeyInv'
      BY <1>17 DEF CacheInsert, KeyInv
  <1>18. ASSUME NEW a \in Actors, NoAddress(a)
      PROVE KeyInv'
      BY <1>18 DEF NoAddress, KeyInv, LibvirtPcs, Libvirt, KindInv
  <1>19. ASSUME NEW a \in Actors, WipeUndone(a)
      PROVE KeyInv'
      BY <1>19 DEF WipeUndone, WipeFiles, KeyInv, TypeOK
  <1>20. ASSUME NEW a \in Actors, Find(a)
      PROVE KeyInv'
      BY <1>20 DEF Find, KeyInv, TypeOK
  <1>21. ASSUME NEW a \in Actors, Kill(a)
      PROVE KeyInv'
      BY <1>21 DEF Kill, KeyInv, LibvirtPcs, Libvirt, KindInv
  <1>22. ASSUME NEW a \in Actors, Evict(a)
      PROVE KeyInv'
      BY <1>22 DEF Evict, KeyInv
  <1>23. ASSUME NEW a \in Actors, Wipe(a)
      PROVE KeyInv'
      BY <1>23 DEF Wipe, WipeFiles, KeyInv
  <1>24. ASSUME NEW a \in Actors, DestroyFails(a)
      PROVE KeyInv'
      BY <1>24 DEF DestroyFails, KeyInv, TypeOK
  <1>25. ASSUME NEW a \in Actors, Looks(a) PROVE KeyInv'
    <2>1. \A b \in Actors : box'[b] # None => box'[b] = box[b] /\ name'[b] = name[b]
      BY <1>25 DEF Looks, TypeOK
    <2>2. \A b \in Actors : pc'[b] \in {"add_key", "rm"} =>
            pc'[b] = pc[b] /\ box'[b] = box[b] /\ name'[b] = name[b]
      BY <1>25 DEF Looks, TypeOK
    <2>3. UNCHANGED <<kind, account, rec, vmAt, lost>> /\ None \notin account
      BY <1>25 DEF Looks, TypeOK
    <2> QED BY <2>1, <2>2, <2>3 DEF KeyInv
  <1> QED BY <1>1, <1>2, <1>3, <1>4, <1>5, <1>6, <1>7, <1>8, <1>9, <1>10, <1>11, <1>12,
      <1>13, <1>14, <1>15, <1>16, <1>17, <1>18, <1>19, <1>20, <1>21, <1>22, <1>23, <1>24,
      <1>25, LooksStep
      DEF Next, CreateStep, CommandStep, DestroyStep

\* The address at hand is that of the VM made.
LEMMA InsertStep ==
    ASSUME TypeOK, ActorInv, KindInv, CreatorInv, InsertInv, Next
    PROVE  InsertInv'
  <1>1. ASSUME NEW a \in Actors, NEW s \in Sandboxes, NEW n \in Names, MakeDisk(a, s, n)
      PROVE InsertInv'
      BY <1>1 DEF MakeDisk, InsertInv
  <1>2. ASSUME NEW a \in Actors, NEW s \in Sandboxes, NEW n \in Names, Cp(a, s, n)
      PROVE InsertInv'
      BY <1>2 DEF Cp, InsertInv, ActorInv
  <1>3. ASSUME NEW a \in Actors, NEW s \in Sandboxes, Command(a, s)
      PROVE InsertInv'
      BY <1>3 DEF Command, InsertInv
  <1>4. ASSUME NEW a \in Actors, NEW s \in Sandboxes, Destroy(a, s)
      PROVE InsertInv'
      BY <1>4 DEF Destroy, InsertInv
  <1>5. ASSUME NEW n \in Names, VmVanishes(n)
      PROVE InsertInv'
      BY <1>5 DEF VmVanishes, InsertInv, ActorInv, TypeOK
  <1>6. ASSUME NEW p \in Procs, Crash(p)
      PROVE InsertInv'
      BY <1>6 DEF Crash, InsertInv
  <1>7. ASSUME NEW a \in Actors, Define(a)
      PROVE InsertInv'
      BY <1>7 DEF Define, Creating, CreatorInv, InsertInv, ActorInv, TypeOK
  <1>8. ASSUME NEW a \in Actors, Address(a)
      PROVE InsertInv'
      BY <1>8 DEF Address, InsertInv, ActorInv, TypeOK
  <1>9. ASSUME NEW a \in Actors, MakeSeed(a) \/ CreateFails(a) \/ CacheInsert(a)
      PROVE InsertInv'
      BY <1>9 DEF MakeSeed, CreateFails, CacheInsert, InsertInv, TypeOK
  <1>10. ASSUME NEW a \in Actors, NoAddress(a) \/ WipeUndone(a) \/ AddKey(a)
      PROVE InsertInv'
      BY <1>10 DEF NoAddress, WipeUndone, AddKey, WipeFiles, InsertInv, ActorInv, TypeOK
  <1>11. ASSUME NEW a \in Actors, AddKeyFails(a) \/ Save(a) \/ Find(a)
      PROVE InsertInv'
      BY <1>11 DEF AddKeyFails, Save, Find, Creating, InsertInv, ActorInv, TypeOK
  <1>12. ASSUME NEW a \in Actors, Kill(a) \/ Evict(a) \/ Wipe(a)
      PROVE InsertInv'
      BY <1>12 DEF Kill, Evict, Wipe, WipeFiles, InsertInv, ActorInv, TypeOK
  <1>13. ASSUME NEW a \in Actors, Revoke(a) \/ Rm(a) \/ Forget(a)
      PROVE InsertInv'
      BY <1>13 DEF Revoke, Rm, Forget, InsertInv, ActorInv, TypeOK
  <1>14. ASSUME NEW a \in Actors, DestroyFails(a)
      PROVE InsertInv'
      BY <1>14 DEF DestroyFails, InsertInv
  <1>15. ASSUME NEW a \in Actors, Looks(a) PROVE InsertInv'
      BY <1>15 DEF Looks, InsertInv, TypeOK
  <1> QED BY <1>1, <1>2, <1>3, <1>4, <1>5, <1>6, <1>7, <1>8, <1>9, <1>10, <1>11, <1>12,
      <1>13, <1>14, <1>15, LooksStep
      DEF Next, CreateStep, CommandStep, DestroyStep

\* Cached addresses are right.
LEMMA CacheStep ==
    ASSUME TypeOK, ActorInv, KindInv, CreatorInv, NameInv, LateInv, InsertInv, CacheInv,
        Next
    PROVE  CacheInv'
  <1>1. ASSUME NEW a \in Actors, NEW s \in Sandboxes, NEW n \in Names, MakeDisk(a, s, n)
        PROVE CacheInv'
    <2>1. overlap \subseteq overlap'
      BY <1>1, Noted DEF MakeDisk
    <2>2. \A b \in Actors : pc'[b] = "save" => pc[b] = "save" /\ box'[b] = box[b]
      BY <1>1 DEF MakeDisk
    <2>3. UNCHANGED <<vmAt, addr, rec, maker, cache>>
      BY <1>1 DEF MakeDisk
    <2> QED BY <2>1, <2>2, <2>3 DEF CacheInv, CachedFor
  <1>2. ASSUME NEW a \in Actors, NEW s \in Sandboxes, NEW n \in Names, Cp(a, s, n)
      PROVE CacheInv'
      BY <1>2 DEF Cp, CacheInv, CachedFor, KindInv
  <1>3. ASSUME NEW a \in Actors, NEW s \in Sandboxes, Command(a, s)
      PROVE CacheInv'
      BY <1>3 DEF Command, CacheInv, CachedFor
  <1>4. ASSUME NEW a \in Actors, NEW s \in Sandboxes, Destroy(a, s)
        PROVE CacheInv'
    <2>1. overlap \subseteq overlap'
      BY <1>4, Noted DEF Destroy, TypeOK
    <2>2. \A b \in Actors : pc'[b] = "save" => pc[b] = "save" /\ box'[b] = box[b]
      BY <1>4 DEF Destroy
    <2>3. UNCHANGED <<vmAt, addr, rec, maker, cache>>
      BY <1>4 DEF Destroy
    <2> QED BY <2>1, <2>2, <2>3 DEF CacheInv, CachedFor
  <1>5. ASSUME NEW n \in Names, VmVanishes(n)
      PROVE CacheInv'
      BY <1>5 DEF VmVanishes, CacheInv, CachedFor
  <1>6. ASSUME NEW p \in Procs, Crash(p)
      PROVE CacheInv'
      BY <1>6 DEF Crash, CacheInv, CachedFor
  <1>7. ASSUME NEW a \in Actors, Define(a)
      PROVE CacheInv'
      BY <1>7 DEF Define, CacheInv, CachedFor, Creating, CreatorInv
  <1>8. ASSUME NEW a \in Actors, CacheInsert(a)
      PROVE CacheInv'
      BY <1>8 DEF CacheInsert, CacheInv, CachedFor, LooksFor, LateInv, NameInv, InsertInv,
        TypeOK
  <1>9. ASSUME NEW a \in Actors, AddKey(a)
      PROVE CacheInv'
      BY <1>9 DEF AddKey, CacheInv, CachedFor, ExedevPcs, KindInv
  <1>10. ASSUME NEW a \in Actors, Save(a)
      PROVE CacheInv'
      BY <1>10 DEF Save, CacheInv, CachedFor, TypeOK
  <1>11. ASSUME NEW a \in Actors, MakeSeed(a)
      PROVE CacheInv'
      BY <1>11 DEF MakeSeed, CacheInv, CachedFor
  <1>12. ASSUME NEW a \in Actors, CreateFails(a)
      PROVE CacheInv'
      BY <1>12 DEF CreateFails, CacheInv, CachedFor
  <1>13. ASSUME NEW a \in Actors, Address(a)
      PROVE CacheInv'
      BY <1>13 DEF Address, CacheInv, CachedFor
  <1>14. ASSUME NEW a \in Actors, NoAddress(a)
      PROVE CacheInv'
      BY <1>14 DEF NoAddress, CacheInv, CachedFor
  <1>15. ASSUME NEW a \in Actors, WipeUndone(a)
      PROVE CacheInv'
      BY <1>15 DEF WipeUndone, WipeFiles, CacheInv, CachedFor
  <1>16. ASSUME NEW a \in Actors, AddKeyFails(a)
      PROVE CacheInv'
      BY <1>16 DEF AddKeyFails, CacheInv, CachedFor, LateInv, NameInv, CreatorInv, TypeOK
  <1>17. ASSUME NEW a \in Actors, Find(a)
      PROVE CacheInv'
      BY <1>17 DEF Find, CacheInv, CachedFor, TypeOK
  <1>18. ASSUME NEW a \in Actors, Kill(a)
      PROVE CacheInv'
      BY <1>18 DEF Kill, TypeOK, ActorInv, KindInv, CreatorInv, NameInv, LateInv, InsertInv,
        CacheInv, LooksFor, CachedFor, Libvirt, ExedevPcs, LibvirtPcs, Commanding, Creating
  <1>19. ASSUME NEW a \in Actors, Evict(a)
      PROVE CacheInv'
      BY <1>19 DEF Evict, CacheInv, CachedFor
  <1>20. ASSUME NEW a \in Actors, Wipe(a)
      PROVE CacheInv'
      BY <1>20 DEF Wipe, WipeFiles, CacheInv, CachedFor
  <1>21. ASSUME NEW a \in Actors, Revoke(a)
      PROVE CacheInv'
      BY <1>21 DEF Revoke, CacheInv, CachedFor
  <1>22. ASSUME NEW a \in Actors, Rm(a)
      PROVE CacheInv'
      BY <1>22 DEF Rm, CacheInv, CachedFor
  <1>23. ASSUME NEW a \in Actors, Forget(a)
      PROVE CacheInv'
      BY <1>23 DEF Forget, CacheInv, CachedFor, TypeOK
  <1>24. ASSUME NEW a \in Actors, DestroyFails(a)
      PROVE CacheInv'
      BY <1>24 DEF DestroyFails, CacheInv, CachedFor
  <1>25. ASSUME NEW a \in Actors, Looks(a) PROVE CacheInv'
      BY <1>25 DEF Looks, CacheInv, CachedFor, TypeOK
  <1> QED BY <1>1, <1>2, <1>3, <1>4, <1>5, <1>6, <1>7, <1>8, <1>9, <1>10, <1>11, <1>12,
      <1>13, <1>14, <1>15, <1>16, <1>17, <1>18, <1>19, <1>20, <1>21, <1>22, <1>23, <1>24,
      <1>25, LooksStep
      DEF Next, CreateStep, CommandStep, DestroyStep

\* A command that strays is one of those excused.
LEMMA CommandStepReaches ==
    ASSUME TypeOK, ActorInv, TrustInv, KeyInv, CommandReachesOwnGuest, Next
    PROVE  CommandReachesOwnGuest'
  <1>1. CASE strayed' = strayed /\ kind' = kind /\ overlap \subseteq overlap'
            /\ lost \subseteq lost'
    BY <1>1 DEF CommandReachesOwnGuest
  <1>2. ASSUME NEW a \in Actors, Connect(a) PROVE CommandReachesOwnGuest'
    <2>1. box[a] \in Sandboxes /\ name[a] \in Names /\ UNCHANGED <<kind, overlap, lost>>
      BY <1>2 DEF Connect, ActorInv, TypeOK
    <2>2. ASSUME NEW v \in Answers(a), v # box[a], Accepts(v, box[a]), kind = "linux"
          PROVE  v \in overlap
      BY <2>1, <2>2 DEF Answers, Accepts, TrustInv, TypeOK
    <2>3. ASSUME NEW v \in Answers(a), v # box[a], Accepts(v, box[a]), kind = "ssh"
          PROVE  box[a] \in lost
      BY <2>1, <2>3 DEF Answers, Accepts, KeyInv, Libvirt
    <2>4. \A r \in strayed' : r \in strayed \/
            \E v \in Answers(a) : v # box[a] /\ Accepts(v, box[a]) /\ r = <<box[a], v>>
      BY <1>2 DEF Connect
    <2> QED BY <2>1, <2>2, <2>3, <2>4 DEF CommandReachesOwnGuest
  <1>3. (\E a \in Actors : Connect(a)) \/ (strayed' = strayed /\ kind' = kind
            /\ lost \subseteq lost')
    <2>1. ASSUME NEW a \in Actors, CreateStep(a)
          PROVE  strayed' = strayed /\ kind' = kind /\ lost \subseteq lost'
      BY <2>1 DEF CreateStep, MakeDisk, Cp, MakeSeed, Define, CreateFails, Address,
        CacheInsert, NoAddress, WipeUndone, AddKey, AddKeyFails, Save
    <2>2. ASSUME NEW a \in Actors, CommandStep(a), ~Connect(a)
          PROVE  strayed' = strayed /\ kind' = kind /\ lost \subseteq lost'
      BY <2>2 DEF CommandStep, Command, Lookup, Host, CommandFails
    <2>3. ASSUME NEW a \in Actors, DestroyStep(a)
          PROVE  strayed' = strayed /\ kind' = kind /\ lost \subseteq lost'
      BY <2>3 DEF DestroyStep, Destroy, Find, Kill, Evict, Wipe, Revoke, Rm, Forget,
        DestroyFails
    <2>4. ASSUME (\E n \in Names : VmVanishes(n)) \/ (\E p \in Procs : Crash(p))
          PROVE  strayed' = strayed /\ kind' = kind /\ lost \subseteq lost'
      BY <2>4 DEF VmVanishes, Crash
    <2> QED BY <2>1, <2>2, <2>3, <2>4 DEF Next
  <1>4. overlap \subseteq overlap'
    <2>1. Continues => overlap' = overlap
      BY DEF Continues
    <2>2. ASSUME NEW a \in Actors, NEW s \in Sandboxes,
                 Command(a, s) \/ Destroy(a, s) \/ \E n \in Names : MakeDisk(a, s, n) \/ Cp(a, s,
                     n)
          PROVE  overlap \subseteq overlap'
      BY <2>2 DEF Command, Destroy, MakeDisk, Cp, NoteOverlap
    <2> QED BY <2>1, <2>2, Shapes DEF Starts
  <1> QED BY <1>1, <1>2, <1>3, <1>4

-----------------------------------------------------------------------------
(* Theorems.                                                               *)

\* On an empty host all of it holds.
LEMMA InitEstablishes == Init => IInv
  <1> SUFFICES ASSUME Init PROVE IInv
    OBVIOUS
  <1> USE DEF Init
  <1>1. TypeOK BY DEF Locations, TypeOK
  <1>2. ActorInv /\ KindInv BY DEF LibvirtPcs, ExedevPcs, KindInv, ActorInv
  <1>3. CreatorInv /\ NameInv /\ OverlapInv BY DEF Creating, NameInv, OverlapInv, CreatorInv
  <1>4. PreparedInv /\ LateInv /\ WipeInv BY DEF LateInv, PreparedInv, WipeInv
  <1>5. DiskKept /\ DiskInv /\ ForgetInv BY DEF DiskKept, DiskInv, ForgetInv
  <1>6. TrustInv /\ KeyInv BY DEF TrustInv, KeyInv
  <1>7. InsertInv /\ CacheInv BY DEF CacheInv, InsertInv
  <1>8. CommandReachesOwnGuest BY DEF CommandReachesOwnGuest
  <1> QED BY <1>1, <1>2, <1>3, <1>4, <1>5, <1>6, <1>7, <1>8 DEF IInv

\* Each step keeps the invariant, and so does a stutter.
LEMMA Inductive == ASSUME IInv, [Next]_vars PROVE IInv'
  <1>1. CASE Next
    BY <1>1, TypeStep, ActorStep, KindStep, CreatorStep, NameStep, OverlapStep, PreparedStep,
        LateStep,
      WipeStep, DiskKeptStep, DiskStep, ForgetStep, TrustStep, KeyStep, InsertStep, CacheStep,
      CommandStepReaches DEF IInv
  <1>2. CASE UNCHANGED vars
    <2> USE <1>2 DEF vars
    <2>1. TypeOK' /\ ActorInv' BY DEF IInv, ActorInv, TypeOK
    <2>2. KindInv' /\ CreatorInv' /\ NameInv' /\ OverlapInv'
      BY DEF IInv, LooksFor, Libvirt, NameInv, KindInv, OverlapInv, CreatorInv
    <2>3. PreparedInv' /\ LateInv' /\ WipeInv' BY DEF IInv, LateInv, PreparedInv, WipeInv
    <2>4. DiskKept' /\ DiskInv' /\ ForgetInv' BY DEF IInv, DiskKept, DiskInv, Libvirt,
      ForgetInv
    <2>5. TrustInv' /\ KeyInv' BY DEF IInv, TrustInv, KeyInv
    <2>6. InsertInv' /\ CacheInv' BY DEF IInv, CacheInv, CachedFor, InsertInv
    <2>7. CommandReachesOwnGuest' BY DEF IInv, CommandReachesOwnGuest
    <2> QED BY <2>1, <2>2, <2>3, <2>4, <2>5, <2>6, <2>7 DEF IInv
  <1> QED BY <1>1, <1>2

\* IInv holds throughout every behaviour.
LEMMA Invariance == Spec => []IInv
  BY InitEstablishes, Inductive, PTL DEF Spec

\* For any sandboxes, names, addresses, actors and processes, the state of the
\* host, the store, the caches and the calls under way is well typed.
THEOREM TypeCorrect == Spec => []TypeOK
  <1>1. IInv => TypeOK BY DEF IInv
  <1> QED BY <1>1, Invariance, PTL

\* exec, put and get act in their own sandbox's guest, for any number of requests
\* and processes; a command reaches another guest only on a Linux guest booted
\* from a seed that an overlapping create of the name replaced, or on exe.dev with
\* the key of a VM that ended other than by its own destroy.  On exe.dev this is
\* about clients that offer no key of the account but the sandbox's; a guest with
\* a key that all share, or an account opened otherwise, is not spoken of.
THEOREM CommandsReachTheirGuest == Spec => []CommandReachesOwnGuest
  <1>1. IInv => CommandReachesOwnGuest BY DEF IInv
  <1> QED BY <1>1, Invariance, PTL

\* No create or destroy takes the disk from under a running VM unless work under
\* its name overlapped or an undone create could not destroy its domain.
THEOREM DisksAreKept == Spec => []DiskKept
  <1>1. IInv => DiskKept BY DEF IInv
  <1> QED BY <1>1, Invariance, PTL

\* A disk without its VM has a create, a destroy or a record to account for it,
\* or is one that a failed create or an overlap left.
THEOREM ArtifactsAreExplained == Spec => []ArtifactsExplained
  <1>1. IInv => ArtifactsExplained
    BY DEF IInv, DiskInv, ArtifactsExplained, InHand, Commanding, Creating
  <1> QED BY <1>1, Invariance, PTL

\* The process that made a VM never keeps another VM's address for it in
\* ip_cache, whatever was cached under the name before.
THEOREM OwnCacheIsFresh == Spec => []OwnCacheFresh
  <1>1. IInv => OwnCacheFresh
    BY DEF IInv, CacheInv, CachedFor, OwnCacheFresh
  <1> QED BY <1>1, Invariance, PTL
=============================================================================
