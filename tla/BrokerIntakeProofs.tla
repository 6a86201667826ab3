-------------------------- MODULE BrokerIntakeProofs --------------------------
(***************************************************************************)
(* BrokerIntake, for any jobs, workflow runs, labels, repositories, page   *)
(* sizes, delays and failures, and the lock that keeps a second broker     *)
(* away (LockSentinel), for any number of processes and unlinks.           *)
(*                                                                         *)
(* OneSandboxPerJob is not inductive: that a job whose sandbox is up is    *)
(* not dispatched again rests on its record, which the broker reads from   *)
(* disk if it has runners and remembers if it has none, and which is       *)
(* missing only while the dispatch is under way: whatever phase a runner's *)
(* record is in, it is deleted only when the sandbox is gone.              *)
(* FallbackWaits rests on what the scan lets through, which stays old      *)
(* enough while the scan goes on.                                          *)
(***************************************************************************)
EXTENDS BrokerIntake, LockSentinel, SequenceTheorems, FiniteSetTheorems, TLAPS

\* The dispatch of the job is under way, or left no record.
Unrecorded(j) == j \in unsaved \/ (pc = "save" /\ cur = j)

\* What claims a job for a broker that starts: any record with runners, an open
\* one without.
Recorded(j) == IF runner THEN disk[j] # "none" ELSE disk[j] = "open"

\* A job whose sandbox is up has such a record ...
DiskInv == \A j \in Jobs : guest[j] = "up" => Unrecorded(j) \/ Recorded(j)

\* ... which a broker without runners has in memory as long as it runs.
MemInv ==
    ~runner /\ pc # "down" =>
        \A j \in Jobs : guest[j] = "up" => Unrecorded(j) \/ mem[j] = "open"

\* The broker has a job in hand from its dispatch to its end.
CurInv == pc \in {"save", "job", "cleaning", "destroy", "delete"} => cur \in Jobs

\* Only a broker with runners runs jobs, and it deletes a record after the sandbox.
AtWork    == {"job", "cleaning", "destroy", "delete", "resume"}
RunnerInv == pc \in AtWork => runner
GoneInv   == pc = "delete" => guest[cur] # "up"

\* The paging of a list, and what it has listed of the repositories.
PageInv == page \in Nat \ {0} /\ (pc = "repos" => got \in Seq(Repos))

\* What FallbackWaits asks of a job that is dispatched.
Waited(j) ==
    \/ Configured(j) \ {FallbackLabel} # {}
    \/ j \notin world.undated /\ age[j] >= FallbackDelay

\* The scan takes for old enough what is, and lets through only what waited.
RipeInv  == \A j \in ripe : age[j] >= FallbackDelay
FoundInv == \A i \in 1..Len(found) : Waited(found[i])

IInv ==
    /\ TypeOK /\ CurInv /\ PageInv /\ RunnerInv /\ GoneInv
    /\ DiskInv /\ MemInv /\ OneSandboxPerJob
    /\ RipeInv /\ FoundInv

USE SizesAssumption, WorldAssumption, JobsAssumption, FiniteAssumption

-----------------------------------------------------------------------------
(* Lists and pages.                                                        *)

\* A list of a finite set is a sequence of its elements.
LEMMA ListType ==
  ASSUME NEW S, IsFiniteSet(S), NEW l \in Ascending(S)
  PROVE  l \in Seq(S)
<1>1. Cardinality(S) \in Nat BY FS_CardinalityType
<1>2. l \in [1 .. Cardinality(S) -> S] BY DEF Ascending, SetToSeqs
<1> QED BY <1>1, <1>2

\* The page of a number is a part of the list, even past its end.
LEMMA PageType ==
  ASSUME NEW S, NEW l \in Seq(S), page \in Nat \ {0}
  PROVE  PageOf(l) \in Seq(S) /\ ToSet(PageOf(l)) \subseteq S
<1> DEFINE m == (page - 1) * PerPage + 1
           n == IF page * PerPage < Len(l) THEN page * PerPage ELSE Len(l)
<1>1. m \in Nat \ {0} /\ n \in Nat /\ n <= Len(l)
  <2>1. Len(l) \in Nat /\ PerPage \in Nat /\ page \in Nat /\ page - 1 \in Nat OBVIOUS
  <2>2. \A a, b \in Nat : a * b \in Nat OBVIOUS
  <2>3. (page - 1) * PerPage \in Nat /\ page * PerPage \in Nat BY <2>1, <2>2
  <2> HIDE DEF m
  <2>4. n \in Nat /\ n <= Len(l) BY <2>1, <2>3
  <2> QED BY <2>3, <2>4 DEF m
<1> HIDE DEF m, n
<1>2. \A i \in m .. n : l[i] \in S BY <1>1
<1>3. SubSeq(l, m, n) \in Seq(S) BY <1>1, <1>2, SubSeqProperties
<1>4. PageOf(l) = SubSeq(l, m, n) BY DEF PageOf, m, n
<1>5. \A q \in Seq(S) : ToSet(q) \subseteq S BY DEF ToSet
<1> QED BY <1>3, <1>4, <1>5

\* What is appended to a sequence is appended to its elements.
LEMMA ConcatElements ==
  ASSUME NEW S, NEW s \in Seq(S), NEW t \in Seq(S)
  PROVE  /\ s \o t \in Seq(S)
         /\ \A i \in 1..Len(s \o t) :
              \/ i \in 1..Len(s) /\ (s \o t)[i] = s[i]
              \/ \E k \in 1..Len(t) : (s \o t)[i] = t[k]
<1>1. /\ s \o t \in Seq(S) /\ Len(s \o t) = Len(s) + Len(t)
      /\ \A i \in 1..Len(s) + Len(t) : (s \o t)[i] = IF i <= Len(s) THEN s[i] ELSE t[i - Len(s)]
  BY ConcatProperties
<1>2. ASSUME NEW i \in 1..Len(s \o t)
      PROVE  \/ i \in 1..Len(s) /\ (s \o t)[i] = s[i]
             \/ \E k \in 1..Len(t) : (s \o t)[i] = t[k]
  <2>1. Len(s) \in Nat /\ Len(t) \in Nat /\ i \in 1..Len(s) + Len(t) BY <1>1
  <2>2. CASE i <= Len(s) BY <1>1, <2>1, <2>2
  <2>3. CASE ~(i <= Len(s))
    <3>1. i - Len(s) \in 1..Len(t) BY <2>1, <2>3
    <3> QED BY <1>1, <2>1, <2>3, <3>1
  <2> QED BY <2>2, <2>3
<1> QED BY <1>1, <1>2

\* A list of some jobs lists jobs only, and none that is not in the set.
LEMMA JobLists ==
  ASSUME NEW S \in SUBSET Jobs, NEW l \in Ascending(S)
  PROVE  l \in Seq(Jobs) /\ l \in Seq(S)
<1>1. IsFiniteSet(S) BY FS_Subset
<1>2. l \in Seq(S) BY <1>1, ListType
<1>3. S \subseteq Jobs OBVIOUS
<1>4. l \in Seq(Jobs) BY <1>2, <1>3, SeqMonotonic
<1> QED BY <1>2, <1>4

\* A page of jobs, filtered: a sequence of jobs that are wanted.
LEMMA WantedJobs ==
  ASSUME page \in Nat \ {0}, NEW S \in SUBSET Jobs, NEW l \in Ascending(S),
         NEW w \in Ascending({j \in ToSet(PageOf(l)) : Wanted(j)})
  PROVE  w \in Seq(Jobs) /\ \A k \in 1..Len(w) : Wanted(w[k])
<1> DEFINE W == {j \in ToSet(PageOf(l)) : Wanted(j)}
<1>1. l \in Seq(Jobs) BY JobLists
<1>2. ToSet(PageOf(l)) \subseteq Jobs BY <1>1, PageType
<1>3. W \in SUBSET Jobs BY <1>2
<1>4. \A j \in W : Wanted(j) OBVIOUS
<1>5. w \in Ascending(W) OBVIOUS
<1> HIDE DEF W
<1>6. w \in Seq(Jobs) /\ w \in Seq(W) BY <1>3, <1>5, JobLists
<1>7. \A k \in 1..Len(w) : w[k] \in W BY <1>6
<1> QED BY <1>4, <1>6, <1>7

-----------------------------------------------------------------------------
(* Types.                                                                  *)

Typed == TypeOK /\ CurInv /\ PageInv

\* Nothing has happened, and the broker is not running.
LEMMA InitTyped == Init => Typed
<1> SUFFICES ASSUME Init PROVE Typed OBVIOUS
<1>1. PICK d \in Deployments : app = d.app /\ runner = d.runner /\ static = d.static BY DEF Init
<1>2. app \in BOOLEAN /\ runner \in BOOLEAN /\ static \in BOOLEAN BY <1>1
<1>3. installed \subseteq Repos BY DEF Init
<1>4. Never \in Nat /\ Never \in 0 .. Never BY DEF Never
<1>5. TypeOK BY <1>2, <1>3, <1>4 DEF Init, TypeOK
<1> QED BY <1>5 DEF Init, Typed, CurInv, PageInv

\* What GitHub, time and the host do.
LEMMA WorldTyped ==
  ASSUME Typed,
         \/ \E j \in Jobs : JobAppears(j) \/ JobStarts(j) \/ JobEnds(j) \/ GuestLost(j)
         \/ \E r \in Repos : Installed(r)
         \/ TimePasses
  PROVE  Typed'
<1> USE DEF Typed, config, github, memory, scan, history
<1>1. ASSUME NEW j \in Jobs, JobAppears(j) \/ JobStarts(j) \/ JobEnds(j) \/ GuestLost(j)
      PROVE  Typed'
  <2>1. status' \in [Jobs -> {"absent", "queued", "running", "done"}]
    BY <1>1 DEF JobAppears, JobStarts, JobEnds, GuestLost, TypeOK
  <2>2. guest' \in [Jobs -> {"none", "up", "over", "gone"}]
    <3>1. \/ UNCHANGED guest
          \/ \E k \in Jobs, g \in {"over", "gone"} : guest' = [guest EXCEPT ![k] = g]
      BY <1>1 DEF JobAppears, JobStarts, JobEnds, GuestLost
    <3> QED BY <3>1 DEF TypeOK
  <2>3. faults' \in 0 .. MaxFaults
    <3>1. UNCHANGED faults \/ Failure BY <1>1 DEF JobAppears, JobStarts, JobEnds, GuestLost
    <3> QED BY <3>1 DEF Failure, TypeOK
  <2>4. UNCHANGED <<config, age, installed, disk, memory, pc, history>>
    BY <1>1 DEF JobAppears, JobStarts, JobEnds, GuestLost
  <2>5. TypeOK' BY <2>1, <2>2, <2>3, <2>4 DEF TypeOK
  <2> QED BY <2>4, <2>5 DEF CurInv, PageInv
<1>2. ASSUME NEW r \in Repos, Installed(r) PROVE Typed'
  <2>1. installed' \subseteq Repos BY <1>2 DEF Installed, TypeOK
  <2>2. TypeOK' BY <1>2, <2>1 DEF Installed, TypeOK
  <2> QED BY <1>2, <2>2 DEF Installed, CurInv, PageInv
<1>3. CASE TimePasses
  <2>1. age' \in [Jobs -> 0 .. FallbackDelay]
    <3>1. \A j \in Jobs : age[j] \in 0 .. FallbackDelay BY DEF TypeOK
    <3>2. \A j \in Jobs : (IF status[j] = "queued" /\ age[j] < FallbackDelay
                           THEN age[j] + 1 ELSE age[j]) \in 0 .. FallbackDelay
      BY <3>1
    <3> QED BY <1>3, <3>2 DEF TimePasses
  <2>2. token' \in 0 .. TokenLife BY <1>3 DEF TimePasses, TypeOK
  <2>3. refreshed' \in 0 .. Never BY <1>3 DEF TimePasses, TypeOK, Never
  <2>4. UNCHANGED <<config, status, installed, guest, disk, mem, known, cur, tailing,
                    scan, pc, faults, history>>
    BY <1>3 DEF TimePasses
  <2>5. TypeOK' BY <2>1, <2>2, <2>3, <2>4 DEF TypeOK
  <2> QED BY <2>4, <2>5 DEF CurInv, PageInv
<1> QED BY <1>1, <1>2, <1>3

\* A process that ended has nothing in memory.
LEMMA ExitTyped ==
  ASSUME Typed, Exit, faults' \in 0 .. MaxFaults, unsaved' \subseteq Jobs,
         UNCHANGED <<config, github, guest, disk, misread, doubled>>
  PROVE  Typed'
<1> USE DEF Typed, config, github
<1>1. mem' \in [Jobs -> {"none", "open", "terminal"}] BY DEF Exit
<1>2. Never \in 0 .. Never /\ 0 \in 0 .. TokenLife BY DEF Never
<1>3. /\ token' \in 0 .. TokenLife /\ known' \in Seq(Repos) /\ refreshed' \in 0 .. Never
      /\ pc' = "down" /\ ripe' \subseteq Jobs /\ found' \in Seq(Jobs) /\ cur' = NoJob
      /\ tailing' \subseteq Jobs /\ page' = 1
  BY <1>2 DEF Exit, Forget
<1>4. TypeOK' BY <1>1, <1>3 DEF TypeOK
<1> QED BY <1>3, <1>4 DEF CurInv, PageInv

\* The process starts and ends.
LEMMA ProcessTyped ==
  ASSUME Typed, Boot \/ Crash
  PROVE  Typed'
<1> USE DEF Typed, config, github, memory, scan, history
<1>1. CASE Boot
  <2>1. known' \in Seq(Repos)
    <3>1. \A l \in Ascending(Repos) : l \in Seq(Repos) BY ListType
    <3>2. <<>> \in Seq(Repos) OBVIOUS
    <3> QED BY <1>1, <3>1, <3>2 DEF Boot
  <2>2. mem' \in [Jobs -> {"none", "open", "terminal"}] BY <1>1 DEF Boot
  <2>3. tailing' \subseteq Jobs BY <1>1 DEF Boot
  <2>4. token' \in 0 .. TokenLife BY <1>1 DEF Boot
  <2>5. TypeOK' BY <1>1, <2>1, <2>2, <2>3, <2>4 DEF Boot, TypeOK
  <2> QED BY <1>1, <2>5 DEF Boot, CurInv, PageInv
<1>2. CASE Crash
  <2>1. faults' \in 0 .. MaxFaults BY <1>2 DEF Crash, Failure, TypeOK
  <2>2. unsaved' \subseteq Jobs BY <1>2 DEF Crash, TypeOK, CurInv
  <2> QED BY <1>2, <2>1, <2>2, ExitTyped DEF Crash
<1> QED BY <1>1, <1>2

\* A poll that fails.
LEMMA PollErrorTyped ==
  ASSUME Typed, TokenRejected \/ \E e \in Errors : PollFails(e)
  PROVE  Typed'
<1> USE DEF Typed, config, github, memory, scan, history
<1>1. faults' \in 0 .. MaxFaults BY DEF TokenRejected, PollFails, Failure, TypeOK
<1>2. PICK e : PollError(e) BY DEF TokenRejected, PollFails
<1>3. UNCHANGED <<config, github, guest, disk, history>> BY DEF TokenRejected, PollFails
<1>4. CASE Exit
  <2>1. unsaved' \subseteq Jobs BY <1>3 DEF TypeOK
  <2> QED BY <1>1, <1>3, <1>4, <2>1, ExitTyped
<1>5. CASE pc' = "sleep" /\ Forget /\ UNCHANGED <<mem, token, known, refreshed, cur, tailing>>
  <2>1. TypeOK' BY <1>1, <1>3, <1>5 DEF Forget, TypeOK
  <2> QED BY <1>5, <2>1 DEF Forget, CurInv, PageInv
<1> QED BY <1>2, <1>4, <1>5 DEF PollError

\* The scan, one listing at a time.
LEMMA ScanTyped ==
  ASSUME Typed, StartTick \/ ListRepos \/ ListRuns \/ ListJobs
  PROVE  Typed'
<1> USE DEF Typed, config, github, history
<1> DEFINE Rest == UNCHANGED <<config, github, guest, disk, mem, token, cur, tailing, passed,
                               faults, history>>
<1>1. Rest BY DEF StartTick, ListRepos, ListRuns, ListJobs
<1> DEFINE OK == /\ known' \in Seq(Repos) /\ refreshed' \in 0 .. Never
                       /\ ripe' \subseteq Jobs /\ found' \in Seq(Jobs)
                       /\ pc' \in {"repos", "runs", "jobs", "claim"}
                       /\ page' \in Nat \ {0} /\ (pc' = "repos" => got' \in Seq(Repos))
<1>2. ASSUME OK PROVE Typed'
  <2>1. TypeOK' BY <1>1, <1>2 DEF TypeOK
  <2> QED BY <1>2, <2>1 DEF CurInv, PageInv
<1>3. CASE StartTick
  <2>1. ripe' \subseteq Jobs /\ found' \in Seq(Jobs) BY <1>3 DEF StartTick, Ripe
  <2>2. UNCHANGED <<known, refreshed>> BY <1>3 DEF StartTick
  <2>3. page' = 1 /\ pc' \in {"repos", "runs", "claim"} /\ got' = <<>>
    BY <1>3 DEF StartTick, Goto
  <2>4. OK BY <2>1, <2>2, <2>3 DEF TypeOK
  <2> QED BY <2>4, <1>2
<1>4. CASE ListRepos
  <2>1. UNCHANGED <<ripe, found>> BY <1>4 DEF ListRepos
  <2>2. pc = "repos" /\ got \in Seq(Repos) /\ page \in Nat \ {0} BY <1>4 DEF ListRepos, PageInv
  <2>3. PICK list \in Ascending(installed) :
          IF LastPage(list)
          THEN /\ known' = got \o PageOf(list) /\ refreshed' = 0
               /\ Goto(Plan(got \o PageOf(list)))
          ELSE /\ got' = got \o PageOf(list) /\ page' = page + 1
               /\ UNCHANGED <<known, refreshed, plan, pc, runs>>
    BY <1>4 DEF ListRepos
  <2>4. got \o PageOf(list) \in Seq(Repos)
    <3>1. installed \subseteq Repos /\ IsFiniteSet(installed) BY FS_Subset DEF TypeOK
    <3>2. list \in Seq(installed) BY <3>1, ListType
    <3>3. list \in Seq(Repos) BY <3>1, <3>2
    <3>4. PageOf(list) \in Seq(Repos) BY <2>2, <3>3, PageType
    <3> QED BY <2>2, <3>4
  <2>5. CASE LastPage(list)
    <3>1. known' = got \o PageOf(list) /\ refreshed' = 0 /\ page' = 1
          /\ pc' \in {"runs", "claim"}
      BY <2>3, <2>5 DEF Goto
    <3>2. 0 \in 0 .. Never BY DEF Never
    <3>3. OK BY <2>1, <2>4, <3>1, <3>2 DEF TypeOK
    <3> QED BY <3>3, <1>2
  <2>6. CASE ~LastPage(list)
    <3>1. got' = got \o PageOf(list) /\ page' = page + 1 /\ UNCHANGED <<known, refreshed, pc>>
      BY <2>3, <2>6
    <3>2. page' \in Nat \ {0} BY <2>2, <3>1
    <3>3. OK BY <2>1, <2>2, <2>4, <3>1, <3>2 DEF TypeOK
    <3> QED BY <3>3, <1>2
  <2> QED BY <2>5, <2>6
<1>5. CASE ListRuns
  <2>1. UNCHANGED <<ripe, found, known, refreshed>> BY <1>5 DEF ListRuns
  <2>2. pc = "runs" /\ page \in Nat \ {0} BY <1>5 DEF ListRuns, PageInv
  <2>3. pc' \in {"runs", "jobs", "claim"} /\ page' \in {1, page + 1}
    BY <1>5, <2>2 DEF ListRuns, Goto
  <2>4. OK BY <2>1, <2>2, <2>3 DEF TypeOK
  <2> QED BY <2>4, <1>2
<1>6. CASE ListJobs
  <2>1. UNCHANGED <<ripe, known, refreshed>> BY <1>6 DEF ListJobs
  <2>2. pc = "jobs" /\ page \in Nat \ {0} BY <1>6 DEF ListJobs, PageInv
  <2>3. pc' \in {"runs", "jobs", "claim"} /\ page' \in {1, page + 1}
    BY <1>6, <2>2 DEF ListJobs, Goto
  <2>4. found' \in Seq(Jobs)
    <3> DEFINE L == {j \in Jobs : world.runOf[j] = Head(runs) /\ status[j] # "absent"}
    <3>1. PICK list \in Ascending(L) :
            \E wanted \in Ascending({j \in ToSet(PageOf(list)) : Wanted(j)}) :
               found' = found \o wanted
      BY <1>6 DEF ListJobs
    <3>2. PICK wanted \in Ascending({j \in ToSet(PageOf(list)) : Wanted(j)}) :
               found' = found \o wanted
      BY <3>1
    <3>3. L \in SUBSET Jobs OBVIOUS
    <3> HIDE DEF L
    <3>4. wanted \in Seq(Jobs) BY <2>2, <3>3, WantedJobs
    <3> QED BY <3>2, <3>4 DEF TypeOK
  <2>5. OK BY <2>1, <2>2, <2>3, <2>4 DEF TypeOK
  <2> QED BY <2>5, <1>2
<1> QED BY <1>3, <1>4, <1>5, <1>6

\* The head and the tail of the list of jobs to dispatch.
LEMMA FoundParts ==
  ASSUME Typed, found # <<>>
  PROVE  /\ Head(found) \in Jobs /\ Tail(found) \in Seq(Jobs)
         /\ Len(found) \in Nat \ {0} /\ Head(found) = found[1]
         /\ Len(Tail(found)) = Len(found) - 1
         /\ \A i \in 1..Len(Tail(found)) : i + 1 \in 1..Len(found) /\ Tail(found)[i] = found[i + 1]
<1>1. found \in Seq(Jobs) BY DEF Typed, TypeOK
<1> QED BY <1>1

\* A dispatch, and what comes of it.
LEMMA DispatchTyped ==
  ASSUME Typed, Skip \/ Dispatch \/ DispatchMisread \/ SaveRecord \/ SaveFails \/ Claims
  PROVE  Typed'
<1> USE DEF Typed, config, github, memory, scan, history
<1>1. CASE Skip
  <2>1. Tail(found) \in Seq(Jobs) BY <1>1, FoundParts DEF Skip
  <2>2. TypeOK' BY <1>1, <2>1 DEF Skip, TypeOK
  <2> QED BY <1>1, <2>2 DEF Skip, CurInv, PageInv
<1>2. CASE Dispatch \/ DispatchMisread
  <2> USE DEF Dispatch, DispatchMisread, Create
  <2>1. Head(found) \in Jobs /\ Tail(found) \in Seq(Jobs) BY <1>2, FoundParts
  <2>2. guest' \in [Jobs -> {"none", "up", "over", "gone"}] BY <1>2, <2>1 DEF TypeOK
  <2>3. doubled' \subseteq Jobs /\ misread' \subseteq Jobs BY <1>2, <2>1 DEF TypeOK
  <2>4. faults' \in 0 .. MaxFaults BY <1>2 DEF Failure, TypeOK
  <2>5. \/ cur' \in Jobs /\ pc' = "save"
        \/ UNCHANGED <<cur, pc>> /\ pc = "claim"
    BY <1>2, <2>1
  <2>6. UNCHANGED <<config, github, disk, mem, token, known, refreshed, tailing, ripe, page, got,
                    unsaved>> /\ found' = Tail(found)
    BY <1>2
  <2>7. TypeOK' BY <2>1, <2>2, <2>3, <2>4, <2>5, <2>6 DEF TypeOK
  <2> QED BY <2>5, <2>6, <2>7 DEF CurInv, PageInv
<1>3. CASE SaveRecord
  <2>1. cur \in Jobs BY <1>3 DEF SaveRecord, CurInv
  <2>2. disk' \in [Jobs -> {"none", "open", "terminal"}] BY <1>3, <2>1 DEF SaveRecord, TypeOK
  <2>3. mem' \in [Jobs -> {"none", "open", "terminal"}] BY <1>3, <2>1 DEF SaveRecord, TypeOK
  <2>4. pc' \in {"job", "claim"} /\ (pc' = "job" => cur' = cur) /\ cur' \in Jobs \cup {NoJob}
    BY <1>3, <2>1 DEF SaveRecord
  <2>5. ripe' \subseteq Jobs /\ found' \in Seq(Jobs) /\ page' \in Nat \ {0}
    <3>1. Forget \/ UNCHANGED <<ripe, found, page>> BY <1>3 DEF SaveRecord
    <3>2. CASE Forget BY <3>2 DEF Forget
    <3>3. CASE UNCHANGED <<ripe, found, page>> BY <3>3 DEF TypeOK, PageInv
    <3> QED BY <3>1, <3>2, <3>3
  <2>6. UNCHANGED <<config, github, guest, token, known, refreshed, tailing, faults, history>>
    BY <1>3 DEF SaveRecord
  <2>7. TypeOK' BY <2>2, <2>3, <2>4, <2>5, <2>6 DEF TypeOK
  <2> QED BY <2>1, <2>4, <2>5, <2>7 DEF CurInv, PageInv
<1>4. CASE SaveFails
  <2>1. unsaved' \subseteq Jobs BY <1>4 DEF SaveFails, CurInv, TypeOK
  <2>2. faults' \in 0 .. MaxFaults BY <1>4 DEF SaveFails, Failure, TypeOK
  <2>3. TypeOK' BY <1>4, <2>1, <2>2 DEF SaveFails, TypeOK
  <2> QED BY <1>4, <2>3 DEF SaveFails, CurInv, PageInv
<1>5. CASE Claims
  <2>1. TypeOK' BY <1>5 DEF Claims, Forget, TypeOK
  <2> QED BY <1>5, <2>1 DEF Claims, Forget, CurInv, PageInv
<1> QED BY <1>1, <1>2, <1>3, <1>4, <1>5

\* What becomes of the jobs in flight, and the pause between two ticks.
LEMMA FlightTyped ==
  ASSUME Typed,
         \/ Settle \/ BeginCleanup \/ Destroy \/ DeleteRecord
         \/ (\E j \in Jobs : Resume(j) \/ TailJob(j)) \/ Tailed \/ Resumed \/ Sleep
  PROVE  Typed'
<1> USE DEF Typed, config, github, memory, scan, history
<1>1. CASE \/ Settle \/ BeginCleanup \/ Destroy \/ DeleteRecord \/ Resumed
           \/ \E j \in Jobs : Resume(j)
  <2> USE DEF Settle, BeginCleanup, Destroy, DeleteRecord, Resumed, Resume, EndJob
  <2>1. disk' \in [Jobs -> {"none", "open", "terminal"}]
    <3>1. UNCHANGED disk \/ \E k \in Jobs \cup {NoJob}, p \in {"none", "open", "terminal"} :
             disk' = [disk EXCEPT ![k] = p]
      BY <1>1 DEF TypeOK
    <3> QED BY <3>1 DEF TypeOK
  <2>2. guest' \in [Jobs -> {"none", "up", "over", "gone"}]
    <3>1. UNCHANGED guest \/ guest' = [guest EXCEPT ![cur] = "gone"] BY <1>1
    <3> QED BY <3>1 DEF TypeOK
  <2>3. faults' \in 0 .. MaxFaults
    <3>1. UNCHANGED faults \/ Failure BY <1>1
    <3> QED BY <3>1 DEF Failure, TypeOK
  <2>4. \/ pc' \in {"cleaning", "destroy", "delete"} /\ cur' = cur /\ cur \in Jobs
        \/ pc' = "job" /\ cur' \in Jobs
        \/ pc' \in {"resume", "tick"} /\ cur' \in Jobs \cup {NoJob}
    BY <1>1 DEF TypeOK, CurInv
  <2>5. /\ tailing' \subseteq Jobs
        /\ UNCHANGED <<config, github, mem, token, known, refreshed, scan, history>>
    BY <1>1 DEF TypeOK
  <2>6. TypeOK' BY <2>1, <2>2, <2>3, <2>4, <2>5 DEF TypeOK
  <2> QED BY <2>4, <2>5, <2>6 DEF CurInv, PageInv
<1>2. ASSUME NEW j \in Jobs, TailJob(j) PROVE Typed'
  <2>1. disk' \in [Jobs -> {"none", "open", "terminal"}] BY <1>2 DEF TailJob, TypeOK
  <2>2. mem' \in [Jobs -> {"none", "open", "terminal"}] BY <1>2 DEF TailJob, TypeOK
  <2>3. faults' \in 0 .. MaxFaults BY <1>2 DEF TailJob, Failure, TypeOK
  <2>4. tailing' \subseteq Jobs
        /\ UNCHANGED <<config, github, guest, token, known, refreshed, cur, scan, pc, history>>
    BY <1>2 DEF TailJob, TypeOK
  <2>5. TypeOK' BY <2>1, <2>2, <2>3, <2>4 DEF TypeOK
  <2> QED BY <2>4, <2>5 DEF CurInv, PageInv
<1>3. CASE Tailed \/ Sleep
  <2>1. pc' \in {"resume", "tick", "sleep"}
        /\ UNCHANGED <<config, github, guest, disk, token, known, refreshed, cur, scan, faults,
                       history>>
    BY <1>3 DEF Tailed, Sleep
  <2>2. mem' \in [Jobs -> {"none", "open", "terminal"}] /\ tailing' \subseteq Jobs
    BY <1>3 DEF Tailed, Sleep, TypeOK
  <2>3. TypeOK' BY <2>1, <2>2 DEF TypeOK
  <2> QED BY <2>1, <2>3 DEF CurInv, PageInv
<1> QED BY <1>1, <1>2, <1>3

\* Every step keeps the types.
LEMMA NextTyped == Typed /\ [Next]_vars => Typed'
<1> SUFFICES ASSUME Typed, [Next]_vars PROVE Typed' OBVIOUS
<1>1. CASE UNCHANGED vars
  <2>1. UNCHANGED <<config, github, guest, disk, memory, pc, faults, history>> BY <1>1 DEF vars
  <2>2. TypeOK' BY <2>1 DEF Typed, TypeOK, config, github, memory, scan, history
  <2> QED BY <2>1, <2>2 DEF Typed, CurInv, PageInv, memory, scan
<1>2. CASE BrokerStep
  BY <1>2, ProcessTyped, ScanTyped, PollErrorTyped, DispatchTyped, FlightTyped DEF BrokerStep
<1>3. CASE GitHubStep \/ TimePasses \/ \E j \in Jobs : GuestLost(j)
  BY <1>3, WorldTyped DEF GitHubStep
<1>4. CASE DispatchMisread \/ SaveFails \/ Crash \/ \E e \in Errors : PollFails(e)
  BY <1>4, DispatchTyped, ProcessTyped, PollErrorTyped
<1> QED BY <1>1, <1>2, <1>3, <1>4 DEF Next

-----------------------------------------------------------------------------
(* The stages of a job with a runner.                                      *)

Stage == RunnerInv /\ GoneInv

\* A sandbox that was destroyed stays so until the record is deleted.
LEMMA StageKept ==
  ASSUME Typed, Stage, UNCHANGED runner, pc' \in AtWork => runner,
         pc' = "delete" => /\ pc = "delete" /\ cur' = cur
                           /\ \A j \in Jobs : guest'[j] = "up" => guest[j] = "up"
  PROVE  Stage'
<1>1. RunnerInv' BY DEF RunnerInv, AtWork
<1>2. GoneInv' BY DEF Stage, GoneInv, Typed, CurInv
<1> QED BY <1>1, <1>2 DEF Stage

\* The broker is not running.
LEMMA InitStage == Init => Stage
  BY DEF Init, Stage, RunnerInv, GoneInv, AtWork

\* Every step keeps the stages.
LEMMA NextStage == Typed /\ Stage /\ [Next]_vars => Stage'
<1> SUFFICES ASSUME Typed, Stage, [Next]_vars PROVE Stage' OBVIOUS
<1> USE DEF config, memory, AtWork
<1>0. pc \in AtWork => runner BY DEF Stage, RunnerInv
<1>1. CASE UNCHANGED vars
  <2>1. UNCHANGED <<runner, pc, cur, guest>> BY <1>1 DEF vars
  <2> QED BY <1>0, <2>1, StageKept
<1>2. CASE GitHubStep \/ TimePasses \/ \E j \in Jobs : GuestLost(j)
  <2>1. UNCHANGED <<runner, pc, cur>>
    BY <1>2 DEF GitHubStep, JobAppears, JobStarts, JobEnds, GuestLost, Installed, TimePasses
  <2>2. \/ UNCHANGED guest
        \/ \E k \in Jobs, g \in {"over", "gone"} : guest' = [guest EXCEPT ![k] = g]
    BY <1>2 DEF GitHubStep, JobAppears, JobStarts, JobEnds, GuestLost, Installed, TimePasses
  <2>3. \A j \in Jobs : guest'[j] = "up" => guest[j] = "up" BY <2>2 DEF Typed, TypeOK
  <2> QED BY <1>0, <2>1, <2>3, StageKept
<1>3. CASE Destroy
  <2>1. UNCHANGED runner /\ runner /\ cur \in Jobs
    BY <1>0, <1>3 DEF Destroy, Typed, CurInv
  <2>2. pc' = "delete" => guest' = [guest EXCEPT ![cur] = "gone"] /\ cur' = cur
    BY <1>3 DEF Destroy, EndJob
  <2>3. RunnerInv' BY <2>1 DEF RunnerInv
  <2>4. GoneInv' BY <2>1, <2>2 DEF GoneInv, Typed, TypeOK
  <2> QED BY <2>3, <2>4 DEF Stage
<1>4. CASE \/ Settle \/ BeginCleanup \/ DeleteRecord \/ Resumed \/ SaveRecord \/ Tailed
           \/ \E j \in Jobs : Resume(j)
  <2>1. UNCHANGED runner /\ pc' # "delete" /\ (pc' \in AtWork => runner)
    BY <1>0, <1>4 DEF Settle, BeginCleanup, DeleteRecord, Resumed, SaveRecord, Tailed, Resume, EndJob
  <2> QED BY <2>1, StageKept
<1>5. CASE \/ Boot \/ StartTick \/ ListRepos \/ ListRuns \/ ListJobs \/ Skip \/ Dispatch
           \/ DispatchMisread \/ SaveFails \/ Claims \/ Sleep \/ Crash \/ TokenRejected
           \/ (\E e \in Errors : PollFails(e)) \/ \E j \in Jobs : TailJob(j)
  <2>1. UNCHANGED runner /\ pc' \notin AtWork
    <3>1. CASE Boot \/ StartTick \/ ListRepos \/ ListRuns \/ ListJobs
      BY <3>1 DEF Boot, StartTick, ListRepos, ListRuns, ListJobs, Goto
    <3>2. CASE Skip \/ Dispatch \/ DispatchMisread \/ SaveFails \/ Claims \/ Sleep
      BY <3>2 DEF Skip, Dispatch, DispatchMisread, Create, SaveFails, Claims, Sleep
    <3>3. CASE \/ Crash \/ TokenRejected \/ (\E e \in Errors : PollFails(e))
               \/ \E j \in Jobs : TailJob(j)
      BY <3>3 DEF Crash, TokenRejected, PollFails, PollError, Exit, TailJob
    <3> QED BY <1>5, <3>1, <3>2, <3>3
  <2> QED BY <2>1, StageKept
<1> QED BY <1>1, <1>2, <1>3, <1>4, <1>5 DEF Next, BrokerStep

-----------------------------------------------------------------------------
(* One sandbox per job.                                                    *)

Boxes == DiskInv /\ MemInv /\ OneSandboxPerJob

\* A sandbox that is up was up before, its record still claims the job, and what
\* was unrecorded still is.
LEMMA BoxesKept ==
  ASSUME Boxes, UNCHANGED <<runner, doubled>>, unsaved \subseteq unsaved', misread \subseteq misread',
         pc' # "down" => pc # "down",
         \A j \in Jobs : guest'[j] = "up" => guest[j] = "up",
         \A j \in Jobs : pc = "save" /\ cur = j =>
             (pc' = "save" /\ cur' = j) \/ j \in unsaved',
         \A j \in Jobs : guest'[j] = "up" /\ Recorded(j) => Recorded(j)',
         \A j \in Jobs : pc' # "down" /\ guest'[j] = "up" /\ mem[j] = "open" => mem'[j] = "open"
  PROVE  Boxes'
<1>1. \A j \in Jobs : Unrecorded(j) => Unrecorded(j)' BY DEF Unrecorded
<1>2. DiskInv' BY <1>1 DEF Boxes, DiskInv
<1>3. MemInv' BY <1>1 DEF Boxes, MemInv
<1>4. OneSandboxPerJob' BY DEF Boxes, OneSandboxPerJob
<1> QED BY <1>2, <1>3, <1>4 DEF Boxes

\* The same for a step that leaves the records alone.
LEMMA BoxesKeptDisk ==
  ASSUME Boxes, UNCHANGED <<runner, doubled, disk>>, unsaved \subseteq unsaved',
         misread \subseteq misread', pc' # "down" => pc # "down",
         \A j \in Jobs : guest'[j] = "up" => guest[j] = "up",
         \A j \in Jobs : pc = "save" /\ cur = j =>
             (pc' = "save" /\ cur' = j) \/ j \in unsaved',
         \A j \in Jobs : pc' # "down" /\ guest'[j] = "up" /\ mem[j] = "open" => mem'[j] = "open"
  PROVE  Boxes'
<1>1. \A j \in Jobs : Recorded(j) => Recorded(j)' BY DEF Recorded
<1> QED BY <1>1, BoxesKept

\* There is no sandbox.
LEMMA InitBoxes == Init => Boxes
  BY DEF Init, Boxes, DiskInv, MemInv, OneSandboxPerJob

\* What GitHub, time and the host do makes no sandbox.
LEMMA WorldBoxes ==
  ASSUME Typed, Boxes,
         \/ \E j \in Jobs : JobAppears(j) \/ JobStarts(j) \/ JobEnds(j) \/ GuestLost(j)
         \/ \E r \in Repos : Installed(r)
         \/ TimePasses
  PROVE  Boxes'
<1>1. UNCHANGED <<runner, doubled, unsaved, misread, pc, cur, disk, mem>>
  BY DEF JobAppears, JobStarts, JobEnds, GuestLost, Installed, TimePasses, config, memory, history
<1>2. \A j \in Jobs : guest'[j] = "up" => guest[j] = "up"
  <2>1. \/ UNCHANGED guest
        \/ \E k \in Jobs, g \in {"over", "gone"} : guest' = [guest EXCEPT ![k] = g]
    BY DEF JobAppears, JobStarts, JobEnds, GuestLost, Installed, TimePasses
  <2>2. guest \in [Jobs -> {"none", "up", "over", "gone"}] BY DEF Typed, TypeOK
  <2> QED BY <2>1, <2>2
<1> QED BY <1>1, <1>2, BoxesKeptDisk

\* A process that ends leaves the records, and if it was about to write one,
\* a sandbox without.
LEMMA ExitBoxes ==
  ASSUME Boxes, Exit, UNCHANGED <<runner, misread, doubled, guest, disk>>,
         unsaved' = unsaved \cup (IF pc = "save" THEN {cur} ELSE {})
  PROVE  Boxes'
<1>1. pc' = "down" BY DEF Exit
<1>2. unsaved \subseteq unsaved' /\ (pc = "save" => cur \in unsaved') OBVIOUS
<1> QED BY <1>1, <1>2, BoxesKeptDisk

\* A broker that starts reads the records.
LEMMA BootBoxes ==
  ASSUME Typed, Boxes, Boot
  PROVE  Boxes'
<1>1. UNCHANGED <<runner, doubled, misread, unsaved, guest, disk, cur>>
      /\ pc = "down" /\ pc' = "startup"
  BY DEF Boot, config, history
<1>2. \A j \in Jobs : mem'[j] = IF disk[j] = "open" THEN "open" ELSE "none" BY DEF Boot
<1>3. \A j \in Jobs : Unrecorded(j) => Unrecorded(j)' BY <1>1 DEF Unrecorded
<1>4. \A j \in Jobs : guest[j] = "up" => Unrecorded(j) \/ Recorded(j) BY DEF Boxes, DiskInv
<1>5. DiskInv' BY <1>1, <1>3, <1>4 DEF DiskInv, Recorded
<1>6. MemInv' BY <1>1, <1>2, <1>3, <1>4 DEF MemInv, Recorded
<1>7. OneSandboxPerJob' BY <1>1 DEF Boxes, OneSandboxPerJob
<1> QED BY <1>5, <1>6, <1>7 DEF Boxes

\* A poll that fails, for whatever reason.
LEMMA PollErrorBoxes ==
  ASSUME Boxes, TokenRejected \/ \E e \in Errors : PollFails(e)
  PROVE  Boxes'
<1>1. /\ pc \in {"repos", "runs", "jobs"}
      /\ UNCHANGED <<runner, guest, disk, unsaved, misread, doubled>>
  BY DEF TokenRejected, PollFails, config, history
<1>2. PICK e : PollError(e) BY DEF TokenRejected, PollFails
<1>3. CASE Exit BY <1>1, <1>3, ExitBoxes
<1>4. CASE pc' = "sleep" /\ UNCHANGED <<mem, cur>> BY <1>1, <1>4, BoxesKeptDisk
<1> QED BY <1>2, <1>3, <1>4 DEF PollError

\* The scan and the pauses touch neither sandbox nor record.
LEMMA QuietBoxes ==
  ASSUME Boxes, \/ StartTick \/ ListRepos \/ ListRuns \/ ListJobs \/ Skip \/ Claims
                \/ Sleep \/ Resumed
  PROVE  Boxes'
<1>1. UNCHANGED <<runner, guest, disk, mem, cur, unsaved, misread, doubled>>
  BY DEF StartTick, ListRepos, ListRuns, ListJobs, Skip, Claims, Sleep, Resumed, config, memory,
         history
<1>2. pc \notin {"save", "down"}
  BY DEF StartTick, ListRepos, ListRuns, ListJobs, Skip, Claims, Sleep, Resumed
<1> QED BY <1>1, <1>2, BoxesKeptDisk

\* The list is emptied only of a broker with runners, which looks at the disk.
LEMMA TailedBoxes ==
  ASSUME Boxes, Tailed
  PROVE  Boxes'
<1>1. UNCHANGED <<runner, guest, disk, cur, unsaved, misread, doubled>>
      /\ pc \notin {"save", "down"} /\ pc' # "save" /\ (~runner => UNCHANGED mem)
  BY DEF Tailed, config, history
<1>2. DiskInv' BY <1>1 DEF Boxes, DiskInv, Unrecorded, Recorded
<1>3. MemInv' BY <1>1 DEF Boxes, MemInv, Unrecorded
<1>4. OneSandboxPerJob' BY <1>1 DEF Boxes, OneSandboxPerJob
<1> QED BY <1>2, <1>3, <1>4 DEF Boxes

\* A new sandbox is unrecorded, and the job's only one unless the one before it
\* is accounted for.
LEMMA CreateBoxes ==
  ASSUME Typed, Boxes, NEW h \in Jobs, Create(h), pc = "claim",
         UNCHANGED <<runner, disk, mem, unsaved>>, misread \subseteq misread',
         guest[h] = "up" => h \in unsaved \cup misread'
  PROVE  Boxes'
<1> USE DEF Create
<1>1. \A j \in Jobs : Unrecorded(j) => Unrecorded(j)' BY DEF Unrecorded
<1>2. Unrecorded(h)' BY DEF Unrecorded
<1>3. \A j \in Jobs : j # h => guest'[j] = guest[j] BY DEF Typed, TypeOK
<1>4. DiskInv' BY <1>1, <1>2, <1>3 DEF Boxes, DiskInv, Recorded
<1>5. MemInv' BY <1>1, <1>2, <1>3 DEF Boxes, MemInv
<1>6. OneSandboxPerJob' BY DEF Boxes, OneSandboxPerJob
<1> QED BY <1>4, <1>5, <1>6 DEF Boxes

\* A job that is dispatched has no record that claims it, so any sandbox of it
\* that is up went unrecorded; or its record did not load.
LEMMA DispatchBoxes ==
  ASSUME Typed, Boxes, Dispatch \/ DispatchMisread
  PROVE  Boxes'
<1>1. UNCHANGED <<runner, disk, mem, unsaved>> /\ pc = "claim"
  BY DEF Dispatch, DispatchMisread, config
<1>2. PICK h \in Jobs : h = Head(found) BY FoundParts DEF Dispatch, DispatchMisread
<1>3. CASE DispatchMisread
  <2>1. Create(h) /\ misread' = misread \cup {h} BY <1>2, <1>3 DEF DispatchMisread
  <2> QED BY <1>1, <2>1, CreateBoxes
<1>4. CASE Dispatch
  <2>1. UNCHANGED misread /\ ~Claimed(h) BY <1>2, <1>4 DEF Dispatch
  <2>2. CASE UNCHANGED <<guest, doubled, cur, pc>> BY <1>1, <2>1, <2>2, BoxesKeptDisk
  <2>3. CASE Create(h)
    <3>1. ASSUME guest[h] = "up" PROVE h \in unsaved
      <4>1. ~Unrecorded(h) => Recorded(h) BY <3>1 DEF Boxes, DiskInv
      <4>2. ~Unrecorded(h) /\ ~runner => mem[h] = "open" BY <1>1, <3>1 DEF Boxes, MemInv
      <4>3. Unrecorded(h) BY <2>1, <4>1, <4>2 DEF Claimed, Recorded
      <4> QED BY <1>1, <4>3 DEF Unrecorded
    <3> QED BY <1>1, <2>1, <2>3, <3>1, CreateBoxes
  <2> QED BY <1>2, <1>4, <2>2, <2>3 DEF Dispatch
<1> QED BY <1>3, <1>4

\* The record is saved, or the sandbox goes without.
LEMMA SaveBoxes ==
  ASSUME Typed, Boxes, SaveRecord \/ SaveFails
  PROVE  Boxes'
<1>1. UNCHANGED <<runner, guest, misread, doubled>> /\ pc = "save" /\ cur \in Jobs
  BY DEF SaveRecord, SaveFails, config, history, Typed, CurInv
<1>2. CASE SaveFails
  <2>1. UNCHANGED <<disk, mem>> /\ unsaved' = unsaved \cup {cur} /\ pc' = "claim"
    BY <1>2 DEF SaveFails
  <2> QED BY <1>1, <2>1, BoxesKeptDisk
<1>3. CASE SaveRecord
  <2>1. /\ disk' = [disk EXCEPT ![cur] = "open"] /\ pc' \in {"job", "claim"} /\ UNCHANGED unsaved
        /\ ~runner => mem' = [mem EXCEPT ![cur] = "open"]
    BY <1>3 DEF SaveRecord, history
  <2>2. \A j \in Jobs : disk'[j] = IF j = cur THEN "open" ELSE disk[j]
    BY <2>1 DEF Typed, TypeOK
  <2>3. ~runner => \A j \in Jobs : mem'[j] = IF j = cur THEN "open" ELSE mem[j]
    BY <2>1 DEF Typed, TypeOK
  <2>4. \A j \in Jobs : j # cur /\ Unrecorded(j) => Unrecorded(j)'
    BY <2>1 DEF Unrecorded
  <2>5. DiskInv' BY <1>1, <2>2, <2>4 DEF Boxes, DiskInv, Recorded
  <2>6. MemInv' BY <1>1, <2>3, <2>4 DEF Boxes, MemInv
  <2>7. OneSandboxPerJob' BY <1>1, <2>1 DEF Boxes, OneSandboxPerJob
  <2> QED BY <2>5, <2>6, <2>7 DEF Boxes
<1> QED BY <1>2, <1>3

\* With runners the record outlives the sandbox, whatever its phase.
LEMMA RunBoxes ==
  ASSUME Typed, Stage, Boxes,
         \/ Settle \/ BeginCleanup \/ Destroy \/ DeleteRecord
         \/ \E j \in Jobs : Resume(j)
  PROVE  Boxes'
<1> USE DEF Settle, BeginCleanup, Destroy, DeleteRecord, Resume, EndJob
<1>1. UNCHANGED <<runner, mem, unsaved, misread, doubled>> /\ pc \in AtWork /\ pc' # "down"
  BY DEF config, history, memory, AtWork
<1>2. runner /\ pc \notin {"save", "down"} BY <1>1 DEF Stage, RunnerInv, AtWork
<1>3. \A j \in Jobs : guest'[j] = "up" => guest[j] = "up"
  <2>1. UNCHANGED guest \/ guest' = [guest EXCEPT ![cur] = "gone"] OBVIOUS
  <2> QED BY <2>1 DEF Typed, TypeOK
<1>4. \A j \in Jobs : guest'[j] = "up" /\ disk[j] # "none" => disk'[j] # "none"
  <2>1. \/ \E k \in Jobs \cup {NoJob}, p \in {"open", "terminal"} :
             disk' = [disk EXCEPT ![k] = p]
        \/ UNCHANGED disk
        \/ pc = "delete" /\ disk' = [disk EXCEPT ![cur] = "none"] /\ UNCHANGED guest
    BY DEF Typed, TypeOK
  <2>2. pc = "delete" => guest[cur] # "up" BY DEF Stage, GoneInv
  <2> QED BY <2>1, <2>2 DEF Typed, TypeOK
<1>5. \A j \in Jobs : guest'[j] = "up" /\ Recorded(j) => Recorded(j)'
  BY <1>1, <1>2, <1>4 DEF Recorded
<1> QED BY <1>1, <1>2, <1>3, <1>5, BoxesKept

\* A record becomes terminal only when the log of the sandbox shows the end of a
\* job.
LEMMA TailBoxes ==
  ASSUME Typed, Boxes, NEW j \in Jobs, TailJob(j)
  PROVE  Boxes'
<1>1. UNCHANGED <<runner, unsaved, misread, doubled>> BY DEF TailJob, config, history
<1>2. guest \in [Jobs -> {"none", "up", "over", "gone"}]
      /\ disk \in [Jobs -> {"none", "open", "terminal"}]
      /\ mem \in [Jobs -> {"none", "open", "terminal"}]
  BY DEF Typed, TypeOK
<1>3. UNCHANGED <<guest, cur, pc>> /\ pc \notin {"save", "down"} BY DEF TailJob
<1>4. disk' = disk \/ (guest[j] = "over" /\ disk' = [disk EXCEPT ![j] = "terminal"])
  BY DEF TailJob, LogShowsEnd
<1>5. mem' = mem \/ (guest[j] = "over" /\ mem' = [mem EXCEPT ![j] = "terminal"])
  BY DEF TailJob, LogShowsEnd
<1>6. \A k \in Jobs : guest[k] = "up" => disk'[k] = disk[k] /\ mem'[k] = mem[k]
  BY <1>2, <1>4, <1>5
<1>7. \A k \in Jobs : guest'[k] = "up" /\ Recorded(k) => Recorded(k)'
  BY <1>1, <1>3, <1>6 DEF Recorded
<1> QED BY <1>1, <1>3, <1>6, <1>7, BoxesKept

\* Every step keeps one sandbox per job.
LEMMA NextBoxes == Typed /\ Stage /\ Boxes /\ [Next]_vars => Boxes'
<1> SUFFICES ASSUME Typed, Stage, Boxes, [Next]_vars PROVE Boxes' OBVIOUS
<1>1. CASE UNCHANGED vars
  <2>1. UNCHANGED <<runner, guest, disk, mem, cur, pc, unsaved, misread, doubled>>
    BY <1>1 DEF vars, config, memory, history
  <2> QED BY <2>1, BoxesKeptDisk
<1>2. CASE Crash
  <2>1. Exit /\ UNCHANGED <<runner, misread, doubled, guest, disk>>
        /\ unsaved' = unsaved \cup (IF pc = "save" THEN {cur} ELSE {})
    BY <1>2 DEF Crash, config
  <2> QED BY <2>1, ExitBoxes
<1>3. CASE BrokerStep
  BY <1>3, BootBoxes, QuietBoxes, PollErrorBoxes, DispatchBoxes, SaveBoxes, TailedBoxes,
     RunBoxes, TailBoxes DEF BrokerStep
<1>4. CASE GitHubStep \/ TimePasses \/ \E j \in Jobs : GuestLost(j)
  BY <1>4, WorldBoxes DEF GitHubStep
<1>5. CASE DispatchMisread \/ SaveFails \/ \E e \in Errors : PollFails(e)
  BY <1>5, DispatchBoxes, SaveBoxes, PollErrorBoxes
<1> QED BY <1>1, <1>2, <1>3, <1>4, <1>5 DEF Next

-----------------------------------------------------------------------------
(* The fallback delay.                                                     *)

Waits == RipeInv /\ FoundInv

\* Jobs only grow older, and what the tick knows shrinks or stays.
LEMMA WaitsKept ==
  ASSUME Typed, Waits, UNCHANGED world,
         \A j \in Jobs : age'[j] >= age[j], age' \in [Jobs -> 0 .. FallbackDelay],
         ripe' \in {ripe, {}}, found' \in {found, <<>>}
  PROVE  Waits'
<1>1. \A j \in Jobs : age[j] >= FallbackDelay => age'[j] >= FallbackDelay
  BY DEF Typed, TypeOK
<1>2. RipeInv' BY <1>1 DEF Waits, RipeInv, Typed, TypeOK
<1>3. \A j \in Jobs : Waited(j) => Waited(j)' BY <1>1 DEF Waited, Configured
<1>4. FoundInv'
  <2>1. CASE found' = <<>> BY <2>1 DEF FoundInv
  <2>2. CASE found' = found
    <3>1. \A i \in 1..Len(found) : found[i] \in Jobs BY DEF Typed, TypeOK
    <3> QED BY <1>3, <2>2, <3>1 DEF Waits, FoundInv
  <2> QED BY <2>1, <2>2
<1> QED BY <1>2, <1>4 DEF Waits

\* No tick has begun.
LEMMA InitWaits == Init => Waits
  BY DEF Init, Waits, RipeInv, FoundInv

\* The steps that are not part of a scan, or forget it.
LEMMA OtherWaits ==
  ASSUME Typed, Waits, UNCHANGED <<world, age>>, ripe' \in {ripe, {}}, found' \in {found, <<>>}
  PROVE  Waits'
<1>1. age \in [Jobs -> 0 .. FallbackDelay] BY DEF Typed, TypeOK
<1>2. \A j \in Jobs : age[j] >= age[j] BY <1>1
<1> QED BY <1>1, <1>2, WaitsKept

\* Time passes.
LEMMA TimeWaits ==
  ASSUME Typed, Waits, TimePasses
  PROVE  Waits'
<1>1. \A j \in Jobs : age[j] \in 0 .. FallbackDelay BY DEF Typed, TypeOK
<1>2. age' = [j \in Jobs |-> IF status[j] = "queued" /\ age[j] < FallbackDelay
                             THEN age[j] + 1 ELSE age[j]]
  BY DEF TimePasses
<1>3. \A j \in Jobs : age'[j] \in 0 .. FallbackDelay /\ age'[j] >= age[j] BY <1>1, <1>2
<1>4. age' \in [Jobs -> 0 .. FallbackDelay] BY <1>2, <1>3
<1>5. UNCHANGED <<world, ripe, found>> BY DEF TimePasses, config, scan
<1> QED BY <1>3, <1>4, <1>5, WaitsKept

\* A tick takes for old enough what is, by the clock of GitHub.
LEMMA StartWaits ==
  ASSUME Typed, StartTick
  PROVE  Waits'
<1>1. ripe' = Ripe /\ found' = <<>> /\ UNCHANGED age BY DEF StartTick, github
<1>2. RipeInv' BY <1>1 DEF RipeInv, Ripe
<1>3. FoundInv' BY <1>1 DEF FoundInv
<1> QED BY <1>2, <1>3 DEF Waits

\* The jobs of a page that are added have waited.
LEMMA ListJobsWaits ==
  ASSUME Typed, Waits, ListJobs
  PROVE  Waits'
<1> DEFINE L == {j \in Jobs : world.runOf[j] = Head(runs) /\ status[j] # "absent"}
<1>1. UNCHANGED <<world, age, ripe>> BY DEF ListJobs, config, github
<1>2. page \in Nat \ {0} /\ found \in Seq(Jobs) BY DEF Typed, TypeOK, PageInv
<1>3. PICK list \in Ascending(L) :
        \E wanted \in Ascending({j \in ToSet(PageOf(list)) : Wanted(j)}) :
           found' = found \o wanted
  BY DEF ListJobs
<1>4. PICK wanted \in Ascending({j \in ToSet(PageOf(list)) : Wanted(j)}) :
           found' = found \o wanted
  BY <1>3
<1>5. L \in SUBSET Jobs OBVIOUS
<1> HIDE DEF L
<1>6. wanted \in Seq(Jobs) /\ \A k \in 1..Len(wanted) : Wanted(wanted[k])
  BY <1>2, <1>5, WantedJobs
<1>7. ASSUME NEW j, Wanted(j) PROVE Waited(j)
  <2>1. IsEligible(j) BY <1>7 DEF Wanted
  <2>2. j \in ripe => age[j] >= FallbackDelay BY DEF Waits, RipeInv
  <2> QED BY <2>1, <2>2 DEF IsEligible, Waited
<1>8. \A j : Waited(j)' <=> Waited(j) BY <1>1 DEF Waited, Configured
<1>9. RipeInv' BY <1>1 DEF Waits, RipeInv
<1>10. FoundInv'
  <2>1. \A i \in 1..Len(found) : Waited(found[i]) BY DEF Waits, FoundInv
  <2>2. \A k \in 1..Len(wanted) : Waited(wanted[k]) BY <1>6, <1>7
  <2>3. \A i \in 1..Len(found \o wanted) :
           \/ i \in 1..Len(found) /\ (found \o wanted)[i] = found[i]
           \/ \E k \in 1..Len(wanted) : (found \o wanted)[i] = wanted[k]
    BY <1>2, <1>6, ConcatElements
  <2>4. \A i \in 1..Len(found \o wanted) : Waited((found \o wanted)[i]) BY <2>1, <2>2, <2>3
  <2> QED BY <1>4, <1>8, <2>4 DEF FoundInv
<1> QED BY <1>9, <1>10 DEF Waits

\* What is passed over or dispatched is taken from the list.
LEMMA TakeWaits ==
  ASSUME Typed, Waits, Skip \/ Dispatch \/ DispatchMisread
  PROVE  Waits'
<1>1. UNCHANGED <<world, age, ripe>> /\ found # <<>> /\ found' = Tail(found)
  BY DEF Skip, Dispatch, DispatchMisread, config, github
<1>2. \A j : Waited(j)' <=> Waited(j) BY <1>1 DEF Waited, Configured
<1>3. RipeInv' BY <1>1 DEF Waits, RipeInv
<1>4. \A i \in 1..Len(Tail(found)) : i + 1 \in 1..Len(found) /\ Tail(found)[i] = found[i + 1]
  BY <1>1, FoundParts
<1>5. \A i \in 1..Len(Tail(found)) : Waited(Tail(found)[i]) BY <1>4 DEF Waits, FoundInv
<1>6. FoundInv' BY <1>1, <1>2, <1>5 DEF FoundInv
<1> QED BY <1>3, <1>6 DEF Waits

\* Every step keeps what the tick takes for old enough old enough.
LEMMA NextWaits == Typed /\ Waits /\ [Next]_vars => Waits'
<1> SUFFICES ASSUME Typed, Waits, [Next]_vars PROVE Waits' OBVIOUS
<1> USE DEF config, github, memory, scan
<1>1. CASE UNCHANGED vars BY <1>1, OtherWaits DEF vars
<1>2. CASE GitHubStep \/ \E j \in Jobs : GuestLost(j)
  <2>1. UNCHANGED <<world, age, ripe, found>>
    BY <1>2 DEF GitHubStep, GuestLost, JobAppears, JobStarts, JobEnds, Installed
  <2> QED BY <2>1, OtherWaits
<1>3. CASE \/ Boot \/ ListRepos \/ ListRuns \/ Tailed \/ Sleep \/ SaveFails
           \/ Settle \/ BeginCleanup \/ Destroy \/ DeleteRecord \/ Resumed
           \/ \E j \in Jobs : Resume(j) \/ TailJob(j)
  <2>1. UNCHANGED <<world, age, ripe, found>>
    BY <1>3 DEF Boot, ListRepos, ListRuns, Tailed, Sleep, SaveFails, Settle, BeginCleanup,
                Destroy, DeleteRecord, Resumed, Resume, TailJob
  <2> QED BY <2>1, OtherWaits
<1>4. CASE Claims \/ SaveRecord \/ Crash \/ TokenRejected \/ \E e \in Errors : PollFails(e)
  <2>1. UNCHANGED <<world, age>>
    BY <1>4 DEF Claims, SaveRecord, Crash, TokenRejected, PollFails
  <2>2. Forget \/ UNCHANGED <<ripe, found>>
    BY <1>4 DEF Claims, SaveRecord, Crash, TokenRejected, PollFails, PollError, Exit
  <2>3. ripe' \in {ripe, {}} /\ found' \in {found, <<>>} BY <2>2 DEF Forget
  <2> QED BY <2>1, <2>3, OtherWaits
<1>5. CASE BrokerStep
  BY <1>3, <1>4, <1>5, StartWaits, ListJobsWaits, TakeWaits DEF BrokerStep
<1> QED BY <1>1, <1>2, <1>3, <1>4, <1>5, TakeWaits, TimeWaits DEF Next

-----------------------------------------------------------------------------

\* The invariant holds at first and after every step.
LEMMA InductiveInv == (Init => IInv) /\ (IInv /\ [Next]_vars => IInv')
<1>1. IInv <=> Typed /\ Stage /\ Boxes /\ Waits BY DEF IInv, Typed, Stage, Boxes, Waits
<1>2. IInv' <=> Typed' /\ Stage' /\ Boxes' /\ Waits' BY DEF IInv, Typed, Stage, Boxes, Waits
<1> QED BY <1>1, <1>2, InitTyped, InitStage, InitBoxes, InitWaits, NextTyped, NextStage,
           NextBoxes, NextWaits

\* IInv holds throughout every behaviour.
THEOREM Invariance == Spec => []IInv
  BY InductiveInv, PTL DEF Spec

\* Every variable keeps its type; what the scan adds up are jobs, however the
\* pages of a changing list overlap, and the job that a record is written for is
\* one.
THEOREM TypeCorrect == Spec => []TypeOK
<1>1. IInv => TypeOK BY DEF IInv
<1> QED BY <1>1, Invariance, PTL

\* run_broker gives a job a second sandbox while the first is at work only if
\* the first never got its record or its record did not load: not because its
\* record was deleted, or was in the wrong phase, while it was up.
THEOREM JobsHaveOneSandbox == Spec => []OneSandboxPerJob
<1>1. IInv => OneSandboxPerJob BY DEF IInv
<1> QED BY <1>1, Invariance, PTL

\* No job that only the fallback label matches is dispatched before it has
\* waited for the fallback delay.
THEOREM FallbackJobsWait == Spec => FallbackWaits
<1> DEFINE Late == \A j \in Jobs : pc = "claim" /\ pc' = "save" /\ cur' = j =>
                      \/ Configured(j) \ {FallbackLabel} # {}
                      \/ j \notin world.undated /\ age[j] >= FallbackDelay
<1>1. ASSUME IInv, [Next]_vars PROVE [Late]_vars
  <2> SUFFICES ASSUME NEW j \in Jobs, pc = "claim", pc' = "save", cur' = j PROVE Waited(j)
    BY DEF Waited
  <2>1. CASE Dispatch \/ DispatchMisread
    <3>1. j = Head(found) /\ found # <<>> BY <2>1 DEF Dispatch, DispatchMisread, Create
    <3>2. j = found[1] /\ Len(found) \in Nat \ {0}
      BY <1>1, <3>1, FoundParts DEF IInv, Typed
    <3>3. 1 \in 1..Len(found) BY <3>2
    <3> QED BY <1>1, <3>2, <3>3 DEF IInv, FoundInv
  <2>2. CASE ~(Dispatch \/ DispatchMisread)
    <3>1. pc' # "save" \/ pc # "claim"
      BY <1>1, <2>2 DEF Next, BrokerStep, GitHubStep, vars, Boot, StartTick, ListRepos, ListRuns,
         ListJobs, TokenRejected, Skip, SaveRecord, Claims, Tailed, Sleep, Settle, BeginCleanup,
         Destroy, DeleteRecord, Resume, Resumed, TailJob, JobAppears, JobStarts, JobEnds,
         Installed, TimePasses, SaveFails, Crash, PollFails, GuestLost, PollError, Exit
    <3> QED BY <3>1
  <2> QED BY <2>1, <2>2
<1>2. Spec => [][Late]_vars BY <1>1, Invariance, PTL DEF Spec
<1> QED BY <1>2 DEF FallbackWaits

-----------------------------------------------------------------------------
(* One broker.  Everything above is about a single run_broker; that there  *)
(* is no second one is what broker_lock is for, whose guard run_broker     *)
(* holds for its lifetime.  GuardsExclude is not inductive: two guards     *)
(* exclude each other because each holds the flock of the file it has open *)
(* and, unless its file was unlinked later, that file is the path's.       *)

\* Past open a process has a file; past flock it holds that file's lock.
GuardHolds == \A p \in Procs :
    /\ at[p] \in {"lock", "check", "held"} => fd[p] \in Inodes
    /\ at[p] \in {"check", "held"} => flock[fd[p]] = p

\* A guard not orphaned is on the file that the path names.
GuardCurrent == \A p \in Procs : at[p] = "held" /\ p \notin orphaned => path = fd[p]

\* While the path names nothing there is room for one more file.
GuardRoom == path = NoFile => made <= MaxUnlinks

GuardInv == LockTypeOK /\ GuardHolds /\ GuardCurrent /\ GuardRoom

USE BoundAssumption, NoFileAssumption DEF Inodes

\* No file, no process at work: the initial state satisfies GuardInv.
LEMMA InitGuard == LockInit => GuardInv
  BY DEF LockInit, GuardInv, LockTypeOK, GuardHolds, GuardCurrent, GuardRoom

\* Calling acquire or try_acquire touches no file.
LEMMA CallGuard ==
  ASSUME GuardInv, NEW p \in Procs, NEW m \in {"acquire", "try_acquire"}, Call(p, m)
  PROVE  GuardInv'
<1> USE DEF GuardInv, Call
<1>1. LockTypeOK' BY DEF LockTypeOK
<1>2. GuardHolds' BY DEF LockTypeOK, GuardHolds
<1>3. GuardCurrent' BY DEF LockTypeOK, GuardCurrent
<1>4. GuardRoom' BY DEF GuardRoom
<1> QED BY <1>1, <1>2, <1>3, <1>4

\* A file that open creates is the path's new file; no guard not orphaned is
\* open on an earlier one.
LEMMA OpenGuard ==
  ASSUME GuardInv, NEW p \in Procs, Open(p)
  PROVE  GuardInv'
<1> USE DEF GuardInv, Open
<1>1. path' \in Inodes /\ made' \in 0..(MaxUnlinks + 1)
  BY DEF LockTypeOK, GuardRoom
<1>2. LockTypeOK' BY <1>1 DEF LockTypeOK
<1>3. GuardHolds' BY <1>1 DEF LockTypeOK, GuardHolds
<1>4. GuardCurrent' BY <1>1 DEF LockTypeOK, GuardHolds, GuardCurrent
<1>5. GuardRoom' BY <1>1 DEF GuardRoom
<1> QED BY <1>2, <1>3, <1>4, <1>5

\* A free lock is taken from nobody.
LEMMA LockGuard ==
  ASSUME GuardInv, NEW p \in Procs, Lock(p)
  PROVE  GuardInv'
<1> USE DEF GuardInv, Lock
<1>1. LockTypeOK' BY DEF LockTypeOK, GuardHolds
<1>2. GuardHolds' BY DEF LockTypeOK, GuardHolds
<1>3. GuardCurrent' BY DEF LockTypeOK, GuardCurrent
<1>4. GuardRoom' BY DEF GuardRoom
<1> QED BY <1>1, <1>2, <1>3, <1>4

\* The comparison of the inodes is what makes the new guard current.
LEMMA GrantedGuard ==
  ASSUME GuardInv, NEW p \in Procs, Granted(p)
  PROVE  GuardInv'
<1> USE DEF GuardInv, Granted
<1>1. LockTypeOK' BY DEF LockTypeOK
<1>2. GuardHolds' BY DEF LockTypeOK, GuardHolds
<1>3. GuardCurrent' BY DEF LockTypeOK, GuardCurrent, StillSameFile
<1>4. GuardRoom' BY DEF GuardRoom
<1> QED BY <1>1, <1>2, <1>3, <1>4

\* Closing a descriptor, on whatever occasion, takes no lock from another process.
LEMMA CloseGuard ==
  ASSUME GuardInv, NEW p \in Procs, Close(p), UNCHANGED <<path, made, mode>>,
         at' \in {[at EXCEPT ![p] = "out"], [at EXCEPT ![p] = "open"]},
         orphaned' = orphaned \/ orphaned' = orphaned \ {p}
  PROVE  GuardInv'
<1> USE DEF GuardInv, Close
<1>1. LockTypeOK' BY DEF LockTypeOK
<1>2. at'[p] \in {"out", "open"} /\ \A q \in Procs : q # p => at'[q] = at[q] /\ fd'[q] = fd[q]
  BY DEF LockTypeOK
<1>3. GuardHolds'
  <2>1. \A n \in Inodes : flock[n] # p => flock'[n] = flock[n] OBVIOUS
  <2> QED BY <1>2, <2>1 DEF GuardHolds
<1>4. GuardCurrent' BY <1>2 DEF GuardCurrent
<1>5. GuardRoom' BY DEF GuardRoom
<1> QED BY <1>1, <1>3, <1>4, <1>5

\* Unlinking the file orphans every guard there is.
LEMMA UnlinkGuard ==
  ASSUME GuardInv, Unlink
  PROVE  GuardInv'
<1> USE DEF GuardInv, Unlink
<1>1. LockTypeOK' BY DEF LockTypeOK
<1>2. GuardHolds' BY DEF GuardHolds
<1>3. GuardCurrent' BY DEF GuardCurrent
<1>4. GuardRoom' BY DEF GuardRoom
<1> QED BY <1>1, <1>2, <1>3, <1>4

\* Every step preserves GuardInv.
LEMMA NextGuard == GuardInv /\ [LockNext]_lockVars => GuardInv'
<1> SUFFICES ASSUME GuardInv, [LockNext]_lockVars PROVE GuardInv'
  OBVIOUS
<1>1. CASE UNCHANGED lockVars
  BY <1>1 DEF GuardInv, lockVars, LockTypeOK, GuardHolds, GuardCurrent, GuardRoom
<1>2. ASSUME NEW p \in Procs,
             WouldBlock(p) \/ Stale(p) \/ Release(p) \/ Die(p)
      PROVE  GuardInv'
  <2>1. /\ Close(p) /\ UNCHANGED <<path, made, mode>>
        /\ at' \in {[at EXCEPT ![p] = "out"], [at EXCEPT ![p] = "open"]}
        /\ orphaned' = orphaned \/ orphaned' = orphaned \ {p}
    BY <1>2 DEF WouldBlock, Stale, Release, Die
  <2> QED BY <2>1, CloseGuard
<1>3. ASSUME NEW p \in Procs, Step(p) PROVE GuardInv'
  BY <1>2, <1>3, OpenGuard, LockGuard, GrantedGuard DEF Step
<1>4. CASE LockNext BY <1>2, <1>3, <1>4, CallGuard, UnlinkGuard DEF LockNext
<1> QED BY <1>1, <1>4

\* GuardInv holds throughout every behaviour.
THEOREM GuardInvariance == LockSpec => []GuardInv
  BY InitGuard, NextGuard, PTL DEF LockSpec

\* Every variable keeps its type; in particular the path never runs out of
\* inodes.
THEOREM LockTypeCorrect == LockSpec => []LockTypeOK
<1>1. GuardInv => LockTypeOK BY DEF GuardInv
<1> QED BY <1>1, GuardInvariance, PTL

\* Of two guards held at once, one was granted on a file that was unlinked
\* afterwards: still_same_file closes every other window.
THEOREM OneBroker == LockSpec => []GuardsExclude
<1>1. GuardInv => GuardsExclude
  BY DEF GuardInv, GuardHolds, GuardCurrent, GuardsExclude
<1> QED BY <1>1, GuardInvariance, PTL
=============================================================================
