----------------------------- MODULE LockSentinel -----------------------------
(***************************************************************************)
(* The file lock every process-level lock of lsbx is built on: open the    *)
(* sentinel file (creating it if it is missing), flock it, and compare the *)
(* locked file with what the path names now.  lsbx never unlinks the file; *)
(* somebody else may, at any time.  An flock belongs to the inode, not to  *)
(* the path.                                                               *)
(***************************************************************************)
EXTENDS Naturals, FiniteSets

CONSTANTS
    Procs,      \* processes that take the lock
    MaxUnlinks, \* bound on how often the file is removed
    NoFile, NoProc

\* An inode for the first file and for each one after an unlink.
Inodes == 1..(MaxUnlinks + 1)

ASSUME BoundAssumption == MaxUnlinks \in Nat
ASSUME NoFileAssumption == NoFile \notin Inodes /\ NoProc \notin Procs

VARIABLES
    path,     \* the inode the path names
    made,     \* how many files there have been
    flock,    \* inode -> the process that holds its lock
    at,       \* what a process does
    mode,     \* which call it is in, "acquire" or "try_acquire"
    fd,       \* the inode it has open
    orphaned  \* history: processes whose file was unlinked under their guard

lockVars == <<path, made, flock, at, mode, fd, orphaned>>

LockInit ==
    /\ path = NoFile /\ made = 0
    /\ flock = [n \in Inodes |-> NoProc]
    /\ at = [p \in Procs |-> "out"]
    /\ mode = [p \in Procs |-> "acquire"]
    /\ fd = [p \in Procs |-> NoFile]
    /\ orphaned = {}

\* Closing the descriptor releases the lock.
Close(p) ==
    /\ fd' = [fd EXCEPT ![p] = NoFile]
    /\ flock' = [n \in Inodes |-> IF flock[n] = p THEN NoProc ELSE flock[n]]

Call(p, m) ==
    /\ at[p] = "out"
    /\ at' = [at EXCEPT ![p] = "open"]
    /\ mode' = [mode EXCEPT ![p] = m]
    /\ UNCHANGED <<path, made, flock, fd, orphaned>>

\* LockSentinel::open.
Open(p) ==
    /\ at[p] = "open"
    /\ path' = IF path = NoFile THEN made + 1 ELSE path
    /\ made' = IF path = NoFile THEN made + 1 ELSE made
    /\ fd' = [fd EXCEPT ![p] = path']
    /\ at' = [at EXCEPT ![p] = "lock"]
    /\ UNCHANGED <<flock, mode, orphaned>>

\* lock_exclusive waits until the lock is free; try_lock_exclusive gets it then.
Lock(p) ==
    /\ at[p] = "lock"
    /\ flock[fd[p]] = NoProc
    /\ flock' = [flock EXCEPT ![fd[p]] = p]
    /\ at' = [at EXCEPT ![p] = "check"]
    /\ UNCHANGED <<path, made, mode, fd, orphaned>>

\* try_lock_exclusive would block: LockContention.
WouldBlock(p) ==
    /\ at[p] = "lock" /\ mode[p] = "try_acquire"
    /\ flock[fd[p]] # NoProc
    /\ at' = [at EXCEPT ![p] = "out"]
    /\ Close(p)
    /\ UNCHANGED <<path, made, mode, orphaned>>

\* Mutant: the inode is not compared with the path's.
StillSameFile_Assumed(p) == TRUE

\* Mutant: the comparison is inverted.
StillSameFile_Inverted(p) == path # fd[p]

\* still_same_file: fstat of the descriptor against stat of the path.
StillSameFile(p) == path = fd[p]

Granted(p) ==
    /\ at[p] = "check" /\ StillSameFile(p)
    /\ at' = [at EXCEPT ![p] = "held"]
    /\ UNCHANGED <<path, made, flock, mode, fd, orphaned>>

\* The path names another file, or none: acquire opens again, try_acquire
\* reports LockContention.
Stale(p) ==
    /\ at[p] = "check" /\ ~StillSameFile(p)
    /\ at' = [at EXCEPT ![p] = IF mode[p] = "acquire" THEN "open" ELSE "out"]
    /\ Close(p)
    /\ UNCHANGED <<path, made, mode, orphaned>>

\* The guard is dropped.
Release(p) ==
    /\ at[p] = "held"
    /\ at' = [at EXCEPT ![p] = "out"]
    /\ Close(p)
    /\ orphaned' = orphaned \ {p}
    /\ UNCHANGED <<path, made, mode>>

\* The process dies; the kernel closes its descriptor.
Die(p) ==
    /\ at[p] # "out"
    /\ at' = [at EXCEPT ![p] = "out"]
    /\ Close(p)
    /\ orphaned' = orphaned \ {p}
    /\ UNCHANGED <<path, made, mode>>

\* Somebody removes the file.
Unlink ==
    /\ path # NoFile /\ made <= MaxUnlinks
    /\ path' = NoFile
    /\ orphaned' = orphaned \cup {p \in Procs : at[p] = "held"}
    /\ UNCHANGED <<made, flock, at, mode, fd>>

Step(p) == Open(p) \/ Lock(p) \/ WouldBlock(p) \/ Granted(p) \/ Stale(p) \/ Release(p)

LockNext ==
    \/ \E p \in Procs : Step(p) \/ Die(p) \/ \E m \in {"acquire", "try_acquire"} : Call(p, m)
    \/ Unlink

LockSpec == LockInit /\ [][LockNext]_lockVars

\* Every process goes on, and flock gives a lock that keeps becoming free to
\* each waiter in the end (the kernel wakes waiters in order).
LockFairSpec == LockSpec /\ \A p \in Procs : WF_lockVars(Step(p)) /\ SF_lockVars(Lock(p))

-----------------------------------------------------------------------------
(* Properties.                                                             *)

\* Every variable has its type.
LockTypeOK ==
    /\ path \in Inodes \cup {NoFile} /\ made \in 0..(MaxUnlinks + 1)
    /\ flock \in [Inodes -> Procs \cup {NoProc}]
    /\ at \in [Procs -> {"out", "open", "lock", "check", "held"}]
    /\ mode \in [Procs -> {"acquire", "try_acquire"}]
    /\ fd \in [Procs -> Inodes \cup {NoFile}]
    /\ orphaned \subseteq Procs

\* Two processes hold a guard at once only if the file of one was unlinked
\* after its guard was granted: a file replaced while acquire runs, even between
\* its open and its flock, never yields a second guard.
GuardsExclude ==
    \A p, q \in Procs :
        at[p] = "held" /\ at[q] = "held" => p = q \/ p \in orphaned \/ q \in orphaned

\* acquire returns: neither the wait for the lock nor the retries after the file
\* was replaced go on for ever.
AcquireReturns ==
    \A p \in Procs : at[p] = "open" /\ mode[p] = "acquire" ~> at[p] \in {"held", "out"}
=============================================================================
