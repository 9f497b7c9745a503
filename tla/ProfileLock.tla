---------------------------- MODULE ProfileLock ----------------------------
(***************************************************************************)
(* The lock file that keeps a persistent profile to one bridge runtime     *)
(* (acquireProfileLock and what it calls in src/src/bridge/config.ts).     *)
(*                                                                         *)
(* A runtime is one call of prepareBridgeRuntime for the profile, in a     *)
(* process that may be killed between any two system calls.  The calls of  *)
(* one acquisition are synchronous: another runtime of the same process    *)
(* waits for them, one of another process may run in between.  A file is   *)
(* named by the runtime that created it, which stands for its inode, its   *)
(* times and the pid in it; process ids are not reused.  The directory,    *)
(* its permissions and the texts of the errors are left out.               *)
(***************************************************************************)
EXTENDS Naturals

CONSTANTS
  Runtimes, Processes,
  ProcessOf,             \* the process each runtime is prepared in
  NoFile

ASSUME RuntimesAssumption ==
  /\ ProcessOf \in [Runtimes -> Processes]
  /\ NoFile \notin Runtimes /\ NoFile \notin [by: Runtimes, complete: BOOLEAN]

VARIABLES
  alive,      \* processes that run
  lock,       \* the file at lockPath
  active,     \* processes whose activeProfileLocks has the profile
  pc,         \* where each runtime is in acquireProfileLock
  seen,       \* the snapshot reclaimProfileLockFile holds: identity and contents
  retried,    \* runtimes in the second attempt of createProfileLockFile
  overlapped  \* history: servers of two processes were being started at once

lockVars == <<alive, lock, active, pc, seen, retried, overlapped>>

Acquiring == {"create", "write", "undo", "unlinkOwn", "stat", "read",
              "restat", "reread", "unlink"}
Unseen == [identity |-> NoFile, contents |-> NoFile]

Runs(r)     == ProcessOf[r] \in alive
Dead(r)     == ProcessOf[r] \notin alive     \* isProfileOwnerDead: ESRCH
Busy(p)     == \E r \in Runtimes : ProcessOf[r] = p /\ pc[r] \in Acquiring
Starting(r) == Runs(r) /\ pc[r] \in Acquiring

LockInit ==
  /\ alive = Processes /\ lock = NoFile /\ active = {}
  /\ pc = [r \in Runtimes |-> "idle"]
  /\ seen = [r \in Runtimes |-> Unseen]
  /\ retried = {} /\ overlapped = FALSE

At(r, where) == Runs(r) /\ pc[r] = where
Goto(r, where) == pc' = [pc EXCEPT ![r] = where]
Forget(r) == seen' = [seen EXCEPT ![r] = Unseen]

\* acquireProfileLock: the set of this process comes before the file
BeginAcquire(r) ==
  /\ At(r, "idle") /\ ~Busy(ProcessOf[r])
  /\ Goto(r, IF ProcessOf[r] \in active THEN "rejected" ELSE "create")
  /\ overlapped' = (overlapped \/ \E s \in Runtimes : ProcessOf[s] # ProcessOf[r] /\ Starting(s))
  /\ UNCHANGED <<alive, lock, active, seen, retried>>

\* writeProfileLockFile: openSync(lockPath, 'wx')
Create(r) ==
  /\ At(r, "create")
  /\ \/ lock = NoFile /\ lock' = [by |-> r, complete |-> FALSE] /\ Goto(r, "write")
     \/ lock # NoFile /\ Goto(r, IF r \in retried THEN "rejected" ELSE "stat") /\ UNCHANGED lock
     \/ Goto(r, "rejected") /\ UNCHANGED lock
  /\ UNCHANGED <<alive, active, seen, retried, overlapped>>

\* the record is written through the descriptor, wherever the path leads now
Filled(r) == IF lock # NoFile /\ lock.by = r THEN [lock EXCEPT !.complete = TRUE] ELSE lock

Write(r) ==
  /\ At(r, "write")
  /\ \/ /\ lock' = Filled(r) /\ active' = active \cup {ProcessOf[r]} /\ Goto(r, "held")
     \/ /\ lock' \in {lock, Filled(r)} /\ Goto(r, "undo") /\ UNCHANGED active
  /\ UNCHANGED <<alive, seen, retried, overlapped>>

UndoNothing(r) == At(r, "undo") /\ Goto(r, "rejected")
                  /\ UNCHANGED <<alive, lock, active, seen, retried, overlapped>>

\* removeOwnedProfileLockFile: lstat, then unlink by path
Undo(r) ==
  /\ At(r, "undo")
  /\ Goto(r, IF lock # NoFile /\ lock.by = r THEN "unlinkOwn" ELSE "rejected")
  /\ UNCHANGED <<alive, lock, active, seen, retried, overlapped>>

UnlinkOwn(r) ==
  /\ At(r, "unlinkOwn") /\ lock' = NoFile /\ Goto(r, "rejected")
  /\ UNCHANGED <<alive, active, seen, retried, overlapped>>

\* readProfileLockSnapshot is an lstat and a read
Stat(r) ==
  /\ At(r, "stat")
  /\ IF lock = NoFile THEN Goto(r, "rejected") /\ Forget(r)
     ELSE Goto(r, "read") /\ seen' = [seen EXCEPT ![r].identity = lock.by]
  /\ UNCHANGED <<alive, lock, active, retried, overlapped>>

DeadRecordAnyway == lock # NoFile /\ lock.complete
NamesDead        == lock # NoFile /\ lock.complete /\ Dead(lock.by)

\* an empty or partial record does not parse, and a live owner keeps its lock
Read(r) ==
  /\ At(r, "read")
  /\ IF NamesDead THEN Goto(r, "restat") /\ seen' = [seen EXCEPT ![r].contents = lock.by]
     ELSE Goto(r, "rejected") /\ Forget(r)
  /\ UNCHANGED <<alive, lock, active, retried, overlapped>>

Unchecked(r) == TRUE
NamesItself(r) == lock # NoFile /\ lock.complete /\ lock.by = r
SameIdentity(r) == lock # NoFile /\ lock.by = seen[r].identity
SameContents(r) == lock # NoFile /\ lock.complete /\ lock.by = seen[r].contents

\* the second snapshot: a different file is given up after it has been read
Restat(r) ==
  /\ At(r, "restat")
  /\ IF SameIdentity(r) THEN Goto(r, "reread") /\ UNCHANGED seen
     ELSE Goto(r, "rejected") /\ Forget(r)
  /\ UNCHANGED <<alive, lock, active, retried, overlapped>>

Reread(r) ==
  /\ At(r, "reread")
  /\ Goto(r, IF SameContents(r) THEN "unlink" ELSE "rejected") /\ Forget(r)
  /\ UNCHANGED <<alive, lock, active, retried, overlapped>>

\* unlinkSync(lockPath) removes what the path names now, then comes attempt 1
Unlink(r) ==
  /\ At(r, "unlink")
  /\ IF lock = NoFile THEN Goto(r, "rejected") /\ UNCHANGED <<lock, retried>>
     ELSE Goto(r, "create") /\ lock' = NoFile /\ retried' = retried \cup {r}
  /\ UNCHANGED <<alive, active, seen, overlapped>>

\* the function acquireProfileLock returned
Release(r) ==
  /\ At(r, "held") /\ ~Busy(ProcessOf[r])
  /\ active' = active \ {ProcessOf[r]} /\ lock' = NoFile /\ Goto(r, "released")
  /\ UNCHANGED <<alive, seen, retried, overlapped>>

Kill(p) ==
  /\ p \in alive /\ alive' = alive \ {p} /\ active' = active \ {p}
  /\ pc' = [r \in Runtimes |-> IF ProcessOf[r] = p THEN "killed" ELSE pc[r]]
  /\ seen' = [r \in Runtimes |-> IF ProcessOf[r] = p THEN Unseen ELSE seen[r]]
  /\ retried' = {r \in retried : ProcessOf[r] # p}
  /\ UNCHANGED <<lock, overlapped>>

AcquireStep(r) ==
  \/ BeginAcquire(r) \/ Create(r) \/ Write(r) \/ Undo(r) \/ UnlinkOwn(r)
  \/ Stat(r) \/ Read(r) \/ Restat(r) \/ Reread(r) \/ Unlink(r)

LockNext == \/ \E r \in Runtimes : AcquireStep(r) \/ Release(r)
            \/ \E p \in Processes : Kill(p)

LockSpec == LockInit /\ [][LockNext]_lockVars
-----------------------------------------------------------------------------
LockTypeOK ==
  /\ alive \subseteq Processes /\ active \subseteq alive
  /\ lock \in [by: Runtimes, complete: BOOLEAN] \cup {NoFile}
  /\ pc \in [Runtimes -> Acquiring \cup {"idle", "held", "released", "rejected", "killed"}]
  /\ seen \in [Runtimes -> [identity: Runtimes \cup {NoFile}, contents: Runtimes \cup {NoFile}]]
  /\ retried \subseteq Runtimes /\ overlapped \in BOOLEAN

Holds(r) == At(r, "held")

(* One runtime at a time holds a profile ("the bridge rejects duplicate     *)
(* active use", docs/recipes/persistent-login-profile.md:22), across        *)
(* processes, kills between any two system calls and failed writes, as long *)
(* as servers of the profile are started one at a time (the rule of line    *)
(* 26), and the path names the lock of the one that holds it.               *)
OneOwner ==
  ~overlapped =>
    /\ \A r, s \in Runtimes : Holds(r) /\ Holds(s) => r = s
    /\ \A r \in Runtimes : Holds(r) => lock = [by |-> r, complete |-> TRUE]

(* However many servers start at once, what a reclaimer goes on to unlink   *)
(* was, at its last look, the complete lock of a process that is gone (line *)
(* 24): the comparison of the two snapshots leaves no gap but the last one. *)
JudgesDead(r) ==
  pc[r] # "unlink" /\ pc'[r] = "unlink" => NamesDead'
ReclaimsOnlyDead == [][\A r \in Runtimes : JudgesDead(r)]_lockVars

(* A server that is started alone is never refused because of the complete  *)
(* lock a killed one left.                                                  *)
RefusedByDead(r) == pc[r] \in {"stat", "read", "restat", "reread", "unlink"}
                    /\ pc'[r] = "rejected" /\ NamesDead
StaleLockReclaimed == [][~overlapped => \A r \in Runtimes : ~RefusedByDead(r)]_lockVars

(* An acquisition that is refused or given back leaves no lock behind, even *)
(* if writing the record failed half way (line 26); only a kill can.        *)
NoLockLeft ==
  \A r \in Runtimes : Runs(r) /\ pc[r] \in {"rejected", "released"} => lock = NoFile \/ lock.by # r

(* What makes these hold.  A process acquires for one runtime at a time; a  *)
(* snapshot that passed the first look names a process that is gone; and    *)
(* while servers start one at a time, whoever has written the lock still    *)
(* finds it there, and what is about to be unlinked has no living owner.    *)
Owning == {"write", "undo", "unlinkOwn", "held"}
OneStarter ==
  /\ \A r, s \in Runtimes :
       pc[r] \in Acquiring /\ pc[s] \in Acquiring /\ ProcessOf[r] = ProcessOf[s] => r = s
  /\ ~overlapped => \A r, s \in Runtimes : Starting(r) /\ Starting(s) => ProcessOf[r] = ProcessOf[s]
SnapshotDead ==
  \A r \in Runtimes :
    /\ pc[r] \in {"restat", "reread"} => seen[r].contents \in Runtimes /\ Dead(seen[r].contents)
    /\ ~overlapped /\ At(r, "unlink") => lock = NoFile \/ Dead(lock.by)
OwnLock ==
  \A r \in Runtimes :
    /\ Runs(r) /\ lock # NoFile /\ lock.by = r => pc[r] \in Owning
    /\ ~overlapped /\ Runs(r) /\ pc[r] \in Owning => lock # NoFile /\ lock.by = r
    /\ ~overlapped /\ At(r, "held") => lock = [by |-> r, complete |-> TRUE]
KilledStays == \A r \in Runtimes : pc[r] = "killed" <=> Dead(r)

(* What a reclaimer has seen of a lock stands while servers start one at a   *)
(* time, unless the lock is given back: this is what StaleLockReclaimed needs. *)
LookStands ==
  ~overlapped => \A r \in Runtimes : Runs(r) /\ lock # NoFile =>
    /\ pc[r] \in {"read", "restat", "reread"} => lock.by = seen[r].identity
    /\ pc[r] \in {"restat", "reread"} => lock.complete /\ lock.by = seen[r].contents

LockSafe == LockTypeOK /\ OneStarter /\ SnapshotDead /\ OwnLock /\ KilledStays
=============================================================================
