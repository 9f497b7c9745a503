--------------------------- MODULE RuntimeProofs ---------------------------
(* Proofs about ProfileLock and ProfileSeed, for any number of processes    *)
(* and of runtimes in each, and about BridgeRuntime, for any number of      *)
(* preparations, any inputs and any launch arguments.                       *)
EXTENDS ProfileSeed, BridgeRuntime, FiniteSetTheorems, TLAPS

LEMMA LockInitSafe == LockInit => LockSafe
<1> SUFFICES ASSUME LockInit PROVE LockSafe
  OBVIOUS
<1>1. \A r \in Runtimes : ProcessOf[r] \in alive /\ pc[r] = "idle"
  BY RuntimesAssumption DEF LockInit
<1>2. LockTypeOK
  BY DEF LockInit, LockTypeOK, Unseen
<1>3. OneStarter /\ SnapshotDead /\ OwnLock /\ KilledStays
  BY <1>1 DEF LockInit, OneStarter, SnapshotDead, OwnLock, KilledStays, Acquiring, Owning,
              Starting, Runs, Dead, At
<1> QED BY <1>2, <1>3 DEF LockSafe

(* Every action of an acquisition keeps the invariant.                      *)
LEMMA BeginSafe == ASSUME LockSafe, NEW r \in Runtimes, BeginAcquire(r) PROVE LockSafe'
  BY RuntimesAssumption
  DEF LockSafe, LockTypeOK, OneStarter, SnapshotDead, OwnLock, KilledStays, BeginAcquire, Busy,
      Goto, Acquiring, Owning, Starting, Runs, Dead, At

LEMMA CreateSafe == ASSUME LockSafe, NEW r \in Runtimes, Create(r) PROVE LockSafe'
<1> USE RuntimesAssumption DEF LockSafe, LockTypeOK, At, Goto
<1>1. CASE lock = NoFile /\ lock' = [by |-> r, complete |-> FALSE] /\ Goto(r, "write")
  <2>1. /\ \A s \in Runtimes \ {r} : pc'[s] = pc[s]
        /\ pc'[r] = "write" /\ pc[r] = "create" /\ Runs(r)
        /\ UNCHANGED <<alive, active, seen, retried, overlapped>>
    <3>1. At(r, "create") /\ UNCHANGED <<alive, active, seen, retried, overlapped>>
      BY DEF Create
    <3> QED BY <1>1, <3>1
  <2>6. lock'.by = r /\ lock' \in [by: Runtimes, complete: BOOLEAN] /\ lock' # NoFile
    <3>1. [by |-> r, complete |-> FALSE] \in [by: Runtimes, complete: BOOLEAN]
      OBVIOUS
    <3>2. lock' = [by |-> r, complete |-> FALSE]
      BY <1>1
    <3> QED BY <3>1, <3>2
  <2>2. LockTypeOK'
    BY <1>1, <2>1, <2>6 DEF Acquiring
  <2>3. OneStarter' /\ KilledStays'
    BY <2>1 DEF OneStarter, KilledStays, Acquiring, Starting, Runs, Dead
  <2>4. SnapshotDead'
    BY <2>1, <2>6 DEF SnapshotDead, OneStarter, Acquiring, Starting, Runs, Dead
  <2>5. OwnLock'
    BY <1>1, <2>1, <2>6 DEF OwnLock, Owning, Runs
  <2> QED BY <2>2, <2>3, <2>4, <2>5
<1>2. CASE lock' = lock /\ pc' \in {[pc EXCEPT ![r] = "rejected"], [pc EXCEPT ![r] = "stat"]}
  BY <1>2 DEF Create, OneStarter, SnapshotDead, OwnLock, KilledStays, Acquiring, Owning, Starting,
              Runs, Dead
<1> QED BY <1>1, <1>2 DEF Create

LEMMA WriteSafe == ASSUME LockSafe, NEW r \in Runtimes, Write(r) PROVE LockSafe'
<1> USE RuntimesAssumption DEF LockSafe, LockTypeOK, At, Goto
<1>1. /\ \A s \in Runtimes \ {r} : pc'[s] = pc[s]
      /\ pc'[r] \in {"held", "undo"} /\ pc[r] = "write" /\ Runs(r)
      /\ UNCHANGED <<alive, seen, retried, overlapped>>
  BY DEF Write
<1>2. /\ lock' \in [by: Runtimes, complete: BOOLEAN] \cup {NoFile}
      /\ lock' = NoFile <=> lock = NoFile
      /\ lock # NoFile => lock'.by = lock.by /\ (lock'.complete = lock.complete \/ lock.by = r)
      /\ pc'[r] = "held" /\ lock # NoFile /\ lock.by = r => lock' = [by |-> r, complete |-> TRUE]
  <2>1. CASE lock # NoFile /\ lock.by = r
    <3>1. Filled(r) = [by |-> r, complete |-> TRUE]
      BY <2>1 DEF Filled
    <3>2. lock' \in {lock, Filled(r)} /\ (pc'[r] = "held" => lock' = Filled(r))
      BY <1>1 DEF Write
    <3>3. lock \in [by: Runtimes, complete: BOOLEAN] /\ Filled(r) \in [by: Runtimes, complete: BOOLEAN]
      BY <2>1, <3>1
    <3>4. lock'.by = r
      BY <2>1, <3>1, <3>2
    <3> QED BY <2>1, <3>1, <3>2, <3>3, <3>4
  <2>2. CASE ~(lock # NoFile /\ lock.by = r)
    BY <2>2 DEF Write, Filled
  <2> QED BY <2>1, <2>2
<1>3. LockTypeOK'
  BY <1>1, <1>2 DEF Write, Acquiring, Runs
<1>4. OneStarter' /\ KilledStays'
  BY <1>1 DEF OneStarter, KilledStays, Acquiring, Starting, Runs, Dead
<1>5. SnapshotDead'
  BY <1>1, <1>2 DEF SnapshotDead, Runs, Dead
<1>6. OwnLock'
  <2>1. \A s \in Runtimes \ {r} : ~overlapped /\ At(s, "held") => lock'.by = s /\ lock' = lock
    <3> SUFFICES ASSUME NEW s \in Runtimes \ {r}, ~overlapped, At(s, "held") PROVE lock' = lock /\ lock'.by = s
      OBVIOUS
    <3>1. lock # NoFile /\ lock.by = s
      BY DEF OwnLock, Owning
    <3> QED BY <3>1 DEF Write, Filled
  <2> QED BY <1>1, <1>2, <2>1 DEF OwnLock, Owning, Runs
<1> QED BY <1>3, <1>4, <1>5, <1>6

LEMMA UndoSafe == ASSUME LockSafe, NEW r \in Runtimes, Undo(r) \/ UnlinkOwn(r) PROVE LockSafe'
  BY RuntimesAssumption
  DEF LockSafe, LockTypeOK, OneStarter, SnapshotDead, OwnLock, KilledStays, Undo, UnlinkOwn,
      Goto, Acquiring, Owning, Starting, Runs, Dead, At

LEMMA SnapshotSafe ==
  ASSUME LockSafe, NEW r \in Runtimes, Stat(r) \/ Read(r) \/ Restat(r) \/ Reread(r)
  PROVE  LockSafe'
<1> USE RuntimesAssumption
    DEF LockSafe, LockTypeOK, OneStarter, SnapshotDead, OwnLock, KilledStays, Forget, Unseen,
        Goto, Acquiring, Owning, Starting, Runs, Dead, At
<1>1. CASE Stat(r)
  <2>1. CASE lock = NoFile
    BY <1>1, <2>1 DEF Stat
  <2>2. CASE lock # NoFile
    <3>1. lock.by \in Runtimes
      BY <2>2
    <3>2. LockTypeOK'
      BY <1>1, <2>2, <3>1 DEF Stat
    <3>3. /\ \A s \in Runtimes \ {r} : pc'[s] = pc[s] /\ seen'[s] = seen[s]
          /\ pc'[r] = "read" /\ pc[r] = "stat"
          /\ UNCHANGED <<alive, lock, active, retried, overlapped>>
      BY <1>1, <2>2 DEF Stat
    <3> QED BY <3>2, <3>3
  <2> QED BY <2>1, <2>2
<1>2. CASE Read(r)
  BY <1>2 DEF Read, NamesDead
<1>3. CASE Restat(r)
  BY <1>3 DEF Restat, SameIdentity
<1>4. CASE Reread(r)
  BY <1>4 DEF Reread, SameContents
<1> QED BY <1>1, <1>2, <1>3, <1>4

LEMMA UnlinkSafe == ASSUME LockSafe, NEW r \in Runtimes, Unlink(r) PROVE LockSafe'
  BY RuntimesAssumption
  DEF LockSafe, LockTypeOK, OneStarter, SnapshotDead, OwnLock, KilledStays, Unlink,
      Goto, Acquiring, Owning, Starting, Runs, Dead, At

LEMMA ReleaseSafe == ASSUME LockSafe, NEW r \in Runtimes, Release(r) PROVE LockSafe'
  BY RuntimesAssumption
  DEF LockSafe, LockTypeOK, OneStarter, SnapshotDead, OwnLock, KilledStays, Release, Busy,
      Goto, Acquiring, Owning, Starting, Runs, Dead, At

LEMMA KillSafe == ASSUME LockSafe, NEW p \in Processes, Kill(p) PROVE LockSafe'
  BY RuntimesAssumption
  DEF LockSafe, LockTypeOK, OneStarter, SnapshotDead, OwnLock, KilledStays, Kill, Unseen,
      Acquiring, Owning, Starting, Runs, Dead, At

LEMMA LockNextSafe == LockSafe /\ [LockNext]_lockVars => LockSafe'
<1> SUFFICES ASSUME LockSafe, [LockNext]_lockVars PROVE LockSafe'
  OBVIOUS
<1>1. ASSUME NEW r \in Runtimes, AcquireStep(r) PROVE LockSafe'
  BY <1>1, BeginSafe, CreateSafe, WriteSafe, UndoSafe, SnapshotSafe, UnlinkSafe DEF AcquireStep
<1>2. ASSUME NEW r \in Runtimes, Release(r) PROVE LockSafe'
  BY <1>2, ReleaseSafe
<1>3. ASSUME NEW p \in Processes, Kill(p) PROVE LockSafe'
  BY <1>3, KillSafe
<1>4. CASE UNCHANGED lockVars
  BY <1>4 DEF lockVars, LockSafe, LockTypeOK, OneStarter, SnapshotDead, OwnLock, KilledStays,
              Starting, Runs, Dead, At
<1> QED BY <1>1, <1>2, <1>3, <1>4 DEF LockNext

(* The seed adds nothing to what the lock does.                             *)
LEMMA LockSteps == [Next]_vars => [LockNext]_lockVars
  BY DEF Next, vars, LockNext, KillSeeding

THEOREM LockInvariant == Spec => []LockSafe
<1>1. Init => LockSafe
  BY LockInitSafe DEF Init
<1>2. LockSafe /\ [Next]_vars => LockSafe'
  BY LockSteps, LockNextSafe
<1> QED BY <1>1, <1>2, PTL DEF Spec

(* One owner of a profile, for any number of processes that are started one *)
(* at a time and killed anywhere.                                           *)
THEOREM OwnerUnique == Spec => []OneOwner
<1>1. LockSafe => OneOwner
  BY DEF LockSafe, OwnLock, OneOwner, Holds, At, Owning
<1> QED BY <1>1, LockInvariant, PTL

(* Nothing of a refused or released acquisition stays on disk.              *)
THEOREM NothingLeft == Spec => []NoLockLeft
<1>1. LockSafe => NoLockLeft
  BY DEF LockSafe, OwnLock, NoLockLeft, Owning, Runs
<1> QED BY <1>1, LockInvariant, PTL

(* Only the lock of a dead process passes both looks, however many servers  *)
(* start at once.                                                           *)
LEMMA JudgesDeadStep == LockSafe /\ [LockNext]_lockVars => [\A r \in Runtimes : JudgesDead(r)]_lockVars
<1> SUFFICES ASSUME LockSafe, LockNext, NEW r \in Runtimes, pc[r] # "unlink", pc'[r] = "unlink"
             PROVE  NamesDead'
  BY DEF JudgesDead
<1>1. pc \in [Runtimes -> Acquiring \cup {"idle", "held", "released", "rejected", "killed"}]
  BY DEF LockSafe, LockTypeOK
<1>2. Reread(r)
  BY <1>1 DEF LockNext, AcquireStep, BeginAcquire, Create, Write, Undo, UnlinkOwn, Stat, Read, Restat,
              Reread, Unlink, Release, Kill, Goto
<1>3. Dead(seen[r].contents) /\ SameContents(r)
  BY <1>1, <1>2 DEF Reread, Goto, At, LockSafe, SnapshotDead
<1> QED BY <1>2, <1>3 DEF Reread, SameContents, NamesDead, Dead

THEOREM ReclaimedWereDead == Spec => ReclaimsOnlyDead
<1>1. LockSafe /\ [Next]_vars => [\A r \in Runtimes : JudgesDead(r)]_lockVars
  BY LockSteps, JudgesDeadStep
<1> QED BY <1>1, LockInvariant, PTL DEF Spec, ReclaimsOnlyDead

(* A stale lock is reclaimed by a server that is started alone: what it saw  *)
(* of the lock stands until it is done with it, since nobody else is between *)
(* two steps of an acquisition and a holder can only give its lock back.     *)
LEMMA LookStandsStep == LockSafe /\ LookStands /\ [LockNext]_lockVars => LookStands'
<1> SUFFICES ASSUME LockSafe, LookStands, [LockNext]_lockVars, ~overlapped',
                    NEW r \in Runtimes, Runs(r)', lock' # NoFile
             PROVE  /\ pc'[r] \in {"read", "restat", "reread"} => lock'.by = seen'[r].identity
                    /\ pc'[r] \in {"restat", "reread"} => lock'.complete /\ lock'.by = seen'[r].contents
  BY DEF LookStands
<1> USE DEF LookStands, LockSafe, LockTypeOK, Runs, Goto, At
<1>1. ASSUME NEW s \in Runtimes \ {r}, AcquireStep(s) \/ Release(s)
      PROVE  /\ pc'[r] = pc[r] /\ seen'[r] = seen[r] /\ Runs(r) /\ ~overlapped
             /\ pc[r] \in {"read", "restat", "reread"} => lock' \in {lock, NoFile}
  <2>1. pc'[r] = pc[r] /\ seen'[r] = seen[r] /\ Runs(r) /\ ~overlapped
    BY <1>1 DEF AcquireStep, BeginAcquire, Create, Write, Undo, UnlinkOwn, Stat, Read, Restat,
                Reread, Unlink, Release, Forget
  <2>2. pc[r] \in {"read", "restat", "reread"} => ~Starting(s)
    BY <2>1 DEF OneStarter, Starting, Acquiring
  <2>3. pc[r] \in {"read", "restat", "reread"} => BeginAcquire(s) \/ Release(s)
    BY <1>1, <2>2 DEF AcquireStep, Create, Write, Undo, UnlinkOwn, Stat, Read, Restat, Reread, Unlink,
                      Starting, Acquiring
  <2> QED BY <2>1, <2>3 DEF BeginAcquire, Release
<1>2. ASSUME AcquireStep(r) \/ Release(r)
      PROVE  /\ pc'[r] \in {"read", "restat", "reread"} => lock'.by = seen'[r].identity
             /\ pc'[r] \in {"restat", "reread"} => lock'.complete /\ lock'.by = seen'[r].contents
  <2>1. CASE Stat(r)
    BY <2>1 DEF Stat, Forget
  <2>2. CASE Read(r)
    BY <2>2 DEF Read, NamesDead, Forget
  <2>3. CASE Restat(r)
    BY <2>3 DEF Restat, Forget
  <2>4. CASE Reread(r)
    BY <2>4 DEF Reread, Forget
  <2>5. CASE BeginAcquire(r) \/ Create(r) \/ Write(r) \/ Undo(r) \/ UnlinkOwn(r) \/ Unlink(r) \/ Release(r)
    BY <2>5 DEF BeginAcquire, Create, Write, Undo, UnlinkOwn, Unlink, Release
  <2> QED BY <1>2, <2>1, <2>2, <2>3, <2>4, <2>5 DEF AcquireStep
<1>3. ASSUME NEW p \in Processes, Kill(p)
      PROVE  pc'[r] = pc[r] /\ seen'[r] = seen[r] /\ lock' = lock /\ Runs(r) /\ ~overlapped
  BY <1>3, RuntimesAssumption DEF Kill
<1> QED BY <1>1, <1>2, <1>3 DEF LockNext, lockVars

LEMMA StaleNotRefused ==
  LockSafe /\ LookStands /\ [LockNext]_lockVars
    => [~overlapped => \A r \in Runtimes : ~RefusedByDead(r)]_lockVars
<1> SUFFICES ASSUME LockSafe, LookStands, LockNext, ~overlapped, NEW r \in Runtimes, RefusedByDead(r)
             PROVE  FALSE
  OBVIOUS
<1> USE DEF RefusedByDead
<1>1. pc \in [Runtimes -> Acquiring \cup {"idle", "held", "released", "rejected", "killed"}]
  BY DEF LockSafe, LockTypeOK
<1>2. Runs(r) /\ lock # NoFile /\ lock.complete
  BY DEF LockSafe, KilledStays, Dead, Runs, NamesDead
<1>3. Stat(r) \/ Read(r) \/ Restat(r) \/ Reread(r) \/ Unlink(r)
  BY <1>1 DEF LockNext, AcquireStep, BeginAcquire, Create, Write, Undo, UnlinkOwn, Stat, Read, Restat,
              Reread, Unlink, Release, Kill, Goto, At
<1> QED BY <1>1, <1>2, <1>3 DEF LookStands, Stat, Read, Restat, Reread, Unlink, Goto, At, NamesDead,
                                 SameIdentity, SameContents

THEOREM StaleReclaimed == Spec => StaleLockReclaimed
<1>1. Init => LookStands
  BY DEF Init, LockInit, LookStands
<1>2. LockSafe /\ LookStands /\ [Next]_vars => LookStands'
  BY LockSteps, LookStandsStep
<1>3. LockSafe /\ LookStands /\ [Next]_vars
        => [~overlapped => \A r \in Runtimes : ~RefusedByDead(r)]_lockVars
  BY LockSteps, StaleNotRefused
<1> QED BY <1>1, <1>2, <1>3, LockInvariant, PTL DEF Spec, StaleLockReclaimed

-----------------------------------------------------------------------------
LEMMA InitSafe == Init => Safe
<1> SUFFICES ASSUME Init PROVE Safe
  OBVIOUS
<1>1. LockSafe
  BY LockInitSafe DEF Init
<1>2. TypeOK
  BY <1>1 DEF LockSafe, Init, TypeOK, SeedFiles, Writers
<1>3. SeedKept /\ NothingUsedIsTouched /\ StagedWhileHeld
  BY DEF Init, SeedKept, NothingUsedIsTouched, StagedWhileHeld, Stage
<1> QED BY <1>1, <1>2, <1>3 DEF Safe

(* A step of the lock leaves the seed alone, and no runtime that has begun   *)
(* with it comes to hold the profile by that step.                           *)
LEMMA LockStepKeepsSeed ==
  ASSUME Safe, [LockNext]_lockVars, UNCHANGED <<seed, used, wrapper>>,
         \A r \in Runtimes : stage'[r] = stage[r] \/ (stage'[r] = "none" /\ ~Runs(r)'),
         stage' \in [Runtimes -> Reading \cup {"none", "discard", "discardAgain", "publish",
                                             "exclusive", "fill", "using", "failed"}],
         \A r \in Runtimes : stage'[r] # "none" => pc'[r] = pc[r] \/ (pc[r] = "held" /\ pc'[r] = "released")
  PROVE  Safe'
<1>1. LockSafe'
  BY LockNextSafe DEF Safe
<1>2. TypeOK'
  BY <1>1 DEF Safe, LockSafe, TypeOK
<1>3. overlapped => overlapped'
  BY DEF LockNext, AcquireStep, BeginAcquire, Create, Write, Undo, UnlinkOwn, Stat, Read, Restat,
         Reread, Unlink, Release, Kill, lockVars
<1>4. SeedKept'
  BY <1>3 DEF Safe, SeedKept, LockSafe, LockTypeOK
<1>5. alive' \subseteq alive
  BY DEF LockNext, AcquireStep, BeginAcquire, Create, Write, Undo, UnlinkOwn, Stat, Read, Restat,
         Reread, Unlink, Release, Kill, lockVars
<1>6. \A r \in Runtimes : Holds(r)' /\ stage'[r] # "none" => Holds(r) /\ stage[r] = stage'[r]
  BY <1>5 DEF Holds, At, Runs
<1>7. NothingUsedIsTouched'
  BY <1>3, <1>6 DEF Safe, NothingUsedIsTouched, Stage, UnusedYet, LockSafe, LockTypeOK
<1>8. StagedWhileHeld'
  BY DEF Safe, StagedWhileHeld
<1> QED BY <1>1, <1>2, <1>4, <1>7, <1>8 DEF Safe

LEMMA SeedStepSafe ==
  ASSUME Safe, NEW r \in Runtimes, SeedStep(r), UNCHANGED lockVars
  PROVE  Safe'
<1> USE WrapperAssumption DEF Stage, Continue, Reads
<1>1. /\ UNCHANGED <<alive, lock, active, pc, seen, retried, overlapped>>
      /\ Holds(r) /\ \A s \in Runtimes : Holds(s) <=> Holds(s)'
  BY DEF lockVars, SeedStep, WantSeed, SeedAbsent, SeedValid, SeedCorrupt, Discard, SeedInaccessible, Link,
         CreateExclusive, Fill, Holds, At, Runs
<1>2. LockSafe'
  BY <1>1 DEF Safe, LockSafe, LockTypeOK, OneStarter, SnapshotDead, OwnLock, KilledStays, Starting,
              Runs, Dead, At
<1>3. ~overlapped => \A s \in Runtimes : Holds(s) => s = r
  BY <1>1 DEF Safe, LockSafe, OwnLock, Holds, At, Owning
<1>4. TypeOK'
  BY <1>2 DEF Safe, LockSafe, TypeOK, SeedStep, WantSeed, SeedAbsent, SeedValid, SeedCorrupt, Discard,
              SeedInaccessible,
              Link, CreateExclusive, Fill, SeedFiles, Writers, Reading
<1>5. StagedWhileHeld'
  BY <1>1, <1>4 DEF Safe, TypeOK, StagedWhileHeld, SeedStep, WantSeed, SeedAbsent, SeedValid, SeedCorrupt,
              Discard, SeedInaccessible, Link, CreateExclusive, Fill, Holds, At
<1>6. SeedKept' /\ NothingUsedIsTouched'
  <2> USE <1>1, <1>3 DEF Safe, TypeOK, SeedKept, NothingUsedIsTouched, UnusedYet
  <2>1. CASE WantSeed(r)
    BY <2>1 DEF WantSeed
  <2>2. CASE SeedAbsent(r)
    <3>1. UNCHANGED <<seed, used>> /\ stage' \in {[stage EXCEPT ![r] = "publish"], [stage EXCEPT ![r] = "failed"]}
      BY <2>2 DEF SeedAbsent
    <3> QED BY <3>1
  <2>3. CASE SeedValid(r)
    BY <2>3 DEF SeedValid, SeedFiles
  <2>4. CASE SeedCorrupt(r)
    <3>1. /\ UNCHANGED <<seed, used>> /\ seed # NoFile /\ seed.text # "valid"
          /\ stage' \in {[stage EXCEPT ![r] = "discard"], [stage EXCEPT ![r] = "discardAgain"]}
      BY <2>4 DEF SeedCorrupt, Reading
    <3>2. ~overlapped => UnusedYet
      BY <3>1
    <3> QED BY <3>1, <3>2
  <2>5. CASE Discard(r)
    BY <2>5 DEF Discard
  <2>6. CASE Link(r)
    BY <2>6 DEF Link, SeedFiles, Writers
  <2>7. CASE CreateExclusive(r)
    BY <2>7 DEF CreateExclusive, SeedFiles, Writers
  <2>8. CASE Fill(r)
    BY <2>8 DEF Fill
  <2>9. CASE SeedInaccessible(r)
    <3>1. stage' = [stage EXCEPT ![r] = "failed"] /\ UNCHANGED <<seed, used>>
      BY <2>9 DEF SeedInaccessible
    <3> QED BY <3>1
  <2> QED BY <2>1, <2>2, <2>3, <2>4, <2>5, <2>6, <2>7, <2>8, <2>9 DEF SeedStep
<1> QED BY <1>2, <1>4, <1>5, <1>6 DEF Safe

LEMMA WrapperSafe ==
  ASSUME Safe, WrapperCreates \/ WrapperFills, UNCHANGED lockVars
  PROVE  Safe'
<1> USE WrapperAssumption DEF Stage
<1>1. UNCHANGED <<alive, lock, active, pc, seen, retried, overlapped, stage, used>>
  BY DEF lockVars, WrapperCreates, WrapperFills
<1>2. LockSafe'
  BY <1>1 DEF Safe, LockSafe, LockTypeOK, OneStarter, SnapshotDead, OwnLock, KilledStays, Starting,
              Runs, Dead, At
<1>3. TypeOK'
  BY <1>1, <1>2 DEF Safe, LockSafe, TypeOK, WrapperCreates, WrapperFills, SeedFiles, Writers
<1>4. StagedWhileHeld'
  BY <1>1 DEF Safe, StagedWhileHeld
<1>5. SeedKept' /\ NothingUsedIsTouched'
  BY <1>1 DEF Safe, SeedKept, NothingUsedIsTouched, UnusedYet, WrapperCreates, WrapperFills, TypeOK,
              SeedFiles, Writers, Holds, At, Runs
<1> QED BY <1>2, <1>3, <1>4, <1>5 DEF Safe

LEMMA NextSafe == Safe /\ [Next]_vars => Safe'
<1> SUFFICES ASSUME Safe, [Next]_vars PROVE Safe'
  OBVIOUS
<1> USE DEF seedVars
<1>1. ASSUME NEW r \in Runtimes, AcquireStep(r) \/ Release(r), UNCHANGED seedVars PROVE Safe'
  <2>1. \A s \in Runtimes \ {r} : pc'[s] = pc[s]
    BY <1>1 DEF AcquireStep, BeginAcquire, Create, Write, Undo, UnlinkOwn, Stat, Read, Restat,
                Reread, Unlink, Release, Goto, Safe, LockSafe, LockTypeOK
  <2>2. stage[r] # "none" => pc[r] = "held" /\ pc'[r] = "released"
    BY <1>1 DEF AcquireStep, BeginAcquire, Create, Write, Undo, UnlinkOwn, Stat, Read, Restat,
                Reread, Unlink, Release, Goto, At, Safe, LockSafe, LockTypeOK, StagedWhileHeld
  <2> QED BY <1>1, <2>1, <2>2, LockStepKeepsSeed DEF LockNext, Safe, TypeOK
<1>2. ASSUME NEW p \in Processes, KillSeeding(p) PROVE Safe'
  <2>1. [LockNext]_lockVars
    BY <1>2 DEF KillSeeding, LockNext
  <2> QED BY <1>2, <2>1, LockStepKeepsSeed
          DEF KillSeeding, Kill, Safe, LockSafe, LockTypeOK, TypeOK, Runs, Reading
<1>3. ASSUME NEW r \in Runtimes, SeedStep(r), UNCHANGED lockVars PROVE Safe'
  BY <1>3, SeedStepSafe
<1>4. ASSUME WrapperCreates \/ WrapperFills, UNCHANGED lockVars PROVE Safe'
  BY <1>4, WrapperSafe
<1>5. CASE UNCHANGED vars
  BY <1>5, LockNextSafe
  DEF vars, lockVars, Safe, LockSafe, TypeOK, SeedKept, NothingUsedIsTouched, UnusedYet,
      StagedWhileHeld, Stage, Holds, At, Runs
<1> QED BY <1>1, <1>2, <1>3, <1>4, <1>5 DEF Next

THEOREM ProfileSafe == Spec => []Safe
<1> QED BY InitSafe, NextSafe, PTL DEF Spec

(* Types, for the record.                                                   *)
THEOREM TypeCorrect == Spec => []TypeOK
<1>1. Safe => TypeOK
  BY DEF Safe
<1> QED BY <1>1, ProfileSafe, PTL

(* The identity of a profile is for ever, for any number of launches.       *)
THEOREM IdentityKept == Spec => []SeedKept
<1>1. Safe => SeedKept
  BY DEF Safe
<1> QED BY <1>1, ProfileSafe, PTL
-----------------------------------------------------------------------------
(* The preparations of one process (BridgeRuntime), for any finite number of *)
(* them and any inputs.  One lemma for each thing they share: what an action *)
(* does to it, whichever action it is.                                       *)

(* Entering suppressStdout: the first to enter keeps the write function.     *)
LEMMA OutputEntered ==
  ASSUME SharedSafe, NEW p \in Preparations, phase[p] \notin Silent, Suppress,
         NEW x \in Silent, phase' = [phase EXCEPT ![p] = x]
  PROVE  OutputCounted' /\ depth' \in 0 .. Cardinality(Preparations)
<1>1. Silenced \subseteq Preparations /\ IsFiniteSet(Silenced) /\ p \notin Silenced
  BY PreparationsAssumption, FS_Subset DEF Silenced
<1>2. Silenced' = Silenced \cup {p}
  BY DEF Silenced, SharedSafe, PrepareTypeOK
<1>3. Cardinality(Silenced') = Cardinality(Silenced) + 1
  BY <1>1, <1>2, FS_AddElement
<1>4. Cardinality(Silenced') <= Cardinality(Preparations) /\ Cardinality(Preparations) \in Nat
  <2>1. Silenced' \subseteq Preparations
    BY DEF Silenced
  <2> QED BY <2>1, PreparationsAssumption, FS_Subset, FS_CardinalityType
<1>5. Cardinality(Silenced) \in Nat
  BY <1>1, FS_CardinalityType
<1> QED BY <1>3, <1>4, <1>5 DEF SharedSafe, OutputCounted, Suppress

(* Leaving it: the last to leave puts the write function back.               *)
LEMMA OutputLeft ==
  ASSUME SharedSafe, NEW p \in Preparations, phase[p] \in Silent, Restore,
         NEW x \in States \ Silent, phase' = [phase EXCEPT ![p] = x]
  PROVE  OutputCounted' /\ depth' \in 0 .. Cardinality(Preparations)
<1>1. Silenced \subseteq Preparations /\ IsFiniteSet(Silenced) /\ p \in Silenced
  BY PreparationsAssumption, FS_Subset DEF Silenced
<1>2. Silenced' = Silenced \ {p}
  BY DEF Silenced, SharedSafe, PrepareTypeOK
<1>3. Cardinality(Silenced') = Cardinality(Silenced) - 1
  BY <1>1, <1>2, FS_RemoveElement
<1>4. Cardinality(Silenced) <= Cardinality(Preparations) /\ Cardinality(Preparations) \in Nat
  BY <1>1, PreparationsAssumption, FS_Subset, FS_CardinalityType
<1>5. Cardinality(Silenced) \in Nat /\ Cardinality(Silenced) # 0
  BY <1>1, FS_CardinalityType, FS_EmptySet
<1> QED BY <1>3, <1>4, <1>5 DEF SharedSafe, OutputCounted, Restore

LEMMA OutputKept ==
  ASSUME SharedSafe, NEW p \in Preparations, UNCHANGED output,
         NEW x \in States, phase' = [phase EXCEPT ![p] = x], phase[p] \in Silent <=> x \in Silent
  PROVE  OutputCounted' /\ depth' \in 0 .. Cardinality(Preparations)
<1>1. Silenced' = Silenced
  BY DEF Silenced, SharedSafe, PrepareTypeOK
<1> QED BY <1>1 DEF SharedSafe, OutputCounted, PrepareTypeOK, output

(* Starting takes the directory and, if a profile is asked for, its lock,    *)
(* which is free then.                                                       *)
LEMMA LockTaken ==
  ASSUME SharedSafe, NEW p \in Preparations, NEW o \in Inputs[p], Begin(p, o)
  PROVE  LockCounted'
<1>1. phase[p] = "idle" /\ phase' = [phase EXCEPT ![p] = "seed"] /\ input' = [input EXCEPT ![p] = o]
      /\ temp' = temp \cup {p}
  BY DEF Begin
<1>2. /\ phase'[p] = "seed" /\ input'[p] = o
      /\ \A q \in Preparations \ {p} : phase'[q] = phase[q] /\ input'[q] = input[q]
  BY <1>1 DEF SharedSafe, PrepareTypeOK, KeptTypes
<1>3. p \notin held /\ activeLock # p /\ Alive(p)' /\ \A q \in Preparations \ {p} : Alive(q)' <=> Alive(q)
  BY <1>1, <1>2 DEF SharedSafe, LockCounted, Alive, Silent
<1>4. CASE o.userDataDir
  <2>1. activeLock' = p /\ held' = held \cup {p} /\ activeLock = NoPreparation
    BY <1>4 DEF Begin, LockedByOther
  <2>2. held = {}
    BY <2>1, NoPreparationAssumption DEF SharedSafe, LockCounted, PrepareTypeOK
  <2> QED BY <1>1, <1>2, <1>3, <1>4, <2>1, <2>2 DEF SharedSafe, LockCounted, PrepareTypeOK
<1>5. CASE ~o.userDataDir
  <2>1. activeLock' = activeLock /\ held' = held
    BY <1>5 DEF Begin
  <2> QED BY <1>1, <1>2, <1>3, <1>5, <2>1 DEF SharedSafe, LockCounted, PrepareTypeOK
<1> QED BY <1>4, <1>5

(* Ending gives both back, and a second time does nothing.                   *)
LEMMA LockGivenBack ==
  ASSUME SharedSafe, NEW p \in Preparations, ReleaseLock(p), temp' = temp \ {p}, input' = input,
         NEW x \in {"failed", "disposed"}, phase' = [phase EXCEPT ![p] = x]
  PROVE  LockCounted'
<1>1. phase'[p] = x /\ \A q \in Preparations \ {p} : phase'[q] = phase[q]
  BY DEF SharedSafe, PrepareTypeOK
<1>2. ~Alive(p)' /\ \A q \in Preparations \ {p} : Alive(q)' <=> Alive(q)
  BY <1>1 DEF Alive, Silent
<1>3. CASE p \in held
  BY <1>1, <1>2, <1>3, NoPreparationAssumption DEF SharedSafe, LockCounted, ReleaseLock, PrepareTypeOK
<1>4. CASE p \notin held
  BY <1>1, <1>2, <1>4 DEF SharedSafe, LockCounted, ReleaseLock, PrepareTypeOK
<1> QED BY <1>3, <1>4

LEMMA LockKept ==
  ASSUME SharedSafe, NEW p \in Preparations, UNCHANGED <<temp, activeLock, held, input>>,
         NEW x \in States, phase' = [phase EXCEPT ![p] = x],
         phase[p] \in Silent \cup {"seed", "ready"} <=> x \in Silent \cup {"seed", "ready"}
  PROVE  LockCounted'
<1>1. phase'[p] = x /\ \A q \in Preparations \ {p} : phase'[q] = phase[q]
  BY DEF SharedSafe, PrepareTypeOK
<1>2. \A q \in Preparations : Alive(q)' <=> Alive(q)
  BY <1>1 DEF Alive
<1> QED BY <1>2 DEF SharedSafe, LockCounted

(* The environment: somebody joins the queue, ...                            *)
LEMMA TurnAwaited ==
  ASSUME SharedSafe, NEW p \in Preparations, phase[p] \in {"seed", "binary"}, NEW path \in Paths,
         Enqueue(p, path)
  PROVE  InTurn' /\ BinaryOverrideOwn' /\ KeptTypes'
<1>1. /\ phase'[p] = "queued" /\ binary'[p] = path
      /\ \A q \in Preparations \ {p} : phase'[q] = phase[q] /\ binary'[q] = binary[q]
      /\ queue' = Append(queue, p) /\ UNCHANGED <<input, binaryEnv, previous>>
  BY DEF Enqueue, SharedSafe, PrepareTypeOK, KeptTypes
<1>2. queue \in Seq(Preparations)
  BY DEF SharedSafe, KeptTypes
<1>3. /\ Len(queue') = Len(queue) + 1 /\ queue'[Len(queue) + 1] = p /\ DOMAIN queue' = 1 .. Len(queue')
      /\ DOMAIN queue = 1 .. Len(queue) /\ \A i \in 1 .. Len(queue) : queue'[i] = queue[i]
      /\ Len(queue) \in Nat /\ queue' \in Seq(Preparations)
  BY <1>1, <1>2
<1>4. \A i \in 1 .. Len(queue) : queue[i] \in Preparations /\ queue[i] # p
  BY <1>2, <1>3 DEF SharedSafe, InTurn
<1>5. KeptTypes'
  <2>1. binary' \in [Preparations -> Paths]
    BY DEF Enqueue, SharedSafe, KeptTypes
  <2> QED BY <1>1, <1>3, <2>1 DEF SharedSafe, KeptTypes
<1>6. \A i \in DOMAIN queue' : phase'[queue'[i]] = "queued" \/ (i = 1 /\ phase'[queue'[i]] = "building")
  BY <1>1, <1>3, <1>4 DEF SharedSafe, InTurn
<1>7. \A i, j \in DOMAIN queue' : queue'[i] = queue'[j] => i = j
  <2> SUFFICES ASSUME NEW i \in 1 .. Len(queue) + 1, NEW j \in 1 .. Len(queue) + 1, queue'[i] = queue'[j]
               PROVE  i = j
    BY <1>3
  <2>1. CASE i \in 1 .. Len(queue) /\ j \in 1 .. Len(queue)
    BY <1>3, <2>1 DEF SharedSafe, InTurn
  <2>2. CASE i = Len(queue) + 1 /\ j \in 1 .. Len(queue)
    BY <1>3, <1>4, <2>2
  <2>3. CASE j = Len(queue) + 1 /\ i \in 1 .. Len(queue)
    BY <1>3, <1>4, <2>3
  <2> QED BY <1>3, <2>1, <2>2, <2>3
<1>8. \A q \in Preparations : phase'[q] = "building" => queue' # <<>> /\ Head(queue') = q /\ previous'[q] \in {"unset", "configured"}
  <2> SUFFICES ASSUME NEW q \in Preparations, phase'[q] = "building"
               PROVE  queue' # <<>> /\ Head(queue') = q /\ previous'[q] \in {"unset", "configured"}
    OBVIOUS
  <2>1. phase[q] = "building"
    BY <1>1
  <2>2. queue # <<>> /\ Head(queue) = q /\ previous[q] \in {"unset", "configured"}
    BY <2>1 DEF SharedSafe, InTurn
  <2>3. Len(queue) >= 1 /\ queue[1] = q
    BY <1>2, <2>2
  <2> QED BY <1>1, <1>3, <2>2, <2>3
<1>9. BinaryOverrideOwn'
  BY <1>1 DEF SharedSafe, BinaryOverrideOwn
<1> QED BY <1>5, <1>6, <1>7, <1>8, <1>9 DEF InTurn

(* ... the first of it builds, when nobody else does, ...                    *)
LEMMA TurnTaken ==
  ASSUME SharedSafe, NEW p \in Preparations, Build(p)
  PROVE  InTurn' /\ BinaryOverrideOwn' /\ KeptTypes'
<1>1. /\ phase[p] = "queued" /\ queue # <<>> /\ Head(queue) = p
      /\ phase'[p] = "building" /\ previous'[p] = binaryEnv /\ binaryEnv' = binary[p]
      /\ \A q \in Preparations \ {p} : phase'[q] = phase[q] /\ previous'[q] = previous[q]
      /\ UNCHANGED <<input, binary, queue>>
  BY DEF Build, MayBuild, SharedSafe, PrepareTypeOK, KeptTypes
<1>2. queue \in Seq(Preparations) /\ Len(queue) >= 1 /\ queue[1] = p
  BY <1>1 DEF SharedSafe, KeptTypes
<1>3. \A q \in Preparations : phase[q] # "building"
  BY <1>1 DEF SharedSafe, InTurn
<1>4. binaryEnv \in {"unset", "configured"}
  BY <1>3 DEF SharedSafe, BinaryOverrideOwn
<1>5. \A q \in Preparations : phase'[q] = "building" => q = p
  BY <1>1, <1>3
<1>6. InTurn'
  <2>1. \A i \in DOMAIN queue : queue[i] \in Preparations /\ (queue[i] = p => i = 1)
    BY <1>2 DEF SharedSafe, InTurn
  <2>2. \A i \in DOMAIN queue : phase'[queue[i]] = "queued" \/ (i = 1 /\ phase'[queue[i]] = "building")
    BY <1>1, <1>3, <2>1 DEF SharedSafe, InTurn
  <2> QED BY <1>1, <1>4, <1>5, <2>2 DEF SharedSafe, InTurn
<1>7. KeptTypes'
  <2>1. previous' \in [Preparations -> Paths]
    BY DEF Build, SharedSafe, KeptTypes
  <2> QED BY <1>1, <2>1 DEF SharedSafe, KeptTypes
<1>8. BinaryOverrideOwn'
  BY <1>1, <1>5 DEF BinaryOverrideOwn
<1> QED BY <1>6, <1>7, <1>8

(* ... and puts back what it found, rejected or not.                         *)
LEMMA TurnHandedOn ==
  ASSUME SharedSafe, NEW p \in Preparations, NEW succeeded \in BOOLEAN, BuilderAnswers(p, succeeded),
         phase' = [phase EXCEPT ![p] = "built"]
  PROVE  InTurn' /\ BinaryOverrideOwn' /\ KeptTypes'
<1>1. /\ phase[p] = "building" /\ phase'[p] = "built" /\ binaryEnv' = previous[p]
      /\ \A q \in Preparations \ {p} : phase'[q] = phase[q]
      /\ queue' = Tail(queue) /\ UNCHANGED <<input, binary, previous>>
  BY DEF BuilderAnswers, NextInQueue, SharedSafe, PrepareTypeOK
<1>2. /\ queue # <<>> /\ Head(queue) = p /\ previous[p] \in {"unset", "configured"}
      /\ \A q \in Preparations \ {p} : phase[q] # "building"
  BY <1>1 DEF SharedSafe, InTurn
<1>3. queue \in Seq(Preparations) /\ Len(queue) >= 1 /\ queue[1] = p /\ DOMAIN queue = 1 .. Len(queue)
  BY <1>2 DEF SharedSafe, KeptTypes
<1>4. /\ Len(queue') = Len(queue) - 1 /\ DOMAIN queue' = 1 .. Len(queue) - 1
      /\ \A i \in 1 .. Len(queue) - 1 : queue'[i] = queue[i + 1]
      /\ queue' \in Seq(Preparations) /\ Len(queue) \in Nat
  BY <1>1, <1>3
<1>5. \A i \in DOMAIN queue' : i + 1 \in DOMAIN queue /\ queue'[i] = queue[i + 1] /\ i \in Nat
  BY <1>3, <1>4
<1>6. \A i \in DOMAIN queue' : queue'[i] \in Preparations /\ queue'[i] # p /\ phase'[queue'[i]] = "queued"
  <2> SUFFICES ASSUME NEW i \in DOMAIN queue'
               PROVE  queue'[i] \in Preparations /\ queue'[i] # p /\ phase'[queue'[i]] = "queued"
    OBVIOUS
  <2>1. i + 1 \in DOMAIN queue /\ queue'[i] = queue[i + 1] /\ i + 1 # 1 /\ 1 \in DOMAIN queue
    BY <1>3, <1>4, <1>5
  <2>2. queue[i + 1] # p /\ queue[i + 1] \in Preparations
    BY <1>3, <2>1 DEF SharedSafe, InTurn
  <2>3. phase[queue[i + 1]] = "queued"
    BY <2>1 DEF SharedSafe, InTurn
  <2> QED BY <1>1, <2>1, <2>2, <2>3
<1>7. \A i, j \in DOMAIN queue' : queue'[i] = queue'[j] => i = j
  <2> SUFFICES ASSUME NEW i \in DOMAIN queue', NEW j \in DOMAIN queue', queue'[i] = queue'[j] PROVE i = j
    OBVIOUS
  <2>1. i + 1 = j + 1
    BY <1>5 DEF SharedSafe, InTurn
  <2> QED BY <1>5, <2>1
<1>8. \A q \in Preparations : phase'[q] # "building"
  BY <1>1, <1>2
<1>9. InTurn'
  BY <1>6, <1>7, <1>8 DEF InTurn
<1>10. KeptTypes'
  BY <1>1, <1>4 DEF SharedSafe, KeptTypes
<1>11. BinaryOverrideOwn'
  BY <1>1, <1>2, <1>8 DEF BinaryOverrideOwn
<1> QED BY <1>9, <1>10, <1>11

LEMMA TurnKept ==
  ASSUME SharedSafe, NEW p \in Preparations, UNCHANGED <<binary, override>>,
         input' \in [Preparations -> (UNION {Inputs[q] : q \in Preparations}) \cup {NoInput}],
         phase[p] \notin {"queued", "building"},
         NEW x \in States \ {"queued", "building"}, phase' = [phase EXCEPT ![p] = x]
  PROVE  InTurn' /\ BinaryOverrideOwn' /\ KeptTypes'
<1>1. /\ \A q \in Preparations : phase[q] \in {"queued", "building"} \/ phase'[q] \in {"queued", "building"} => phase'[q] = phase[q]
      /\ UNCHANGED <<binary, binaryEnv, previous, queue>>
  BY DEF SharedSafe, PrepareTypeOK, override
<1>2. \A i \in DOMAIN queue : queue[i] \in Preparations
  BY DEF SharedSafe, KeptTypes
<1>3. InTurn'
  BY <1>1, <1>2 DEF SharedSafe, InTurn
<1>4. BinaryOverrideOwn'
  BY <1>1 DEF SharedSafe, BinaryOverrideOwn
<1> QED BY <1>1, <1>3, <1>4 DEF SharedSafe, KeptTypes

(* Together: no action of a preparation leaves what is shared in disorder.   *)
LEMMA SharedInit == PrepareInit => SharedSafe
<1> SUFFICES ASSUME PrepareInit PROVE SharedSafe
  OBVIOUS
<1>1. \A p \in Preparations : phase[p] = "idle" /\ input[p] = NoInput
  BY DEF PrepareInit
<1>2. Cardinality(Preparations) \in Nat
  BY PreparationsAssumption, FS_CardinalityType
<1>3. OutputCounted
  <2>1. Silenced = {}
    BY <1>1 DEF Silenced, Silent
  <2> QED BY <2>1, FS_EmptySet DEF OutputCounted, PrepareInit
<1>4. PrepareTypeOK
  BY <1>2 DEF PrepareInit, PrepareTypeOK, States
<1>5. KeptTypes
  <2>1. queue \in Seq(Preparations)
    BY DEF PrepareInit
  <2>2. input \in [Preparations -> (UNION {Inputs[p] : p \in Preparations}) \cup {NoInput}]
    BY DEF PrepareInit
  <2> QED BY <2>1, <2>2 DEF PrepareInit, KeptTypes, Paths
<1>6. LockCounted
  BY <1>1, NoPreparationAssumption DEF PrepareInit, LockCounted, Alive, Silent
<1>7. InTurn /\ BinaryOverrideOwn
  BY <1>1 DEF PrepareInit, InTurn, BinaryOverrideOwn
<1> QED BY <1>3, <1>4, <1>5, <1>6, <1>7 DEF SharedSafe

LEMMA StartSafe ==
  ASSUME SharedSafe, NEW p \in Preparations, NEW o \in Inputs[p], Refuse(p, o) \/ Begin(p, o)
  PROVE  SharedSafe'
<1>0. "seed" \in States \ Silent /\ "failed" \in States \ Silent /\ "idle" \notin Silent
  BY DEF States, Silent
<1>1. CASE Refuse(p, o)
  <2>1. /\ phase[p] = "idle" /\ phase' = [phase EXCEPT ![p] = "failed"]
        /\ UNCHANGED <<input, runtime, temp, activeLock, held, binary, output, override>>
    BY <1>1 DEF Refuse
  <2>2. OutputCounted' /\ depth' \in 0 .. Cardinality(Preparations)
    BY <1>0, <2>1, OutputKept
  <2>3. LockCounted'
    BY <1>0, <2>1, LockKept DEF Silent
  <2>4. InTurn' /\ BinaryOverrideOwn' /\ KeptTypes'
    <3>1. input' \in [Preparations -> (UNION {Inputs[q] : q \in Preparations}) \cup {NoInput}]
      BY <2>1 DEF SharedSafe, KeptTypes
    <3> QED BY <1>0, <2>1, <3>1, TurnKept
  <2> QED BY <1>0, <2>1, <2>2, <2>3, <2>4 DEF SharedSafe, PrepareTypeOK, output
<1>2. CASE Begin(p, o)
  <2>1. /\ phase[p] = "idle" /\ phase' = [phase EXCEPT ![p] = "seed"]
        /\ input' = [input EXCEPT ![p] = o]
        /\ temp' = temp \cup {p}
        /\ activeLock' \in {p, activeLock} /\ held' \in {held, held \cup {p}}
        /\ UNCHANGED <<runtime, binary, output, override>>
    BY <1>2 DEF Begin
  <2>2. OutputCounted' /\ depth' \in 0 .. Cardinality(Preparations)
    BY <1>0, <2>1, OutputKept
  <2>3. LockCounted'
    BY <1>2, LockTaken
  <2>4. InTurn' /\ BinaryOverrideOwn' /\ KeptTypes'
    <3>1. input' \in [Preparations -> (UNION {Inputs[q] : q \in Preparations}) \cup {NoInput}]
      BY <2>1 DEF SharedSafe, KeptTypes
    <3> QED BY <1>0, <2>1, <3>1, TurnKept
  <2> QED BY <1>0, <2>1, <2>2, <2>3, <2>4 DEF SharedSafe, PrepareTypeOK, output
<1> QED BY <1>1, <1>2

(* An end: everything the preparation had is given back.                     *)
LEMMA EndSafe ==
  ASSUME SharedSafe, NEW p \in Preparations, ReleaseLock(p), temp' = temp \ {p},
         UNCHANGED <<input, binary, override>>,
         phase[p] \in States \ {"queued", "building"},
         NEW x \in {"failed", "disposed"}, phase' = [phase EXCEPT ![p] = x],
         (phase[p] \notin Silent /\ UNCHANGED output) \/ (phase[p] \in Silent /\ Restore)
  PROVE  SharedSafe'
<1>0. x \in States \ Silent /\ x \notin {"queued", "building"}
  BY DEF States, Silent
<1>1. OutputCounted' /\ depth' \in 0 .. Cardinality(Preparations)
  BY <1>0, OutputKept, OutputLeft
<1>2. LockCounted'
  BY LockGivenBack
<1>3. InTurn' /\ BinaryOverrideOwn' /\ KeptTypes'
  <2>1. input' \in [Preparations -> (UNION {Inputs[q] : q \in Preparations}) \cup {NoInput}]
    BY DEF SharedSafe, KeptTypes
  <2> QED BY <1>0, <2>1, TurnKept
<1>4. PrepareTypeOK'
  <2>1. stdout' \in {"real", "suppressed"}
    BY <1>1 DEF OutputCounted
  <2>2. activeLock' \in {activeLock, NoPreparation} /\ held' \subseteq held
    BY DEF ReleaseLock
  <2> QED BY <1>0, <1>1, <2>1, <2>2 DEF SharedSafe, PrepareTypeOK
<1> QED BY <1>1, <1>2, <1>3, <1>4 DEF SharedSafe

(* What the lock is not concerned with keeps the rest of the type.           *)
LEMMA TypesKept ==
  ASSUME SharedSafe, NEW p \in Preparations, NEW x \in States, phase' = [phase EXCEPT ![p] = x],
         UNCHANGED <<temp, activeLock, held>>, OutputCounted', depth' \in 0 .. Cardinality(Preparations)
  PROVE  PrepareTypeOK'
  BY DEF SharedSafe, PrepareTypeOK, OutputCounted

LEMMA AdvanceSafe == ASSUME SharedSafe, NEW p \in Preparations, Advance(p) PROVE SharedSafe'
<1>0. /\ Silent \subseteq States /\ {"seed", "ready", "failed"} \subseteq States \ Silent
      /\ {"binary", "queued", "building", "built"} = Silent
  BY DEF States, Silent
<1>1. CASE Plain(p)
  <2>1. /\ phase[p] = "seed" /\ phase' = [phase EXCEPT ![p] = "ready"]
        /\ UNCHANGED <<input, temp, activeLock, held, binary, output, override>>
    BY <1>1 DEF Plain, Return
  <2>2. OutputCounted' /\ depth' \in 0 .. Cardinality(Preparations)
    BY <1>0, <2>1, OutputKept
  <2>3. LockCounted'
    BY <1>0, <2>1, LockKept
  <2>4. InTurn' /\ BinaryOverrideOwn' /\ KeptTypes'
    <3>1. input' \in [Preparations -> (UNION {Inputs[q] : q \in Preparations}) \cup {NoInput}]
      BY <2>1 DEF SharedSafe, KeptTypes
    <3> QED BY <1>0, <2>1, <3>1, TurnKept
  <2> QED BY <1>0, <2>1, <2>2, <2>3, <2>4, TypesKept DEF SharedSafe
<1>2. CASE SeedOrPathRefused(p)
  <2>1. /\ phase[p] = "seed" /\ phase' = [phase EXCEPT ![p] = "failed"] /\ ReleaseLock(p) /\ temp' = temp \ {p}
        /\ UNCHANGED <<input, binary, output, override>>
    BY <1>2 DEF SeedOrPathRefused, Fail
  <2> QED BY <1>0, <2>1, EndSafe
<1>3. CASE Seeded(p)
  <2>1. CASE binaryEnv = "unset"
    <3>1. /\ phase[p] = "seed" /\ phase' = [phase EXCEPT ![p] = "binary"] /\ Suppress
          /\ UNCHANGED <<input, temp, activeLock, held, binary, override>>
      BY <1>3, <2>1 DEF Seeded
    <3>2. OutputCounted' /\ depth' \in 0 .. Cardinality(Preparations)
      BY <1>0, <3>1, OutputEntered
    <3>3. LockCounted'
      BY <1>0, <3>1, LockKept
    <3>4. InTurn' /\ BinaryOverrideOwn' /\ KeptTypes'
      <4>1. input' \in [Preparations -> (UNION {Inputs[q] : q \in Preparations}) \cup {NoInput}]
        BY <3>1 DEF SharedSafe, KeptTypes
      <4> QED BY <1>0, <3>1, <4>1, TurnKept
    <3> QED BY <1>0, <3>1, <3>2, <3>3, <3>4, TypesKept DEF SharedSafe
  <2>2. CASE binaryEnv # "unset" /\ ChannelMalformed(input[p])
    <3>1. /\ phase[p] = "seed" /\ phase' = [phase EXCEPT ![p] = "failed"] /\ ReleaseLock(p) /\ temp' = temp \ {p}
          /\ UNCHANGED <<input, binary, output, override>>
      BY <1>3, <2>2 DEF Seeded, Fail
    <3> QED BY <1>0, <3>1, EndSafe
  <2>3. CASE binaryEnv # "unset" /\ ~ChannelMalformed(input[p])
    <3>1. phase[p] = "seed" /\ Enqueue(p, binaryEnv) /\ Suppress
      BY <1>3, <2>3 DEF Seeded
    <3>2. phase' = [phase EXCEPT ![p] = "queued"] /\ UNCHANGED <<input, temp, activeLock, held>>
      BY <3>1 DEF Enqueue
    <3>3. OutputCounted' /\ depth' \in 0 .. Cardinality(Preparations)
      BY <1>0, <3>1, <3>2, OutputEntered
    <3>4. LockCounted'
      BY <1>0, <3>1, <3>2, LockKept
    <3>5. InTurn' /\ BinaryOverrideOwn' /\ KeptTypes'
      BY <3>1, TurnAwaited DEF SharedSafe, KeptTypes
    <3> QED BY <1>0, <3>2, <3>3, <3>4, <3>5, TypesKept DEF SharedSafe
  <2> QED BY <2>1, <2>2, <2>3
<1>4. CASE EnsureFails(p)
  <2>1. /\ phase[p] = "binary" /\ phase' = [phase EXCEPT ![p] = "failed"] /\ ReleaseLock(p) /\ temp' = temp \ {p}
        /\ Restore /\ UNCHANGED <<input, binary, override>>
    BY <1>4 DEF EnsureFails, Fail
  <2> QED BY <1>0, <2>1, EndSafe
<1>5. ASSUME NEW path \in {"cached", "updated"}, Ensured(p, path) PROVE SharedSafe'
  <2>1. phase[p] = "binary" /\ Enqueue(p, path) /\ UNCHANGED output
    BY <1>5 DEF Ensured
  <2>2. phase' = [phase EXCEPT ![p] = "queued"] /\ UNCHANGED <<input, temp, activeLock, held>>
    BY <2>1 DEF Enqueue
  <2>3. OutputCounted' /\ depth' \in 0 .. Cardinality(Preparations)
    BY <1>0, <2>1, <2>2, OutputKept
  <2>4. LockCounted'
    BY <1>0, <2>1, <2>2, LockKept
  <2>5. InTurn' /\ BinaryOverrideOwn' /\ KeptTypes'
    BY <2>1, TurnAwaited DEF Paths
  <2> QED BY <1>0, <2>2, <2>3, <2>4, <2>5, TypesKept DEF SharedSafe
<1>6. CASE Build(p)
  <2>1. /\ phase[p] = "queued" /\ phase' = [phase EXCEPT ![p] = "building"]
        /\ UNCHANGED <<input, temp, activeLock, held, output>>
    BY <1>6 DEF Build
  <2>2. OutputCounted' /\ depth' \in 0 .. Cardinality(Preparations)
    BY <1>0, <2>1, OutputKept
  <2>3. LockCounted'
    BY <1>0, <2>1, LockKept
  <2>4. InTurn' /\ BinaryOverrideOwn' /\ KeptTypes'
    BY <1>6, TurnTaken
  <2> QED BY <1>0, <2>1, <2>2, <2>3, <2>4, TypesKept DEF SharedSafe
<1>7. ASSUME BuildFails(p) \/ Built(p) PROVE SharedSafe'
  <2>1. PICK succeeded \in BOOLEAN : BuilderAnswers(p, succeeded)
    BY <1>7 DEF BuildFails, Built
  <2>2. /\ phase[p] = "building" /\ phase' = [phase EXCEPT ![p] = "built"]
        /\ UNCHANGED <<input, temp, activeLock, held, output>>
    BY <1>7 DEF BuildFails, Built, BuilderAnswers
  <2>3. OutputCounted' /\ depth' \in 0 .. Cardinality(Preparations)
    BY <1>0, <2>2, OutputKept
  <2>4. LockCounted'
    BY <1>0, <2>2, LockKept
  <2>5. InTurn' /\ BinaryOverrideOwn' /\ KeptTypes'
    BY <2>1, <2>2, TurnHandedOn
  <2> QED BY <1>0, <2>2, <2>3, <2>4, <2>5, TypesKept DEF SharedSafe
<1>8. CASE FinishRejected(p)
  <2>1. /\ phase[p] = "built" /\ phase' = [phase EXCEPT ![p] = "failed"] /\ ReleaseLock(p) /\ temp' = temp \ {p}
        /\ Restore /\ UNCHANGED <<input, binary, override>>
    BY <1>8 DEF FinishRejected, Fail
  <2> QED BY <1>0, <2>1, EndSafe
<1>9. CASE Finish(p)
  <2>1. /\ phase[p] = "built" /\ phase' = [phase EXCEPT ![p] = "ready"] /\ Restore
        /\ UNCHANGED <<input, temp, activeLock, held, binary, override>>
    BY <1>9 DEF Finish, Return
  <2>2. OutputCounted' /\ depth' \in 0 .. Cardinality(Preparations)
    BY <1>0, <2>1, OutputLeft
  <2>3. LockCounted'
    BY <1>0, <2>1, LockKept
  <2>4. InTurn' /\ BinaryOverrideOwn' /\ KeptTypes'
    <3>1. input' \in [Preparations -> (UNION {Inputs[q] : q \in Preparations}) \cup {NoInput}]
      BY <2>1 DEF SharedSafe, KeptTypes
    <3> QED BY <1>0, <2>1, <3>1, TurnKept
  <2> QED BY <1>0, <2>1, <2>2, <2>3, <2>4, TypesKept DEF SharedSafe
<1> QED BY <1>1, <1>2, <1>3, <1>4, <1>5, <1>6, <1>7, <1>8, <1>9 DEF Advance

LEMMA SharedNext == SharedSafe /\ [PrepareNext]_prepareVars => SharedSafe'
<1> SUFFICES ASSUME SharedSafe, [PrepareNext]_prepareVars PROVE SharedSafe'
  OBVIOUS
<1>1. ASSUME NEW p \in Preparations, Start(p) PROVE SharedSafe'
  BY <1>1, StartSafe DEF Start
<1>2. ASSUME NEW p \in Preparations, Advance(p) PROVE SharedSafe'
  BY <1>2, AdvanceSafe
<1>3. ASSUME NEW p \in Preparations, Dispose(p) PROVE SharedSafe'
  <2>1. /\ phase[p] \in States \ Silent /\ phase' = [phase EXCEPT ![p] = "disposed"] /\ ReleaseLock(p)
        /\ temp' = temp \ {p} /\ UNCHANGED <<input, binary, output, override>>
    BY <1>3 DEF Dispose, States, Silent
  <2>2. phase[p] \in States \ {"queued", "building"}
    BY <2>1 DEF Silent
  <2> QED BY <2>1, <2>2, EndSafe
<1>4. CASE UNCHANGED prepareVars
  BY <1>4 DEF prepareVars, SharedSafe, PrepareTypeOK, KeptTypes, OutputCounted, Silenced, LockCounted, Alive,
              InTurn, BinaryOverrideOwn
<1> QED BY <1>1, <1>2, <1>3, <1>4 DEF PrepareNext

THEOREM PreparationsSafe == PrepareSpec => []SharedSafe
<1> QED BY SharedInit, SharedNext, PTL DEF PrepareSpec

(* The lock of the profile, standard output and the environment are used by  *)
(* one preparation at a time and are given back however each ends, whatever  *)
(* the inputs and however many preparations interleave.                      *)
THEOREM SharedGivenBack == PrepareSpec => []SharedStateGivenBack
<1>1. SharedSafe => SharedStateGivenBack
  <2> SUFFICES ASSUME SharedSafe PROVE ProfileHeld /\ StdoutRestored
    BY DEF SharedSafe, SharedStateGivenBack
  <2>1. ProfileHeld
    BY DEF SharedSafe, LockCounted, Alive, ProfileHeld, Silent
  <2>2. IsFiniteSet(Silenced)
    BY PreparationsAssumption, FS_Subset DEF Silenced
  <2>3. depth = 0 <=> Silenced = {}
    BY <2>2, FS_EmptySet DEF SharedSafe, OutputCounted
  <2>4. StdoutRestored
    BY <2>3 DEF SharedSafe, OutputCounted, StdoutRestored, Silenced
  <2> QED BY <2>1, <2>4
<1> QED BY <1>1, PreparationsSafe, PTL

(* Launch arguments.  A filter keeps what it keeps in its order: Order       *)
(* enumerates a set of positions from the first to the last.                 *)
LEMMA OrderEnumerates ==
  ASSUME NEW n \in Nat, NEW I \in SUBSET (1 .. n)
  PROVE  /\ Cardinality(I) \in Nat /\ DOMAIN Order[I] = 1 .. Cardinality(I)
         /\ \A k \in 1 .. Cardinality(I) : Order[I][k] \in I
         /\ \A i \in I : \E k \in 1 .. Cardinality(I) : Order[I][k] = i
         /\ \A k, l \in 1 .. Cardinality(I) : Order[I][k] <= Order[I][l] => k <= l
<1> DEFINE below(i) == {j \in I : j <= i}
           rank == [i \in I |-> Cardinality(below(i))]
           size == Cardinality(I)
<1>0. I \in SUBSET Nat /\ \A i \in I : i \in Nat
  OBVIOUS
<1>1. IsFiniteSet(I) /\ size \in Nat
  <2>1. IsFiniteSet(1 .. n)
    BY FS_Interval
  <2>2. IsFiniteSet(I)
    BY <2>1, FS_Subset
  <2> QED BY <2>2, FS_CardinalityType
<1>2. \A i \in I : IsFiniteSet(below(i)) /\ rank[i] \in 1 .. size
  <2> SUFFICES ASSUME NEW i \in I PROVE IsFiniteSet(below(i)) /\ rank[i] \in 1 .. size
    OBVIOUS
  <2>1. below(i) \in SUBSET I /\ below(i) # {}
    OBVIOUS
  <2>2. IsFiniteSet(below(i)) /\ Cardinality(below(i)) <= size
    BY <1>1, <2>1, FS_Subset
  <2>3. Cardinality(below(i)) \in Nat /\ Cardinality(below(i)) # 0
    BY <2>1, <2>2, FS_CardinalityType, FS_EmptySet
  <2> HIDE DEF below
  <2> QED BY <1>1, <2>2, <2>3
<1>3. \A i, j \in I : i <= j => rank[i] <= rank[j] /\ (rank[i] = rank[j] => i = j)
  <2> SUFFICES ASSUME NEW i \in I, NEW j \in I, i <= j
               PROVE  rank[i] <= rank[j] /\ (rank[i] = rank[j] => i = j)
    OBVIOUS
  <2>0. i \in Nat /\ j \in Nat /\ \A l \in I : l <= i => l <= j
    BY <1>0
  <2>1. below(i) \in SUBSET below(j)
    BY <2>0
  <2>2. Cardinality(below(i)) <= Cardinality(below(j))
        /\ (Cardinality(below(j)) = Cardinality(below(i)) => below(j) = below(i))
    BY <1>2, <2>1, FS_Subset
  <2>3. below(j) = below(i) => i = j
    OBVIOUS
  <2> HIDE DEF below
  <2> QED BY <2>2, <2>3
<1> HIDE DEF rank
<1>4. rank \in Injection(I, 1 .. size)
  <2>1. rank \in [I -> 1 .. size]
    BY <1>2 DEF rank
  <2>2. \A i, j \in I : rank[i] = rank[j] => i = j
    BY <1>3
  <2> QED BY <2>1, <2>2 DEF Injection, IsInjective
<1>5. \A k \in 1 .. size : \E i \in I : rank[i] = k
  <2>1. Cardinality(1 .. size) = size /\ IsFiniteSet(1 .. size)
    BY <1>1, FS_Interval
  <2>2. rank \in Surjection(I, 1 .. size)
    BY <1>4, <2>1, FS_Injection
  <2> QED BY <2>2 DEF Surjection
<1>7. Order[I] = [k \in 1 .. size |-> CHOOSE i \in I : rank[i] = k]
  <2>1. Order[I] = [k \in 1 .. size |-> CHOOSE i \in I : Cardinality(below(i)) = k]
    BY <1>0 DEF Order
  <2>2. \A k \in 1 .. size : (CHOOSE i \in I : Cardinality(below(i)) = k) = (CHOOSE i \in I : rank[i] = k)
    BY DEF rank
  <2> QED BY <2>1, <2>2
<1>8. \A k \in 1 .. size : Order[I][k] \in I /\ rank[Order[I][k]] = k
  BY <1>5, <1>7
<1>9. \A i \in I : Order[I][rank[i]] = i
  <2> TAKE i \in I
  <2>1. rank[i] \in 1 .. size
    BY <1>2
  <2>2. Order[I][rank[i]] \in I /\ rank[Order[I][rank[i]]] = rank[i]
    BY <1>8, <2>1
  <2>3. PICK j \in I : j = Order[I][rank[i]]
    BY <2>2
  <2>4. i \in Nat /\ j \in Nat /\ rank[j] = rank[i]
    BY <1>0, <2>2, <2>3
  <2>5. i <= j \/ j <= i
    BY <2>4
  <2> QED BY <1>3, <2>3, <2>4, <2>5
<1>10. \A k, l \in 1 .. size : Order[I][k] <= Order[I][l] => k <= l
  <2> TAKE k, l \in 1 .. size
  <2> HAVE Order[I][k] <= Order[I][l]
  <2>1. rank[Order[I][k]] <= rank[Order[I][l]]
    BY <1>3, <1>8
  <2> QED BY <1>8, <2>1
<1>11. DOMAIN Order[I] = 1 .. size
  BY <1>7
<1> QED BY <1>1, <1>2, <1>8, <1>9, <1>10, <1>11

LEMMA Ends ==
  ASSUME NEW n \in Nat, NEW I \in SUBSET (1 .. n), I # {}
  PROVE  \E lo, hi \in I : \A i \in I : lo <= i /\ i <= hi
<1>1. PICK size, at :
        /\ size \in Nat /\ DOMAIN at = 1 .. size
        /\ \A k \in 1 .. size : at[k] \in I
        /\ \A i \in I : \E k \in 1 .. size : at[k] = i
        /\ \A k, l \in 1 .. size : at[k] <= at[l] => k <= l
  <2> WITNESS Cardinality(I), Order[I]
  <2> QED BY OrderEnumerates
<1>2. \A i \in I : i \in Nat
  OBVIOUS
<1>3. 1 \in 1 .. size /\ size \in 1 .. size
  <2>1. PICK i \in I : TRUE
    OBVIOUS
  <2>2. PICK k \in 1 .. size : at[k] = i
    BY <1>1
  <2> QED BY <1>1, <2>2
<1>4. \A i \in I : at[1] <= i /\ i <= at[size]
  <2> TAKE i \in I
  <2>1. PICK k \in 1 .. size : at[k] = i
    BY <1>1
  <2>2. at[1] \in Nat /\ at[size] \in Nat /\ i \in Nat
    BY <1>1, <1>2, <1>3
  <2>3. (i <= at[1] => k <= 1) /\ (at[size] <= i => size <= k)
    BY <1>1, <1>3, <2>1
  <2>4. k = 1 \/ ~(i <= at[1])
    BY <1>1, <2>3
  <2>5. k = size \/ ~(at[size] <= i)
    BY <1>1, <2>3
  <2> QED BY <2>1, <2>2, <2>4, <2>5
<1>5. at[1] \in I /\ at[size] \in I
  BY <1>1, <1>3
<1> QED BY <1>4, <1>5

(* Which argument with a key counts.                                         *)
FirstAt(s, k, i) == i \in Given(s, k) /\ \A j \in Given(s, k) : i <= j
LastAt(s, k, i) == i \in DOMAIN s /\ s[i].key = k /\ \A j \in DOMAIN s : s[j].key = k => j <= i

LEMMA FirstIs ==
  ASSUME NEW s \in LaunchArgs, NEW k, NEW i, FirstAt(s, k, i)
  PROVE  First(s, k) = s[i].value /\ s[i].key = k
<1>1. \A j \in Given(s, k) : (\A l \in Given(s, k) : j <= l) => j = i
  BY DEF FirstAt, Given, LaunchArgs
<1>2. (CHOOSE j \in Given(s, k) : \A l \in Given(s, k) : j <= l) = i
  BY <1>1 DEF FirstAt
<1> QED BY <1>2 DEF First, FirstAt, Given

LEMMA LastIs ==
  ASSUME NEW s \in LaunchArgs, NEW k, NEW i, LastAt(s, k, i)
  PROVE  Last(s, k) = s[i].value
<1> DEFINE IsLast(j) == s[j].key = k /\ \A l \in (j + 1) .. Len(s) : s[l].key # k
<1>1. \A j \in DOMAIN s : IsLast(j) <=> j = i
  BY DEF LastAt, LaunchArgs
<1>2. i \in DOMAIN s
  BY DEF LastAt
<1> HIDE DEF IsLast
<1>3. (CHOOSE j \in DOMAIN s : IsLast(j)) = i
  BY <1>1, <1>2
<1> QED BY <1>3 DEF Last, IsLast

LEMMA FirstExists ==
  ASSUME NEW s \in LaunchArgs, NEW k, Given(s, k) # {} PROVE \E i : FirstAt(s, k, i)
<1>1. Len(s) \in Nat /\ Given(s, k) \in SUBSET (1 .. Len(s))
  BY DEF Given, LaunchArgs
<1> QED BY <1>1, Ends DEF FirstAt

LEMMA LastExists ==
  ASSUME NEW s \in LaunchArgs, NEW k, k \in Keys(s)
  PROVE  \E lo, hi \in DOMAIN s : /\ s[lo].key = k /\ \A j \in 1 .. (lo - 1) : s[j].key # k
                                  /\ LastAt(s, k, hi)
<1> DEFINE I == {i \in DOMAIN s : s[i].key = k}
<1>1. Len(s) \in Nat /\ DOMAIN s = 1 .. Len(s) /\ I \in SUBSET (1 .. Len(s)) /\ I # {}
  BY DEF Keys, LaunchArgs
<1>2. PICK lo, hi \in I : \A i \in I : lo <= i /\ i <= hi
  <2> HIDE DEF I
  <2> QED BY <1>1, Ends
<1>3. \A j \in 1 .. (lo - 1) : s[j].key # k
  BY <1>1, <1>2
<1> QED BY <1>1, <1>2, <1>3 DEF LastAt

(* Two lists that Chromium reads in the same way as far as a key goes.        *)
SameFor(s, t, k) ==
  /\ First(t, k) = First(s, k) /\ (k \in Keys(t) <=> k \in Keys(s))
  /\ k \in Keys(s) => Last(t, k) = Last(s, k)

(* They are, when each argument with the key is in both, in the same order.   *)
LEMMA SameWhenMatched ==
  ASSUME NEW s \in LaunchArgs, NEW t \in LaunchArgs, NEW k, NEW at,
         \A m \in DOMAIN t : t[m].key = k => at[m] \in DOMAIN s /\ s[at[m]] = t[m],
         \A i \in DOMAIN s : s[i].key = k => \E m \in DOMAIN t : at[m] = i /\ t[m] = s[i],
         \A m, l \in DOMAIN t : t[m].key = k /\ t[l].key = k /\ at[m] <= at[l] => m <= l
  PROVE  SameFor(s, t, k)
<1>1. First(t, k) = First(s, k)
  <2>1. CASE Given(s, k) = {}
    <3>1. Given(t, k) = {}
      BY <2>1 DEF Given
    <3> QED BY <2>1, <3>1 DEF First
  <2>2. CASE Given(s, k) # {}
    <3>1. PICK i : FirstAt(s, k, i)
      BY <2>2, FirstExists
    <3>2. i \in DOMAIN s /\ s[i].key = k /\ s[i].value # "bare"
      BY <3>1 DEF FirstAt, Given
    <3>3. PICK m \in DOMAIN t : at[m] = i /\ t[m] = s[i]
      BY <3>2
    <3>4. \A l \in Given(t, k) : m <= l
      <4> TAKE l \in Given(t, k)
      <4>1. l \in DOMAIN t /\ t[l].key = k /\ t[l].value # "bare"
        BY DEF Given
      <4>2. at[l] \in Given(s, k)
        BY <4>1 DEF Given
      <4>3. at[m] <= at[l]
        BY <3>1, <3>3, <4>2 DEF FirstAt
      <4> QED BY <3>2, <3>3, <4>1, <4>3
    <3>5. FirstAt(t, k, m)
      BY <3>2, <3>3, <3>4 DEF FirstAt, Given
    <3> QED BY <3>1, <3>3, <3>5, FirstIs
  <2> QED BY <2>1, <2>2
<1>2. k \in Keys(t) <=> k \in Keys(s)
  BY DEF Keys
<1>3. k \in Keys(s) => Last(t, k) = Last(s, k)
  <2> HAVE k \in Keys(s)
  <2>1. PICK i \in DOMAIN s : LastAt(s, k, i)
    BY LastExists
  <2>2. PICK m \in DOMAIN t : at[m] = i /\ t[m] = s[i]
    BY <2>1 DEF LastAt
  <2>3. \A l \in DOMAIN t : t[l].key = k => l <= m
    <3> TAKE l \in DOMAIN t
    <3> HAVE t[l].key = k
    <3>1. at[l] <= at[m]
      BY <2>1, <2>2 DEF LastAt
    <3> QED BY <2>1, <2>2, <3>1 DEF LastAt
  <2>4. LastAt(t, k, m)
    BY <2>1, <2>2, <2>3 DEF LastAt
  <2> QED BY <2>1, <2>2, <2>4, LastIs
<1> QED BY <1>1, <1>2, <1>3 DEF SameFor

LEMMA PickedIs ==
  ASSUME NEW s \in LaunchArgs, NEW I \in SUBSET DOMAIN s
  PROVE  /\ Picked(s, I) \in LaunchArgs
         /\ \E at : /\ \A m \in DOMAIN Picked(s, I) : at[m] \in I /\ Picked(s, I)[m] = s[at[m]]
                    /\ \A i \in I : \E m \in DOMAIN Picked(s, I) : at[m] = i
                    /\ \A m, l \in DOMAIN Picked(s, I) : at[m] <= at[l] => m <= l
<1>1. Len(s) \in Nat /\ DOMAIN s = 1 .. Len(s) /\ I \in SUBSET (1 .. Len(s))
  BY DEF LaunchArgs
<1>2. PICK size \in Nat : size = Cardinality(I)
  BY <1>1, OrderEnumerates
<1>3. /\ DOMAIN Order[I] = 1 .. size
      /\ \A m \in 1 .. size : Order[I][m] \in I
      /\ \A i \in I : \E m \in 1 .. size : Order[I][m] = i
      /\ \A m, l \in 1 .. size : Order[I][m] <= Order[I][l] => m <= l
  BY <1>1, <1>2, OrderEnumerates
<1>4. Picked(s, I) = [m \in 1 .. size |-> s[Order[I][m]]]
  BY <1>3 DEF Picked
<1>5. \A m \in 1 .. size : s[Order[I][m]] \in [key : Texts, value : Texts]
  <2> DEFINE S == [key : Texts, value : Texts]
  <2>1. \A j \in 1 .. Len(s) : s[j] \in S
    <3> HIDE DEF S
    <3>1. s \in Seq(S)
      BY DEF LaunchArgs, S
    <3> QED BY <3>1
  <2> HIDE DEF S
  <2>2. \A m \in 1 .. size : s[Order[I][m]] \in S
    BY <1>1, <1>3, <2>1
  <2> QED BY <2>2 DEF S
<1>6. Picked(s, I) \in LaunchArgs
  BY <1>4, <1>5 DEF LaunchArgs
<1>7. DOMAIN Picked(s, I) = 1 .. size /\ \A m \in 1 .. size : Picked(s, I)[m] = s[Order[I][m]]
  BY <1>4
<1>8. /\ \A m \in DOMAIN Picked(s, I) : Order[I][m] \in I /\ Picked(s, I)[m] = s[Order[I][m]]
      /\ \A i \in I : \E m \in DOMAIN Picked(s, I) : Order[I][m] = i
      /\ \A m, l \in DOMAIN Picked(s, I) : Order[I][m] <= Order[I][l] => m <= l
  BY <1>3, <1>7
<1> QED BY <1>6, <1>8

(* A filter changes nothing for a key it drops no argument of, keeps no key   *)
(* of which it drops all, and makes no argument up.                           *)
LEMMA PickedKeeps ==
  ASSUME NEW s \in LaunchArgs, NEW I \in SUBSET DOMAIN s, NEW k,
         \A i \in DOMAIN s : s[i].key = k => i \in I
  PROVE  SameFor(s, Picked(s, I), k)
<1>1. PICK at :
        /\ \A m \in DOMAIN Picked(s, I) : at[m] \in I /\ Picked(s, I)[m] = s[at[m]]
        /\ \A i \in I : \E m \in DOMAIN Picked(s, I) : at[m] = i
        /\ \A m, l \in DOMAIN Picked(s, I) : at[m] <= at[l] => m <= l
  BY PickedIs
<1>2. Picked(s, I) \in LaunchArgs
  BY PickedIs
<1>3. \A m \in DOMAIN Picked(s, I) : at[m] \in DOMAIN s /\ s[at[m]] = Picked(s, I)[m]
  BY <1>1
<1>4. \A i \in DOMAIN s : s[i].key = k =>
         \E m \in DOMAIN Picked(s, I) : at[m] = i /\ Picked(s, I)[m] = s[i]
  BY <1>1
<1> QED BY <1>1, <1>2, <1>3, <1>4, SameWhenMatched

LEMMA PickedOnly ==
  ASSUME NEW s \in LaunchArgs, NEW I \in SUBSET DOMAIN s
  PROVE  /\ Picked(s, I) \in LaunchArgs
         /\ \A m \in DOMAIN Picked(s, I) : \E i \in I : Picked(s, I)[m] = s[i]
         /\ \A i \in I : \E m \in DOMAIN Picked(s, I) : Picked(s, I)[m] = s[i]
         /\ Keys(Picked(s, I)) = {s[i].key : i \in I}
<1>1. PICK at :
        /\ \A m \in DOMAIN Picked(s, I) : at[m] \in I /\ Picked(s, I)[m] = s[at[m]]
        /\ \A i \in I : \E m \in DOMAIN Picked(s, I) : at[m] = i
  BY PickedIs
<1>2. Keys(Picked(s, I)) = {s[i].key : i \in I}
  BY <1>1 DEF Keys
<1> QED BY <1>1, <1>2, PickedIs

LEMMA WithoutIs ==
  ASSUME NEW s \in LaunchArgs, NEW keys
  PROVE  /\ Without(s, keys) \in LaunchArgs /\ Keys(Without(s, keys)) = Keys(s) \ keys
         /\ \A k : k \notin keys => SameFor(s, Without(s, keys), k)
<1> DEFINE I == {i \in DOMAIN s : s[i].key \notin keys}
<1>1. I \in SUBSET DOMAIN s /\ Without(s, keys) = Picked(s, I)
  BY DEF Without
<1>2. Keys(s) \ keys = {s[i].key : i \in I}
  BY DEF Keys
<1>3. \A k : k \notin keys => \A i \in DOMAIN s : s[i].key = k => i \in I
  OBVIOUS
<1> HIDE DEF I
<1> QED BY <1>1, <1>2, <1>3, PickedOnly, PickedKeeps

(* Dropping repeated arguments leaves each of them where it came first, so the  *)
(* first argument with a key stays the first; the last one may change.         *)
LEMMA DistinctIs ==
  ASSUME NEW s \in LaunchArgs
  PROVE  /\ Distinct(s) \in LaunchArgs /\ Keys(Distinct(s)) = Keys(s)
         /\ \A k : First(Distinct(s), k) = First(s, k)
         /\ \E at : /\ \A m \in DOMAIN Distinct(s) :
                          /\ at[m] \in DOMAIN s /\ Distinct(s)[m] = s[at[m]]
                          /\ \A j \in 1 .. (at[m] - 1) : s[j] # s[at[m]]
                    /\ \A i \in DOMAIN s : \E m \in DOMAIN Distinct(s) : Distinct(s)[m] = s[i]
                    /\ \A m, l \in DOMAIN Distinct(s) : at[m] <= at[l] => m <= l
<1> DEFINE IsFirst(i) == \A j \in 1 .. (i - 1) : s[j] # s[i]
           I == {i \in DOMAIN s : IsFirst(i)}
           d == Distinct(s)
<1>1. d = Picked(s, I) /\ I \in SUBSET DOMAIN s
  BY DEF Distinct
<1>2. \A i \in I : i \in DOMAIN s /\ IsFirst(i)
  OBVIOUS
<1>3. \A i \in DOMAIN s : \E j \in I : s[j] = s[i] /\ j <= i
  <2> TAKE i \in DOMAIN s
  <2> DEFINE E == {j \in DOMAIN s : s[j] = s[i]}
  <2>1. Len(s) \in Nat /\ DOMAIN s = 1 .. Len(s) /\ E \in SUBSET (1 .. Len(s)) /\ i \in E
    BY DEF LaunchArgs
  <2>2. PICK lo \in E : \A j \in E : lo <= j
    <3> HIDE DEF E
    <3> QED BY <2>1, Ends
  <2>3. lo \in DOMAIN s /\ s[lo] = s[i] /\ lo <= i
    BY <2>1, <2>2
  <2>4. \A j \in 1 .. (lo - 1) : s[j] # s[lo]
    BY <2>1, <2>2, <2>3
  <2> QED BY <2>3, <2>4
<1> HIDE DEF I, IsFirst
<1>4. PICK at :
        /\ \A m \in DOMAIN d : at[m] \in I /\ d[m] = s[at[m]]
        /\ \A i \in I : \E m \in DOMAIN d : at[m] = i
        /\ \A m, l \in DOMAIN d : at[m] <= at[l] => m <= l
  BY <1>1, PickedIs
<1>5. d \in LaunchArgs
  BY <1>1, PickedIs
<1> HIDE DEF d
<1>6. \A i \in DOMAIN s : \E m \in DOMAIN d : d[m] = s[i] /\ at[m] \in I /\ at[m] <= i
  <2> TAKE i \in DOMAIN s
  <2>1. PICK j \in I : s[j] = s[i] /\ j <= i
    BY <1>3
  <2>2. PICK m \in DOMAIN d : at[m] = j
    BY <1>4
  <2> QED BY <1>4, <2>1, <2>2
<1>7. Keys(d) = Keys(s)
  <2>1. \A m \in DOMAIN d : d[m].key \in Keys(s)
    BY <1>1, <1>4 DEF Keys
  <2>2. \A i \in DOMAIN s : s[i].key \in Keys(d)
    BY <1>6 DEF Keys
  <2> QED BY <2>1, <2>2 DEF Keys
<1>8. ASSUME NEW k PROVE First(d, k) = First(s, k)
  <2>1. CASE Given(s, k) = {}
    <3>1. \A m \in DOMAIN d : m \notin Given(d, k)
      BY <1>1, <1>4, <2>1 DEF Given
    <3>2. Given(d, k) = {}
      BY <3>1 DEF Given
    <3> QED BY <2>1, <3>2 DEF First
  <2>2. CASE Given(s, k) # {}
    <3>1. PICK i : FirstAt(s, k, i)
      BY <2>2, FirstExists
    <3>2. i \in DOMAIN s /\ s[i].key = k /\ s[i].value # "bare" /\ \A j \in Given(s, k) : i <= j
      BY <3>1 DEF FirstAt, Given
    <3>3. PICK m \in DOMAIN d : d[m] = s[i] /\ at[m] \in I /\ at[m] <= i
      BY <1>6, <3>2
    <3>4. \A l \in Given(d, k) : m <= l
      <4> TAKE l \in Given(d, k)
      <4>1. l \in DOMAIN d /\ d[l].key = k /\ d[l].value # "bare"
        BY DEF Given
      <4>2. at[l] \in Given(s, k) /\ at[m] \in DOMAIN s
        BY <1>1, <1>4, <4>1 DEF Given
      <4>3. i <= at[l] /\ at[l] \in DOMAIN s
        BY <3>2, <4>2 DEF Given
      <4>4. at[m] <= at[l]
        BY <3>2, <3>3, <4>2, <4>3 DEF LaunchArgs
      <4> QED BY <1>4, <4>1, <4>4
    <3>5. FirstAt(d, k, m)
      BY <3>2, <3>3, <3>4 DEF FirstAt, Given
    <3>6. First(d, k) = d[m].value
      BY <1>5, <3>5, FirstIs
    <3>7. First(s, k) = s[i].value
      BY <3>1, FirstIs
    <3> QED BY <3>3, <3>6, <3>7
  <2> QED BY <2>1, <2>2
<1>9. \E f : /\ \A m \in DOMAIN d : /\ f[m] \in DOMAIN s /\ d[m] = s[f[m]]
                                    /\ \A j \in 1 .. (f[m] - 1) : s[j] # s[f[m]]
             /\ \A i \in DOMAIN s : \E m \in DOMAIN d : d[m] = s[i]
             /\ \A m, l \in DOMAIN d : f[m] <= f[l] => m <= l
  <2> WITNESS at
  <2>1. \A m \in DOMAIN d : at[m] \in DOMAIN s /\ IsFirst(at[m])
    BY <1>2, <1>4
  <2> QED BY <1>4, <1>6, <2>1 DEF IsFirst
<1> QED BY <1>5, <1>7, <1>8, <1>9 DEF d

(* One list after another: a key counts in the one that holds it.               *)
LEMMA Joined ==
  ASSUME NEW s \in LaunchArgs, NEW t \in LaunchArgs
  PROVE  /\ s \o t \in LaunchArgs /\ Keys(s \o t) = Keys(s) \cup Keys(t)
         /\ \A k : k \notin Keys(t) => SameFor(s, s \o t, k)
         /\ \A k : k \notin Keys(s) => SameFor(t, s \o t, k)
<1>1. /\ s \o t \in LaunchArgs /\ Len(s) \in Nat /\ Len(t) \in Nat
      /\ DOMAIN s = 1 .. Len(s) /\ DOMAIN t = 1 .. Len(t) /\ DOMAIN (s \o t) = 1 .. Len(s) + Len(t)
      /\ \A i \in DOMAIN s : (s \o t)[i] = s[i]
      /\ \A i \in DOMAIN (s \o t) \ DOMAIN s : (s \o t)[i] = t[i - Len(s)]
      /\ \A i \in DOMAIN t : (s \o t)[Len(s) + i] = t[i]
  BY DEF LaunchArgs
<1>2. PICK u \in LaunchArgs : u = s \o t
  BY <1>1
<1>3. Keys(u) = Keys(s) \cup Keys(t)
  <2>1. \A i \in DOMAIN u : i \in DOMAIN s \/ i - Len(s) \in DOMAIN t
    BY <1>1, <1>2
  <2>2. \A i \in DOMAIN t : Len(s) + i \in DOMAIN u
    BY <1>1, <1>2
  <2>3. \A i \in DOMAIN s : i \in DOMAIN u
    BY <1>1, <1>2
  <2>4. \A i \in DOMAIN u : i \notin DOMAIN s => u[i] = t[i - Len(s)]
    BY <1>1, <1>2
  <2>5. (\A i \in DOMAIN s : u[i] = s[i]) /\ (\A i \in DOMAIN t : u[Len(s) + i] = t[i])
    BY <1>1, <1>2
  <2> QED BY <2>1, <2>2, <2>3, <2>4, <2>5 DEF Keys
<1>4. \A k : k \notin Keys(t) => SameFor(s, u, k)
  <2> TAKE k
  <2> HAVE k \notin Keys(t)
  <2> DEFINE at == [m \in DOMAIN u |-> m]
  <2>1. \A m \in DOMAIN u : u[m].key = k => m \in DOMAIN s
    BY <1>1, <1>2 DEF Keys
  <2>2. \A m \in DOMAIN u : u[m].key = k => at[m] \in DOMAIN s /\ s[at[m]] = u[m]
    BY <1>1, <1>2, <2>1
  <2>3. \A i \in DOMAIN s : s[i].key = k => \E m \in DOMAIN u : at[m] = i /\ u[m] = s[i]
    BY <1>1, <1>2
  <2>4. \A m, l \in DOMAIN u : at[m] <= at[l] => m <= l
    OBVIOUS
  <2> HIDE DEF at
  <2> QED BY <2>2, <2>3, <2>4, SameWhenMatched
<1>5. \A k : k \notin Keys(s) => SameFor(t, u, k)
  <2> TAKE k
  <2> HAVE k \notin Keys(s)
  <2> DEFINE at == [m \in DOMAIN u |-> m - Len(s)]
  <2>1. \A m \in DOMAIN u : u[m].key = k => m \notin DOMAIN s
    BY <1>1, <1>2 DEF Keys
  <2>5. \A m \in DOMAIN u : m \in Nat /\ at[m] = m - Len(s)
    BY <1>1, <1>2
  <2>6. \A m \in DOMAIN u : m \notin DOMAIN s => m - Len(s) \in DOMAIN t
    BY <1>1, <1>2
  <2>7. \A i \in DOMAIN t : Len(s) + i \in DOMAIN u /\ at[Len(s) + i] = i
    BY <1>1, <1>2
  <2> HIDE DEF at
  <2>2. \A m \in DOMAIN u : u[m].key = k => at[m] \in DOMAIN t /\ t[at[m]] = u[m]
    BY <1>1, <1>2, <2>1, <2>5, <2>6
  <2>3. \A i \in DOMAIN t : t[i].key = k => \E m \in DOMAIN u : at[m] = i /\ u[m] = t[i]
    BY <1>1, <1>2, <2>7
  <2>4. \A m, l \in DOMAIN u : at[m] <= at[l] => m <= l
    BY <1>1, <2>5
  <2> QED BY <2>2, <2>3, <2>4, SameWhenMatched
<1> QED BY <1>1, <1>2, <1>3, <1>4, <1>5

LEMMA Argument ==
  ASSUME NEW s \in LaunchArgs, NEW i \in DOMAIN s
  PROVE  s[i] \in [key : Texts, value : Texts]
<1> DEFINE S == [key : Texts, value : Texts]
<1>1. s \in Seq(S)
  BY DEF LaunchArgs
<1> HIDE DEF S
<1>2. s[i] \in S
  BY <1>1
<1> QED BY <1>2 DEF S

LEMMA JoinedLast ==
  ASSUME NEW s \in LaunchArgs, NEW t \in LaunchArgs, NEW k \in Keys(t)
  PROVE  Last(s \o t, k) = Last(t, k)
<1>1. PICK i \in DOMAIN t : LastAt(t, k, i)
  BY LastExists
<1>2. /\ Len(s) \in Nat /\ Len(t) \in Nat /\ DOMAIN t = 1 .. Len(t)
      /\ DOMAIN (s \o t) = 1 .. Len(s) + Len(t)
      /\ \A j \in DOMAIN (s \o t) : j > Len(s) => j - Len(s) \in DOMAIN t /\ (s \o t)[j] = t[j - Len(s)]
      /\ Len(s) + i \in DOMAIN (s \o t) /\ (s \o t)[Len(s) + i] = t[i]
  BY DEF LaunchArgs
<1>3. s \o t \in LaunchArgs
  BY Joined
<1>4. \A j \in DOMAIN (s \o t) : (s \o t)[j].key = k => j <= Len(s) + i
  <2> TAKE j \in DOMAIN (s \o t)
  <2> HAVE (s \o t)[j].key = k
  <2>1. CASE j <= Len(s)
    BY <1>2, <2>1
  <2>2. CASE j > Len(s)
    <3>1. j - Len(s) \in DOMAIN t /\ t[j - Len(s)].key = k
      BY <1>2, <2>2
    <3>2. j - Len(s) <= i
      BY <1>1, <3>1 DEF LastAt
    <3> QED BY <1>2, <3>2
  <2> QED BY <1>2, <2>1, <2>2
<1>5. LastAt(s \o t, k, Len(s) + i)
  BY <1>1, <1>2, <1>4 DEF LastAt
<1>6. Last(s \o t, k) = (s \o t)[Len(s) + i].value
  BY <1>3, <1>5, LastIs
<1>7. Last(t, k) = t[i].value
  BY <1>1, LastIs
<1> QED BY <1>2, <1>6, <1>7

LEMMA JoinedOnly ==
  ASSUME NEW s \in LaunchArgs, NEW t \in LaunchArgs, NEW i \in DOMAIN (s \o t)
  PROVE  \/ \E j \in DOMAIN s : (s \o t)[i] = s[j]
         \/ \E j \in DOMAIN t : (s \o t)[i] = t[j]
<1>1. /\ Len(s) \in Nat /\ Len(t) \in Nat /\ DOMAIN t = 1 .. Len(t) /\ DOMAIN s = 1 .. Len(s)
      /\ i \in 1 .. Len(s) + Len(t)
      /\ i <= Len(s) => (s \o t)[i] = s[i]
      /\ i > Len(s) => (s \o t)[i] = t[i - Len(s)]
  BY DEF LaunchArgs
<1>2. CASE i <= Len(s)
  BY <1>1, <1>2
<1>3. CASE i > Len(s)
  <2>1. i - Len(s) \in DOMAIN t
    BY <1>1, <1>3
  <2> QED BY <1>1, <1>3, <2>1
<1> QED BY <1>1, <1>2, <1>3

LEMMA OneArgument ==
  ASSUME NEW k \in Texts, NEW v \in Texts
  PROVE  /\ <<Arg(k, v)>> \in LaunchArgs /\ Keys(<<Arg(k, v)>>) = {k}
         /\ DOMAIN <<Arg(k, v)>> = {1} /\ <<Arg(k, v)>>[1] = Arg(k, v)
         /\ v # "bare" => First(<<Arg(k, v)>>, k) = v
         /\ Last(<<Arg(k, v)>>, k) = v
<1> DEFINE s == <<Arg(k, v)>>
<1>1. /\ s \in LaunchArgs /\ Keys(s) = {k} /\ DOMAIN s = {1} /\ s[1] = Arg(k, v)
      /\ s[1].key = k /\ s[1].value = v
  BY DEF LaunchArgs, Arg, Keys
<1>2. v # "bare" => FirstAt(s, k, 1)
  BY <1>1 DEF FirstAt, Given
<1>3. LastAt(s, k, 1)
  BY <1>1 DEF LastAt
<1> HIDE DEF s
<1>4. (v # "bare" => First(s, k) = v) /\ Last(s, k) = v
  BY <1>1, <1>2, <1>3, FirstIs, LastIs
<1> QED BY <1>1, <1>4 DEF s

LEMMA NoArgument == <<>> \in LaunchArgs /\ Keys(<<>>) = {} /\ \A k : First(<<>>, k) = "undefined"
  BY DEF LaunchArgs, Keys, First, Given

LEMMA LastInText ==
  ASSUME NEW s \in LaunchArgs, NEW k \in Keys(s)
  PROVE  Last(s, k) \in Texts /\ k \in Texts
         /\ \E i \in DOMAIN s : s[i].key = k /\ s[i].value = Last(s, k)
<1>1. PICK i \in DOMAIN s : LastAt(s, k, i)
  BY LastExists
<1>2. s[i] \in [key : Texts, value : Texts]
  BY Argument
<1> QED BY <1>1, <1>2, LastIs DEF LastAt

(* What mergeLaunchArgs does with a key that is not replaced, and with one     *)
(* that is: only its replacement is left.                                      *)
Placed(args, replacements) ==
  [i \in DOMAIN args |-> IF args[i].key \in Keys(replacements)
                         THEN Arg(args[i].key, Last(replacements, args[i].key)) ELSE args[i]]

LEMMA PlacedIs ==
  ASSUME NEW args \in LaunchArgs, NEW new \in LaunchArgs
  PROVE  /\ Placed(args, new) \in LaunchArgs /\ DOMAIN Placed(args, new) = DOMAIN args
         /\ \A i \in DOMAIN args : Placed(args, new)[i].key = args[i].key
         /\ \A k : k \notin Keys(new) => SameFor(args, Placed(args, new), k)
         /\ \A i \in DOMAIN args : args[i].key \in Keys(new) =>
              Placed(args, new)[i].value = Last(new, args[i].key)
<1> DEFINE p == Placed(args, new)
           S == [key : Texts, value : Texts]
<1>1. Len(args) \in Nat /\ DOMAIN args = 1 .. Len(args) /\ \A i \in DOMAIN args : args[i] \in S
  <2> HIDE DEF S
  <2>1. args \in Seq(S)
    BY DEF LaunchArgs, S
  <2> QED BY <2>1
<1>2. DOMAIN p = DOMAIN args
  BY DEF Placed
<1>3. \A i \in DOMAIN args :
        /\ p[i] \in S /\ p[i].key = args[i].key
        /\ args[i].key \notin Keys(new) => p[i] = args[i]
        /\ args[i].key \in Keys(new) => p[i].value = Last(new, args[i].key)
  <2> TAKE i \in DOMAIN args
  <2>1. args[i].key \in Texts /\ args[i] \in S
    BY <1>1
  <2>2. CASE args[i].key \in Keys(new)
    <3>1. p[i] = Arg(args[i].key, Last(new, args[i].key))
      BY <2>2 DEF Placed
    <3>2. Last(new, args[i].key) \in Texts
      BY <2>2, LastInText
    <3> QED BY <2>1, <2>2, <3>1, <3>2 DEF Arg
  <2>3. CASE args[i].key \notin Keys(new)
    BY <2>1, <2>3 DEF Placed
  <2> QED BY <2>2, <2>3
<1>4. p \in LaunchArgs
  <2>1. p = [i \in 1 .. Len(args) |-> p[i]]
    BY <1>1 DEF Placed
  <2> HIDE DEF p, S
  <2>2. p \in Seq(S)
    BY <1>1, <1>3, <2>1
  <2> QED BY <2>2 DEF LaunchArgs, S
<1> HIDE DEF p
<1>5. \A k : k \notin Keys(new) => SameFor(args, p, k)
  <2> TAKE k
  <2> HAVE k \notin Keys(new)
  <2> DEFINE at == [m \in DOMAIN p |-> m]
  <2>1. \A m \in DOMAIN p : p[m].key = k => at[m] \in DOMAIN args /\ args[at[m]] = p[m]
    BY <1>2, <1>3
  <2>2. \A i \in DOMAIN args : args[i].key = k => \E m \in DOMAIN p : at[m] = i /\ p[m] = args[i]
    BY <1>2, <1>3
  <2>3. \A m, l \in DOMAIN p : at[m] <= at[l] => m <= l
    OBVIOUS
  <2> HIDE DEF at
  <2> QED BY <1>4, <2>1, <2>2, <2>3, SameWhenMatched
<1> QED BY <1>2, <1>3, <1>4, <1>5 DEF p

LEMMA Merged ==
  ASSUME NEW args \in LaunchArgs, NEW new \in LaunchArgs
  PROVE  /\ MergeLaunchArgs[<<args, new>>] \in LaunchArgs
         /\ \A k : k \notin Keys(new) => SameFor(args, MergeLaunchArgs[<<args, new>>], k)
         /\ Keys(new) \subseteq Keys(MergeLaunchArgs[<<args, new>>])
         /\ \A i \in DOMAIN MergeLaunchArgs[<<args, new>>] :
              MergeLaunchArgs[<<args, new>>][i].key \in Keys(new) =>
                \E j \in DOMAIN new : new[j] = MergeLaunchArgs[<<args, new>>][i]
<1> DEFINE FirstOf(s, i) == \A j \in 1 .. (i - 1) : s[j].key # s[i].key
           stay == {i \in DOMAIN args : args[i].key \notin Keys(new) \/ FirstOf(args, i)}
           add == {i \in DOMAIN new : new[i].key \notin Keys(args) /\ FirstOf(new, i)}
           kept == Picked(Placed(args, new), stay)
           added == Picked(new, add)
           m == kept \o added
<1>1. MergeLaunchArgs[<<args, new>>] = m
  <2>1. <<args, new>> \in LaunchArgs \X LaunchArgs
    OBVIOUS
  <2> QED BY <2>1 DEF MergeLaunchArgs, Placed
<1>2. /\ stay \in SUBSET DOMAIN Placed(args, new) /\ add \in SUBSET DOMAIN new
      /\ \A i \in DOMAIN args : args[i].key \notin Keys(new) => i \in stay
  BY PlacedIs
<1>3. \A k \in Keys(new) : k \in Keys(args) => \E i \in stay : args[i].key = k
  <2> TAKE k \in Keys(new)
  <2> HAVE k \in Keys(args)
  <2>1. PICK i \in DOMAIN args : args[i].key = k /\ \A j \in 1 .. (i - 1) : args[j].key # k
    BY LastExists
  <2> QED BY <2>1
<1>4. \A k \in Keys(new) : k \notin Keys(args) => \E i \in add : new[i].key = k
  <2> TAKE k \in Keys(new)
  <2> HAVE k \notin Keys(args)
  <2>1. PICK i \in DOMAIN new : new[i].key = k /\ \A j \in 1 .. (i - 1) : new[j].key # k
    BY LastExists
  <2> QED BY <2>1
<1>5. \A i \in add : new[i].key \in Keys(new)
  BY DEF Keys
<1> HIDE DEF stay, add, FirstOf
<1>6. /\ kept \in LaunchArgs /\ added \in LaunchArgs
      /\ Keys(kept) = {Placed(args, new)[i].key : i \in stay} /\ Keys(added) = {new[i].key : i \in add}
      /\ \A i \in DOMAIN kept : \E j \in stay : kept[i] = Placed(args, new)[j]
      /\ \A i \in DOMAIN added : \E j \in add : added[i] = new[j]
  BY <1>2, PlacedIs, PickedOnly
<1>7. \A k : k \notin Keys(new) => SameFor(args, m, k)
  <2> TAKE k
  <2> HAVE k \notin Keys(new)
  <2>1. SameFor(args, Placed(args, new), k)
    BY PlacedIs
  <2>2. SameFor(Placed(args, new), kept, k)
    BY <1>2, PlacedIs, PickedKeeps
  <2>3. k \notin Keys(added)
    BY <1>5, <1>6
  <2>4. SameFor(kept, m, k)
    BY <1>6, <2>3, Joined
  <2> HIDE DEF kept, m
  <2> QED BY <2>1, <2>2, <2>4 DEF SameFor
<1>8. Keys(new) \subseteq Keys(m)
  <2> SUFFICES ASSUME NEW k \in Keys(new) PROVE k \in Keys(m)
    OBVIOUS
  <2>1. k \in Keys(kept) \cup Keys(added)
    <3>1. CASE k \in Keys(args)
      <4>1. PICK i \in stay : args[i].key = k
        BY <1>3, <3>1
      <4>2. Placed(args, new)[i].key = k
        BY <1>2, <4>1, PlacedIs
      <4> HIDE DEF kept, added
      <4> QED BY <1>6, <4>2
    <3>2. CASE k \notin Keys(args)
      <4>1. PICK i \in add : new[i].key = k
        BY <1>4, <3>2
      <4> HIDE DEF kept, added
      <4> QED BY <1>6, <4>1
    <3> QED BY <3>1, <3>2
  <2> QED BY <1>6, <2>1, Joined
<1>9. \A i \in DOMAIN m : m[i].key \in Keys(new) => \E j \in DOMAIN new : new[j] = m[i]
  <2> TAKE i \in DOMAIN m
  <2> HAVE m[i].key \in Keys(new)
  <2>1. (\E j \in DOMAIN kept : m[i] = kept[j]) \/ (\E j \in DOMAIN added : m[i] = added[j])
    BY <1>6, JoinedOnly
  <2>2. CASE \E j \in DOMAIN added : m[i] = added[j]
    BY <1>2, <1>6, <2>2
  <2>3. CASE \E j \in DOMAIN kept : m[i] = kept[j]
    <3>1. PICK j \in DOMAIN args : m[i] = Placed(args, new)[j]
      BY <1>2, <1>6, <2>3, PlacedIs
    <3>2. args[j].key \in Keys(new) /\ m[i] = Arg(args[j].key, Last(new, args[j].key))
      <4>1. m[i].key = args[j].key
        BY <3>1, PlacedIs
      <4> HIDE DEF m
      <4> QED BY <3>1, <4>1 DEF Placed
    <3>3. PICK l \in DOMAIN new : new[l].key = args[j].key /\ new[l].value = Last(new, args[j].key)
      BY <3>2, LastInText
    <3>4. new[l] \in [key : Texts, value : Texts]
      BY Argument
    <3>5. new[l] = Arg(args[j].key, Last(new, args[j].key))
      BY <3>3, <3>4 DEF Arg
    <3> HIDE DEF m
    <3> QED BY <3>2, <3>5
  <2> QED BY <2>1, <2>2, <2>3
<1> HIDE DEF m
<1>10. m \in LaunchArgs
  BY <1>6, Joined DEF m
<1> QED BY <1>1, <1>7, <1>8, <1>9, <1>10

LEMMA TextsHold ==
  /\ Fingerprint \in Texts /\ WebrtcIp \in Texts /\ ProxyServer \in Texts /\ DebugPort \in Texts
  /\ "random" \in Texts /\ "seed" \in Texts /\ "own" \in Texts /\ "internal" \in Texts
  /\ "exit" \in Texts /\ "invalid" \in Texts
  BY TextsAssumption

(* The arguments of the operator, with the seed of the profile or a random     *)
(* fingerprint before them.                                                    *)
LEMMA BaseIs ==
  ASSUME NEW o, o.extraArgs \in LaunchArgs
  PROVE  /\ BaseArgs(o) \in LaunchArgs
         /\ First(BaseArgs(o), WebrtcIp) = First(o.extraArgs, WebrtcIp)
         /\ StealthArgs(o) \in LaunchArgs /\ StealthArgs(o) \o o.extraArgs \in LaunchArgs
<1> DEFINE all == StealthArgs(o) \o o.extraArgs
<1>0. WebrtcIp # Fingerprint
  BY DEF WebrtcIp, Fingerprint
<1>1. StealthArgs(o) \in LaunchArgs /\ WebrtcIp \notin Keys(StealthArgs(o))
  BY <1>0, OneArgument, NoArgument, TextsHold DEF StealthArgs
<1>2. all \in LaunchArgs /\ First(all, WebrtcIp) = First(o.extraArgs, WebrtcIp)
  BY <1>1, Joined DEF SameFor
<1>3. BaseArgs(o) = IF UseCloak(o) THEN Distinct(all) ELSE o.extraArgs
  BY DEF BaseArgs
<1> HIDE DEF all
<1>4. Distinct(all) \in LaunchArgs /\ First(Distinct(all), WebrtcIp) = First(all, WebrtcIp)
  BY <1>2, DistinctIs
<1> QED BY <1>1, <1>2, <1>3, <1>4 DEF all

LEMMA SeededIs ==
  ASSUME NEW o, o.extraArgs \in LaunchArgs
  PROVE  /\ BaseArgs(o) \in LaunchArgs /\ SeededArgs(o) \in LaunchArgs
         /\ SameFor(BaseArgs(o), SeededArgs(o), WebrtcIp)
         /\ First(SeededArgs(o), WebrtcIp) = First(o.extraArgs, WebrtcIp)
<1> DEFINE own == Without(BaseArgs(o), {Fingerprint})
           chosen == <<Arg(Fingerprint, "seed")>>
<1>0. WebrtcIp # Fingerprint
  BY DEF WebrtcIp, Fingerprint
<1>1. BaseArgs(o) \in LaunchArgs /\ First(BaseArgs(o), WebrtcIp) = First(o.extraArgs, WebrtcIp)
  BY BaseIs
<1>2. own \in LaunchArgs /\ SameFor(BaseArgs(o), own, WebrtcIp)
  BY <1>0, <1>1, WithoutIs
<1>3. chosen \in LaunchArgs /\ WebrtcIp \notin Keys(chosen)
  BY <1>0, OneArgument, TextsHold
<1> HIDE DEF own, chosen
<1>4. chosen \o own \in LaunchArgs /\ SameFor(own, chosen \o own, WebrtcIp)
  BY <1>2, <1>3, Joined
<1>5. SeededArgs(o) = IF WantsSeed(o) THEN chosen \o own ELSE BaseArgs(o)
  BY DEF SeededArgs, chosen, own
<1>6. SameFor(BaseArgs(o), SeededArgs(o), WebrtcIp) /\ SeededArgs(o) \in LaunchArgs
  BY <1>1, <1>2, <1>4, <1>5 DEF SameFor
<1> QED BY <1>1, <1>6 DEF SameFor

(* An argument of the operator is the last of its key, whatever default came    *)
(* before it: the default is in front, and repeated only if it is the same.     *)
LEMMA OperatorsLast ==
  ASSUME NEW a \in LaunchArgs, NEW s \in LaunchArgs, NEW k \in Keys(s),
         NEW x, a = <<x>>, x.key = k
  PROVE  /\ k \in Keys(Distinct(a \o s))
         /\ \E i \in DOMAIN s : s[i] = Arg(k, Last(Distinct(a \o s), k))
<1> DEFINE t == a \o s
           d == Distinct(t)
<1>1. t \in LaunchArgs /\ Keys(t) = Keys(a) \cup Keys(s)
  BY Joined
<1>2. /\ d \in LaunchArgs /\ Keys(d) = Keys(t)
      /\ \E at : /\ \A m \in DOMAIN d : /\ at[m] \in DOMAIN t /\ d[m] = t[at[m]]
                                          /\ \A j \in 1 .. (at[m] - 1) : t[j] # t[at[m]]
                 /\ \A i \in DOMAIN t : \E m \in DOMAIN d : d[m] = t[i]
                 /\ \A m, l \in DOMAIN d : at[m] <= at[l] => m <= l
  <2> HIDE DEF t
  <2> QED BY <1>1, DistinctIs
<1>3. /\ Len(s) \in Nat /\ DOMAIN t = 1 .. (Len(s) + 1) /\ t[1] = x
      /\ \A i \in DOMAIN s : i + 1 \in DOMAIN t /\ t[i + 1] = s[i]
      /\ \A i \in DOMAIN t : i # 1 => i - 1 \in DOMAIN s /\ t[i] = s[i - 1]
  BY DEF LaunchArgs
<1> HIDE DEF t, d
<1>4. PICK at : /\ \A m \in DOMAIN d : /\ at[m] \in DOMAIN t /\ d[m] = t[at[m]]
                                        /\ \A j \in 1 .. (at[m] - 1) : t[j] # t[at[m]]
                /\ \A i \in DOMAIN t : \E m \in DOMAIN d : d[m] = t[i]
                /\ \A m, l \in DOMAIN d : at[m] <= at[l] => m <= l
  BY <1>2
<1>5. k \in Keys(d)
  BY <1>1, <1>2
<1>6. PICK z \in DOMAIN d : LastAt(d, k, z)
  BY <1>2, <1>5, LastExists
<1>7. d[z] = Arg(k, Last(d, k))
  <2>1. Last(d, k) = d[z].value /\ d[z].key = k
    BY <1>2, <1>6, LastIs DEF LastAt
  <2>2. d[z] \in [key : Texts, value : Texts]
    BY <1>2, Argument
  <2> QED BY <2>1, <2>2 DEF Arg
<1>8. \E i \in DOMAIN s : s[i] = d[z]
  <2>1. CASE at[z] # 1
    <3>1. at[z] - 1 \in DOMAIN s /\ d[z] = s[at[z] - 1]
      BY <1>3, <1>4, <2>1
    <3> QED BY <3>1
  <2>2. CASE at[z] = 1
    <3>1. PICK i \in DOMAIN s : s[i].key = k
      BY DEF Keys
    <3>2. PICK m \in DOMAIN d : d[m] = s[i]
      <4>1. i + 1 \in DOMAIN t /\ t[i + 1] = s[i]
        BY <1>3
      <4>2. PICK m \in DOMAIN d : d[m] = t[i + 1]
        BY <1>4, <4>1
      <4> QED BY <4>1, <4>2
    <3>3. m <= z
      BY <1>6, <3>1, <3>2 DEF LastAt
    <3>4. at[z] <= at[m]
      BY <1>3, <1>4, <2>2
    <3>5. z <= m
      BY <1>4, <3>4
    <3>6. m = z
      <4>1. z \in Nat /\ m \in Nat
        BY <1>2 DEF LaunchArgs
      <4> QED BY <3>3, <3>5, <4>1
    <3> QED BY <3>2, <3>6
  <2> QED BY <2>1, <2>2
<1>9. k \in Keys(d) /\ \E i \in DOMAIN s : s[i] = Arg(k, Last(d, k))
  BY <1>5, <1>7, <1>8
<1> QED BY <1>9 DEF d, t

LEMMA SeededFingerprint ==
  ASSUME NEW o, o.extraArgs \in LaunchArgs, UseCloak(o), o.stealth
  PROVE  /\ Fingerprint \in Keys(SeededArgs(o))
         /\ ExplicitFingerprint(o) =>
              /\ \E i \in DOMAIN o.extraArgs :
                   o.extraArgs[i] = Arg(Fingerprint, Last(SeededArgs(o), Fingerprint))
              /\ Last(SeededArgs(o), Fingerprint) = Last(BaseArgs(o), Fingerprint)
         /\ ~ExplicitFingerprint(o) =>
              Last(SeededArgs(o), Fingerprint) = IF o.userDataDir THEN "seed" ELSE "random"
<1> DEFINE random == <<Arg(Fingerprint, "random")>>
           chosen == <<Arg(Fingerprint, "seed")>>
           own == Without(BaseArgs(o), {Fingerprint})
<1>1. /\ random \in LaunchArgs /\ Keys(random) = {Fingerprint}
      /\ chosen \in LaunchArgs /\ Keys(chosen) = {Fingerprint} /\ Last(chosen, Fingerprint) = "seed"
  BY OneArgument, TextsHold
<1>2. BaseArgs(o) \in LaunchArgs
  BY SeededIs
<1>3. own \in LaunchArgs /\ Fingerprint \notin Keys(own)
  BY <1>2, WithoutIs
<1>4. BaseArgs(o) = Distinct(random \o o.extraArgs)
  BY DEF BaseArgs, StealthArgs
<1> HIDE DEF chosen, own
<1>5. CASE ExplicitFingerprint(o)
  <2>1. Fingerprint \in Keys(o.extraArgs) /\ SeededArgs(o) = BaseArgs(o)
    BY <1>5 DEF ExplicitFingerprint, SeededArgs, WantsSeed
  <2>2. Arg(Fingerprint, "random").key = Fingerprint
    BY DEF Arg
  <2> HIDE DEF random
  <2>3. /\ Fingerprint \in Keys(BaseArgs(o))
        /\ \E i \in DOMAIN o.extraArgs :
             o.extraArgs[i] = Arg(Fingerprint, Last(BaseArgs(o), Fingerprint))
    BY <1>1, <1>4, <2>1, <2>2, OperatorsLast DEF random
  <2> QED BY <1>5, <2>1, <2>3
<1>6. CASE ~ExplicitFingerprint(o) /\ o.userDataDir
  <2>1. SeededArgs(o) = chosen \o own
    BY <1>6 DEF SeededArgs, WantsSeed, chosen, own
  <2>2. SameFor(chosen, chosen \o own, Fingerprint)
    BY <1>1, <1>3, Joined
  <2> QED BY <1>1, <1>6, <2>1, <2>2 DEF SameFor
<1>7. CASE ~ExplicitFingerprint(o) /\ ~o.userDataDir
  <2> DEFINE t == random \o o.extraArgs
  <2>1. SeededArgs(o) = Distinct(t)
    BY <1>4, <1>7 DEF SeededArgs, WantsSeed
  <2>2. t \in LaunchArgs /\ Fingerprint \in Keys(t)
    BY <1>1, Joined
  <2>3. \A i \in DOMAIN t : t[i].key = Fingerprint => t[i].value = "random"
    <3> TAKE i \in DOMAIN t
    <3>1. \A j \in DOMAIN o.extraArgs : o.extraArgs[j].key # Fingerprint
      BY <1>7 DEF ExplicitFingerprint, Keys
    <3>2. \A j \in DOMAIN random : random[j].value = "random"
      BY OneArgument, TextsHold DEF Arg
    <3> HIDE DEF random
    <3> QED BY <1>1, <3>1, <3>2, JoinedOnly
  <2> HIDE DEF t
  <2>4. /\ Distinct(t) \in LaunchArgs /\ Fingerprint \in Keys(Distinct(t))
        /\ \A m \in DOMAIN Distinct(t) : \E i \in DOMAIN t : Distinct(t)[m] = t[i]
    BY <2>2, DistinctIs
  <2>5. PICK m \in DOMAIN Distinct(t) : LastAt(Distinct(t), Fingerprint, m)
    BY <2>4, LastExists
  <2>6. Last(Distinct(t), Fingerprint) = "random"
    BY <2>3, <2>4, <2>5, LastIs DEF LastAt
  <2> QED BY <1>7, <2>1, <2>4, <2>6
<1> QED BY <1>5, <1>6, <1>7

(* What the builder may answer: with GeoIP, the only WebRTC address in it is    *)
(* the one it looked up.                                                       *)
LEMMA BuiltIs ==
  ASSUME NEW o, o.extraArgs \in LaunchArgs, NEW built \in Options(o)
  PROVE  /\ built.args \in LaunchArgs
         /\ MatchesGeoip(o) /\ ExitIpFound(o, built.args) =>
              /\ WebrtcIp \in Keys(built.args)
              /\ \A i \in DOMAIN built.args :
                   built.args[i].key = WebrtcIp => built.args[i] = Arg(WebrtcIp, "exit")
<1>1. PICK ip \in Discovered(o), pr \in ProxyAnswers(o) : built.args = (BuilderArgs(o) \o ip) \o pr.args
  <2>1. \A ip, pr : Answer(o, ip, pr).args = (BuilderArgs(o) \o ip) \o pr.args
    BY DEF Answer
  <2>2. \E ip \in Discovered(o), pr \in ProxyAnswers(o) : built = Answer(o, ip, pr)
    BY DEF Options
  <2>3. PICK ip \in Discovered(o), pr \in ProxyAnswers(o) : built = Answer(o, ip, pr)
    BY <2>2
  <2>4. built.args = (BuilderArgs(o) \o ip) \o pr.args
    BY <2>1, <2>3
  <2> QED BY <2>4, Zenon
<1>2. BuilderArgs(o) \in LaunchArgs /\ (MatchesGeoip(o) => WebrtcIp \notin Keys(BuilderArgs(o)))
  BY SeededIs, WithoutIs DEF BuilderArgs
<1>3. pr.args \in LaunchArgs /\ WebrtcIp \notin Keys(pr.args)
  <2>1. pr.args = <<>> \/ pr.args = <<Arg(ProxyServer, "own")>>
    BY DEF ProxyAnswers
  <2>2. WebrtcIp # ProxyServer
    BY DEF WebrtcIp, ProxyServer
  <2>3. CASE pr.args = <<>>
    BY <2>3, NoArgument
  <2>4. CASE pr.args = <<Arg(ProxyServer, "own")>>
    BY <2>2, <2>4, OneArgument, TextsHold
  <2> QED BY <2>1, <2>3, <2>4
<1>4. \/ ip = <<>> \/ ip = <<Arg(WebrtcIp, "exit")>> \/ ip = <<Arg(WebrtcIp, "invalid")>>
  BY DEF Discovered
<1>5. ip \in LaunchArgs
  BY <1>4, OneArgument, NoArgument, TextsHold
<1>6. BuilderArgs(o) \o ip \in LaunchArgs /\ built.args \in LaunchArgs
  BY <1>1, <1>2, <1>3, <1>5, Joined
<1>7. ASSUME MatchesGeoip(o), ExitIpFound(o, built.args)
      PROVE  /\ WebrtcIp \in Keys(built.args)
             /\ \A i \in DOMAIN built.args :
                  built.args[i].key = WebrtcIp => built.args[i] = Arg(WebrtcIp, "exit")
  <2>1. SameFor(ip, BuilderArgs(o) \o ip, WebrtcIp)
        /\ SameFor(BuilderArgs(o) \o ip, built.args, WebrtcIp)
    BY <1>1, <1>2, <1>3, <1>5, <1>6, <1>7, Joined
  <2>2. First(built.args, WebrtcIp) = First(ip, WebrtcIp) /\ (WebrtcIp \in Keys(built.args) <=> WebrtcIp \in Keys(ip))
    BY <2>1 DEF SameFor
  <2>3. First(ip, WebrtcIp) # "undefined" /\ First(ip, WebrtcIp) # "invalid"
    BY <1>7, <2>2 DEF ExitIpFound
  <2>4. ip # <<>>
    BY <2>3, NoArgument
  <2>5. ip # <<Arg(WebrtcIp, "invalid")>>
    <3>1. First(<<Arg(WebrtcIp, "invalid")>>, WebrtcIp) = "invalid"
      BY OneArgument, TextsHold
    <3> QED BY <2>3, <3>1
  <2>6. ip = <<Arg(WebrtcIp, "exit")>>
    BY <1>4, <2>4, <2>5
  <2>7. WebrtcIp \in Keys(ip) /\ \A j \in DOMAIN ip : ip[j] = Arg(WebrtcIp, "exit")
    BY <2>6, OneArgument, TextsHold
  <2>8. \A i \in DOMAIN built.args :
           built.args[i].key = WebrtcIp => built.args[i] = Arg(WebrtcIp, "exit")
    <3> TAKE i \in DOMAIN built.args
    <3> HAVE built.args[i].key = WebrtcIp
    <3>1. \E j \in DOMAIN (BuilderArgs(o) \o ip) : built.args[i] = (BuilderArgs(o) \o ip)[j]
      <4> DEFINE s == BuilderArgs(o) \o ip
      <4>1. \A j \in DOMAIN pr.args : pr.args[j].key # WebrtcIp
        BY <1>3 DEF Keys
      <4>2. s \in LaunchArgs /\ built.args = s \o pr.args
        BY <1>1, <1>6
      <4> HIDE DEF s
      <4>3. (\E j \in DOMAIN s : built.args[i] = s[j]) \/ (\E j \in DOMAIN pr.args : built.args[i] = pr.args[j])
        BY <1>3, <4>2, JoinedOnly
      <4>4. \E j \in DOMAIN s : built.args[i] = s[j]
        BY <4>1, <4>3
      <4> QED BY <4>4 DEF s
    <3>2. PICK j \in DOMAIN (BuilderArgs(o) \o ip) : built.args[i] = (BuilderArgs(o) \o ip)[j]
      BY <3>1
    <3>3. \A l \in DOMAIN BuilderArgs(o) : BuilderArgs(o)[l].key # WebrtcIp
      BY <1>2, <1>7 DEF Keys
    <3>4. \E l \in DOMAIN ip : built.args[i] = ip[l]
      BY <1>2, <1>5, <3>2, <3>3, JoinedOnly
    <3> QED BY <2>7, <3>4
  <2> QED BY <2>2, <2>7, <2>8
<1> QED BY <1>6, <1>7

LEMMA OwnIs ==
  ASSUME NEW b \in LaunchArgs, NEW refused
  PROVE  /\ OwnArgs(b, refused) \in LaunchArgs
         /\ \A k \in Keys(OwnArgs(b, refused)) : k \in Generated /\ k \notin refused
         /\ \A m \in DOMAIN OwnArgs(b, refused) : \E i \in DOMAIN b : OwnArgs(b, refused)[m] = b[i]
         /\ \A i \in DOMAIN b :
              IsGenerated(b[i]) /\ b[i].key \notin refused => b[i].key \in Keys(OwnArgs(b, refused))
<1> DEFINE I == {i \in DOMAIN b : IsGenerated(b[i]) /\ b[i].key \notin refused}
<1>1. I \in SUBSET DOMAIN b /\ OwnArgs(b, refused) = Picked(b, I)
  BY DEF OwnArgs
<1>2. \A i \in I : b[i].key \in Generated /\ b[i].key \notin refused
  BY DEF IsGenerated
<1>3. \A i \in DOMAIN b : IsGenerated(b[i]) /\ b[i].key \notin refused => i \in I
  OBVIOUS
<1> HIDE DEF I
<1>4. /\ Picked(b, I) \in LaunchArgs /\ Keys(Picked(b, I)) = {b[i].key : i \in I}
      /\ \A m \in DOMAIN Picked(b, I) : \E i \in I : Picked(b, I)[m] = b[i]
  BY <1>1, PickedOnly
<1> QED BY <1>1, <1>2, <1>3, <1>4

(* Both fingerprint and address of the arguments that reach Chromium.          *)
LEMMA CloakIs ==
  ASSUME NEW o, o.extraArgs \in LaunchArgs, NEW built \in Options(o),
         UseCloak(o), ExitIpFound(o, built.args)
  PROVE  /\ CloakArgs(o, built.args) \in LaunchArgs
         /\ SameFor(SeededArgs(o), CloakArgs(o, built.args), Fingerprint)
         /\ MatchesGeoip(o) =>
              /\ WebrtcIp \in Keys(CloakArgs(o, built.args))
              /\ Last(CloakArgs(o, built.args), WebrtcIp) =
                   IF First(o.extraArgs, WebrtcIp) \in {"undefined", "auto"} THEN "exit"
                   ELSE Last(BaseArgs(o), WebrtcIp)
<1> DEFINE own == OwnArgs(built.args, Refuses(o))
           m == CloakArgs(o, built.args)
<1>1. SeededArgs(o) \in LaunchArgs /\ built.args \in LaunchArgs
  BY SeededIs, BuiltIs
<1>2. own \in LaunchArgs
  BY <1>1, OwnIs
<1>3. m = MergeLaunchArgs[<<SeededArgs(o), own>>]
  BY DEF CloakArgs
<1> HIDE DEF own, m
<1>4. /\ m \in LaunchArgs /\ Keys(own) \subseteq Keys(m)
      /\ \A k : k \notin Keys(own) => SameFor(SeededArgs(o), m, k)
      /\ \A i \in DOMAIN m : m[i].key \in Keys(own) => \E j \in DOMAIN own : own[j] = m[i]
  <2> DEFINE r == MergeLaunchArgs[<<SeededArgs(o), own>>]
  <2>1. /\ r \in LaunchArgs /\ Keys(own) \subseteq Keys(r)
        /\ \A k : k \notin Keys(own) => SameFor(SeededArgs(o), r, k)
        /\ \A i \in DOMAIN r : r[i].key \in Keys(own) => \E j \in DOMAIN own : own[j] = r[i]
    BY <1>1, <1>2, Merged
  <2> QED BY <1>3, <2>1
<1>5. Fingerprint \notin Keys(own)
  <2>1. Fingerprint \notin Generated
    BY DEF Fingerprint, Generated, WebrtcIp, ProxyServer
  <2> QED BY <1>1, <2>1, OwnIs DEF own
<1>6. ASSUME MatchesGeoip(o)
      PROVE  /\ WebrtcIp \in Keys(m)
             /\ Last(m, WebrtcIp) =
                  IF First(o.extraArgs, WebrtcIp) \in {"undefined", "auto"} THEN "exit"
                  ELSE Last(BaseArgs(o), WebrtcIp)
  <2>1. /\ First(SeededArgs(o), WebrtcIp) = First(o.extraArgs, WebrtcIp)
        /\ SameFor(BaseArgs(o), SeededArgs(o), WebrtcIp)
    BY SeededIs
  <2>2. CASE SpoofedIp(o)
    <3>1. WebrtcIp \in Refuses(o)
      BY <1>6, <2>2 DEF Refuses
    <3>2. WebrtcIp \notin Keys(own)
      BY <1>1, <3>1, OwnIs DEF own
    <3>3. SameFor(SeededArgs(o), m, WebrtcIp)
      BY <1>4, <3>2
    <3>4. WebrtcIp \in Keys(SeededArgs(o))
      BY <2>2 DEF SpoofedIp, First, Given, Keys
    <3>5. WebrtcIp \in Keys(m) /\ Last(m, WebrtcIp) = Last(BaseArgs(o), WebrtcIp)
      BY <2>1, <3>3, <3>4 DEF SameFor
    <3> QED BY <2>1, <2>2, <3>5 DEF SpoofedIp
  <2>3. CASE ~SpoofedIp(o)
    <3>1. /\ WebrtcIp \in Keys(built.args)
          /\ \A i \in DOMAIN built.args :
               built.args[i].key = WebrtcIp => built.args[i] = Arg(WebrtcIp, "exit")
      BY <1>6, BuiltIs
    <3>2. Refuses(o) = {}
      BY <2>3 DEF Refuses
    <3>3. PICK i \in DOMAIN built.args : built.args[i].key = WebrtcIp
      BY <3>1 DEF Keys
    <3>4. IsGenerated(built.args[i])
      <4>1. built.args[i] = Arg(WebrtcIp, "exit")
        BY <3>1, <3>3
      <4> QED BY <4>1 DEF IsGenerated, Arg, Generated
    <3>5. WebrtcIp \in Keys(own)
      BY <1>1, <3>2, <3>3, <3>4, OwnIs DEF own
    <3>6. \A j \in DOMAIN own : own[j].key = WebrtcIp => own[j] = Arg(WebrtcIp, "exit")
      BY <1>1, <3>1, OwnIs DEF own
    <3>7. \A j \in DOMAIN m : m[j].key = WebrtcIp => m[j] = Arg(WebrtcIp, "exit")
      BY <1>4, <3>5, <3>6
    <3>8. PICK j \in DOMAIN m : m[j].key = WebrtcIp
      BY <1>4, <3>5 DEF Keys
    <3>9. WebrtcIp \in Keys(m)
      BY <3>8 DEF Keys
    <3>10. PICK l \in DOMAIN m : LastAt(m, WebrtcIp, l)
      BY <1>4, <3>9, LastExists
    <3>11. Last(m, WebrtcIp) = m[l].value /\ m[l].key = WebrtcIp
      BY <1>4, <3>10, LastIs DEF LastAt
    <3>12. Last(m, WebrtcIp) = "exit"
      BY <3>7, <3>11 DEF Arg
    <3> QED BY <2>1, <2>3, <3>9, <3>12 DEF SpoofedIp
  <2> QED BY <2>2, <2>3
<1> QED BY <1>4, <1>5, <1>6 DEF m

(* The bridge's own switch comes last and is all that managed CDP adds.        *)
LEMMA FinalIs ==
  ASSUME NEW o, NEW args \in LaunchArgs
  PROVE  /\ \A k : k # DebugPort => SameFor(args, FinalArgs(o, args), k)
         /\ o.managed /\ ~Conflicts(o, args) =>
              \E i \in DOMAIN FinalArgs(o, args) :
                /\ FinalArgs(o, args)[i] = Arg(DebugPort, "internal")
                /\ \A j \in DOMAIN FinalArgs(o, args) :
                     FinalArgs(o, args)[j].key \in Prohibited => j = i
<1> DEFINE last == <<Arg(DebugPort, "internal")>>
<1>1. last \in LaunchArgs /\ Keys(last) = {DebugPort}
  BY OneArgument, TextsHold
<1>2. Append(args, Arg(DebugPort, "internal")) = args \o last
  BY DEF LaunchArgs
<1>3. \A k : k # DebugPort => SameFor(args, FinalArgs(o, args), k)
  <2>1. \A k : SameFor(args, args, k)
    BY DEF SameFor
  <2> HIDE DEF last
  <2>2. \A k : k # DebugPort => SameFor(args, args \o last, k)
    BY <1>1, Joined
  <2> QED BY <1>2, <2>1, <2>2 DEF FinalArgs
<1>4. ASSUME o.managed, ~Conflicts(o, args)
      PROVE  \E i \in DOMAIN FinalArgs(o, args) :
                /\ FinalArgs(o, args)[i] = Arg(DebugPort, "internal")
                /\ \A j \in DOMAIN FinalArgs(o, args) :
                     FinalArgs(o, args)[j].key \in Prohibited => j = i
  <2> DEFINE f == Append(args, Arg(DebugPort, "internal"))
             n == Len(args) + 1
  <2>1. FinalArgs(o, args) = f
    BY <1>4 DEF FinalArgs
  <2>2. /\ n \in DOMAIN f /\ f[n] = Arg(DebugPort, "internal")
        /\ \A j \in DOMAIN f : j # n => j \in DOMAIN args /\ f[j] = args[j]
    BY DEF LaunchArgs
  <2>3. \A j \in DOMAIN args : args[j].key \notin Prohibited
    BY <1>4 DEF Conflicts, Keys
  <2> HIDE DEF f, n
  <2> QED BY <2>1, <2>2, <2>3
<1> QED BY <1>3, <1>4

(* A step of one preparation leaves what the others were told alone.           *)
LEMMA AnswersStep ==
  ASSUME AnswersKept, NEW p \in Preparations, DOMAIN runtime' = Preparations,
         \A q \in Preparations \ {p} :
           phase'[q] = phase[q] /\ input'[q] = input[q] /\ runtime'[q] = runtime[q],
         AnswerKept(p, phase'[p], input'[p], runtime'[p])
  PROVE  AnswersKept'
<1>1. ASSUME NEW q \in Preparations PROVE AnswerKept(q, phase'[q], input'[q], runtime'[q])
  <2>1. CASE q = p
    BY <2>1
  <2>2. CASE q # p
    <3>1. AnswerKept(q, phase[q], input[q], runtime[q])
      BY DEF AnswersKept
    <3>2. phase'[q] = phase[q] /\ input'[q] = input[q] /\ runtime'[q] = runtime[q]
      BY <2>2
    <3> QED BY <3>1, <3>2
  <2> QED BY <2>1, <2>2
<1> QED BY <1>1 DEF AnswersKept

LEMMA AnswersInit == PrepareInit => AnswersKept
<1> SUFFICES ASSUME PrepareInit PROVE AnswersKept
  OBVIOUS
<1>1. DOMAIN runtime = Preparations
      /\ \A p \in Preparations : phase[p] = "idle" /\ runtime[p] = NoRuntime
  BY DEF PrepareInit
<1> QED BY <1>1 DEF AnswersKept, AnswerKept, Silent

LEMMA AnswersNext == SharedSafe /\ AnswersKept /\ [PrepareNext]_prepareVars => AnswersKept'
<1> SUFFICES ASSUME SharedSafe, AnswersKept, [PrepareNext]_prepareVars PROVE AnswersKept'
  OBVIOUS
<1>1. phase \in [Preparations -> States] /\ DOMAIN input = Preparations /\ DOMAIN runtime = Preparations
  BY DEF SharedSafe, PrepareTypeOK, KeptTypes, AnswersKept
<1>2. ASSUME NEW p \in Preparations, Start(p) \/ Advance(p) \/ Dispose(p) PROVE AnswersKept'
  <2> DEFINE Only(ph, o, r) ==
               /\ DOMAIN runtime' = Preparations
               /\ \A q \in Preparations \ {p} :
                    phase'[q] = phase[q] /\ input'[q] = input[q] /\ runtime'[q] = runtime[q]
               /\ phase'[p] = ph /\ input'[p] = o /\ runtime'[p] = r
  <2>1. ASSUME NEW ph, NEW o, NEW r, Only(ph, o, r), AnswerKept(p, ph, o, r) PROVE AnswersKept'
    BY <2>1, AnswersStep
  <2>2. AnswerKept(p, phase[p], input[p], runtime[p])
    BY DEF AnswersKept
  <2>3. ASSUME NEW ph, phase' = [phase EXCEPT ![p] = ph], UNCHANGED <<input, runtime>>
        PROVE  Only(ph, input[p], runtime[p])
    BY <1>1, <2>3
  <2>4. ASSUME phase' = [phase EXCEPT ![p] = "failed"], UNCHANGED <<input, runtime>>
        PROVE  AnswersKept'
    <3>1. Only("failed", input[p], runtime[p])
      BY <2>3, <2>4
    <3>2. AnswerKept(p, "failed", input[p], runtime[p])
      BY DEF AnswerKept, Silent
    <3> HIDE DEF Only
    <3> QED BY <2>1, <3>1, <3>2
  <2>5. ASSUME NEW o \in Inputs[p], Refuse(p, o) PROVE AnswersKept'
    BY <2>4, <2>5 DEF Refuse
  <2>6. ASSUME NEW o \in Inputs[p], Begin(p, o) PROVE AnswersKept'
    <3>1. phase[p] = "idle" /\ ~RefusedUnlocked(o) /\ ~RefusedLocked(o)
          /\ phase' = [phase EXCEPT ![p] = "seed"] /\ input' = [input EXCEPT ![p] = o] /\ runtime' = runtime
      BY <2>6 DEF Begin
    <3>2. Only("seed", o, runtime[p])
      BY <1>1, <3>1
    <3>3. AnswerKept(p, "seed", o, runtime[p])
      BY <2>2, <3>1 DEF AnswerKept, NotRefused, Silent
    <3> HIDE DEF Only
    <3> QED BY <2>1, <3>2, <3>3
  <2>7. ASSUME NEW ph, phase' = [phase EXCEPT ![p] = ph], UNCHANGED <<input, runtime>>,
               phase[p] \in Silent \cup {"seed"}, UseCloak(input[p]),
               ph \in Silent, phase[p] # "built"
        PROVE  AnswersKept'
    <3>1. Only(ph, input[p], runtime[p])
      BY <2>3, <2>7
    <3>2. AnswerKept(p, ph, input[p], runtime[p])
      BY <2>2, <2>7 DEF AnswerKept, Silent
    <3> HIDE DEF Only
    <3> QED BY <2>1, <3>1, <3>2
  <2>8. ASSUME Plain(p) PROVE AnswersKept'
    <3> DEFINE r == Runtime(input[p], BaseArgs(input[p]), ConfiguredProxy(input[p]))
    <3>1. phase[p] = "seed" /\ ~UseCloak(input[p]) /\ phase' = [phase EXCEPT ![p] = "ready"]
          /\ input' = input /\ runtime' = [runtime EXCEPT ![p] = r]
      BY <2>8 DEF Plain, Return
    <3>2. MadeOf(r, input[p])
      BY <3>1 DEF MadeOf
    <3> HIDE DEF r
    <3>3. Only("ready", input[p], r)
      BY <1>1, <3>1
    <3>4. AnswerKept(p, "ready", input[p], r)
      BY <2>2, <3>1, <3>2 DEF AnswerKept, Silent
    <3> HIDE DEF Only
    <3> QED BY <2>1, <3>3, <3>4
  <2>9. ASSUME SeedOrPathRefused(p) \/ EnsureFails(p) \/ FinishRejected(p) PROVE AnswersKept'
    <3>1. phase' = [phase EXCEPT ![p] = "failed"] /\ UNCHANGED <<input, runtime>>
      BY <2>9 DEF Fail, SeedOrPathRefused, EnsureFails, FinishRejected
    <3> QED BY <2>4, <3>1
  <2>10. ASSUME Seeded(p) PROVE AnswersKept'
    <3>1. phase[p] = "seed" /\ UseCloak(input[p])
          /\ (\/ phase' = [phase EXCEPT ![p] = "failed"] /\ UNCHANGED <<input, runtime>>
              \/ phase' = [phase EXCEPT ![p] = "binary"] /\ UNCHANGED <<input, runtime>>
              \/ phase' = [phase EXCEPT ![p] = "queued"] /\ UNCHANGED <<input, runtime>>)
      BY <2>10 DEF Seeded, Enqueue, Fail
    <3>2. CASE phase' = [phase EXCEPT ![p] = "failed"] /\ UNCHANGED <<input, runtime>>
      BY <2>4, <3>2
    <3>3. ASSUME NEW ph \in {"binary", "queued"}, phase' = [phase EXCEPT ![p] = ph], UNCHANGED <<input, runtime>>
          PROVE  AnswersKept'
      BY <2>7, <3>1, <3>3 DEF Silent
    <3> QED BY <3>1, <3>2, <3>3
  <2>11. ASSUME NEW path, Ensured(p, path) PROVE AnswersKept'
    <3>1. phase[p] = "binary" /\ phase' = [phase EXCEPT ![p] = "queued"] /\ UNCHANGED <<input, runtime>>
      BY <2>11 DEF Ensured, Enqueue
    <3>2. UseCloak(input[p])
      BY <2>2, <3>1 DEF AnswerKept, Silent
    <3> QED BY <2>7, <3>1, <3>2 DEF Silent
  <2>12. ASSUME Build(p) \/ BuildFails(p) PROVE AnswersKept'
    <3>1. \E ph \in Silent : phase' = [phase EXCEPT ![p] = ph]
      BY <2>12 DEF Build, BuildFails, Silent
    <3>2. phase[p] \in {"queued", "building"} /\ UNCHANGED <<input, runtime>>
      BY <2>12 DEF Build, BuildFails, BuilderAnswers
    <3>3. UseCloak(input[p])
      BY <2>2, <3>2 DEF AnswerKept, Silent
    <3> QED BY <2>7, <3>1, <3>2, <3>3 DEF Silent
  <2>13. ASSUME Built(p) PROVE AnswersKept'
    <3>1. phase[p] = "building" /\ phase' = [phase EXCEPT ![p] = "built"] /\ input' = input
      BY <2>13 DEF Built, BuilderAnswers
    <3>2. PICK r \in Options(input[p]) : runtime' = [runtime EXCEPT ![p] = r]
      BY <2>13 DEF Built
    <3>3. Only("built", input[p], r)
      BY <1>1, <3>1, <3>2
    <3>4. AnswerKept(p, "built", input[p], r)
      BY <2>2, <3>1, <3>2 DEF AnswerKept, Silent
    <3> HIDE DEF Only
    <3> QED BY <2>1, <3>3, <3>4
  <2>14. ASSUME Finish(p) PROVE AnswersKept'
    <3> DEFINE r == Runtime(input[p], CloakArgs(input[p], runtime[p].args), runtime[p].proxy)
    <3>1. phase[p] = "built" /\ Accepted(p) /\ phase' = [phase EXCEPT ![p] = "ready"]
          /\ input' = input /\ runtime' = [runtime EXCEPT ![p] = r]
      BY <2>14 DEF Finish, Return
    <3>2. runtime[p] \in Options(input[p]) /\ UseCloak(input[p]) /\ NotRefused(p, input[p])
      BY <2>2, <3>1 DEF AnswerKept, Accepted, Silent
    <3>3. MadeOf(r, input[p])
      BY <3>1, <3>2 DEF MadeOf, Accepted
    <3> HIDE DEF r
    <3>4. Only("ready", input[p], r)
      BY <1>1, <3>1
    <3>5. AnswerKept(p, "ready", input[p], r)
      BY <3>2, <3>3 DEF AnswerKept, Silent
    <3> HIDE DEF Only
    <3> QED BY <2>1, <3>4, <3>5
  <2>15. ASSUME Dispose(p) PROVE AnswersKept'
    <3>1. phase[p] \in {"ready", "disposed"} /\ phase' = [phase EXCEPT ![p] = "disposed"]
          /\ UNCHANGED <<input, runtime>>
      BY <2>15 DEF Dispose
    <3>2. Only("disposed", input[p], runtime[p])
      BY <2>3, <3>1
    <3>3. AnswerKept(p, "disposed", input[p], runtime[p])
      BY <2>2, <3>1 DEF AnswerKept, Silent
    <3> HIDE DEF Only
    <3> QED BY <2>1, <3>2, <3>3
  <2> QED BY <1>2, <2>5, <2>6, <2>8, <2>9, <2>10, <2>11, <2>12, <2>13, <2>14, <2>15 DEF Start, Advance
<1>3. CASE UNCHANGED prepareVars
  BY <1>3 DEF AnswersKept, prepareVars
<1> QED BY <1>2, <1>3 DEF PrepareNext

(* What a runtime that was returned is made of.                                *)
LEMMA ReadyIs ==
  ASSUME AnswersKept, NEW p \in Preparations, Ready(p)
  PROVE  LET o == input[p] IN
         /\ NotRefused(p, o) /\ o.extraArgs \in LaunchArgs
         /\ \E args \in LaunchArgs : \E proxy :
              /\ runtime[p] = Runtime(o, args, proxy) /\ ~Conflicts(o, args)
              /\ UseCloak(o) => \E built \in Options(o) :
                                  args = CloakArgs(o, built.args) /\ ExitIpFound(o, built.args)
<1> DEFINE o == input[p]
<1>1. NotRefused(p, o) /\ MadeOf(runtime[p], o)
  BY DEF AnswersKept, AnswerKept, Ready
<1>2. o.extraArgs \in LaunchArgs
  BY <1>1, ExtraArgsAssumption DEF NotRefused
<1> HIDE DEF o
<1>3. CASE ~UseCloak(o) /\ runtime[p] = Runtime(o, BaseArgs(o), ConfiguredProxy(o))
  <2>1. BaseArgs(o) \in LaunchArgs
    BY <1>2, SeededIs
  <2>2. ~Conflicts(o, BaseArgs(o))
    BY <1>1 DEF NotRefused, RefusedUnlocked
  <2>3. \E args \in LaunchArgs : \E proxy :
           /\ runtime[p] = Runtime(o, args, proxy) /\ ~Conflicts(o, args) /\ ~UseCloak(o)
    BY <1>3, <2>1, <2>2
  <2> QED BY <1>1, <1>2, <2>3 DEF o
<1>4. ASSUME NEW built \in Options(o), UseCloak(o), ExitIpFound(o, built.args),
             ~Conflicts(o, CloakArgs(o, built.args)),
             runtime[p] = Runtime(o, CloakArgs(o, built.args), built.proxy)
      PROVE  \E args \in LaunchArgs : \E proxy :
               /\ runtime[p] = Runtime(o, args, proxy) /\ ~Conflicts(o, args)
               /\ UseCloak(o) => \E b \in Options(o) :
                                   args = CloakArgs(o, b.args) /\ ExitIpFound(o, b.args)
  <2>1. CloakArgs(o, built.args) \in LaunchArgs
    BY <1>2, <1>4, CloakIs
  <2> WITNESS CloakArgs(o, built.args) \in LaunchArgs
  <2> WITNESS built.proxy
  <2> QED BY <1>4
<1> QED BY <1>1, <1>2, <1>3, <1>4 DEF MadeOf, o

(* The parts of a runtime.                                                     *)
LEMMA RuntimeIs ==
  ASSUME NEW o, NEW args, NEW proxy, NEW r, r = Runtime(o, args, proxy)
  PROVE  /\ r.args = (IF o.extension THEN <<>> ELSE FinalArgs(o, args))
         /\ r.proxy = (IF o.extension THEN NoProxy ELSE proxy)
         /\ r.isolated = (o.isolated /\ ~o.userDataDir /\ ~o.extension)
         /\ r.profile = o.userDataDir /\ r.context = Context(o)
         /\ r.child.proxy = ChildProxy(o) /\ r.child.token = (o.extension /\ o.token)
         /\ r.child.isolated =
              (~o.userDataDir /\ ~o.extension /\ (o.isolated \/ o.isolatedEnv))
         /\ r.child.attach = WithoutCdp(o) /\ r.child.headless = Headless(o)
  BY DEF Runtime

LEMMA ManagedPortHolds == AnswersKept => ManagedPortWins
<1> SUFFICES ASSUME AnswersKept, NEW p \in Preparations, Ready(p), input[p].managed
             PROVE  \E i \in DOMAIN runtime[p].args :
                      /\ runtime[p].args[i] = Arg(DebugPort, "internal")
                      /\ \A j \in DOMAIN runtime[p].args :
                           runtime[p].args[j].key \in Prohibited => j = i
  BY DEF ManagedPortWins
<1> DEFINE o == input[p]
<1>1. PICK args \in LaunchArgs : \E proxy : runtime[p] = Runtime(o, args, proxy) /\ ~Conflicts(o, args)
  BY ReadyIs
<1>2. NotRefused(p, o) /\ o.managed
  BY ReadyIs
<1> HIDE DEF o
<1>3. ~o.extension
  BY <1>2 DEF NotRefused, RefusedLocked, ExtensionConflicts
<1>4. runtime[p].args = FinalArgs(o, args)
  BY <1>1, <1>3, RuntimeIs
<1> QED BY <1>1, <1>2, <1>4, FinalIs

LEMMA SecretHolds == AnswersKept => ProxySecretHidden
<1> SUFFICES ASSUME AnswersKept, NEW p \in Preparations, Ready(p)
             PROVE  LET found == runtime[p].child.proxy
                        told  == ConfiguredProxy(input[p])
                    IN  /\ found # NoProxy => found = told /\ ~HasProxyCredentials(found)
                        /\ told.from \in {"metadata", "env"} /\ ~HasProxyCredentials(told) => found = told
  BY DEF ProxySecretHidden
<1> DEFINE o == input[p]
<1>1. runtime[p].child.proxy = ChildProxy(o)
  <2>1. PICK args, proxy : runtime[p] = Runtime(o, args, proxy)
    BY ReadyIs
  <2> QED BY <2>1, RuntimeIs
<1>2. ChildProxy(o) # NoProxy => ChildProxy(o) = ConfiguredProxy(o) /\ ~HasProxyCredentials(ChildProxy(o))
  BY DEF ChildProxy, ConfiguredProxy
<1>3. ASSUME ConfiguredProxy(o).from \in {"metadata", "env"}, ~HasProxyCredentials(ConfiguredProxy(o))
      PROVE  ChildProxy(o) = ConfiguredProxy(o)
  <2>1. CASE o.proxy # NoProxy \/ o.proxyEnv # NoProxy
    BY <1>3, <2>1 DEF ChildProxy, ConfiguredProxy
  <2>2. CASE o.proxy = NoProxy /\ o.proxyEnv = NoProxy
    <3>1. ConfiguredProxy(o).from \in {"args", "none"}
      BY <2>2 DEF ConfiguredProxy, NoProxy
    <3> QED BY <1>3, <3>1
  <2> QED BY <2>1, <2>2
<1> QED BY <1>1, <1>2, <1>3

LEMMA FingerprintHolds == AnswersKept => FingerprintKept
<1> SUFFICES ASSUME AnswersKept, NEW p \in Preparations, Ready(p), UseCloak(input[p]), input[p].stealth
             PROVE  LET o    == input[p]
                        last == Last(runtime[p].args, Fingerprint)
                    IN  IF ExplicitFingerprint(o)
                        THEN /\ \E i \in DOMAIN o.extraArgs : o.extraArgs[i] = Arg(Fingerprint, last)
                             /\ last = Last(BaseArgs(o), Fingerprint)
                        ELSE last = IF o.userDataDir THEN "seed" ELSE "random"
  BY DEF FingerprintKept
<1> DEFINE o == input[p]
<1>1. PICK args \in LaunchArgs : \E proxy :
        /\ runtime[p] = Runtime(o, args, proxy)
        /\ \E built \in Options(o) : args = CloakArgs(o, built.args) /\ ExitIpFound(o, built.args)
  BY ReadyIs
<1>2. o.extraArgs \in LaunchArgs /\ UseCloak(o) /\ o.stealth
  BY ReadyIs
<1> HIDE DEF o
<1>3. runtime[p].args = FinalArgs(o, args)
  BY <1>1, <1>2, RuntimeIs DEF UseCloak
<1>4. SameFor(SeededArgs(o), args, Fingerprint)
  BY <1>1, <1>2, CloakIs
<1>5. SameFor(args, FinalArgs(o, args), Fingerprint)
  <2>1. Fingerprint # DebugPort
    BY DEF Fingerprint, DebugPort
  <2> QED BY <1>1, <2>1, FinalIs
<1>6. Last(runtime[p].args, Fingerprint) = Last(SeededArgs(o), Fingerprint)
  BY <1>2, <1>3, <1>4, <1>5, SeededFingerprint DEF SameFor
<1> QED BY <1>2, <1>6, SeededFingerprint DEF o

LEMMA GeoipHolds == AnswersKept => GeoipHonest
<1> SUFFICES ASSUME AnswersKept, NEW p \in Preparations, Ready(p), UseCloak(input[p]), MatchesGeoip(input[p])
             PROVE  LET o == input[p] IN
                    Last(runtime[p].args, WebrtcIp) =
                      IF First(o.extraArgs, WebrtcIp) \in {"undefined", "auto"} THEN "exit"
                      ELSE Last(BaseArgs(o), WebrtcIp)
  BY DEF GeoipHonest
<1> DEFINE o == input[p]
<1>1. PICK args \in LaunchArgs : \E proxy :
        /\ runtime[p] = Runtime(o, args, proxy)
        /\ \E built \in Options(o) : args = CloakArgs(o, built.args) /\ ExitIpFound(o, built.args)
  BY ReadyIs
<1>2. o.extraArgs \in LaunchArgs /\ UseCloak(o) /\ MatchesGeoip(o)
  BY ReadyIs
<1> HIDE DEF o
<1>3. runtime[p].args = FinalArgs(o, args)
  BY <1>1, <1>2, RuntimeIs DEF UseCloak
<1>4. /\ WebrtcIp \in Keys(args)
      /\ Last(args, WebrtcIp) =
           IF First(o.extraArgs, WebrtcIp) \in {"undefined", "auto"} THEN "exit"
           ELSE Last(BaseArgs(o), WebrtcIp)
  BY <1>1, <1>2, CloakIs
<1>5. Last(FinalArgs(o, args), WebrtcIp) = Last(args, WebrtcIp)
  <2>1. WebrtcIp # DebugPort
    BY DEF WebrtcIp, DebugPort
  <2> QED BY <1>1, <1>4, <2>1, FinalIs DEF SameFor
<1> QED BY <1>3, <1>4, <1>5 DEF o

LEMMA AttachHolds == AnswersKept => AttachesOnlyAsTold
<1> SUFFICES ASSUME AnswersKept, NEW p \in Preparations, Ready(p)
             PROVE  LET r == runtime[p] IN
                    /\ r.child.token <=> input[p].extension
                    /\ r.child.attach # "cdp"
                    /\ input[p].extension =>
                         /\ r.args = <<>> /\ r.proxy = NoProxy /\ r.child.proxy = NoProxy
                         /\ r.profile /\ ~r.child.isolated /\ ~r.child.headless
                         /\ DOMAIN r.context = {} /\ r.child.attach = "none"
  BY DEF AttachesOnlyAsTold
<1> DEFINE o == input[p]
           r == runtime[p]
<1>1. PICK args, proxy : r = Runtime(o, args, proxy)
  BY ReadyIs
<1>2. ~RefusedLocked(o)
  BY ReadyIs DEF NotRefused
<1> HIDE DEF o, r
<1>3. o.extension => o.token /\ o.userDataDir /\ ~ExtensionConflicts(o)
  BY <1>2 DEF RefusedLocked
<1>4. r.child.token <=> o.extension
  BY <1>1, <1>3, RuntimeIs
<1>5. r.child.attach # "cdp"
  BY <1>1, RuntimeIs DEF WithoutCdp
<1>6. ASSUME o.extension
      PROVE  /\ r.args = <<>> /\ r.proxy = NoProxy /\ r.child.proxy = NoProxy
             /\ r.profile /\ ~r.child.isolated /\ ~r.child.headless
             /\ DOMAIN r.context = {} /\ r.child.attach = "none"
  <2>1. r.args = <<>> /\ r.proxy = NoProxy
    BY <1>1, <1>6, RuntimeIs
  <2>2. r.profile /\ ~r.child.isolated /\ ~r.child.headless
    <3>1. ~Headless(o)
      BY <1>6 DEF Headless
    <3>2. r.profile = o.userDataDir /\ r.child.headless = Headless(o)
          /\ r.child.isolated =
               (~o.userDataDir /\ ~o.extension /\ (o.isolated \/ o.isolatedEnv))
      BY <1>1, RuntimeIs
    <3>3. o.userDataDir
      BY <1>3, <1>6
    <3> QED BY <3>1, <3>2, <3>3, Zenon
  <2>3. r.child.proxy = NoProxy
    <3>1. o.proxy = NoProxy /\ o.proxyEnv = NoProxy
      BY <1>3, <1>6 DEF ExtensionConflicts, ConfiguredProxy
    <3>2. ChildProxy(o) = NoProxy
      BY <3>1 DEF ChildProxy, HasProxyCredentials
    <3> QED BY <1>1, <3>2, RuntimeIs
  <2>4. DOMAIN r.context = {} /\ r.child.attach = "none"
    BY <1>1, <1>3, <1>6, RuntimeIs DEF ExtensionConflicts, WithoutCdp
  <2> QED BY <2>1, <2>2, <2>3, <2>4
<1> QED BY <1>4, <1>5, <1>6 DEF o, r

LEMMA ContextHolds == AnswersKept => ContextSound
<1> SUFFICES ASSUME AnswersKept, NEW p \in Preparations, Ready(p)
             PROVE  /\ ~(runtime[p].profile /\ (runtime[p].isolated \/ runtime[p].child.isolated))
                    /\ ~ContextRefused(runtime[p].context) /\ ~ContextRefused(input[p].contextEnv)
  BY DEF ContextSound
<1> DEFINE o == input[p]
           r == runtime[p]
<1>1. PICK args, proxy : r = Runtime(o, args, proxy)
  BY ReadyIs
<1>2. ~ContextRefused(o.contextEnv) /\ ~ContextRefused(o.context)
  BY ReadyIs DEF NotRefused, RefusedLocked, EitherRefused
<1> HIDE DEF o, r
<1>3. ~(r.profile /\ (r.isolated \/ r.child.isolated))
  <2>1. /\ r.profile = o.userDataDir /\ r.isolated = (o.isolated /\ ~o.userDataDir /\ ~o.extension)
        /\ r.child.isolated =
             (~o.userDataDir /\ ~o.extension /\ (o.isolated \/ o.isolatedEnv))
    BY <1>1, RuntimeIs
  <2> QED BY <2>1, Zenon
<1>4. ~ContextRefused(Context(o))
  BY <1>2 DEF Context, ContextRefused
<1>5. r.context = Context(o)
  BY <1>1, RuntimeIs
<1> QED BY <1>2, <1>3, <1>4, <1>5 DEF o, r

LEMMA ToldHolds == AnswersKept => ToldAsAsked
  BY ManagedPortHolds, SecretHolds, FingerprintHolds, GeoipHolds, AttachHolds, ContextHolds
  DEF ToldAsAsked

(* The browser that is started is the one that was asked for: no debugging      *)
(* port, secret, fingerprint, address, token or unvalidated option gets past     *)
(* the others, whatever arguments the operator writes, whatever the builder      *)
(* answers and however the preparations interleave.                              *)
THEOREM RuntimesAsAsked == PrepareSpec => []ToldAsAsked
<1>1. PrepareInit => AnswersKept
  BY AnswersInit
<1>2. SharedSafe /\ AnswersKept /\ [PrepareNext]_prepareVars => AnswersKept'
  BY AnswersNext
<1>3. AnswersKept => ToldAsAsked
  BY ToldHolds
<1> QED BY <1>1, <1>2, <1>3, PreparationsSafe, PTL DEF PrepareSpec
=============================================================================
