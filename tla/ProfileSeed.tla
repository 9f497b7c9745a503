---------------------------- MODULE ProfileSeed ----------------------------
(***************************************************************************)
(* The fingerprint seed of a persistent profile                            *)
(* (src/src/bridge/profile-seed.ts), read or created by the runtime that   *)
(* holds the profile lock while it awaits one file operation after another.*)
(* CloakBrowser's own wrapper may publish a seed too: it is external,      *)
(* creates the file exclusively, fills it later and ignores the lock.  A   *)
(* seed is named by who chose it; temporary files have random names and    *)
(* are left out.                                                           *)
(***************************************************************************)
EXTENDS ProfileLock

CONSTANT Wrapper

Writers == Runtimes \cup {Wrapper}
SeedFiles == [by: Writers, text: {"partial", "valid"}]  \* empty or corrupt, or whole

ASSUME WrapperAssumption == Wrapper \notin Runtimes \cup {NoFile} /\ NoFile \notin SeedFiles

VARIABLES
  seed,    \* .cloakbrowser-seed: who wrote it, and what it reads as
  stage,   \* where each runtime is in readOrCreateProfileSeed
  used,    \* the seed it returned to the launch
  wrapper  \* the external writer

seedVars == <<seed, stage, used, wrapper>>
vars == <<lockVars, seedVars>>

Reading == {"look", "again"}

Init ==
  /\ LockInit
  /\ seed \in {NoFile, [by |-> Wrapper, text |-> "partial"]}
  /\ stage = [r \in Runtimes |-> "none"] /\ used = [r \in Runtimes |-> NoFile]
  /\ wrapper = "idle"

Stage(r, where) == Holds(r) /\ stage[r] = where
Continue(r, where) == stage' = [stage EXCEPT ![r] = where]
Reads(text) == seed # NoFile /\ seed.text = text

\* a seed is wanted unless stealth is off or --fingerprint is given
WantSeed(r) == Stage(r, "none") /\ Continue(r, "look") /\ UNCHANGED <<seed, used, wrapper>>

SeedAbsent(r) ==
  /\ seed = NoFile
  /\ \/ Stage(r, "look") /\ Continue(r, "publish")
     \/ Stage(r, "again") /\ Continue(r, "failed")
  /\ UNCHANGED <<seed, used, wrapper>>

SeedUnparsed(r) ==
  /\ \E s \in Reading : Stage(r, s)
  /\ Reads("valid")
  /\ Continue(r, "using") /\ used' = [used EXCEPT ![r] = seed]
  /\ UNCHANGED <<seed, wrapper>>

SeedValid(r) ==
  /\ \E s \in Reading : Stage(r, s)
  /\ Reads("valid")
  /\ Continue(r, "using") /\ used' = [used EXCEPT ![r] = seed.by]
  /\ UNCHANGED <<seed, wrapper>>

\* corrupt, or still empty after 20 polls; before that it is read again
SeedCorrupt(r) ==
  /\ \E s \in Reading : Stage(r, s) /\ Continue(r, IF s = "look" THEN "discard" ELSE "discardAgain")
  /\ Reads("partial")
  /\ UNCHANGED <<seed, used, wrapper>>

\* rm removes whatever is there by then
Discard(r) ==
  /\ \/ Stage(r, "discard") /\ Continue(r, "publish")
     \/ Stage(r, "discardAgain") /\ Continue(r, "failed")
  /\ seed' = NoFile
  /\ UNCHANGED <<used, wrapper>>

\* any other error of a read or of rm stops the preparation
SeedInaccessible(r) ==
  /\ \E s \in Reading \cup {"discard", "discardAgain"} : Stage(r, s)
  /\ Continue(r, "failed")
  /\ UNCHANGED <<seed, used, wrapper>>

\* the temporary file, then publishSeed by link, which never replaces a file
LinkNotReread(r) ==
  /\ Stage(r, "publish") /\ Continue(r, "using") /\ used' = [used EXCEPT ![r] = r]
  /\ seed' = IF seed = NoFile THEN [by |-> r, text |-> "valid"] ELSE seed
  /\ UNCHANGED wrapper

Link(r) ==
  /\ Stage(r, "publish")
  /\ \/ seed = NoFile /\ seed' = [by |-> r, text |-> "valid"] /\ Continue(r, "again")
     \/ seed # NoFile /\ Continue(r, "again") /\ UNCHANGED seed
     \/ (\E s \in {"exclusive", "failed"} : Continue(r, s)) /\ UNCHANGED seed
  /\ UNCHANGED <<used, wrapper>>

\* no hard links here: an exclusive create, then a write
CreateExclusive(r) ==
  /\ Stage(r, "exclusive")
  /\ \/ seed = NoFile /\ seed' = [by |-> r, text |-> "partial"] /\ Continue(r, "fill")
     \/ seed # NoFile /\ Continue(r, "again") /\ UNCHANGED seed
     \/ Continue(r, "failed") /\ UNCHANGED seed
  /\ UNCHANGED <<used, wrapper>>

Fill(r) ==
  /\ Stage(r, "fill")
  /\ \E text \in {"valid", "partial"} :
       /\ Continue(r, IF text = "valid" THEN "again" ELSE "failed")
       /\ seed' = IF seed # NoFile /\ seed.by = r THEN [seed EXCEPT !.text = text] ELSE seed
  /\ UNCHANGED <<used, wrapper>>

WrapperCreates ==
  /\ wrapper = "idle" /\ seed = NoFile
  /\ wrapper' = "filling" /\ seed' = [by |-> Wrapper, text |-> "partial"]
  /\ UNCHANGED <<stage, used>>

WrapperFills ==
  /\ wrapper = "filling" /\ wrapper' = "idle"
  /\ seed' = IF seed # NoFile /\ seed.by = Wrapper THEN [seed EXCEPT !.text = "valid"] ELSE seed
  /\ UNCHANGED <<stage, used>>

SeedStep(r) ==
  \/ WantSeed(r) \/ SeedAbsent(r) \/ SeedValid(r) \/ SeedCorrupt(r) \/ Discard(r)
  \/ SeedInaccessible(r) \/ Link(r) \/ CreateExclusive(r) \/ Fill(r)

\* prepareBridgeRuntime gives the lock back when it fails, dispose when it ends
MayRelease(r) == stage[r] \in {"none", "using", "failed"}

KillSeeding(p) ==
  /\ Kill(p)
  /\ stage' = [r \in Runtimes |-> IF ProcessOf[r] = p THEN "none" ELSE stage[r]]
  /\ UNCHANGED <<seed, used, wrapper>>

Next ==
  \/ \E r \in Runtimes : AcquireStep(r) /\ UNCHANGED seedVars
  \/ \E r \in Runtimes : MayRelease(r) /\ Release(r) /\ UNCHANGED seedVars
  \/ \E p \in Processes : KillSeeding(p)
  \/ \E r \in Runtimes : ~Busy(ProcessOf[r]) /\ SeedStep(r) /\ UNCHANGED lockVars
  \/ (WrapperCreates \/ WrapperFills) /\ UNCHANGED lockVars

Spec == Init /\ [][Next]_vars
-----------------------------------------------------------------------------
TypeOK ==
  /\ LockTypeOK
  /\ seed \in SeedFiles \cup {NoFile}
  /\ stage \in [Runtimes -> Reading \cup {"none", "discard", "discardAgain", "publish",
                                          "exclusive", "fill", "using", "failed"}]
  /\ used \in [Runtimes -> Writers \cup {NoFile}]
  /\ wrapper \in {"idle", "filling"}

(* A profile keeps its identity ("retains its fingerprint seed",            *)
(* docs/recipes/persistent-login-profile.md:54): once a launch used a seed, *)
(* the file holds it and every later launch uses the same one, whatever was *)
(* killed in between, on file systems without links and next to CloakBrowser*)
(* publishing a seed of its own.                                            *)
SeedKept ==
  ~overlapped =>
    \A r \in Runtimes : used[r] # NoFile => seed = [by |-> used[r], text |-> "valid"]

(* What makes it hold: nobody has used a seed that a runtime is about to    *)
(* remove or still has to fill.                                             *)
UnusedYet == \A s \in Runtimes : used[s] = NoFile
NothingUsedIsTouched ==
  ~overlapped =>
    \A r \in Runtimes :
      /\ (Stage(r, "discard") \/ Stage(r, "discardAgain")) => UnusedYet
      /\ Stage(r, "fill") /\ seed # NoFile /\ seed.by = r => seed.text = "partial"

StagedWhileHeld == \A r \in Runtimes : stage[r] # "none" => pc[r] \in {"held", "released"}

Safe == LockSafe /\ TypeOK /\ SeedKept /\ NothingUsedIsTouched /\ StagedWhileHeld
=============================================================================
