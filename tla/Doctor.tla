-------------------------------- MODULE Doctor --------------------------------
(***************************************************************************)
(* The diagnostics of the doctor command (src/src/cli/doctor.ts), as       *)
(* operators on the facts f the command finds: the version of Node.js and  *)
(* the minimum the package asks for, the upstream CLI and the Playwright   *)
(* core bundle with the package.json files in the directories above them,  *)
(* nearest first, and the installed CloakBrowser binary.                   *)
(***************************************************************************)
EXTENDS Integers, Sequences

Null == "null"
NoRange == <<>>      \* an engines range not of the form >=a.b.c

\* isNodeVersionSupported, compareVersions: the first number that differs decides
MajorDecides(actual, minimum) == actual[1] >= minimum[1]
CompareVersions(actual, minimum) ==
  \A i \in 1 .. 3 : actual[i] < minimum[i] => \E j \in 1 .. (i - 1) : actual[j] > minimum[j]
isNodeVersionSupported(f) == f.engine = NoRange \/ CompareVersions(f.node, f.engine)

\* findOwningPackage: the nearest package.json of that name with a version; one
\* that cannot be read or belongs to another package is passed over
findOwningPackage(chain, name) ==
  LET owning == {i \in DOMAIN chain : chain[i].name = name /\ chain[i].version # Null}
  IN  IF owning = {} THEN Null ELSE chain[CHOOSE i \in owning : \A j \in owning : i <= j].version

NodeCheck(f) == IF isNodeVersionSupported(f) THEN "ok" ELSE "error"

\* inspectPlaywrightCli: its lookups throw, the file is not there, or it is
CliCheck(f) ==
  CASE f.cli = "found"  -> IF findOwningPackage(f.above, "@playwright/mcp") = Null THEN "warning" ELSE "ok"
    [] f.cli # "found"  -> "error"

\* inspectPlaywrightRuntime; resolveExistingModulePath tries the path and path.js
RuntimeCheck(f) ==
  LET core == f.playwrightCore
      bundled == findOwningPackage(f.aboveBundle, "playwright-core")
  IN  IF f.bundle \notin {"found", "found as .js"} \/ f.cli # "found" THEN "error"
      ELSE IF Null \in {f.playwright, core, bundled} \/ core # bundled THEN "warning"
      ELSE "ok"

\* inspectCloakbrowser: the binary may be downloaded later, its metadata must be readable
BinaryCheck(f) ==
  CASE f.binary = "installed" -> "ok" [] f.binary = "absent" -> "warning" [] f.binary = "throws" -> "error"

\* createDoctorReport, summarizeStatus
Checks(f) == {NodeCheck(f), CliCheck(f), RuntimeCheck(f), BinaryCheck(f)}
DoctorStatus(f) ==
  IF "error" \in Checks(f) THEN "error" ELSE IF "warning" \in Checks(f) THEN "warning" ELSE "ok"
=============================================================================
