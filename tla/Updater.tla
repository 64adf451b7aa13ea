------------------------------- MODULE Updater -------------------------------
(***************************************************************************)
(* The self-update of the host (services/updater_service.rs): requests to  *)
(* check and to apply share one status behind a mutex, which they lock for *)
(* each single step, and run the network and the file system without it.   *)
(*                                                                         *)
(* GitHub's list of releases is external: its first entry may change at    *)
(* any time.  A version has three numbers and, for a pre-release, further  *)
(* numbers after "-rc.": split at its dots, the part with the hyphen is    *)
(* not a number.                                                           *)
(***************************************************************************)
EXTENDS Integers, Sequences, FiniteSets

CONSTANTS
  Tasks,        \* handlers of update requests and the check of start-up
  Versions,     \* versions there may be: [core, pre]
  FirstVersion, \* the version installed in the beginning
  NoVersion     \* no version

ASSUME UpdaterAssumption ==
  /\ Versions \subseteq [core : Seq(Nat), pre : Seq(Nat)]
  /\ \A v \in Versions : Len(v.core) = 3
  /\ FirstVersion \in Versions /\ NoVersion \notin Versions

VARIABLES
  status,       \* the UpdateStatus: [kind, version]
  running,      \* current_version: the version of the running program
  installed,    \* the version of the program on disk
  latest,       \* the newest release on GitHub, or NoVersion
  task,         \* [task]: the step that comes next and the status to write
  gone,         \* tasks whose blocking call runs on without its handler
  left          \* history: a handler was abandoned since the last result

updaterVars == <<status, running, installed, latest, task, gone, left>>

Status(kind, version) == [kind |-> kind, version |-> version]
NoResult == Status("Idle", NoVersion)

\* A task carries the status it will write.
Step(pc, result) == [pc |-> pc, result |-> result]
Idle == Step("idle", NoResult)
Kinds == {"Idle", "Checking", "Available", "Downloading", "Ready", "UpToDate", "Error"}
Steps == {"idle", "fetch", "report", "mark", "download", "replace", "finish"}

UpdaterInit ==
  /\ status = Status("Idle", NoVersion)
  /\ running = FirstVersion
  /\ installed = FirstVersion
  /\ latest = NoVersion
  /\ task = [t \in Tasks |-> Idle]
  /\ gone = {}
  /\ left = FALSE

-----------------------------------------------------------------------------
(* Comparing versions.                                                     *)

\* The parts between the dots that parse as a number: "1.2.0-rc.1" loses its
\* third part.
Numbers(v) == IF v.pre = <<>> THEN v.core ELSE SubSeq(v.core, 1, 2) \o v.pre

Differing(s, t) == {i \in DOMAIN s \cap DOMAIN t : s[i] # t[i]}
Least(S) == CHOOSE i \in S : \A j \in S : i <= j

\* Mutant of IsNewer: the last difference decides.
IsNewerAtEnd(a, b) ==
  LET va == Numbers(a)
      vb == Numbers(b)
      diff == Differing(va, vb)
  IN IF diff = {} THEN Len(va) > Len(vb)
     ELSE \E i \in diff : (\A j \in diff : j <= i) /\ va[i] > vb[i]

\* is_newer: the first difference decides, or else the length.
IsNewer(a, b) ==
  LET va == Numbers(a)
      vb == Numbers(b)
      diff == Differing(va, vb)
  IN IF diff = {} THEN Len(va) > Len(vb) ELSE va[Least(diff)] > vb[Least(diff)]

\* The order of semantic versions, which the self_update library compares by:
\* a pre-release comes before its release.
SemverGreater(a, b) ==
  LET Greater(s, t) ==
        LET diff == Differing(s, t)
        IN IF diff = {} THEN Len(s) > Len(t) ELSE s[Least(diff)] > t[Least(diff)]
  IN IF a.core # b.core THEN Greater(a.core, b.core)
     ELSE \/ a.pre = <<>> /\ b.pre # <<>>
          \/ a.pre # <<>> /\ b.pre # <<>> /\ Greater(a.pre, b.pre)

-----------------------------------------------------------------------------
(* check_for_update.                                                       *)

Move(t, pc, then) ==
  /\ task[t].pc = pc
  /\ task' = [task EXCEPT ![t] = then]

BeginCheck(t) ==
  /\ Move(t, "idle", Step("fetch", NoResult))
  /\ status' = Status("Checking", NoVersion)
  /\ UNCHANGED <<running, installed, latest, gone, left>>

\* What fetch_latest_release may find: the network may fail.
Found ==
  {Status("Error", NoVersion)} \cup
  (IF latest = NoVersion THEN {}
   ELSE IF latest # running /\ IsNewer(latest, running)
        THEN {Status("Available", latest)}
        ELSE {Status("UpToDate", NoVersion)})

Fetch(t) ==
  \E found \in Found :
    /\ Move(t, "fetch", Step("report", found))
    /\ UNCHANGED <<status, running, installed, latest, gone, left>>

\* Mutant of Report: the status of a failed check is not written.
ReportSuccess(t) ==
  /\ Move(t, "report", Idle)
  /\ status' = IF task[t].result.kind = "Error" THEN status ELSE task[t].result
  /\ left' = FALSE
  /\ UNCHANGED <<running, installed, latest, gone>>

Report(t) ==
  /\ Move(t, "report", Idle)
  /\ status' = task[t].result
  /\ left' = FALSE
  /\ UNCHANGED <<running, installed, latest, gone>>

-----------------------------------------------------------------------------
(* apply_update.                                                           *)

\* The status is looked at under the lock ...
BeginApply(t) ==
  /\ status.kind = "Available"
  /\ Move(t, "idle", Step("mark", NoResult))
  /\ UNCHANGED <<status, running, installed, latest, gone, left>>

\* ... and changed under the next: another request may have been there.
Mark(t) ==
  /\ Move(t, "mark", Step("download", NoResult))
  /\ status' = Status("Downloading", NoVersion)
  /\ UNCHANGED <<running, installed, latest, gone, left>>

\* The library looks for the latest release itself, without a look at the
\* status; without a greater one it succeeds with the version that runs.
Download(t) ==
  /\ \/ Move(t, "download", Step("finish", Status("Error", NoVersion)))
     \/ /\ latest # NoVersion
        /\ IF SemverGreater(latest, running)
           THEN Move(t, "download", Step("replace", Status("Ready", latest)))
           ELSE Move(t, "download", Step("finish", Status("Ready", running)))
  /\ UNCHANGED <<status, running, installed, latest, gone, left>>

\* The downloaded program takes the place of the one on disk.
Replace(t) ==
  /\ Move(t, "replace", Step("finish", task[t].result))
  /\ installed' = task[t].result.version
  /\ UNCHANGED <<status, running, latest, gone, left>>

\* The result of a call whose handler is gone reaches nobody.
Finish(t) ==
  /\ Move(t, "finish", Idle)
  /\ IF t \in gone
     THEN UNCHANGED <<status, left>>
     ELSE status' = task[t].result /\ left' = FALSE
  /\ gone' = gone \ {t}
  /\ UNCHANGED <<running, installed, latest>>

\* The client goes away and the server drops the handler where it waits.  A
\* download cannot be dropped: it runs on and is installed.
Abandon(t) ==
  /\ task[t].pc # "idle" /\ t \notin gone
  /\ left' = TRUE
  /\ IF task[t].pc \in {"download", "replace", "finish"}
     THEN gone' = gone \cup {t} /\ UNCHANGED task
     ELSE task' = [task EXCEPT ![t] = Idle] /\ UNCHANGED gone
  /\ UNCHANGED <<status, running, installed, latest>>

-----------------------------------------------------------------------------
\* GitHub: a release is published, or taken back.
Publish(v) ==
  /\ latest' = v
  /\ UNCHANGED <<status, running, installed, task, gone, left>>

\* Of a stopped process only the program on disk is left.
UpdaterStop ==
  /\ task' = [t \in Tasks |-> Idle]
  /\ status' = NoResult
  /\ gone' = {}
  /\ left' = FALSE
  /\ UNCHANGED <<running, installed, latest>>

\* UpdaterService::new in the program on disk.
UpdaterStart ==
  /\ running' = installed
  /\ UNCHANGED <<status, installed, latest, task, gone, left>>

UpdaterStep(t) ==
  \/ Fetch(t) \/ Report(t)
  \/ Mark(t) \/ Download(t) \/ Replace(t) \/ Finish(t)

-----------------------------------------------------------------------------
(* Properties.                                                             *)

\* Types of the updater state.
UpdaterTypeOK ==
  /\ status \in [kind : Kinds, version : Versions \cup {NoVersion}]
  /\ running \in Versions /\ installed \in Versions
  /\ latest \in Versions \cup {NoVersion}
  /\ task \in [Tasks -> [pc : Steps, result : [kind : Kinds, version : Versions \cup {NoVersion}]]]
  /\ gone \subseteq Tasks
  /\ left \in BOOLEAN

\* However checks and applications overwrite each other's status, it says that
\* one of them is under way only as long as one is: after the last of them the
\* status is a result, and another request can go on from it.  The exception is
\* a handler whose client went away: nobody takes its "Checking" back.
StatusSettles ==
  status.kind \in {"Checking", "Downloading"} => left \/ \E t \in Tasks : task[t].pc # "idle"

\* An update is offered only if it is newer than the program that runs, in the
\* order of semantic versions, whatever was released, taken back or installed
\* since the check.  (Of a pre-release is_newer knows no better than to take
\* its last number for a part of the version.)
OfferIsNewer ==
  status.kind = "Available" /\ status.version.pre = <<>> /\ running.pre = <<>>
    => SemverGreater(status.version, running)

\* The program on disk is never older than the one that runs, although two
\* applications may replace it one after the other.
NeverDowngrades == installed = running \/ SemverGreater(installed, running)
=============================================================================
