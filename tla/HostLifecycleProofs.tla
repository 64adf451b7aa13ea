------------------------- MODULE HostLifecycleProofs -------------------------
(***************************************************************************)
(* Proofs about the host from start to start, for any configurations, any  *)
(* versions and any number of requests, releases and stops.                *)
(***************************************************************************)
EXTENDS HostLifecycle, SequenceTheorems, TLAPS

-----------------------------------------------------------------------------
(* The configuration.                                                      *)

\* The file is torn exactly from the moment a save starts to write until one
\* succeeds; a host that does not run saves nothing and holds nothing.
ConfigInv ==
  /\ ConfigTypeOK
  /\ cut <=> disk = Torn
  /\ saving = "write" => cut
  /\ SavedSurvives
  /\ mqttConfig \in Values
  /\ ~up => memory = Default /\ saving = "no"

LEMMA ConfigInvInit == Init => ConfigInv
<1> SUFFICES ASSUME Init PROVE ConfigInv
  OBVIOUS
<1> QED
  BY ConfigAssumption
     DEF Init, ConfigInit, ConfigInv, ConfigTypeOK, SavedSurvives

\* A save, step by step.
LEMMA SaveInv ==
  ASSUME ConfigInv, up, up' = up, mqttConfig' = mqttConfig, SaveStep
  PROVE  ConfigInv'
<1>1. CASE PrepareFails
  BY <1>1 DEF PrepareFails, ConfigInv, ConfigTypeOK, SavedSurvives
<1>2. CASE BeginWrite
  BY <1>2, ConfigAssumption DEF BeginWrite, ConfigInv, ConfigTypeOK, SavedSurvives
<1>3. CASE EndWrite
  BY <1>3, ConfigAssumption DEF EndWrite, ConfigInv, ConfigTypeOK, SavedSurvives
<1>4. CASE WriteFails
  BY <1>4 DEF WriteFails, ConfigInv, ConfigTypeOK, SavedSurvives
<1> QED
  BY <1>1, <1>2, <1>3, <1>4 DEF SaveStep

\* Whether the file is read or missed, the memory holds a configuration.
LEMMA LoadTyped ==
  ASSUME ConfigTypeOK, Load
  PROVE  memory' \in Values /\ missed' \in BOOLEAN
<1>1. CASE disk \in Values /\ memory' = disk /\ missed' = FALSE
  BY <1>1
<1>2. CASE memory' = Default /\ missed' = (disk # Absent)
  BY <1>2, ConfigAssumption
<1>3. CASE disk # Absent /\ memory' = memory /\ missed' = TRUE
  BY <1>3 DEF ConfigTypeOK
<1> QED
  BY <1>1, <1>2, <1>3 DEF Load

LEMMA RequestInv ==
  ASSUME ConfigInv, up, up' = up, mqttConfig' = mqttConfig, ConfigRequest
  PROVE  ConfigInv'
<1>1. ASSUME NEW value \in Values, SaveConfig(value) PROVE ConfigInv'
  BY <1>1 DEF SaveConfig, ConfigInv, ConfigTypeOK, SavedSurvives
<1>2. CASE LoadConfig
  BY <1>2, LoadTyped DEF LoadConfig, ConfigInv, ConfigTypeOK, SavedSurvives
<1>3. CASE ResetConfig
  BY <1>3, ConfigAssumption DEF ResetConfig, ConfigInv, ConfigTypeOK, SavedSurvives
<1> QED
  BY <1>1, <1>2, <1>3 DEF ConfigRequest

LEMMA ConfigInvStep == ConfigInv /\ [Next]_vars => ConfigInv'
<1> SUFFICES ASSUME ConfigInv, [Next]_vars PROVE ConfigInv'
  OBVIOUS
<1>1. CASE Start
  BY <1>1, LoadTyped
     DEF Start, ConfigStart, ConfigInv, ConfigTypeOK, SavedSurvives
<1>2. CASE Stop
  BY <1>2, ConfigAssumption
     DEF Stop, ConfigStop, ConfigInv, ConfigTypeOK, SavedSurvives
<1>3. CASE ConfigCall
  BY <1>3, RequestInv DEF ConfigCall, hostVars
<1>4. CASE ConfigWork
  BY <1>4, SaveInv DEF ConfigWork, hostVars
<1>5. CASE /\ UNCHANGED <<configVars, up, mqttConfig>>
  BY <1>5 DEF configVars, ConfigInv, ConfigTypeOK, SavedSurvives
<1> QED
  BY <1>1, <1>2, <1>3, <1>4, <1>5
     DEF Next, vars, hostVars, StartupCheck, Release, UpdaterWork, UpdaterCall, ClientLeaves

\* A configuration saved with success outlives loads, resets, failed saves and
\* stops of the host, until a later save starts to write.
THEOREM SavedConfigurationSurvives == Spec => []SavedSurvives
<1>1. ConfigInv => SavedSurvives
  BY DEF ConfigInv
<1> QED
  BY <1>1, ConfigInvInit, ConfigInvStep, PTL DEF Spec

\* A start takes up what was saved last, or the defaults when there is nothing to
\* take up or it is missed.
THEOREM EveryStartUsesSaved == Spec => StartUsesSaved
<1> DEFINE A == ~up /\ up' =>
                  /\ memory' = IF missed' \/ cut \/ saved = Absent THEN Default ELSE saved
                  /\ mqttConfig' = memory'
<1>1. ConfigInv /\ [Next]_vars => [A]_vars
  <2> SUFFICES ASSUME ConfigInv, Next, ~up, up'
               PROVE  /\ memory' = IF missed' \/ cut \/ saved = Absent THEN Default ELSE saved
                      /\ mqttConfig' = memory'
    BY DEF vars
  <2>1. Start
    BY DEF Next, hostVars, StartupCheck, Stop, ConfigCall, ConfigWork, Release,
           UpdaterWork, UpdaterCall, ClientLeaves
  <2>2. Load /\ mqttConfig' = memory' /\ memory = Default
    BY <2>1 DEF Start, ConfigStart, ConfigInv
  <2>3. CASE disk \in Values /\ memory' = disk /\ missed' = FALSE
    <3>1. ~cut /\ disk = saved /\ saved # Absent
      BY <2>3, ConfigAssumption DEF ConfigInv, SavedSurvives
    <3> QED
      BY <2>2, <2>3, <3>1
  <2>4. CASE memory' = Default /\ missed' = (disk # Absent)
    <3>1. CASE disk = Absent
      <4>1. saved = Absent
        BY <3>1, ConfigAssumption DEF ConfigInv, SavedSurvives
      <4> QED
        BY <2>2, <2>4, <4>1
    <3>2. CASE disk # Absent
      BY <2>2, <2>4, <3>2
    <3> QED
      BY <3>1, <3>2
  <2>5. CASE disk # Absent /\ memory' = memory /\ missed' = TRUE
    BY <2>2, <2>5
  <2> QED
    BY <2>2, <2>3, <2>4, <2>5 DEF Load
<1> QED
  BY <1>1, ConfigInvInit, ConfigInvStep, PTL DEF Spec, StartUsesSaved

-----------------------------------------------------------------------------
(* The updater.                                                            *)

Result == [kind : Kinds, version : Versions \cup {NoVersion}]
Task == [pc : Steps, result : Result]

Pending == {"Checking", "Downloading"}

\* What a task carries is a result; an update it has found is newer than the
\* program that runs, and one it installs is greater.
Carries(t) ==
  /\ task[t].pc = "report" => task[t].result.kind \in {"Error", "Available", "UpToDate"}
  /\ task[t].pc = "report" /\ task[t].result.kind = "Available"
       => task[t].result.version \in Versions /\ IsNewer(task[t].result.version, running)
  /\ task[t].pc = "replace"
       => /\ task[t].result.kind = "Ready" /\ task[t].result.version \in Versions
          /\ SemverGreater(task[t].result.version, running)
  /\ task[t].pc = "finish" => task[t].result.kind \in {"Error", "Ready"}
  /\ t \in gone => task[t].pc \in {"download", "replace", "finish"}

\* The status speaks of a task whose handler is still there.
StatusInv ==
  /\ status.kind \in Pending => left \/ \E t \in Tasks : t \notin gone /\ task[t].pc # "idle"
  /\ status.kind = "Available" => status.version \in Versions /\ IsNewer(status.version, running)

Stopped == ~up => status = NoResult /\ \A t \in Tasks : task[t] = Idle

UpdaterInv ==
  /\ UpdaterTypeOK
  /\ \A t \in Tasks : Carries(t)
  /\ StatusInv
  /\ Stopped
  /\ NeverDowngrades

LEMMA IdleTyped ==
  /\ Idle \in Task /\ Idle.pc = "idle"
  /\ NoResult \in Result /\ NoResult.kind = "Idle"
BY DEF Idle, Step, NoResult, Status, Task, Result, Kinds, Steps

LEMMA UpdaterInvInit == Init => UpdaterInv
<1> SUFFICES ASSUME Init PROVE UpdaterInv
  OBVIOUS
<1>1. UpdaterTypeOK
  BY IdleTyped, UpdaterAssumption DEF Init, UpdaterInit, UpdaterTypeOK, Result, Task, NoResult
<1>2. ASSUME NEW t \in Tasks PROVE Carries(t)
  BY IdleTyped DEF Init, UpdaterInit, Carries
<1>3. StatusInv
  BY IdleTyped DEF Init, UpdaterInit, StatusInv, NoResult, Pending
<1>4. Stopped /\ NeverDowngrades
  BY DEF Init, UpdaterInit, Stopped, NeverDowngrades, NoResult
<1> QED
  BY <1>1, <1>2, <1>3, <1>4 DEF UpdaterInv

\* A step of one task, of which only its own part has to be looked at.
LEMMA TaskStep ==
  ASSUME UpdaterInv, up, up' = up, NEW t \in Tasks,
         running' = running, installed' \in Versions, latest' = latest, NeverDowngrades',
         NEW next \in Task, task' = [task EXCEPT ![t] = next],
         status' \in Result, left' \in BOOLEAN, gone' \subseteq Tasks,
         \A o \in Tasks \ {t} : o \in gone' <=> o \in gone,
         Carries(t)', StatusInv'
  PROVE  UpdaterInv'
<1>1. task \in [Tasks -> Task]
  BY DEF UpdaterInv, UpdaterTypeOK, Task, Result
<1>2. task' \in [Tasks -> Task]
  BY <1>1
<1>3. UpdaterTypeOK'
  BY <1>2 DEF UpdaterInv, UpdaterTypeOK, Task, Result
<1>4. ASSUME NEW o \in Tasks PROVE Carries(o)'
  <2>1. CASE o = t
    BY <2>1
  <2>2. CASE o # t
    <3>1. task'[o] = task[o] /\ (o \in gone' <=> o \in gone)
      BY <1>1, <2>2
    <3> QED
      BY <3>1 DEF UpdaterInv, Carries
  <2> QED
    BY <2>1, <2>2
<1>5. Stopped'
  BY DEF Stopped
<1> QED
  BY <1>3, <1>4, <1>5 DEF UpdaterInv

LEMMA TaskTyped ==
  ASSUME UpdaterInv, NEW t \in Tasks
  PROVE  /\ task \in [Tasks -> Task] /\ task[t] \in Task /\ task[t].result \in Result
         /\ status \in Result /\ running \in Versions /\ installed \in Versions
         /\ left \in BOOLEAN /\ gone \subseteq Tasks /\ NeverDowngrades
BY DEF UpdaterInv, UpdaterTypeOK, Task, Result

LEMMA StepTyped ==
  ASSUME NEW pc \in Steps, NEW result \in Result
  PROVE  Step(pc, result) \in Task /\ Step(pc, result).pc = pc /\ Step(pc, result).result = result
BY DEF Step, Task

LEMMA StatusTyped ==
  ASSUME NEW kind \in Kinds, NEW version \in Versions \cup {NoVersion}
  PROVE  /\ Status(kind, version) \in Result
         /\ Status(kind, version).kind = kind /\ Status(kind, version).version = version
BY DEF Status, Result

LEMMA BeginCheckInv ==
  ASSUME UpdaterInv, up, up' = up, NEW t \in Tasks, BeginCheck(t)
  PROVE  UpdaterInv'
<1> DEFINE n == Step("fetch", NoResult)
<1>1. n \in Task /\ n.pc = "fetch" /\ n.result = NoResult
  BY StepTyped, IdleTyped DEF Steps
<1>2. task' = [task EXCEPT ![t] = n] /\ task[t].pc = "idle"
  BY DEF BeginCheck, Move
<1>3. task'[t] = n
  BY <1>2, TaskTyped
<1>4. t \notin gone
  BY <1>2 DEF UpdaterInv, Carries
<1>5. status' \in Result /\ status'.kind = "Checking"
  BY StatusTyped DEF BeginCheck, Kinds
<1>6. StatusInv'
  BY <1>1, <1>3, <1>4, <1>5 DEF StatusInv, BeginCheck
<1>7. Carries(t)'
  BY <1>1, <1>3, <1>4 DEF Carries, BeginCheck
<1>8. NeverDowngrades'
  BY TaskTyped DEF NeverDowngrades, BeginCheck
<1>9. UNCHANGED <<running, installed, latest, gone, left>>
  BY DEF BeginCheck
<1> HIDE DEF n
<1> QED
  BY <1>1, <1>2, <1>5, <1>6, <1>7, <1>8, <1>9, TaskTyped, TaskStep

LEMMA FoundTyped ==
  ASSUME UpdaterTypeOK, NEW found \in Found
  PROVE  /\ found \in Result /\ found.kind \in {"Error", "Available", "UpToDate"}
         /\ found.kind = "Available" => found.version \in Versions /\ IsNewer(found.version, running)
<1>1. CASE found = Status("Error", NoVersion)
  BY <1>1, StatusTyped DEF Kinds
<1>2. CASE found = Status("UpToDate", NoVersion)
  BY <1>2, StatusTyped DEF Kinds
<1>3. CASE latest # NoVersion /\ IsNewer(latest, running) /\ found = Status("Available", latest)
  BY <1>3, StatusTyped DEF Kinds, UpdaterTypeOK
<1> QED
  BY <1>1, <1>2, <1>3 DEF Found

LEMMA FetchInv ==
  ASSUME UpdaterInv, up, up' = up, NEW t \in Tasks, Fetch(t)
  PROVE  UpdaterInv'
<1> PICK found \in Found :
      /\ Move(t, "fetch", Step("report", found))
      /\ UNCHANGED <<status, running, installed, latest, gone, left>>
  BY DEF Fetch
<1> DEFINE n == Step("report", found)
<1>0. /\ found \in Result /\ found.kind \in {"Error", "Available", "UpToDate"}
      /\ found.kind = "Available" => found.version \in Versions /\ IsNewer(found.version, running)
  BY FoundTyped DEF UpdaterInv
<1>1. n \in Task /\ n.pc = "report" /\ n.result = found
  BY <1>0, StepTyped DEF Steps
<1>2. task' = [task EXCEPT ![t] = n] /\ task[t].pc = "fetch"
  BY DEF Move
<1>3. task'[t] = n
  BY <1>2, TaskTyped
<1>4. t \notin gone
  BY <1>2 DEF UpdaterInv, Carries
<1>6. StatusInv'
  <2>1. \A o \in Tasks : o # t => task'[o] = task[o]
    BY <1>2, TaskTyped
  <2> QED
    BY <1>1, <1>3, <1>4, <2>1 DEF StatusInv, UpdaterInv
<1>7. Carries(t)'
  BY <1>0, <1>1, <1>3, <1>4 DEF Carries
<1>8. NeverDowngrades'
  BY TaskTyped DEF NeverDowngrades
<1> HIDE DEF n
<1> QED
  BY <1>1, <1>2, <1>6, <1>7, <1>8, TaskTyped, TaskStep

\* The end of a check: the status becomes what the task carries.
LEMMA ReportInv ==
  ASSUME UpdaterInv, up, up' = up, NEW t \in Tasks, Report(t)
  PROVE  UpdaterInv'
<1>1. task' = [task EXCEPT ![t] = Idle] /\ task[t].pc = "report"
  BY DEF Report, Move
<1>2. task'[t] = Idle /\ t \notin gone
  BY <1>1, TaskTyped DEF UpdaterInv, Carries
<1>3. status' = task[t].result /\ UNCHANGED <<running, installed, latest, gone>> /\ left' \in BOOLEAN
  BY DEF Report
<1>4. StatusInv'
  BY <1>1, <1>3 DEF StatusInv, UpdaterInv, Carries, Pending
<1>5. Carries(t)'
  BY <1>2, <1>3, IdleTyped DEF Carries
<1>6. NeverDowngrades'
  BY <1>3, TaskTyped DEF NeverDowngrades
<1> QED
  BY <1>1, <1>3, <1>4, <1>5, <1>6, IdleTyped, TaskTyped, TaskStep

LEMMA BeginApplyInv ==
  ASSUME UpdaterInv, up, up' = up, NEW t \in Tasks, BeginApply(t)
  PROVE  UpdaterInv'
<1> DEFINE n == Step("mark", NoResult)
<1>1. n \in Task /\ n.pc = "mark" /\ n.result = NoResult
  BY StepTyped, IdleTyped DEF Steps
<1>2. task' = [task EXCEPT ![t] = n] /\ task[t].pc = "idle"
  BY DEF BeginApply, Move
<1>3. task'[t] = n /\ t \notin gone
  BY <1>2, TaskTyped DEF UpdaterInv, Carries
<1>4. UNCHANGED <<status, running, installed, latest, gone, left>> /\ status.kind = "Available"
  BY DEF BeginApply
<1>5. StatusInv'
  BY <1>4 DEF StatusInv, UpdaterInv, Pending
<1>6. Carries(t)'
  BY <1>1, <1>3, <1>4 DEF Carries
<1>7. NeverDowngrades'
  BY <1>4, TaskTyped DEF NeverDowngrades
<1> HIDE DEF n
<1> QED
  BY <1>1, <1>2, <1>4, <1>5, <1>6, <1>7, TaskTyped, TaskStep

LEMMA MarkInv ==
  ASSUME UpdaterInv, up, up' = up, NEW t \in Tasks, Mark(t)
  PROVE  UpdaterInv'
<1> DEFINE n == Step("download", NoResult)
<1>1. n \in Task /\ n.pc = "download" /\ n.result = NoResult
  BY StepTyped, IdleTyped DEF Steps
<1>2. task' = [task EXCEPT ![t] = n] /\ task[t].pc = "mark"
  BY DEF Mark, Move
<1>3. task'[t] = n /\ t \notin gone
  BY <1>2, TaskTyped DEF UpdaterInv, Carries
<1>4. UNCHANGED <<running, installed, latest, gone, left>>
  BY DEF Mark
<1>5. status' \in Result /\ status'.kind = "Downloading"
  BY StatusTyped DEF Mark, Kinds
<1>6. StatusInv'
  BY <1>1, <1>3, <1>4, <1>5 DEF StatusInv
<1>7. Carries(t)'
  BY <1>1, <1>3, <1>4 DEF Carries
<1>8. NeverDowngrades'
  BY <1>4, TaskTyped DEF NeverDowngrades
<1> HIDE DEF n
<1> QED
  BY <1>1, <1>2, <1>4, <1>5, <1>6, <1>7, <1>8, TaskTyped, TaskStep

\* A step that moves a task on, keeps its handler where it is, and writes no
\* status: the tasks that keep the status pending are the same.
LEMMA MoveInv ==
  ASSUME UpdaterInv, up, up' = up, NEW t \in Tasks, NEW n \in Task,
         task[t].pc # "idle", n.pc # "idle", task' = [task EXCEPT ![t] = n],
         UNCHANGED <<status, running, latest, gone, left>>,
         installed' \in Versions, NeverDowngrades', Carries(t)'
  PROVE  UpdaterInv'
<1>1. task'[t] = n /\ \A o \in Tasks : o # t => task'[o] = task[o]
  BY TaskTyped
<1>2. StatusInv'
  BY <1>1 DEF StatusInv, UpdaterInv
<1> QED
  BY <1>2, TaskTyped, TaskStep

LEMMA DownloadInv ==
  ASSUME UpdaterInv, up, up' = up, NEW t \in Tasks, Download(t)
  PROVE  UpdaterInv'
<1>0. UNCHANGED <<status, running, installed, latest, gone, left>> /\ task[t].pc = "download"
  BY DEF Download, Move
<1>1. NeverDowngrades' /\ installed' \in Versions
  BY <1>0, TaskTyped DEF NeverDowngrades
<1>2. CASE Move(t, "download", Step("finish", Status("Error", NoVersion)))
  <2> DEFINE n == Step("finish", Status("Error", NoVersion))
  <2>1. n \in Task /\ n.pc = "finish" /\ n.result.kind = "Error"
    BY StepTyped, StatusTyped DEF Steps, Kinds
  <2>2. task' = [task EXCEPT ![t] = n]
    BY <1>2 DEF Move
  <2>3. task'[t] = n
    BY <2>2, TaskTyped
  <2>4. Carries(t)'
    BY <1>0, <2>1, <2>3 DEF Carries
  <2> HIDE DEF n
  <2> QED
    BY <1>0, <1>1, <2>1, <2>2, <2>4, MoveInv
<1>3. CASE Move(t, "download", Step("finish", Status("Ready", running)))
  <2> DEFINE n == Step("finish", Status("Ready", running))
  <2>1. n \in Task /\ n.pc = "finish" /\ n.result.kind = "Ready"
    BY StepTyped, StatusTyped, TaskTyped DEF Steps, Kinds
  <2>2. task' = [task EXCEPT ![t] = n]
    BY <1>3 DEF Move
  <2>3. task'[t] = n
    BY <2>2, TaskTyped
  <2>4. Carries(t)'
    BY <1>0, <2>1, <2>3 DEF Carries
  <2> HIDE DEF n
  <2> QED
    BY <1>0, <1>1, <2>1, <2>2, <2>4, MoveInv
<1>4. CASE /\ latest # NoVersion /\ SemverGreater(latest, running)
           /\ Move(t, "download", Step("replace", Status("Ready", latest)))
  <2> DEFINE n == Step("replace", Status("Ready", latest))
  <2>0. latest \in Versions
    BY <1>4 DEF UpdaterInv, UpdaterTypeOK
  <2>1. n \in Task /\ n.pc = "replace" /\ n.result.kind = "Ready" /\ n.result.version = latest
    BY <2>0, StepTyped, StatusTyped DEF Steps, Kinds
  <2>2. task' = [task EXCEPT ![t] = n]
    BY <1>4 DEF Move
  <2>3. task'[t] = n
    BY <2>2, TaskTyped
  <2>4. Carries(t)'
    BY <1>0, <1>4, <2>0, <2>1, <2>3 DEF Carries
  <2> HIDE DEF n
  <2> QED
    BY <1>0, <1>1, <2>1, <2>2, <2>4, MoveInv
<1> QED
  BY <1>2, <1>3, <1>4 DEF Download

LEMMA ReplaceInv ==
  ASSUME UpdaterInv, up, up' = up, NEW t \in Tasks, Replace(t)
  PROVE  UpdaterInv'
<1> DEFINE n == Step("finish", task[t].result)
<1>0. task[t].pc = "replace" /\ task' = [task EXCEPT ![t] = n]
  BY DEF Replace, Move
<1>1. /\ task[t].result.kind = "Ready" /\ task[t].result.version \in Versions
      /\ SemverGreater(task[t].result.version, running)
  BY <1>0 DEF UpdaterInv, Carries
<1>2. UNCHANGED <<status, running, latest, gone, left>> /\ installed' = task[t].result.version
  BY DEF Replace
<1>3. n \in Task /\ n.pc = "finish" /\ n.result = task[t].result
  BY StepTyped, TaskTyped DEF Steps
<1>4. task'[t] = n
  BY <1>0, TaskTyped
<1>5. Carries(t)'
  BY <1>1, <1>2, <1>3, <1>4 DEF Carries
<1>6. NeverDowngrades' /\ installed' \in Versions
  BY <1>1, <1>2 DEF NeverDowngrades
<1> HIDE DEF n
<1> QED
  BY <1>0, <1>2, <1>3, <1>5, <1>6, MoveInv

\* The end of an application.  Without its handler it leaves the status to the
\* others, whose handlers are still there.
LEMMA FinishInv ==
  ASSUME UpdaterInv, up, up' = up, NEW t \in Tasks, Finish(t)
  PROVE  UpdaterInv'
<1>1. task' = [task EXCEPT ![t] = Idle] /\ task[t].pc = "finish" /\ gone' = gone \ {t}
  BY DEF Finish, Move
<1>2. task'[t] = Idle /\ \A o \in Tasks : o # t => task'[o] = task[o]
  BY <1>1, TaskTyped
<1>3. UNCHANGED <<running, installed, latest>>
  BY DEF Finish
<1>4. /\ t \in gone => status' = status /\ left' = left
      /\ t \notin gone => status' = task[t].result /\ left' = FALSE
  BY DEF Finish
<1>5. status' \in Result /\ left' \in BOOLEAN
  BY <1>4, TaskTyped
<1>6. StatusInv'
  <2>1. CASE t \in gone
    BY <1>1, <1>2, <1>3, <1>4, <2>1 DEF StatusInv, UpdaterInv
  <2>2. CASE t \notin gone
    BY <1>1, <1>3, <1>4, <2>2 DEF StatusInv, UpdaterInv, Carries, Pending
  <2> QED
    BY <2>1, <2>2
<1>7. Carries(t)'
  BY <1>1, <1>2, IdleTyped DEF Carries
<1>8. NeverDowngrades' /\ installed' \in Versions
  BY <1>3, TaskTyped DEF NeverDowngrades
<1> QED
  BY <1>1, <1>3, <1>5, <1>6, <1>7, <1>8, IdleTyped, TaskTyped, TaskStep

LEMMA AbandonInv ==
  ASSUME UpdaterInv, up, up' = up, NEW t \in Tasks, Abandon(t)
  PROVE  UpdaterInv'
<1>0. UNCHANGED <<status, running, installed, latest>> /\ left' = TRUE
  BY DEF Abandon
<1>1. StatusInv'
  BY <1>0 DEF StatusInv, UpdaterInv
<1>2. NeverDowngrades' /\ installed' \in Versions
  BY <1>0, TaskTyped DEF NeverDowngrades
<1>3. CASE /\ task[t].pc \in {"download", "replace", "finish"}
           /\ gone' = gone \cup {t} /\ task' = task
  <2>1. task' = [task EXCEPT ![t] = task[t]]
    BY <1>3, TaskTyped
  <2>2. Carries(t)'
    BY <1>0, <1>3 DEF Carries, UpdaterInv
  <2> QED
    BY <1>0, <1>1, <1>2, <1>3, <2>1, <2>2, TaskTyped, TaskStep
<1>4. CASE /\ task[t].pc \notin {"download", "replace", "finish"}
           /\ gone' = gone /\ task' = [task EXCEPT ![t] = Idle]
  <2>1. task'[t] = Idle /\ t \notin gone
    BY <1>4, TaskTyped DEF UpdaterInv, Carries
  <2>2. Carries(t)'
    BY <1>4, <2>1, IdleTyped DEF Carries
  <2> QED
    BY <1>0, <1>1, <1>2, <1>4, <2>2, IdleTyped, TaskTyped, TaskStep
<1> QED
  BY <1>3, <1>4 DEF Abandon

\* Steps that leave the updater alone, but for the list of releases.
LEMMA ApartInv ==
  ASSUME UpdaterInv, UNCHANGED <<status, running, installed, task, gone, left>>,
         latest' \in Versions \cup {NoVersion}, up' = up
  PROVE  UpdaterInv'
BY DEF UpdaterInv, UpdaterTypeOK, Carries, StatusInv, Stopped, NeverDowngrades

LEMMA UpdaterStartInv ==
  ASSUME UpdaterInv, Start
  PROVE  UpdaterInv'
<1>1. /\ running' = installed /\ UNCHANGED <<status, installed, latest, task, gone, left>>
      /\ up' = TRUE /\ status = NoResult /\ \A t \in Tasks : task[t] = Idle
  BY DEF Start, UpdaterStart, UpdaterInv, Stopped
<1>2. UpdaterTypeOK'
  BY <1>1 DEF UpdaterInv, UpdaterTypeOK
<1>3. ASSUME NEW t \in Tasks PROVE Carries(t)'
  BY <1>1, IdleTyped DEF Carries, UpdaterInv
<1>4. StatusInv' /\ Stopped' /\ NeverDowngrades'
  BY <1>1, IdleTyped DEF StatusInv, Stopped, NeverDowngrades, Pending
<1> QED
  BY <1>2, <1>3, <1>4 DEF UpdaterInv

LEMMA UpdaterStopInv ==
  ASSUME UpdaterInv, Stop
  PROVE  UpdaterInv'
<1>1. /\ status' = NoResult /\ task' = [t \in Tasks |-> Idle] /\ gone' = {} /\ left' = FALSE
      /\ UNCHANGED <<running, installed, latest>>
  BY DEF Stop, UpdaterStop
<1>2. UpdaterTypeOK'
  BY <1>1, IdleTyped DEF UpdaterInv, UpdaterTypeOK, Task, Result
<1>3. ASSUME NEW t \in Tasks PROVE Carries(t)'
  BY <1>1, IdleTyped DEF Carries
<1>4. StatusInv' /\ Stopped' /\ NeverDowngrades'
  BY <1>1, IdleTyped DEF StatusInv, Stopped, NeverDowngrades, Pending, UpdaterInv
<1> QED
  BY <1>2, <1>3, <1>4 DEF UpdaterInv

LEMMA UpdaterInvStep == UpdaterInv /\ [Next]_vars => UpdaterInv'
<1> SUFFICES ASSUME UpdaterInv, [Next]_vars PROVE UpdaterInv'
  OBVIOUS
<1>1. CASE UNCHANGED vars
  BY <1>1, ApartInv DEF vars, updaterVars, hostVars, UpdaterInv, UpdaterTypeOK
<1>2. CASE Start
  BY <1>2, UpdaterStartInv
<1>3. CASE Stop
  BY <1>3, UpdaterStopInv
<1>4. CASE StartupCheck
  BY <1>4, BeginCheckInv, LifecycleAssumption DEF StartupCheck
<1>5. CASE ConfigCall \/ ConfigWork
  BY <1>5, ApartInv DEF ConfigCall, ConfigWork, updaterVars, hostVars, UpdaterInv, UpdaterTypeOK
<1>6. CASE Release
  BY <1>6, ApartInv DEF Release, Publish, hostVars
<1>7. ASSUME NEW t \in Tasks, UpdaterWork(t) PROVE UpdaterInv'
  BY <1>7, FetchInv, ReportInv, MarkInv, DownloadInv, ReplaceInv, FinishInv
     DEF UpdaterWork, UpdaterStep, hostVars
<1>8. ASSUME NEW t \in Tasks, UpdaterCall(t) \/ ClientLeaves(t) PROVE UpdaterInv'
  BY <1>8, BeginCheckInv, BeginApplyInv, AbandonInv DEF UpdaterCall, ClientLeaves, hostVars
<1> QED
  BY <1>1, <1>2, <1>3, <1>4, <1>5, <1>6, <1>7, <1>8 DEF Next

-----------------------------------------------------------------------------
(* What follows.                                                           *)

\* The status never stays "Checking" or "Downloading" when the last task is
\* over, unless a client left.
THEOREM UpdateStatusSettles == Spec => []StatusSettles
<1>1. UpdaterInv => StatusSettles
  BY DEF UpdaterInv, StatusInv, StatusSettles, Pending
<1> QED
  BY <1>1, UpdaterInvInit, UpdaterInvStep, PTL DEF Spec

\* Of two plain versions, is_newer finds the semantically greater one.
LEMMA IsNewerIsGreater ==
  ASSUME NEW a \in Versions, NEW b \in Versions, a.pre = <<>>, b.pre = <<>>, IsNewer(a, b)
  PROVE  SemverGreater(a, b)
<1>1. /\ a.core \in Seq(Nat) /\ b.core \in Seq(Nat) /\ Len(a.core) = 3 /\ Len(b.core) = 3
  BY UpdaterAssumption
<1>2. Numbers(a) = a.core /\ Numbers(b) = b.core
  BY DEF Numbers
<1>3. Differing(a.core, b.core) # {} /\ a.core[Least(Differing(a.core, b.core))] > b.core[Least(Differing(a.core, b.core))]
  BY <1>1, <1>2 DEF IsNewer
<1>4. a.core # b.core
  BY <1>3 DEF Differing
<1> QED
  BY <1>3, <1>4 DEF SemverGreater

\* An update on offer is newer than the program that runs.
THEOREM OffersAreNewer == Spec => []OfferIsNewer
<1>1. UpdaterInv => OfferIsNewer
  BY IsNewerIsGreater DEF UpdaterInv, UpdaterTypeOK, StatusInv, OfferIsNewer
<1> QED
  BY <1>1, UpdaterInvInit, UpdaterInvStep, PTL DEF Spec

\* The program on disk is never older than the one that runs.
THEOREM NoDowngrade == Spec => []NeverDowngrades
<1>1. UpdaterInv => NeverDowngrades
  BY DEF UpdaterInv
<1> QED
  BY <1>1, UpdaterInvInit, UpdaterInvStep, PTL DEF Spec

\* Types of the whole host.
THEOREM HostTypes == Spec => []TypeOK
<1> DEFINE Flags == up \in BOOLEAN /\ checkDue \in BOOLEAN
           Counters == requests \in Nat /\ stops \in Nat /\ releases \in Nat
<1>1. Init => Flags /\ Counters
  <2>1. Init => Flags
    BY Zenon DEF Init
  <2>2. Init => Counters
    BY DEF Init
  <2> QED
    BY <2>1, <2>2
<1>2. Flags /\ Counters /\ [Next]_vars => Flags' /\ Counters'
  <2> SUFFICES ASSUME Flags, Counters, [Next]_vars PROVE Flags' /\ Counters'
    OBVIOUS
  <2>1. CASE UNCHANGED vars
    BY <2>1 DEF vars, hostVars
  <2>2. CASE Start
    BY <2>2 DEF Start
  <2>3. CASE StartupCheck
    BY <2>3 DEF StartupCheck
  <2>4. CASE Stop
    <3>1. Flags'
      BY <2>4, Zenon DEF Stop
    <3>2. Counters'
      BY <2>4, stops + 1 \in Nat DEF Stop
    <3> QED
      BY <3>1, <3>2
  <2>5. CASE ConfigCall \/ ConfigWork \/ Release
    BY <2>5 DEF ConfigCall, ConfigWork, Release, hostVars
  <2>6. ASSUME NEW t \in Tasks, UpdaterWork(t) \/ UpdaterCall(t) \/ ClientLeaves(t)
        PROVE  Flags' /\ Counters'
    BY <2>6 DEF UpdaterWork, UpdaterCall, ClientLeaves, hostVars
  <2> QED
    BY <2>1, <2>2, <2>3, <2>4, <2>5, <2>6 DEF Next
<1>3. ConfigInv /\ UpdaterInv /\ Flags /\ Counters => TypeOK
  BY DEF ConfigInv, UpdaterInv, TypeOK
<1> QED
  BY <1>1, <1>2, <1>3, ConfigInvInit, ConfigInvStep, UpdaterInvInit, UpdaterInvStep, PTL DEF Spec
=============================================================================
