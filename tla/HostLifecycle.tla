---------------------------- MODULE HostLifecycle ----------------------------
(***************************************************************************)
(* The host process from start to start (app/builder.rs): it loads its     *)
(* configuration and hands the MQTT part to the channel, checks for an     *)
(* update once, serves configuration and update requests, and stops at any *)
(* moment, in the middle of whatever it does.  What survives is the        *)
(* configuration file and the program on disk.                             *)
(***************************************************************************)
EXTENDS ConfigStore, Updater

CONSTANTS
  StartupTask,  \* the task that checks after start-up
  MaxRequests,  \* bound: requests of one behaviour
  MaxStops,     \* bound: stops of the host
  MaxReleases   \* bound: changes of the list of releases

ASSUME LifecycleAssumption ==
  /\ StartupTask \in Tasks
  /\ MaxRequests \in Nat /\ MaxStops \in Nat /\ MaxReleases \in Nat

VARIABLES
  up,           \* the host runs
  checkDue,     \* the check after start-up has not begun
  mqttConfig,   \* the configuration the MQTT channel was made with
  requests, stops, releases   \* counters of the bounds

hostVars == <<up, checkDue, mqttConfig>>
vars == <<configVars, updaterVars, hostVars, requests, stops, releases>>

Init ==
  /\ ConfigInit
  /\ UpdaterInit
  /\ up = FALSE
  /\ checkDue = FALSE
  /\ mqttConfig = Default
  /\ requests = 0 /\ stops = 0 /\ releases = 0

\* Mutant of Start: the channel is made before the configuration is loaded.
StartMqttFirst ==
  /\ ~up
  /\ up' = TRUE
  /\ ConfigStart
  /\ mqttConfig' = Default
  /\ UpdaterStart
  /\ checkDue' = TRUE
  /\ UNCHANGED <<requests, stops, releases>>

\* build_and_run, up to serving requests.
Start ==
  /\ ~up
  /\ up' = TRUE
  /\ ConfigStart
  /\ mqttConfig' = memory'
  /\ UpdaterStart
  /\ checkDue' = TRUE
  /\ UNCHANGED <<requests, stops, releases>>

\* The check seconds after start-up, in a task nobody can abandon.
StartupCheck ==
  /\ up
  /\ checkDue
  /\ checkDue' = FALSE
  /\ BeginCheck(StartupTask)
  /\ UNCHANGED <<configVars, up, mqttConfig, requests, stops, releases>>

\* The process ends or is killed.
Stop ==
  /\ up
  /\ stops < MaxStops
  /\ stops' = stops + 1
  /\ up' = FALSE
  /\ ConfigStop
  /\ UpdaterStop
  /\ UNCHANGED <<checkDue, mqttConfig, requests, releases>>

ConfigCall ==
  /\ up
  /\ requests < MaxRequests
  /\ requests' = requests + 1
  /\ ConfigRequest
  /\ UNCHANGED <<updaterVars, hostVars, stops, releases>>

ConfigWork ==
  /\ up
  /\ SaveStep
  /\ UNCHANGED <<updaterVars, hostVars, requests, stops, releases>>

UpdaterCall(t) ==
  /\ up
  /\ requests < MaxRequests
  /\ requests' = requests + 1
  /\ BeginCheck(t) \/ BeginApply(t)
  /\ UNCHANGED <<configVars, hostVars, stops, releases>>

UpdaterWork(t) ==
  /\ up
  /\ UpdaterStep(t)
  /\ UNCHANGED <<configVars, hostVars, requests, stops, releases>>

ClientLeaves(t) ==
  /\ up
  /\ Abandon(t)
  /\ UNCHANGED <<configVars, hostVars, requests, stops, releases>>

Release ==
  /\ releases < MaxReleases
  /\ releases' = releases + 1
  /\ \E v \in Versions \cup {NoVersion} : Publish(v)
  /\ UNCHANGED <<configVars, hostVars, requests, stops>>

Next ==
  \/ Start
  \/ StartupCheck
  \/ Stop
  \/ ConfigCall
  \/ ConfigWork
  \/ Release
  \/ \E t \in Tasks : UpdaterWork(t)
  \/ \E t \in Tasks \ {StartupTask} : UpdaterCall(t) \/ ClientLeaves(t)

Spec == Init /\ [][Next]_vars

-----------------------------------------------------------------------------
(* Properties.                                                             *)

\* Types of the host.
TypeOK ==
  /\ ConfigTypeOK
  /\ UpdaterTypeOK
  /\ up \in BOOLEAN /\ checkDue \in BOOLEAN
  /\ mqttConfig \in Values
  /\ requests \in Nat /\ stops \in Nat /\ releases \in Nat

\* A start that can see and read the file takes up the configuration last saved
\* with success and makes the MQTT channel with it, whatever was loaded, reset or
\* refused before.  It runs on the defaults, and makes the channel with them, when
\* nothing was saved, when a later save was cut short, and when it misses a file
\* that is whole, of which it only warns; never on anything else.
StartUsesSaved ==
  [][~up /\ up' =>
       /\ memory' = IF missed' \/ cut \/ saved = Absent THEN Default ELSE saved
       /\ mqttConfig' = memory']_vars
=============================================================================
