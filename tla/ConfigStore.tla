----------------------------- MODULE ConfigStore -----------------------------
(***************************************************************************)
(* The configuration of the host (storage/config.rs, config_service.rs)    *)
(* and its file.  Every request holds the manager's mutex to its end, so   *)
(* requests do not interleave; but saving changes the memory, creates the  *)
(* directory, empties the file and writes it, and each of these can fail   *)
(* or be cut short when the host stops.  Loading can fail as well, also of *)
(* a file that is whole.                                                   *)
(*                                                                         *)
(* An AppConfig is a value; a file that was emptied and not written to the *)
(* end does not parse (no field of AppConfig has a default).               *)
(***************************************************************************)
EXTENDS Naturals

CONSTANTS
  Values,       \* configurations a request may carry
  Default,      \* AppConfig::default()
  Absent,       \* there is no file
  Torn          \* the file does not hold a whole configuration

ASSUME ConfigAssumption ==
  /\ Default \in Values
  /\ Absent \notin Values /\ Torn \notin Values /\ Absent # Torn

VARIABLES
  memory,       \* config of the ConfigManager
  disk,         \* the file
  saving,       \* step of the save that holds the mutex: "no", "prepare", "write"
  saved,        \* history: what the last save answered with success wrote
  cut,          \* history: a later save was cut short or failed while it wrote
  missed        \* history: the last load did not see or could not read the file there is

configVars == <<memory, disk, saving, saved, cut, missed>>

ConfigInit ==
  /\ memory = Default
  /\ disk = Absent
  /\ saving = "no"
  /\ saved = Absent
  /\ cut = FALSE /\ missed = FALSE

\* PUT config: the memory is replaced first.
SaveConfig(value) ==
  /\ saving = "no"
  /\ memory' = value
  /\ saving' = "prepare"
  /\ UNCHANGED <<disk, saved, cut, missed>>

\* The directory cannot be created: the error is answered, the memory stays.
PrepareFails ==
  /\ saving = "prepare"
  /\ saving' = "no"
  /\ UNCHANGED <<memory, disk, saved, cut, missed>>

\* fs::write empties the file ...
BeginWrite ==
  /\ saving = "prepare"
  /\ saving' = "write"
  /\ disk' = Torn
  /\ cut' = TRUE
  /\ UNCHANGED <<memory, saved, missed>>

\* ... and writes the whole content, or fails on the way.
EndWrite ==
  /\ saving = "write"
  /\ saving' = "no"
  /\ disk' = memory
  /\ saved' = memory
  /\ cut' = FALSE
  /\ UNCHANGED <<memory, missed>>

WriteFails ==
  /\ saving = "write"
  /\ saving' = "no"
  /\ UNCHANGED <<memory, disk, saved, cut, missed>>

\* load.  exists() is false of a file that cannot be looked at, too, and gives the
\* defaults; a file that cannot be read or does not parse leaves the memory alone.
Load ==
  \/ /\ disk \in Values
     /\ memory' = disk /\ missed' = FALSE
  \/ /\ memory' = Default /\ missed' = (disk # Absent)
  \/ /\ disk # Absent
     /\ memory' = memory /\ missed' = TRUE

\* POST config/load.
LoadConfig ==
  /\ saving = "no"
  /\ Load
  /\ UNCHANGED <<disk, saving, saved, cut>>

\* Mutant of ResetConfig: the file goes with the settings.
ResetConfigFile ==
  /\ saving = "no"
  /\ memory' = Default
  /\ disk' = Absent
  /\ UNCHANGED <<saving, saved, cut, missed>>

\* POST config/reset: the file keeps the old configuration.
ResetConfig ==
  /\ saving = "no"
  /\ memory' = Default
  /\ UNCHANGED <<disk, saving, saved, cut, missed>>

\* The host stops, also in the middle of a save: only the file is left.
ConfigStop ==
  /\ memory' = Default
  /\ saving' = "no"
  /\ UNCHANGED <<disk, saved, cut, missed>>

\* ConfigManager::new and the load of start-up, whose error is only logged.
ConfigStart ==
  /\ Load
  /\ UNCHANGED <<disk, saving, saved, cut>>

ConfigRequest ==
  \/ \E value \in Values : SaveConfig(value)
  \/ LoadConfig
  \/ ResetConfig

SaveStep == PrepareFails \/ BeginWrite \/ EndWrite \/ WriteFails

-----------------------------------------------------------------------------
(* Properties.                                                             *)

\* Types of the configuration state.
ConfigTypeOK ==
  /\ memory \in Values
  /\ disk \in Values \cup {Absent, Torn}
  /\ saving \in {"no", "prepare", "write"}
  /\ saved \in Values \cup {Absent}
  /\ cut \in BOOLEAN /\ missed \in BOOLEAN

\* A configuration whose save was answered with success is on disk until a
\* later save starts to write, whatever is loaded, reset or refused and however
\* often the host stops.
SavedSurvives == ~cut => disk = saved
=============================================================================
