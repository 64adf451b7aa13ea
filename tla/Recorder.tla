------------------------------- MODULE Recorder -------------------------------
(***************************************************************************)
(* The data logger of the host (storage/data_logger.rs) and the CSV files  *)
(* it leaves on disk.  The logger is behind one mutex: every call is one   *)
(* atomic step.                                                            *)
(*                                                                         *)
(* A file is named after its device and the current second, and opening it *)
(* truncates what had that name; the handlers always record into the same  *)
(* directory.  Sizes are counted in rows and times in seconds.  A call of  *)
(* the file system may fail; a failed write may leave a part of a row.     *)
(***************************************************************************)
EXTENDS Telemetry

CONSTANTS
  MaxRows,       \* max_file_size
  SplitInterval, \* split_interval_ms
  LastSecond,    \* bound: the clock stops here
  NoFile         \* "no file"

ASSUME RecorderAssumption == MaxRows \in Nat /\ SplitInterval \in Nat /\ LastSecond \in Nat

VARIABLES
  recorder,     \* the DataLogger
  files,        \* [name]: the file on disk, or NoFile
  second        \* the wall clock

recorderVars == <<recorder, files, second>>

Names == [device : Devices, second : 0..LastSecond]

\* Mutant of Filename: no time in the name.
FilenameOfDevice(d) == [device |-> d, second |-> 0]

Filename(d) == [device |-> d, second |-> second]

\* A file with its header row only.  intact: no write to it has failed.
EmptyFile == [rows |-> <<>>, intact |-> TRUE]

Outcomes == {"done", "refused", "unwritable"}

RecorderInit ==
  /\ recorder = [recording |-> FALSE, device |-> NoFile, file |-> NoFile,
                 rows |-> 0, splitAt |-> 0, autoSplit |-> FALSE]
  /\ files = [n \in Names |-> NoFile]
  /\ second = 0

\* open_file: File::create may be refused; the header may fail to be written
\* to the file that was just created, which is dropped then.
FilesAfterOpen(fs, name, outcome) ==
  CASE outcome = "done"       -> [fs EXCEPT ![name] = EmptyFile]
    [] outcome = "refused"    -> fs
    [] outcome = "unwritable" -> [fs EXCEPT ![name] = [rows |-> <<>>, intact |-> FALSE]]

\* A recording that runs, of any device, is left alone.  A failure to create
\* the directory counts as refused.
StartRecording(d, outcome) ==
  IF recorder.recording
  THEN outcome = "done" /\ UNCHANGED recorderVars
  ELSE /\ files' = FilesAfterOpen(files, Filename(d), outcome)
       /\ recorder' = IF outcome = "done"
                      THEN [recorder EXCEPT !.recording = TRUE, !.device = d, !.file = Filename(d),
                                            !.rows = 0, !.splitAt = second]
                      ELSE [recorder EXCEPT !.device = d]
       /\ UNCHANGED second

StopRecording ==
  /\ recorder' = [recorder EXCEPT !.recording = FALSE,
                                  !.file = IF recorder.recording THEN NoFile ELSE @]
  /\ UNCHANGED <<files, second>>

SetAutoSplit(enabled) ==
  /\ recorder' = [recorder EXCEPT !.autoSplit = enabled]
  /\ UNCHANGED <<files, second>>

-----------------------------------------------------------------------------
(* write_data.                                                             *)

\* Mutant of Recorded: the device is not compared.
RecordedAny(d) == recorder.recording /\ recorder.file # NoFile

Recorded(d) == recorder.recording /\ d = recorder.device /\ recorder.file # NoFile

SplitDue(rows) ==
  recorder.autoSplit /\ (rows >= MaxRows \/ second - recorder.splitAt >= SplitInterval)

\* The row is written, and the file split when that is due; the result of the
\* split is not looked at, so a failure leaves the recorder without a file.
WriteRow(item, outcome) ==
  LET file  == recorder.file
      after == [files EXCEPT ![file].rows = Append(@, item)]
      rows  == recorder.rows + 1
      name  == Filename(recorder.device)
  IN IF SplitDue(rows)
     THEN /\ files' = FilesAfterOpen(after, name, outcome)
          /\ recorder' = IF outcome = "done"
                         THEN [recorder EXCEPT !.file = name, !.rows = 0, !.splitAt = second]
                         ELSE [recorder EXCEPT !.file = NoFile, !.rows = rows]
     ELSE /\ outcome = "done"
          /\ files' = after
          /\ recorder' = [recorder EXCEPT !.rows = rows]

\* write_all fails: logged, nothing else.
LoseRow ==
  /\ files' = [files EXCEPT ![recorder.file].intact = FALSE]
  /\ UNCHANGED recorder

WriteData(item) ==
  /\ IF Recorded(item.device)
     THEN LoseRow \/ \E outcome \in Outcomes : WriteRow(item, outcome)
     ELSE UNCHANGED <<recorder, files>>
  /\ UNCHANGED second

\* The second changes.
Tick ==
  /\ second < LastSecond
  /\ second' = second + 1
  /\ UNCHANGED <<recorder, files>>
=============================================================================
