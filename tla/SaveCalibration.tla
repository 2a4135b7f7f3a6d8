--------------------------- MODULE SaveCalibration ---------------------------
(***************************************************************************)
(* MainWindow::SaveCalibration: which files a save writes, and what the    *)
(* user is asked before.  A path is a stem and an extension; a stem is a   *)
(* name followed by the suffixes it was given.  A file holds a report or a *)
(* yaml of one camera of a calibration; calibrations are numbered, 0 is a  *)
(* file that was there before.  Of a yaml the model remembers the path of  *)
(* the report it was saved with, which the code does not.                  *)
(*                                                                         *)
(* A save is a series of modal dialogs; no calibration can begin meanwhile *)
(* (see Session).                                                          *)
(***************************************************************************)
EXTENDS Integers, Sequences

CONSTANTS
    Names,            \* the names the user types, with or without "_stereo"
    Extensions,       \* the extensions the user types
    MaxCalibrations   \* bound: calibrations made one after the other

NoExtension == "none"
Cancelled == [stem |-> <<>>, ext |-> NoExtension]   \* the dialog's empty string

ASSUME BoundAssumption == MaxCalibrations \in Nat

VARIABLES
    number,        \* the calibration held; 0 is nullptr
    stereo,        \* is calibration_stereo_ held?
    disk,          \* the files
    pc,
    report_file,   \* the path being saved to
    asked          \* the paths whose replacement the user was asked about

calibration == <<number, stereo>>
vars == <<calibration, disk, pc, report_file, asked>>

\* A second camera's files have a stem of their own.
Stereo(path) == [stem |-> Append(path.stem, "_stereo"), ext |-> "txt"]
Yaml(path) == [path EXCEPT !.ext = "yaml"]

Typed == [stem : {<<n>> : n \in Names} \cup {<<n, "_stereo">> : n \in Names}, ext : Extensions]
Reports == Typed \cup {Stereo(p) : p \in Typed}

Exists(path) == \E file \in disk : file.path = path
Written(files, path, kind, camera, report) ==
    {file \in files : file.path # path}
    \cup {[path |-> path, kind |-> kind, camera |-> camera, of |-> number, report |-> report]}

\* A stream cannot be opened on the empty path, and nothing tells.
WriteReport(files, path, camera) ==
    IF path = Cancelled THEN files ELSE Written(files, path, "report", camera, path)

\* The yaml of the report at the path.
WriteYaml(files, path, camera) == Written(files, Yaml(path), "yaml", camera, path)

\* Some of the files may have been there before: any pair or one of a pair.
Init ==
    /\ number = 0 /\ stereo = FALSE
    /\ \E old \in SUBSET (Reports \cup {Yaml(p) : p \in Reports}) :
          disk = {[path |-> p, kind |-> "foreign", camera |-> 0, of |-> 0, report |-> p] : p \in old}
    /\ pc = "idle" /\ report_file = Cancelled /\ asked = {}

Calibrate ==
    /\ pc = "idle" /\ number < MaxCalibrations
    /\ number' = number + 1 /\ stereo' \in BOOLEAN
    /\ UNCHANGED <<disk, pc, report_file, asked>>

\* The file dialog asks itself when the file the user typed exists.
ChooseFile ==
    /\ pc = "idle" /\ number # 0
    /\ \E path \in Typed : /\ report_file' = path
                           /\ asked' = IF Exists(path) THEN {path} ELSE {}
    /\ pc' = "yaml"
    /\ UNCHANGED <<calibration, disk>>

\* The user cancels it: there is no early return.
CancelFile ==
    /\ pc = "idle" /\ number # 0
    /\ report_file' = Cancelled /\ asked' = {}
    /\ pc' = "yaml"
    /\ UNCHANGED <<calibration, disk>>

YamlUnconfirmed == ~Exists(report_file) /\ Exists(Yaml(report_file))

StereoExists == Exists(Yaml(Stereo(report_file))) \/ Exists(Stereo(report_file))

\* Mutant: the answer about the first camera's yaml is taken for the second's files.
StereoAskedWithYaml == ~Exists(report_file) /\ StereoExists /\ ~Exists(Yaml(report_file))

StereoUnconfirmed == ~Exists(report_file) /\ StereoExists

Then(next, paths, unconfirmed) ==
    /\ IF unconfirmed
       THEN \/ pc' = next /\ asked' = asked \cup paths
            \/ pc' = "idle" /\ UNCHANGED asked          \* QMessageBox::Cancel
       ELSE pc' = next /\ UNCHANGED asked
    /\ UNCHANGED <<calibration, disk, report_file>>

AskYaml ==
    /\ pc = "yaml"
    /\ Then(IF stereo THEN "stereo" ELSE "write", {Yaml(report_file)}, YamlUnconfirmed)

AskStereo ==
    /\ pc = "stereo"
    /\ Then("write stereo", {Stereo(report_file), Yaml(Stereo(report_file))}, StereoUnconfirmed)

WriteStereo ==
    /\ pc = "write stereo"
    /\ disk' = WriteYaml(WriteReport(disk, Stereo(report_file), 2), Stereo(report_file), 2)
    /\ pc' = "write"
    /\ UNCHANGED <<calibration, report_file, asked>>

\* Mutant: the first camera's yaml is forgotten.
WriteReportOnly ==
    /\ pc = "write"
    /\ disk' = WriteReport(disk, report_file, 1)
    /\ pc' = "idle"
    /\ UNCHANGED <<calibration, report_file, asked>>

Write ==
    /\ pc = "write"
    /\ disk' = WriteYaml(WriteReport(disk, report_file, 1), report_file, 1)
    /\ pc' = "idle"
    /\ UNCHANGED <<calibration, report_file, asked>>

Next ==
    \/ Calibrate \/ ChooseFile \/ CancelFile
    \/ AskYaml \/ AskStereo \/ WriteStereo \/ Write

Spec == Init /\ [][Next]_vars

-----------------------------------------------------------------------------
\* Over any number of saves to old and new names, with any extensions: a report
\* that a save wrote lies beside a yaml that is no older.  It is of the same camera
\* of the same calibration, so that what is imported again is what the report says,
\* unless the yaml was saved since with another report, whose name differs in the
\* extension only (main_window.cpp:194).
PairsAgree ==
    pc = "idle" => \A file \in disk :
        file.kind = "report" =>
            \E yaml \in disk :
                /\ yaml.kind = "yaml" /\ yaml.path = Yaml(file.path) /\ file.of =< yaml.of
                /\ \/ yaml.camera = file.camera /\ yaml.of = file.of
                   \/ yaml.report # file.path /\ Yaml(yaml.report) = yaml.path

\* No save replaces a file unless a question of that save named the file, or the
\* user had confirmed to replace the report chosen in the file dialog.
NoSilentOverwrite ==
    [][\A file \in disk : file \notin disk' => asked \cap {file.path, report_file} # {}]_vars
=============================================================================
