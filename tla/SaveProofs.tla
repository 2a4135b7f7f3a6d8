------------------------------ MODULE SaveProofs ------------------------------
(***************************************************************************)
(* Saving a calibration, for every set of names and extensions: nothing is *)
(* replaced that the user was not asked about, and a report lies beside    *)
(* its own yaml or that of a later report with the same stem.              *)
(***************************************************************************)
EXTENDS SaveCalibration, SequenceTheorems, TLAPS

Stems == Seq(Names \cup {"_stereo"})
Paths == [stem : Stems, ext : Extensions \cup {NoExtension, "txt", "yaml"}]
SavedFiles == [path : Paths, kind : {"foreign", "report", "yaml"}, camera : {0, 1, 2}, of : Nat,
               report : Paths]

TypeOK ==
    /\ number \in Nat /\ disk \in SUBSET SavedFiles
    /\ pc \in {"idle", "yaml", "stereo", "write stereo", "write"}
    /\ report_file \in Typed \cup {Cancelled}

\* Every file at one of these paths may be replaced.
MayReplace(paths) == \A path \in paths : Exists(path) => path \in asked \/ report_file \in asked

\* What the dialogs so far have settled.
Consented ==
    /\ ~Exists(Cancelled)
    /\ pc # "idle" => MayReplace({report_file})
    /\ pc \in {"stereo", "write stereo", "write"} => MayReplace({Yaml(report_file)})
    /\ pc = "write stereo" => MayReplace({Stereo(report_file), Yaml(Stereo(report_file))})

\* A yaml that is no older than the report beside it, and of the same calibration
\* if it was saved with that report.
Beside(yaml, file) ==
    /\ yaml.kind = "yaml" /\ yaml.path = Yaml(file.path) /\ file.of =< yaml.of
    /\ Yaml(yaml.report) = yaml.path
    /\ yaml.report = file.path => yaml.camera = file.camera /\ yaml.of = file.of

\* No file is newer than the calibration held.
Agreeing ==
    /\ \A file \in disk : file.of =< number
    /\ \A file \in disk : file.kind = "report" => \E yaml \in disk : Beside(yaml, file)

-----------------------------------------------------------------------------
(* Paths *)

LEMMA PathFacts ==
    ASSUME NEW path \in Paths
    PROVE  /\ Yaml(path) = [stem |-> path.stem, ext |-> "yaml"] /\ Yaml(path) \in Paths
           /\ Stereo(path) \in Paths /\ Stereo(path).ext = "txt"
           /\ Stereo(path).stem # path.stem /\ Stereo(path).stem # <<>>
<1>1. path.stem \in Stems /\ path = [stem |-> path.stem, ext |-> path.ext]
    BY DEF Paths
<1>2. /\ Append(path.stem, "_stereo") \in Stems /\ Len(path.stem) \in Nat
      /\ Len(Append(path.stem, "_stereo")) = Len(path.stem) + 1
    BY <1>1, AppendProperties, LenProperties DEF Stems
<1>3. Append(path.stem, "_stereo") # path.stem
    BY <1>2
<1>4. Append(path.stem, "_stereo") # <<>>
    BY <1>1, AppendProperties DEF Stems
<1> QED
    BY <1>1, <1>2, <1>3, <1>4 DEF Yaml, Stereo, Paths

LEMMA ReportPaths ==
    /\ Typed \cup {Cancelled} \subseteq Paths /\ Reports \subseteq Paths
    /\ \A path \in Reports : path.stem # <<>>
<1>1. \A n \in Names : /\ <<n>> \in Stems /\ <<n, "_stereo">> \in Stems
                       /\ <<n>> # <<>> /\ <<n, "_stereo">> # <<>>
    BY DEF Stems
<1>2. \A path \in Typed : path \in Paths /\ path.stem # <<>>
    BY <1>1 DEF Typed, Paths
<1>3. Cancelled \in Paths
    BY EmptySeq DEF Cancelled, Paths, Stems
<1> QED
    BY <1>2, <1>3, PathFacts DEF Reports

\* A report and its yaml are written one after the other; a report on the
\* empty path is not.
SavedReport(path, camera) ==
    [path |-> path, kind |-> "report", camera |-> camera, of |-> number, report |-> path]
SavedYaml(path, camera) ==
    [path |-> Yaml(path), kind |-> "yaml", camera |-> camera, of |-> number, report |-> path]

LEMMA PairWritten ==
    ASSUME TypeOK, NEW path \in Paths, NEW camera \in {1, 2},
           NEW new, new = WriteYaml(WriteReport(disk, path, camera), path, camera)
    PROVE  /\ new \in SUBSET SavedFiles
           /\ \A file \in disk : file \in new \/ file.path = Yaml(path) \/ (file.path = path /\ path # Cancelled)
           /\ \A file \in new : \/ file \in disk
                                \/ file = SavedYaml(path, camera)
                                \/ path # Cancelled /\ path # Yaml(path) /\ file = SavedReport(path, camera)
           /\ \A file \in new : file \in disk \/ file.path = Yaml(path) \/ (file.path = path /\ path # Cancelled)
           /\ \A file \in new : file.path = path /\ path \notin {Cancelled, Yaml(path)} => file = SavedReport(path, camera)
           /\ \A file \in new : file.path = Yaml(path) => file = SavedYaml(path, camera)
           /\ SavedYaml(path, camera) \in new
<1> DEFINE yaml == SavedYaml(path, camera)
           report == SavedReport(path, camera)
<1>1. number \in Nat /\ camera \in {0, 1, 2} /\ Yaml(path) \in Paths /\ disk \subseteq SavedFiles
    BY PathFacts DEF TypeOK
<1>2. yaml \in SavedFiles /\ report \in SavedFiles /\ yaml.path = Yaml(path) /\ report.path = path
    BY <1>1 DEF SavedFiles, SavedReport, SavedYaml
<1>3. WriteReport(disk, path, camera) =
          IF path = Cancelled THEN disk ELSE {file \in disk : file.path # path} \cup {report}
    BY DEF WriteReport, Written, SavedReport
<1>4. new = {file \in WriteReport(disk, path, camera) : file.path # Yaml(path)} \cup {yaml}
    BY DEF WriteYaml, Written, SavedYaml
<1> HIDE DEF yaml, report
<1>5. /\ new \in SUBSET SavedFiles
      /\ \A file \in disk : file \in new \/ file.path = Yaml(path) \/ (file.path = path /\ path # Cancelled)
      /\ \A file \in new : \/ file \in disk
                           \/ file = yaml
                           \/ path # Cancelled /\ path # Yaml(path) /\ file = report
      /\ \A file \in new : file.path = path /\ path \notin {Cancelled, Yaml(path)} => file = report
      /\ \A file \in new : file.path = Yaml(path) => file = yaml
      /\ yaml \in new
    <2>1. CASE path = Cancelled
        BY <1>1, <1>2, <1>3, <1>4, <2>1
    <2>2. CASE path # Cancelled
        BY <1>1, <1>2, <1>3, <1>4, <2>2
    <2> QED
        BY <2>1, <2>2
<1>6. \A file \in new : file \in disk \/ file.path = Yaml(path) \/ (file.path = path /\ path # Cancelled)
    BY <1>2, <1>5
<1> QED
    BY <1>5, <1>6 DEF yaml, report

-----------------------------------------------------------------------------
(* Types and consent *)

Inv == TypeOK /\ Consented

LEMMA InitInv == Init => Inv
<1> SUFFICES ASSUME Init PROVE Inv
    OBVIOUS
<1>1. PICK old \in SUBSET (Reports \cup {Yaml(p) : p \in Reports}) :
          disk = {[path |-> p, kind |-> "foreign", camera |-> 0, of |-> 0, report |-> p] : p \in old}
    BY DEF Init
<1>2. \A p \in Reports : p \in Paths /\ p # Cancelled /\ Yaml(p) \in Paths /\ Yaml(p) # Cancelled
    BY PathFacts, ReportPaths DEF Cancelled, NoExtension
<1>3. old \subseteq Paths /\ Cancelled \notin old
    BY <1>2
<1>4. disk \in SUBSET SavedFiles /\ ~Exists(Cancelled)
    BY <1>1, <1>3 DEF SavedFiles, Exists
<1> QED
    BY <1>4 DEF Init, Inv, TypeOK, Consented

\* A question settles what it asks about, whether it was needed or not.
LEMMA Answered ==
    ASSUME NEW next, NEW paths, NEW unconfirmed, Then(next, paths, unconfirmed)
    PROVE  /\ UNCHANGED <<number, stereo, disk, report_file>> /\ asked \subseteq asked'
           /\ \/ pc' = "idle"
              \/ pc' = next /\ (unconfirmed => paths \subseteq asked')
BY DEF Then, calibration

LEMMA NextInv == ASSUME Inv, [Next]_vars PROVE Inv'
<1> USE DEF Inv
<1>0. TypeOK /\ 1 \in {1, 2} /\ 2 \in {1, 2}
    OBVIOUS
<1>1. ASSUME NEW path \in Paths PROVE disk' = disk => (Exists(path)' <=> Exists(path))
    BY DEF Exists
<1>2. report_file \in Paths
    BY ReportPaths DEF TypeOK
<1>3. CASE Calibrate
    BY <1>3 DEF Calibrate, TypeOK, Consented, Exists
<1>4. CASE ChooseFile
    <2>1. /\ pc' = "yaml" /\ UNCHANGED <<number, disk>> /\ report_file' \in Typed
          /\ Exists(report_file') => report_file' \in asked'
        BY <1>4 DEF ChooseFile, calibration
    <2> QED
        BY <2>1 DEF TypeOK, Consented, MayReplace, Exists
<1>5. CASE CancelFile
    BY <1>5 DEF CancelFile, calibration, TypeOK, Consented, MayReplace, Exists
<1>6. CASE AskYaml
    <2>1. /\ UNCHANGED <<number, disk, report_file>> /\ asked \subseteq asked'
          /\ \/ pc' = "idle"
             \/ /\ pc' \in {"stereo", "write"}
                /\ YamlUnconfirmed => {Yaml(report_file)} \subseteq asked'
        BY <1>6, Answered DEF AskYaml
    <2>2. pc = "yaml" /\ MayReplace({report_file})
        BY <1>6 DEF AskYaml, Consented
    <2>3. pc' \in {"stereo", "write"} => MayReplace({Yaml(report_file)})'
        BY <2>1, <2>2 DEF MayReplace, YamlUnconfirmed, Exists
    <2> QED
        BY <2>1, <2>2, <2>3 DEF TypeOK, Consented, MayReplace, Exists
<1>7. CASE AskStereo
    <2>1. /\ UNCHANGED <<number, disk, report_file>> /\ asked \subseteq asked'
          /\ \/ pc' = "idle"
             \/ /\ pc' = "write stereo"
                /\ StereoUnconfirmed => {Stereo(report_file), Yaml(Stereo(report_file))} \subseteq asked'
        BY <1>7, Answered DEF AskStereo
    <2>2. /\ pc = "stereo" /\ MayReplace({report_file})
          /\ MayReplace({Yaml(report_file)})
        BY <1>7 DEF AskStereo, Consented
    <2>3. MayReplace({Yaml(report_file)})'
        BY <2>1, <2>2 DEF MayReplace, Exists
    <2>4. pc' = "write stereo" => MayReplace({Stereo(report_file), Yaml(Stereo(report_file))})'
        BY <2>1, <2>2 DEF MayReplace, StereoUnconfirmed, StereoExists, Exists
    <2> QED
        BY <2>1, <2>2, <2>3, <2>4 DEF TypeOK, Consented, MayReplace, Exists
<1>8. CASE WriteStereo
    <2>1. /\ pc = "write stereo" /\ pc' = "write" /\ UNCHANGED <<number, report_file, asked>>
          /\ disk' = WriteYaml(WriteReport(disk, Stereo(report_file), 2), Stereo(report_file), 2)
        BY <1>8 DEF WriteStereo, calibration
    <2>2. Stereo(report_file) \in Paths
        BY <1>2, PathFacts
    <2>3. /\ disk' \in SUBSET SavedFiles
          /\ \A file \in disk' : file \in disk \/ file.path \in {Stereo(report_file), Yaml(Stereo(report_file))}
        <3> PICK path \in Paths : path = Stereo(report_file)
            BY <2>2
        <3> PICK new : new = disk'
            OBVIOUS
        <3>1. new = WriteYaml(WriteReport(disk, path, 2), path, 2)
            BY <2>1
        <3>2. /\ new \in SUBSET SavedFiles
              /\ \A file \in new : file \in disk \/ file.path = Yaml(path) \/ file.path = path
            BY <1>0, <3>1, PairWritten
        <3> QED
            BY <3>2
    <2>4. /\ Cancelled \notin {Stereo(report_file), Yaml(Stereo(report_file))}
          /\ report_file \notin {Stereo(report_file), Yaml(Stereo(report_file))}
          /\ Yaml(report_file) \notin {Stereo(report_file), Yaml(Stereo(report_file))}
        BY <1>2, <2>2, PathFacts DEF Cancelled
    <2>5. \A path \in {Cancelled, report_file, Yaml(report_file)} :
              (\E file \in disk' : file.path = path) => Exists(path)
        BY <2>3, <2>4 DEF Exists
    <2>6. MayReplace({Yaml(report_file)})'
        BY <2>1, <2>5 DEF Consented, MayReplace, Exists
    <2> QED
        BY <2>1, <2>3, <2>5, <2>6 DEF TypeOK, Consented, MayReplace, Exists
<1>9. CASE Write
    <2>1. /\ pc' = "idle" /\ UNCHANGED <<number, report_file>>
          /\ disk' = WriteYaml(WriteReport(disk, report_file, 1), report_file, 1)
        BY <1>9 DEF Write, calibration
    <2>2. /\ disk' \in SUBSET SavedFiles
          /\ \A file \in disk' : \/ file \in disk
                                 \/ file.path = Yaml(report_file)
                                 \/ (file.path = report_file /\ report_file # Cancelled)
        <3> PICK new : new = disk'
            OBVIOUS
        <3>1. /\ new \in SUBSET SavedFiles
              /\ \A file \in new : \/ file \in disk
                                  \/ file.path = Yaml(report_file)
                                  \/ (file.path = report_file /\ report_file # Cancelled)
            BY <1>0, <1>2, <2>1, PairWritten
        <3> QED
            BY <3>1
    <2>3. Yaml(report_file) # Cancelled
        BY <1>2, PathFacts DEF Cancelled, NoExtension
    <2> QED
        BY <2>1, <2>2, <2>3 DEF TypeOK, Consented, Exists
<1>10. CASE UNCHANGED vars
    BY <1>10 DEF vars, calibration, TypeOK, Consented, MayReplace, Exists
<1> QED
    BY <1>3, <1>4, <1>5, <1>6, <1>7, <1>8, <1>9, <1>10 DEF Next

LEMMA Invariance == Spec => []Inv
BY InitInv, NextInv, PTL DEF Spec

\* Whatever a save replaces, a question of that save named the file, or the user
\* had confirmed to replace the report chosen.
THEOREM NothingSilent == Spec => NoSilentOverwrite
<1>1. ASSUME Inv, [Next]_vars, NEW file \in disk, file \notin disk'
      PROVE  asked \cap {file.path, report_file} # {}
    <2>1. report_file \in Paths /\ Stereo(report_file) \in Paths /\ Exists(file.path)
        BY <1>1, ReportPaths, PathFacts DEF Inv, TypeOK, Exists
    <2>2. WriteStereo \/ Write
        BY <1>1 DEF Next, Calibrate, ChooseFile, CancelFile, AskYaml, AskStereo, Then, vars
    <2>3. CASE WriteStereo
        <3>1. file.path \in {Stereo(report_file), Yaml(Stereo(report_file))}
            <4> PICK path \in Paths : path = Stereo(report_file)
                BY <2>1
            <4> PICK new : new = disk'
                OBVIOUS
            <4>1. new = WriteYaml(WriteReport(disk, path, 2), path, 2)
                BY <2>3 DEF WriteStereo
            <4>2. file.path \in {path, Yaml(path)}
                BY <1>1, <4>1, PairWritten DEF Inv
            <4> QED
                BY <4>2
        <3>2. MayReplace({Stereo(report_file), Yaml(Stereo(report_file))})
            BY <1>1, <2>3 DEF WriteStereo, Inv, Consented
        <3> QED
            BY <2>1, <3>1, <3>2 DEF MayReplace
    <2>4. CASE Write
        <3>1. file.path \in {report_file, Yaml(report_file)}
            <4> PICK new : new = disk'
                OBVIOUS
            <4>1. new = WriteYaml(WriteReport(disk, report_file, 1), report_file, 1)
                BY <2>4 DEF Write
            <4>2. file.path \in {report_file, Yaml(report_file)}
                BY <1>1, <2>1, <4>1, PairWritten DEF Inv
            <4> QED
                BY <4>2
        <3>2. MayReplace({report_file}) /\ MayReplace({Yaml(report_file)})
            BY <1>1, <2>4 DEF Write, Inv, Consented
        <3> QED
            BY <2>1, <3>1, <3>2 DEF MayReplace
    <2> QED
        BY <2>2, <2>3, <2>4
<1>2. Inv /\ [Next]_vars =>
          [\A file \in disk : file \notin disk' => asked \cap {file.path, report_file} # {}]_vars
    BY <1>1
<1> QED
    BY <1>2, Invariance, PTL DEF Spec, NoSilentOverwrite

-----------------------------------------------------------------------------
(* Reports and their yaml files *)

LEMMA WritingAgrees ==
    ASSUME TypeOK, Consented, Agreeing, NEW path \in Paths, NEW camera \in {1, 2},
           NEW new, new = WriteYaml(WriteReport(disk, path, camera), path, camera)
    PROVE  /\ \A file \in new : file.of =< number
           /\ \A file \in new : file.kind = "report" => \E yaml \in new : Beside(yaml, file)
<1>0. /\ \A f \in disk : f \in new \/ f.path = Yaml(path) \/ (f.path = path /\ path # Cancelled)
      /\ \A f \in new : \/ f \in disk
                        \/ f = SavedYaml(path, camera)
                        \/ path # Cancelled /\ path # Yaml(path) /\ f = SavedReport(path, camera)
      /\ \A f \in new : f.path = path /\ path \notin {Cancelled, Yaml(path)} => f = SavedReport(path, camera)
      /\ \A f \in new : f.path = Yaml(path) => f = SavedYaml(path, camera)
      /\ SavedYaml(path, camera) \in new
    BY PairWritten
<1>1. /\ SavedYaml(path, camera).kind = "yaml" /\ SavedYaml(path, camera).path = Yaml(path)
      /\ SavedYaml(path, camera).of = number /\ SavedYaml(path, camera).report = path
      /\ SavedYaml(path, camera).camera = camera
      /\ SavedReport(path, camera).path = path /\ SavedReport(path, camera).of = number
      /\ SavedReport(path, camera).camera = camera
    BY DEF SavedYaml, SavedReport
<1>2. number \in Nat /\ disk \subseteq SavedFiles
    BY DEF TypeOK
<1>3. ASSUME NEW file \in new PROVE file.of =< number
    BY <1>0, <1>1, <1>2, <1>3 DEF Agreeing
<1>4. ASSUME NEW file \in new, file.kind = "report" PROVE \E yaml \in new : Beside(yaml, file)
    <2>1. file # SavedYaml(path, camera) /\ file.path # Yaml(path)
        BY <1>0, <1>1, <1>4
    <2>2. CASE file.path = path
        <3>1. path # Cancelled
            <4>1. file \in disk \/ path # Cancelled
                BY <1>0, <1>4, <2>1
            <4> QED
                BY <2>2, <4>1 DEF Consented, Exists
        <3>2. file = SavedReport(path, camera)
            BY <1>0, <1>4, <2>1, <2>2, <3>1
        <3>3. Beside(SavedYaml(path, camera), file)
            BY <1>1, <1>2, <3>2 DEF Beside
        <3> QED
            BY <1>0, <3>3
    <2>3. CASE file.path # path
        <3>1. file \in disk
            BY <1>0, <1>1, <1>4, <2>1, <2>3
        <3>2. PICK yaml \in disk : Beside(yaml, file)
            BY <1>4, <3>1 DEF Agreeing
        <3>3. CASE Yaml(file.path) = Yaml(path)
            <4>1. file.of =< number
                BY <3>1 DEF Agreeing
            <4>2. Beside(SavedYaml(path, camera), file)
                BY <1>1, <2>3, <3>3, <4>1 DEF Beside
            <4> QED
                BY <1>0, <4>2
        <3>4. CASE Yaml(file.path) # Yaml(path)
            <4>1. yaml.path = Yaml(file.path)
                BY <3>2 DEF Beside
            <4>2. yaml.path # path
                <5>1. file.path \in Paths
                    BY <1>2, <3>1 DEF SavedFiles
                <5>2. Yaml(Yaml(file.path)) = Yaml(file.path)
                    BY <5>1, PathFacts
                <5> QED
                    BY <3>4, <4>1, <5>2
            <4>3. yaml \in new
                BY <1>0, <3>4, <4>1, <4>2
            <4> QED
                BY <3>2, <4>3
        <3> QED
            BY <3>3, <3>4
    <2> QED
        BY <2>2, <2>3
<1> QED
    BY <1>3, <1>4

LEMMA NextAgreeing ==
    ASSUME Inv, Agreeing, [Next]_vars
    PROVE  Agreeing'
<1>1. TypeOK /\ Consented /\ 1 \in {1, 2} /\ 2 \in {1, 2} /\ report_file \in Paths
    BY ReportPaths DEF Inv, TypeOK
<1>2. ASSUME UNCHANGED number, NEW path \in Paths, NEW camera \in {1, 2},
             disk' = WriteYaml(WriteReport(disk, path, camera), path, camera)
      PROVE  Agreeing'
    <2> PICK new : new = disk'
        OBVIOUS
    <2>1. new = WriteYaml(WriteReport(disk, path, camera), path, camera)
        BY <1>2
    <2>2. /\ \A file \in new : file.of =< number
          /\ \A file \in new : file.kind = "report" => \E yaml \in new : Beside(yaml, file)
        BY <1>1, <2>1, WritingAgrees
    <2> QED
        BY <1>2, <2>2 DEF Agreeing, Beside
<1>3. CASE WriteStereo
    <2>1. Stereo(report_file) \in Paths
        BY <1>1, PathFacts
    <2> QED
        BY <1>1, <1>2, <1>3, <2>1 DEF WriteStereo, calibration
<1>4. CASE Write
    BY <1>1, <1>2, <1>4 DEF Write, calibration
<1>5. CASE Calibrate
    <2>1. disk' = disk /\ number' = number + 1 /\ number \in Nat /\ disk \subseteq SavedFiles
        BY <1>1, <1>5 DEF Calibrate, TypeOK
    <2>2. \A file \in disk : file.of \in Nat /\ file.of =< number
        BY <2>1 DEF Agreeing, SavedFiles
    <2>3. \A file \in disk : file.of =< number'
        BY <2>1, <2>2
    <2> QED
        BY <2>1, <2>3 DEF Agreeing, Beside
<1>6. CASE UNCHANGED <<disk, number>>
    BY <1>6 DEF Agreeing, Beside
<1> QED
    BY <1>3, <1>4, <1>5, <1>6
    DEF Next, ChooseFile, CancelFile, AskYaml, AskStereo, Then, vars, calibration

\* Whatever names and extensions are saved to, in any order: beside a report is a
\* yaml that is no older, and it is of the same camera of the same calibration
\* unless a report of another extension was saved with it since.
THEOREM ReportsAgree == Spec => []PairsAgree
<1>1. Init => Agreeing
    <2> SUFFICES ASSUME Init PROVE Agreeing
        OBVIOUS
    <2>1. \A file \in disk : file.kind = "foreign" /\ file.of = 0
        BY DEF Init
    <2>2. number = 0
        BY DEF Init
    <2> QED
        BY <2>1, <2>2 DEF Agreeing
<1>2. Inv /\ Agreeing /\ [Next]_vars => Agreeing'
    BY NextAgreeing
<1>3. Agreeing => PairsAgree
    BY DEF Agreeing, Beside, PairsAgree
<1> QED
    BY <1>1, <1>2, <1>3, Invariance, PTL DEF Spec
=============================================================================
