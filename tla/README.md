# Calibmar / pyudwcam in TLA+

Calibmar (the C++ application under `src/src/app` and its library under `src/src/calibmar`) calibrates
cameras from images of a target: live from a camera, from a directory of files, or from two directories for a
stereo rig. Its numerical core is least squares over floating-point numbers. What is hard to get right *and*
hard to test is the rest: worker threads, a Qt event loop, signals and unlocked data between them, menus that
must keep a second calibration away, images that are skipped, paired and labelled, and files that are
overwritten. That is what is modelled here.

Paths below are relative to `src/src/`; `app/ui/` is abbreviated to `ui/`.

Contents: 1 the system, 2 the modules and how they correspond to the code, 3 the runs, 4 fairness and deadlock,
5 the proofs, 6 where the code and its texts disagree, 7 what is not modelled, 8 the plan.

## 1. The system

### Components, their state, operations and partners

| Component | State | Operations | Talks to | Modules |
|---|---|---|---|---|
| `LivestreamCalibrationRunner` (`ui/utils`) | `run_extraction_`, `new_extraction_`, `acquire_`, `extract_`, `current_pixmap_`, `currently_extracted_image_`, `current_target_points_`, the `Calibration` | `Run` (worker thread); one of `RunBasicExtraction`, `RunTimedExtraction`, `RunPoseSuggestionExtraction` (a second thread); `Save`; the two button callbacks | reader, extractor, tracker, `LivestreamExtractionWidget`, `CalibrationWidget` by posted functors | `LivestreamRunner`, `HeldPose`, `FrameHandoff` |
| `TargetTracker` (`calibmar/pose_suggestion`) | last points, target points, stability | `Update`, `SetTargetPoints`, `TargetPointsReached` | called by the extraction thread only | in `LivestreamRunner` |
| `AutoResetSignal` (`ui/utils`) | `flag_`, mutex, condition variable | `Set`, `Reset`, `Wait`, `WaitFor` | the livestream's two threads | `AutoResetSignal`, `Signal` |
| `CalibrationWidget` (`ui/widgets`) | items, `calibration_widget_`, `calibration_ended_`, target visualizer | `AddExtractionItem`, `StartCalibration`, `EndCalibration`, `SetTargetVisualizer` | fed by every runner | `CalibrationWidget`, `CalibrationView` |
| `FilesystemImageReader` (`calibmar/readers`) | `image_paths_`, `file_index_`, image size, mutex | constructor, `HasNext`, `Next` | used by the two file runners and, with its mutex, by the undistortion's workers | `FilesystemReader` |
| `FilesCalibrationRunner` (`ui/utils`) | reader, calibration, last pixmap | `Run` | reader, extractor, calibrators, `CalibrationWidget` | `FilesRunner`, `CalibrationOptions` |
| `StereoFilesCalibrationRunner`, `StereoCalibrator` | two of each, and the calibrator's options | `Run`, `Calibrate`, `EstimateRelativePose` | two readers, `CalibrationWidget` | `StereoRunner`, `RelativePose` (in `Algorithms`) |
| `MainWindow` (`ui/main_window.cpp`) | `calibration_`, `calibration_stereo_`, `calibration_success_`, enabled actions, the widget shown | `New…Calibration`, `BeginNewCalibration`, `EndNewCalibration`, `DisplayExtractionImage`, `SaveCalibration`, closing | detached worker threads, posted functors, modal dialogs | `Session`, `SaveCalibration` |
| Stream preview (`ui/dialogs/stream_calibration_dialog`), `LiveStreamImageReader` | preview thread, `cancel_`, `valid_device_`, the device it reads | change of device, close, `Validate`; `Open`, `Next`, `HasNext` | the reader of its thread, later the calibration's | `StreamPreview` |
| Undistortion dialog (`ui/dialogs/undistortion_dialog`) | workers, `cancellation_flag_`, shared reader, `runner_` | start, cancel, the workers' loop, join, close | reader with its mutex | `Undistortion` |
| Option widgets and dialogs, reports, import (`ui/widgets`, `ui/dialogs`, `calibmar/core/report.cpp`) | the edits; `housing_calibration_`, `initial_camera_parameters_` | `Validate`, `GetOptions`, `SetOptions`, `ImportParameters`, `GenerateCalibrationYaml`, `ImportFromYaml` | runners, files | `CalibrationOptions` (in `FilesRunner`, `Algorithms`) |
| `Calibration`, `Image` | points, correspondences | `GetCorrespondences` | everything | `CalibrationData`, and members of the runners' models |
| ArUco board, natural sort, simulated annealing, flow layout | none (algorithms) | – | extractors, reader and dialogs, pose suggestion, extraction widgets | `ArucoBoard`, `NaturalSort`, `Annealing`, `FlowLayout` (in `Algorithms`) |
| Calibrators' optimisation, extractors' detection, rendering, Python bindings, COLMAP | numbers, pixels | – | – | not modelled (section 7) |

Threads: the GUI thread runs Qt's event loop; each calibration has one detached worker thread; a livestream
calibration starts and joins one extraction thread. A worker touches widgets only by
`QMetaObject::invokeMethod`, which queues a functor; the GUI thread runs functors in the order they were
queued. Modal dialogs run the same event loop in a nested way, so functors run during a dialog too.

### What is hard, and the property each part needs

* *Unlocked data handed between two threads* (livestream): only the alternation of `new_extraction_` and
  `extract_` keeps them apart. Wanted: one owner at a time; every save shown once; no image added after the
  final calibration began; the session ends when the user ends it; the widget outlives everything that uses it.
* *Judgements over many frames* (tracker): a target that is held still must be saved once, and detections must be
  compared with the pose that is on display.
* *Deferred calls* (every runner): items, progress bar and result are three kinds of deferred call; the view has
  to go through them in order and to end with what `Run` returned.
* *Menus as mutual exclusion* (main window): nothing but disabled actions keeps a second calibration from
  resetting the objects of a running one.
* *Skipping and pairing* (readers, stereo): unreadable files, files of another size, and directories of
  different lengths must not lose, double or shift images.
* *Several files that belong together* (saving): report, yaml and their stereo counterparts must not be mixed up or
  overwritten without consent.
* *Many hands on one reader* (undistortion): whatever the interleaving each image is written once; no thread survives
  the dialog whose members it uses; the GUI thread joins a thread that posts to the GUI thread.
* *A device that is opened twice, or lost* (preview): the verdict on a device must be about the one that is selected,
  and the last reader must let go of it before the next one opens it.
* *Checks in several places* (options): a dialog, a set-up and three calibrators each test the same options. What the first
  accepts the last should not refuse after minutes of extraction, and what a report holds should come back from it.
* *Numbering* (board, names, layout): a board has eight numberings, a name order has to be a strict weak order for
  `std::sort`, a layout computes heights twice. Each is easily right in the cases anyone looked at.
* *Wake-ups* (`AutoResetSignal`): spurious ones, time-outs, and notifications nobody is waiting for.

`PROJECT.json` lists each hazard at its line, with the properties that would catch it going wrong, or the reason
why none does yet.

## 2. The modules

```
FrameHandoff  <- refined by -  LivestreamRunner  <- extended by -  HeldPose ---- LivestreamProofs
Signal        <- refined by -  AutoResetSignal
CalibrationView <- refined by - LivestreamRunner
                <- refined by - CalibrationWidget + FilesystemReader
                                    + CalibrationOptions = FilesRunner  ---- FilesProofs
                <- refined by - CalibrationWidget + FilesystemReader = StereoRunner ---- StereoProofs
FilesystemReader  <- extended by -  Undistortion  ---- UndistortionProofs
SaveCalibration ---- SaveProofs   StreamPreview ---- StreamPreviewProofs   Session ---- SessionProofs
CalibrationOptions + ArucoBoard (+ CalibrationData) + NaturalSort + Annealing
    + FlowLayout + RelativePose = Algorithms
AutoResetSignal, Algorithms ---- UtilityProofs
```

Operators named as mutants (a comment says so) are wrong variants of an action or helper: each property of a
passing run has one that breaks it.

### LivestreamRunner

Three actors with a control point each: `wpc` follows `Run`, `epc` the extraction thread, and the GUI
thread takes functors from `events`. One action is one stretch of code between two accesses of shared state:
`ReadFrame`, `CheckExtraction`, `CopyHandoff`, `ClearNewExtraction`, `SetExtract` and `Draw` are the loop of
`Run` (`livestream_calibration_runner.cpp:236-292`); `LeaveLoop`, `WakeExtraction`, `Join` and `Calibrate`
its end. `Test`, `Wait`, `Recheck`, `Extract`, `Decide…`, `Save`, `SuggestAfterSave`, `ResetAcquire` and
`Publish` are one pass of the extraction thread; the three modes share them and differ in `Decide…`.

Abstractions. Image points are the pose of the target they show: `{}` is the empty vector, `{p}` a detection of
pose `p`; two detections match when the poses differ by at most `Tolerance`. A frame *is* what a detection finds
in it. A `unique_ptr` is a set with at most one element. A calibration in the extraction thread may throw
(`CalibrationThrows`), and a button may be pressed when `Run` has returned but its widget is still there (`PressOnGoneRunner`).
The time of the hands-free mode's timer is any time:
while it runs it may be up. `EstimateNextBestPose` may suggest any pose. `fault` names the first null or
dangling pointer the code uses, or the exception that leaves a thread; the process is gone from then on, so nothing is
promised after it. The signal's
`Wait` is one atomic step, which is what `AutoResetSignal` is shown to allow.

`FrameHandoff` is the abstract promise about the unlocked data: it has one owner; the owner offers a frame and takes a
copy of the last result, gives the data away, and gets it back. The refinement mapping is
`owner <- IF new_extraction_ /\ ~Closing THEN "worker" ELSE "extraction"`: the flag *is* the ownership until the
worker leaves its loop.

`HeldPose` adds two history variables to the livestream: the pose the timer was started for when the last image
was saved, and what has been detected since. They are functions of the step taken and restrict nothing.

### AutoResetSignal and Signal

`AutoResetSignal` takes each call apart: lock, test, sleep (which releases the mutex in the same step), wake by
notification, spuriously or by time-out, lock again, unlock. `notify_one` moves one sleeper to the queue for the
mutex. `Signal` is the atomic object: a pending call takes effect in one step. Any number of threads makes any
number of calls (`SignalSpec`).

### CalibrationWidget, CalibrationView, FilesystemReader

`CalibrationWidget` is the widget with the queue of functors in front of it. `SetTargetVisualizer` is the one
call a worker makes directly, as in the code. `CalibrationView` says what the user is promised: items one by one,
a progress bar, one result that stays; no calibration without a progress bar before it. All three runners are proved to keep the
promise; `FilesRunner` has it as a property of its run too.

In `FilesystemReader` a directory is the sequence of its files in reading order; a file has a size or is no
image, and shows the target or not. The constructor takes the image size from the first readable file of
`directory_iterator`, *before* it sorts: `NewReaders` is the set of readers this may give. A reader is a record,
so that the stereo runner has two.

### FilesRunner, StereoRunner

One action per step of `Run`, and one per way out of it: no readable file, an extractor that throws, nothing to calibrate
from, a calibrator that throws, success. Readers are constructed outside the `try` block
(`files_calibration_runner.cpp:124`): when the directory has gone since the dialog validated it, the process
ends (`"terminated"`). The options are those the dialogs' `Validate` (in `CalibrationOptions`) lets pass.

`Setup` is the set-up of a planar or of a 3D target; which of `BasicCalibrator`, `HousingCalibrator` and `Calibrator3D` it
makes is `Calibrator`. `HousingRefusals` and `CameraRefusals` are what these throw before they estimate; `CalibratorCamera`
is the camera they start from. The estimation itself throws, or succeeds; COLMAP may leave images unregistered, and
`TooMany` is the 30% at which `Calibrator3D` throws: *after* it has given the calibration camera, poses and errors
(`FailRegistration`), so that a failed calibration holds a calibrated camera.

`StereoRunner` has everything that exists per camera as a function of `Sides`. `ReadBoth`, `SkipFile` and
`PairImages` are one turn of the loop (`stereo_files_calibration_runner.cpp:134-172`), in that order;
`Refusals` are the exceptions of the runner and of `StereoCalibrator::Calibrate` in the order they are tested. What follows
has two stages (`stereo_calibration.cpp:174-181`, `:202-237`), and each asks for `fix_intrinsics`, the dialog's
`estimate_pose_only`, for itself: `Separate` optimises each camera, or finds its poses only; `Joint` optimises both together,
or keeps their parameters. A camera's `params` tell how far it came. The first stage may throw at either camera
(`HalfWay`), with the first one already optimised, and always does for a single view without a guess (`EnoughViews`).

### CalibrationOptions and Algorithms

`CalibrationOptions` follows options from form to form. A form holds what the edits show; `AfterValidate` is what
`CommonCalibrationOptionsWidget::Validate` leaves in its two members, also when it refuses halfway; `GetOptions` reads the
members; `SetOptions` fills a form through texts of six decimals (`VectorToCSV`). `GenerateCalibrationYaml`,
`ImportFromYaml` and `ImportParameters` are the way through a report. Numbers are integers that count tenths of the
sixth decimal, so that rounding does what it does. `OneAssumption` asks for ten of them or more; in the code they are
10,000,000.

`Algorithms` runs each stateless part on every input within bounds: a behaviour takes one of them (`CalibrateAndImport`,
`Detect`, `CompareNames`, `BeginLayout`, `SeeTarget`, `BeginAnnealing`) and puts an input together; the layout, the
views and the annealing then go on step by step (`LayOut`, `SeeTarget`, `Anneal`), one turn of the code's loop each.

* `ArucoBoard`: the marker at a row and a column, in eight combinations of origin and direction (`MarkerId`), its
  points, and the correspondences `Extract` makes of what was detected, doubled and foreign markers included.
* `NaturalSort`: `natural_sort::compare` on character codes. An iterator the code moves past a name's end reads memory of no
  name: there `Compare` has both answers.
* `Annealing`: the loop of `SimulatedAnnealing` turn by turn, over any cost function and any acceptance. `totals` is
  a history variable: the sums of the cost's changes so far, against which the running sum the loop stops by is compared.
  No cost is above `Unusable`, the code's numeric maximum.
* `FlowLayout`: `doLayout`, called once to measure and once to place; both calls go on together, a picture at a time.
  `LayoutAssumption` asks for a layout wider than its margins and for pictures that are not scaled down to nothing: without
  inner width the code divides by zero, and a first picture without height never counts as a row.
* `RelativePose` is `EstimateRelativePose` for one component of the pose. Along one axis of a rig without
  rotation, a pose is a number, the product of poses is a sum and the inverse is the negation, which keeps
  apart what the code must keep apart: camera 1 to 2 against camera 2 to 1, and a median against another
  value. Values are counted in halves because the code averages two of them. `nth_element` leaves what is behind the
  position in any order, so the element behind it is any of those.

### Session and SaveCalibration

`Session` numbers calibrations in the order they are begun; the number stands for the `Calibration` object, its
worker and its widget. A runner is reduced to what the window sees: it adds images, posts its result and returns.
`gui` says which dialog is open or what the GUI thread is in the middle of; closing the window destroys
it while a detached worker may still run. `fault` records the two undefined behaviours this can lead to.

`SaveCalibration` follows one save through its dialogs: the file dialog (which itself asks about the file
that was typed), the question about the yaml, the question about the stereo files, and the writes. A path is a stem
(name and suffixes) and an extension; a file knows whose report or yaml it is. `report` of a yaml is history: the report it
was saved with.

### Undistortion and StreamPreview

`Undistortion`: `Concurrency` workers, the runner thread and the GUI thread. A worker's loop
(`undistortion_dialog.cpp:16-31`) is `TestNext` and `TestCancel` (two reads, the first under the shared lock),
then `LockNext`, `TakePath`, `Advance` and `ReadPixmap`, which are
`FilesystemImageReader::Next` (`filesystem_reader.cpp:37-61`) taken apart so that its mutex has something to do, and
`Write`. The runner starts the workers one by one, joins them and posts the functor
that hides the progress dialog, joins the runner itself and closes the dialog (`RunFunctor`, `JoinRunner`).
`Concurrency` is at least 1, though C++ lets `hardware_concurrency()` return 0, with which nothing would be written
and the dialog would close at once. What an image looks like undistorted, the name it is written under and the result of the
writing are left out. `fault` records that the dialog was destroyed while its thread was still to be joined, which
ends the process.

`StreamPreview`: every choice of a device raises `cancel_`, joins the last thread and starts another
(`stream_calibration_dialog.cpp:150-196`; the join blocks the GUI thread, hence `gui = "starting"`). A thread is its
reader's `HasNext`, `Open` and `Next`, then the report of the status (`valid_device_` or `cancel_`), then the posted
picture. Devices are plugged in and out at any time. "Run" hands the device to the calibration, which opens it for
itself. `gave` is a history variable: the threads whose reader returned a frame. Equal pictures that follow each other in the
queue are kept as one, so that the queue is finite; showing one twice changes nothing.

## 3. The runs

| Run | Instance | What it shows |
|---|---|---|
| `LivestreamButton` | `OnButton`, one pose, 2 saved images, queue of 2 | `HandoffExclusive`; `EverySaveDisplayed`; `WidgetOutlivesUsers`; `CalibratesSettledImages`; the session ends once asked to (`ShutsDown`); frames are extracted again and again (`StreamKeepsExtracting`); the flags implement `FrameHandoff` |
| `LivestreamTimed` | `OnTimedDetection`, poses 0, 1, 2 with tolerance 1, a camera that may be lost | `HeldPoseSavedOnce`: between two saves some pass saw no target or one away from the saved pose; `NoNullLiveImage` |
| `LivestreamPose` | `OnSuggestedPose`, two poses, 4 images, so that one pose is suggested and reached after the init phase | `NoNullPixmap` (the second test of `run_extraction_` does its job); out of the init phase an image is judged against, and saved for, the pose that was copied for drawing (`SavesPoseOnDisplay`) |
| `LivestreamLostCamera` | `OnButton`, the camera may be lost | a violation: see section 6 |
| `FilesRunner` | every directory of up to 4 files: 2 sizes or unreadable, with or without target; any options the dialogs accept | every readable image shown with its status (`ShowsEveryImage`); the result is `Run`'s, of exactly the right images, and complete (`ResultIsComplete`); accepted options are not refused (`OptionsFitCalibrator`); the view keeps the promise of `CalibrationView`; it ends |
| `StereoRunner` | every two directories of up to 2 such files, every options record | pairing by rank among readable files; both sides or neither; every pair shown; a result that is shown is `Run`'s, a pose-only estimate keeps both cameras through both stages, and shown cameras fit their images but for the slip of `:126` (`ShownCamerasFit`) |
| `Algorithms` | inputs below | a report imports into the options it was made with (`ImportRestores`); boards are numbered without gaps and each kept corner is paired with its point (`BoardIds`); the order of names is strict and weak, and numeric (`NaturalOrder`); pictures are inside, apart, and as high as promised (`LayoutFits`); when the relative pose is sure to be a median of the views (`MedianOfViews`); the best solution accepted is returned, and the sum the loop stops by is that of the last changes (`AnnealingKeepsBest`) |
| `Session` | 3 calibrations of any kind, 2 images each | one worker on the window's objects; the menus come back, and only when the result is shown and nothing is pending; what can be saved is what is shown |
| `SaveCalibration` | 2 calibrations, a name with and without `_stereo`, extensions `.txt`, `.dat`, `.yaml`, any files on disk before | a report lies beside its yaml, or a later one that a report with another extension brought (`PairsAgree`); nothing is overwritten that no question named, unless the chosen report was confirmed (`NoSilentOverwrite`) |
| `Undistortion` | every directory of up to 3 files, 2 workers | every image written once, none twice; the workers end before the dialog; a started run closes it |
| `StreamPreview` | 2 devices, 3 preview threads over any number of dialogs | the verdict and the picture are of the selected device; one reader has a device at a time; every join comes back |
| `AutoResetSignal` | 3 threads | no lost wake-up; every call is atomic; a raised flag is taken |

Why the bounds are enough.

* *Livestream.* `MaxImages` bounds what the user brings about: from then on the target is kept out of sight, the loop
  itself goes on for ever. Two saves are needed for the order of items; three for the end of the init phase
  (`:516`), and a fourth for a save of a pose suggested after it. `MaxEvents` bounds how many
  functors a *frame* may be queued behind; items, the transition and the result are never held back. With two, an item can lie before, between and behind frames, and the transition behind any of them.
  Poses 0, 1, 2 with tolerance 1 have a pose that matches both others, which do not match each other: a
  relation that is no equivalence, which is where "held still" is hard.
* *Files.* Three files allow each of an accepted, a rejected and an unreadable file before, between and after the
  others; four are the fewest of which a reconstruction may leave one out (30% of 4 is 1.2, of 3 it is 0.9). Two sizes
  suffice since sizes are only compared with the reader's. `One = 20`: a unit of twenty, two steps of rounding, since options
  are only compared.
* *Stereo.* Two files per side: one side may be skipped to its end while the other has an image left. Every
  combination of given sides, models and pose-only that `Validate` admits is taken.
* *Algorithms.* Boards of up to 3 by 3 with start ids 0 and 3: the first at which a middle row, a middle column and an
  offset exist. Three detections: a marker, its double and another. Names of up to three of `space 0 1 a` or `. 0 1 A`: a
  number between two characters, leading zeros, a fraction. Up to four pictures of two widths and two heights, in
  layouts of widths 8, 11, 14, 20 that begin at 0 or 3 on each axis: rows of one, of several, and a last one that is not
  full. Three solutions, four costs (one unusable) and three turns: a way down, up and down again. `One = 20` has normals
  that rounding moves and that stay within the tolerance.
* *Relative pose.* Four views are the first even number whose median position has values on both sides; positions 0, 1, 3
  have seven different relative poses, so ties as well as different values occur at every position.
* *Session.* Two calibrations show what a first one leaves behind for the next; the third begins after a second one
  that found something left behind.
* *Saving.* Two names, one being the stereo name of the other, are the only way the files of two saves can
  coincide in part; two calibrations are needed for a file to be of the wrong one. Of the
  extensions, `.txt` is the one stereo files have, `.dat` shares a yaml with it, and `.yaml` is its own yaml.
* *Undistortion.* Two workers race for the last file while there is one before and one behind to skip; the theorems
  hold for any number.
* *Preview.* Three threads: a first device, another, and back to the first, or a dialog, its calibration, and a
  second dialog. `MaxStarts` counts them over all dialogs.
* *Signal.* A setter, a waiter and a third that takes the flag before the woken waiter gets the mutex.

## 4. Fairness and deadlock

* Livestream, files, stereo: weak fairness on each thread and on the event loop. The operating system
  schedules threads; none of the code between two steps waits for anything but the signal and the join, and those are guards.
  The user owes nothing: `ShutsDown` starts from a press of "Calibrate" that did happen.
* `Session`: weak fairness for workers, and strong fairness for running a posted functor: a user who opens one
  image after another leaves the event loop again and again, and each time the loop comes back Qt sends posted
  events before it reads input. `CalibrationEnds` needs every runner to return; that is `ShutsDown` and
  `EndsWithResult` where the runners are modelled.
* `Undistortion`: strong fairness for each worker, since the reader's mutex is taken and freed again and again by the
  others (at most once per file, so this asks little of it); weak fairness of the runner and of the event loop.
* `StreamPreview`: weak fairness of the threads, of the two joins and of the pictures. Opening and reading a device are taken
  to return, with or without a frame: a driver that blocks for ever in `read` would block the GUI thread with it.
* `AutoResetSignal`: a free mutex goes to *some* thread that asks (`WF` of the disjunction: the C++ mutex is not
  fair), and a thread that holds it goes on. Nobody owes a call, a spurious wake-up or a time-out; so
  `SetIsTaken` allows threads that set or reset the flag in between.

`CHECK_DEADLOCK FALSE` is given where the system stops by itself: `FilesRunner` and `StereoRunner`
(the run is over), `Algorithms` (an input is done), `Session` (the process exits, the number of calibrations is bounded),
and the livestream with a camera that may be lost, where the code really hangs. In `LivestreamButton`
and `LivestreamPose` a finished session stutters explicitly (`Stopped`), and so does a closed dialog in `Undistortion`
(`Closed`), so that TLC's deadlock check looks for threads that wait for each other.

## 5. The proofs

All theorems hold for every value of the constants that the named assumptions admit (`PosesAssumption`: poses are
integers; `ToleranceAssumption`; `BoundsAssumption`: bounds are natural numbers; …). The bounds stay parameters. Of the
safety properties the runs check, all but one are theorems.

**`LivestreamProofs`.** `TypeCorrect`, with one lemma per actor and one step per action; the others build on it.

* *The hand-over.* `Exclusive` (`HandoffExclusive`), `Handover` and `Implementation` rest on `Turns`, the
  invariant that says whose turn it is: until the worker leaves its loop, `new_extraction_` true (or the worker between
  clearing it and setting `extract_`) means that the extraction thread is not in a pass, and `extract_` or a pass means
  that the flag is down, never both. `HandoffExclusive` alone is not inductive: it says nothing of the state before the
  worker reads the flag. `FrameInHand` (the worker has a frame whenever it may hand one over) completes the
  refinement. With pose suggestion the first pose is written before the first wait, outside the
  hand-over: `Handover` says, for every mode, that this step is the only exception, and `Implementation`
  (`ImplementsHandoff`) follows for the other two modes.
* *The end.* `SettledImages` from `Joined` (past the join the extraction thread is gone). `PoseModeHasPixmap`, for a
  camera that stays: the loop is left for the user's sake only (`LeftByUser`), so a pass that the last wake-up starts is
  stopped by the second test, and any other wake-up comes with a frame (`FrameOnWake`). `WidgetOutlives` from `QueueInv`:
  closing functors are behind all others and none but closing ones are posted after the join, so the first-in-first-out
  queue empties of the widget's users before the widget goes.
* *The tracker.* `HeldOnce`: since the last save, either some pass saw the target away from the saved pose (`Away`), or
  the tracker still compares with that pose and a running timer is the one of that save, which the forced instability stops
  (`StillHeld`). `SavesShownPose` (`SavesPoseOnDisplay`): the tracker's target and the pose the
  worker draws are copies of `current_target_points_`, made by two threads at two times. That they agree at the judgement, out
  of the init phase, rests on `DrawnIsSuggested`: whenever the extraction thread is in a pass, the worker has copied the
  last suggestion, since a pass that suggests ends without a pixmap and the hand-over comes between; and on
  `FirstInitPhase`, as in the init phase it is false. It holds for a lost camera too.
* *What is shown.* `Displayed` (`EverySaveDisplayed`) is inductive as it stands, given the types: a save adds an image and
  the last item of the queue, the event loop takes the first. The work is in counting: `ItemsAmong(q, n)` is the set of
  items among the first `n` functors, and the `Among…` lemmas say what `Append` and `Tail` do to its cardinality.
* *The live image.* `LiveImageThere` (`NoNullLiveImage`) for the hands-free mode, with `NeverUnfed`: every queued item
  finds an image by the time it runs (`Fed`), and while the functors that are queued would leave none (`~Ready`), the
  extraction thread has not seen what it needs to save (`Unseen`). In the other two modes this is false (section 6), hence
  the hypothesis.

* *The session as one view.* `SessionView` is a second refinement of `CalibrationView`, with the side bar of the live dialog
  for the items. `LastWord` knows what is still queued: one result, as the last functor, and only when `Run` has
  returned; and from the join on a transition is queued, or the progress bar is there. So no item comes after the progress
  bar, and no result before it.

**`SessionProofs`.** One invariant, `Safe`, follows the *last* calibration through its phases (running; returned with
its result posted or shown; ended, with `EndNewCalibration` behind the result; shown) and says of all earlier ones
that they are done. Each theorem reads one thing off it: `TypeCorrect`, `OneWorker`, `Idle`, `Saves`
(including that only successful calibrations are written) and `Reach` (no result is addressed to a deleted
widget). TLC checks sessions of three calibrations; these hold for sessions of any length.

**`FilesProofs`.** `Promised` is the refinement of `CalibrationView`, for every directory: `History` reads the queue as the
part of the view's history still to come (items, at most one start, at most one end, which shows a calibration only right
behind a start), and ties it to where `Run` is. `OptionsFit`: no accepted options are refused by a calibrator. It rests on
`AcceptedFit` (what `Validate` guarantees) and `SetUp` (what the set-up leaves for the checks of the camera), and holds
for every camera model. `EveryImage` (`ShowsEveryImage`) and `Completed` (`ResultIsComplete`) rest on `Shown`: the items on
display and the items queued are together one for each readable file the reader has passed (`Covered`), in order
(`Ordered`); the images kept are the good ones among those files (`Reading`); and a success has announced itself and is
complete (`Outcome`). What is shown at the end follows because the result is the last functor (`ResultIsLast`).

**`StereoProofs`.** The same widget with two of everything. `CamerasFit` (`ShownCamerasFit`) from `Returned` and `Cameras`,
which follow each camera from the options through the set-up and the two stages (`PreparedFit`, `StagesFit`, `HalfWayFits`) to
the result, and `Refused`, which follows what is refused for its parameters back to the options.
`PairedByRank` (`PairsByRank`) and `EveryPair`
(`ShowsEveryPair`) from `PairInv`: each side is done with the first so many of its readable files (`Reading`), both with as
many, except in the middle of a turn (`Level`); what is shown or queued is one item per pair done (`Covered`, `Ordered`), and
the images kept are those of the good pairs (`Selected`). As the files a side is done with are an initial part of its
readable files, the lemma `Ranking` turns equal numbers into equal ranks, which is what the code's loop relies on without
ever counting. `PairsPromised` is the third refinement of `CalibrationView`: `InOrder` has `StartCalibration` behind the last
item and before nothing but the end, and a calibration ends only behind it, while a thrown exception may end `Run` anywhere.

**`SaveProofs`.** `NothingSilent` (`NoSilentOverwrite`) from `Consented`: at each question that is open, and at the writes,
each file about to be replaced was named by a question, or the chosen report was confirmed (`MayReplace`). `ReportsAgree`
(`PairsAgree`) from `Agreeing`: no file is newer than the calibration held, and `Beside` each report lies a yaml that is of
the same camera of the same calibration if it was saved with it. Names and extensions are any, a stereo name included.

**`UndistortionProofs`.** `WritesOnce` and `ThreadsEnd` for any number of workers and any directory of at most
`MaxFiles` files. `Phases` relates runner, workers and dialog and yields `ThreadsEnd`. `Shared` yields
`WritesOnce`: whoever is inside `Next` holds the mutex (`Lock`), so between `TakePath` and `Advance` nobody else moves the
index (`Taken`); a file before the index is written, in one worker's hands, or to be skipped (`Passed`); a worker
that ends without being cancelled has seen the index at the end (`Exhausted`). The counts alone are not inductive: that a
file is written once depends on its being in one pair of hands at a time.

**`StreamPreviewProofs`.** `Speaks` and `OpensOne` for any devices and any number of threads. `Owners`: only the last thread is
alive, and a device is held by it or, once it has been joined, by the calibration. `Verdict`: what the dialog says comes from
the last thread, and its last picture is the last in the queue or the one shown; `SpeaksOfSelected` alone forgets the
queue. `InOrder` says that threads are born in the order of their numbers, so that the next one is new.

**`UtilityProofs`.** The signal and the algorithms.

* *Signal.* `Exclusion` (`MutualExclusion` and `TypeOK`), `NoneLost` and `Atomic` for any set of threads. That no wake-up
  is lost needs `Progress`: only threads in `Wait` or `WaitFor` sleep, and a call is pending until it unlocks. `Atomic` is
  the refinement of `Signal`, which justifies the one-step `Wait` of `LivestreamRunner`.
* *Import.* `ReportsImport` (`ImportRestores`) for any values of the parameters and any resolution of the numbers. The inputs
  never change, so the argument is one about the operators: what each form's fields are after a report of it. The
  rounded normal of a flat port stays within what `Validate` allows by arithmetic on sums of squares.
* *Boards.* `BoardPaired` (`BoardIds`) for boards of any size, first ids and sequences of detections. `MarkerId` counts
  along lines from the origin's corner, so it is a quotient and a remainder (`Division`), hence one-to-one and without gaps;
  `InOrder` lists the markers kept by their place in the detections, and `CountNumbered` and `KeptOnce` show that each
  corner is paired once.
* *Layout.* `PicturesFit` (`LayoutFits`) for any margins, spacings, widths, corners and number of pictures, from
  `LayoutInv`: the pictures placed are inside (`Within`) and apart, and the row being filled begins below all earlier ones
  and behind its own (`Row`); measuring and placing differ by the corner only.
* *Relative pose.* `PoseIsMedian` (`MedianOfViews`) for any number of views at any positions, one included: of the values
  below and above a position in a sorted sequence there are as many as the position says (`SortedElement`), so an even
  number gives a median (`EvenMedian`), and an odd one averages it with a greater value (`OddNoMedian`) unless most views
  share the greatest (`OddMedian`).
* *Annealing.* `BestReturned` (`AnnealingKeepsBest`) for any costs, solutions, window and number of turns. `Best` ties
  the solution kept to all those accepted, `Averaged` the running sum to a difference of two totals: the sum the code
  maintains by adding one element and dropping another is the sum of the window.

Only model-checked:

* `NaturalOrder`: the comparison of names walks both by recursion over their characters, and what a recursive function
  computes for every input is shown by induction over data, which the prover's backends cannot apply.
* All liveness properties (`ShutsDown`, `StreamKeepsExtracting`, `EndsWithResult`, `CalibrationEnds`, `ClosesItself`,
  `GuiReturns`, `SetIsTaken`): they rest on fairness and `ENABLED`, which are beyond it too.
* The disagreement of `LivestreamLostCamera` is a counterexample, found by TLC.

## 6. Where the code and its texts disagree

One disagreement is a run of its own.

* **`LivestreamLostCamera`.** The last `extract_.Set()` is there "To allow the extraction thread to close"
  (`livestream_calibration_runner.cpp:294`). When the loop ended because the camera is gone, `run_extraction_` is still
  true: the extraction thread makes another pass, waits again, and the join at `:298` never returns. TLC shows the
  behaviour; since the widget is still there a press of "Calibrate" no longer helps either, as nobody sets `extract_` again.

Others the models reach, or leave room for, without a run of their own:

* A pass that the last wake-up starts extracts from a null `current_pixmap_` in the button and timed modes, when
  "Calibrate" follows a save before the next hand-over, or precedes the first (`:369`): only pose suggestion tests
  `run_extraction_` again. So `NoNullPixmap` is checked for that mode only.
* By button, an item may be posted before any frame: the live image it is drawn into is null
  (`livestream_extraction_widget.cpp:83`). So `NoNullLiveImage` is checked for the hands-free mode, where a save
  takes several frames.
* The first suggested pose is written at `:466` before the first wait, while the worker may copy it; the comment at `:260`
  says the data may be read there. Hence the restriction of `Implementation`.
* A press of the capture button between its test and its reset (`:381`) is lost.
* Pose suggestion replaces the camera made of the user's initial parameters by a pinhole (`:451`), and the final
  calibration starts from what it finds.
* `timer_widget` (`:388-398`) is read before the GUI thread may have set it, and the functor that sets it may
  run after the extraction thread, whose local variable it refers to, has ended. Both are faults of the model.
* `DisplayExtractionImage` searches `Images()` while the worker may be adding to it (`main_window.cpp:322`); closing the
  window destroys what a detached worker uses (`main_window.cpp:107`). Both are faults of `Session`.
* The size the reader compares with is that of whatever readable file `directory_iterator` gives first, while
  the item of a rejected image says it does not match the first image (`extraction_image_widget.cpp:105`).
* Initial parameters for one side of a stereo calibration, or a second model with another number of parameters,
  pass the dialog and end in an exception (`stereo_files_calibration_runner.cpp:113`).
* The cases of the median are exchanged (`stereo_calibration.cpp:95`): an odd number of views averages two values,
  one of which is no middle, though the comment at `:55` promises "the median of each translation component and rotation
  vector component". `MedianOfViews` says exactly when the promise is kept: one outlier among three views may move the
  estimate by half its error.
* A cancelled file dialog does not return (`main_window.cpp:189-193`): `.yaml` is written to the current directory. A name
  typed with the extension `.yaml` is the report's and the yaml's path at once, and only the yaml remains. Names that
  differ in their extension only share one yaml, so a report may lie beside the yaml of a later calibration: `PairsAgree`
  has this as its one exception. A confirmed report is taken for consent to the save's other files, which no question names.
* In the init phase of pose suggestion a detection is judged against a pose suggested in the same pass (`:508-513`), which
  the worker has not drawn yet; so `SavesPoseOnDisplay` begins after it. The calibrations at `:496` and `:528` are in no `try`
  block: an exception of OpenCV or of `BasicCalibrator` ends the process. And `main_window.cpp:99-107` destroys the runner with
  the worker's functor while the extraction widget, whose buttons call it, may still be on the screen. The last two are
  faults of the model.
* Two more. `image_size2` is set to `image_size1`
  (`stereo_files_calibration_runner.cpp:126`), though it is the "Image size in pixel (width, height)" of the second
  camera (`stereo_calibrator.h:20`); `ShownCamerasFit` excepts this case, in which the second camera is calibrated and shown
  with the first one's size. And `stereo_calibration.h:32` promises "The transformation which transforms a
  point from the coordinate system of camera 1 to camera 2."; for a single view `stereo_calibration.cpp:69` returns its inverse.
* A device that is lost after its first frame still passes `Validate`: `valid_device_` is only cleared by the next choice of
  a device (`stream_calibration_dialog.cpp:187`). So `SpeaksOfSelected` speaks of a frame that was given, not of one that will be.
* The livestream dialog accepts a housing together with a 3D target; `Setup3DTargetCalibration` ignores the housing
  (`livestream_calibration_runner.cpp:100-152`).
* The undistortion dialog is destroyed with a joinable `runner_` when the window system closes the window of the disabled
  dialog (`undistortion_dialog.cpp:203`). This is the fault of `Undistortion`.
* Undistorted images are written under the input's name with a suffix. When the output directory is the input's, an
  `a_u.png` beside an `a.png` may be overwritten before it is read; and the result of `Write` is not looked at
  (`undistortion_dialog.cpp:28-31`).
* Readers and cameras constructed outside the `try` blocks end the process when they throw.
* An import sets an ArUco board's origin, direction and border to those of a new dialog, whatever the report says
  (`file_calibration_dialog.cpp:107`), and the report has no `start_id`. `ImportRestores` excepts the three.
* The stream dialog's `SetOptions` does not restore `device_index`. After a stereo dialog `last_directory_` is
  given the second directory twice and never the first (`main_window.cpp:153`).
* `natural_sort::compare` reads beyond the end of two names that each end in several spaces; the branch for a
  fraction against an integer (`natural_sort.h:93`) cannot be reached from names the callers have.
* `SimulatedAnnealing` may return a worse solution than it was given: the best cost starts at the numeric
  maximum (`simmulated_annealing.cpp:105`), so the start does not count.
* A layout without width inside its margins divides by zero (`image_flow_layout.cpp:161`).

## 7. Not modelled

* *Optimisation* (OpenCV, Ceres, COLMAP) and *detection* in images: floating-point numerics, kept as a choice between
  success and an exception at the places where the runners see them. Of `InitializeFromReconstruction` and the 3D
  extractors only what the runners see is kept: which images are registered.
* *Rendering and result widgets*: painting on the GUI thread from data handed over by value. Forms, wording, and licences.
* *Python bindings and scripts*: a one-to-one wrapping without state.
* `ManualResetSignal` and `BlockingQueue`: no code uses them; the same is true of some helpers (`natural_sort`'s `char*` overload).
* `lib/colmap`: vendored, and by far the largest part of the tree. The program uses its camera models, bundle adjustment and
  matching as black boxes; measured against the whole tree, vendored code included, the modelled share is small.

Some hazards have no property, with the reason at their entry in `PROJECT.json`: the camera that pose suggestion
replaces, `timer_widget`, and the two faults of `Session`.

## 8. The plan

Done: the livestream runner with its signal, the session, the file and stereo runners, the options and calibrators, the
import of reports, saving, the undistortion, the preview, the algorithms, and the proofs above.

What a next version could add:

1. The order in which the live stream's pictures reach the screen, as an abstract specification of its own.
2. The chessboard's and the 3D extractors' choice of points, as `ArucoBoard` has it.
