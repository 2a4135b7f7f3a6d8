------------------------- MODULE CalibrationOptions -------------------------
(***************************************************************************)
(* The options of a calibration on their way through the program: typed    *)
(* into a dialog, validated, handed to a runner, remembered for the next   *)
(* dialog, written into the yaml of the calibration, and imported from it. *)
(*                                                                         *)
(* A std::optional is a set of at most one element.  A text of numbers     *)
(* separated by commas is the sequence of the numbers; <<>> stands for a   *)
(* text that gives none.  Parameters are integers, ten of which make a     *)
(* unit of the sixth decimal place; the sizes of a target are counted in   *)
(* thousandths, all that their edits hold and less than to_string keeps.   *)
(***************************************************************************)
EXTENDS Integers, Sequences

CONSTANT
    One     \* the integer that stands for the number 1

\* The code has 10000000 for it.
ASSUME OneAssumption == One \in Nat /\ One >= 10

\* The camera models and housings, and how many parameters each has.
CameraModels == [SIMPLE_PINHOLE |-> 3, PINHOLE |-> 4, SIMPLE_RADIAL |-> 4, RADIAL |-> 5,
                 OPENCV |-> 8, FULL_OPENCV |-> 12, OPENCV_FISHEYE |-> 8]
HousingInterfaces == [DOMEPORT |-> 8, FLATPORT |-> 8]

GridOrigins == {"TopLeft", "TopRight", "BottomLeft", "BottomRight"}
GridDirections == {"Horizontal", "Vertical"}

\* The calibration targets.
Chessboard(rows, columns, square_size) ==
    [type |-> "Chessboard", rows |-> rows, columns |-> columns, square_size |-> square_size]
ArucoBoard(aruco_type, origin, direction, columns, rows, square_size, spacing, border_bits) ==
    [type |-> "ArucoGridBoard", aruco_type |-> aruco_type, grid_origin |-> origin,
     grid_direction |-> direction, start_id |-> 0, columns |-> columns, rows |-> rows,
     square_size |-> square_size, spacing |-> spacing, border_bits |-> border_bits]
Target3D == [type |-> "Target3D"]
Target3DAruco(aruco_type, scale_factor) ==
    [type |-> "Target3DAruco", aruco_type |-> aruco_type, scale_factor |-> scale_factor]

\* std::to_string keeps six decimals.
Rounded(number) == 10 * ((number + 5) \div 10)
VectorToCSV(numbers) == [i \in DOMAIN numbers |-> Rounded(numbers[i])]

-----------------------------------------------------------------------------
(* CommonCalibrationOptionsWidget: a form of what its edits hold           *)
(* (camera_model, initial, housing, target), and the two members that      *)
(* Validate assigns and GetOptions reads.                                  *)

NoMembers == [housing_calibration_ |-> {}, initial_camera_parameters_ |-> {}]

SquaredNorm(v) == v[1] * v[1] + v[2] * v[2] + v[3] * v[3]
IsNormalized(v) ==
    /\ SquaredNorm(v) >= (One - 10) * (One - 10)
    /\ SquaredNorm(v) =< (One + 10) * (One + 10)

HousingAccepted(housing) ==
    \A h \in housing :
        /\ Len(h.parameters) = HousingInterfaces[h.type]
        /\ h.type = "FLATPORT" => IsNormalized(h.parameters)

CameraAccepted(form) == \A p \in form.initial : Len(p) = CameraModels[form.camera_model]

\* Mutant: a housing is accepted without camera parameters.
ValidateParametersOnly(form) == HousingAccepted(form.housing) /\ CameraAccepted(form)

Validate(form) ==
    /\ HousingAccepted(form.housing) /\ CameraAccepted(form)
    /\ form.housing # {} => form.initial # {}

\* Mutant: what is accepted later does not replace what was accepted first.
KeepMembers(members, form) ==
    [housing_calibration_ |->
        IF HousingAccepted(form.housing) /\ members.housing_calibration_ = {}
        THEN form.housing ELSE members.housing_calibration_,
     initial_camera_parameters_ |->
        IF HousingAccepted(form.housing) /\ CameraAccepted(form)
        THEN form.initial ELSE members.initial_camera_parameters_]

\* The members after a Validate, which stops at the first thing it refuses.
AfterValidate(members, form) ==
    [housing_calibration_ |->
        IF HousingAccepted(form.housing) THEN form.housing ELSE members.housing_calibration_,
     initial_camera_parameters_ |->
        IF HousingAccepted(form.housing) /\ CameraAccepted(form)
        THEN form.initial ELSE members.initial_camera_parameters_]

GetOptions(members, form) ==
    [camera_model |-> form.camera_model, calibration_target_options |-> form.target,
     housing_calibration |-> members.housing_calibration_,
     initial_camera_parameters |-> members.initial_camera_parameters_]

FormHousing(housing) == {[h EXCEPT !.parameters = VectorToCSV(@)] : h \in housing}

\* The form of a dialog opened with remembered or imported options.
SetOptions(options) ==
    [camera_model |-> options.camera_model, target |-> options.calibration_target_options,
     housing |-> FormHousing(options.housing_calibration),
     initial |-> {VectorToCSV(p) : p \in options.initial_camera_parameters}]

\* What the form of a fresh dialog shows, once it is accepted.
Accepted(form) == GetOptions(AfterValidate(NoMembers, form), form)

\* What a runner tells the options apart by.
Is3DTarget(options) == options.calibration_target_options.type \in {"Target3D", "Target3DAruco"}

-----------------------------------------------------------------------------
(* The report of a calibration, and its import *)

\* The first line of the target's description names its kind; the numbers
\* follow in this order.  start_id is not among them.
TargetInfo(target) ==
    CASE target.type = "Chessboard" -> <<target.columns, target.rows, target.square_size>>
      [] target.type = "ArucoGridBoard" ->
            <<target.aruco_type, target.columns, target.rows, target.square_size, target.spacing,
              target.border_bits, target.grid_origin, target.grid_direction>>
      [] target.type = "Target3DAruco" -> <<target.aruco_type, target.scale_factor>>
      [] target.type = "Target3D" -> <<>>

\* The yaml of a calibration made with these options, which estimated the
\* camera's parameters and those of the housing.  It keeps ten digits, which is
\* more than a form shows of a number below 10000.
GenerateCalibrationYaml(options, parameters, housing_parameters) ==
    [model |-> options.camera_model, parameters |-> parameters,
     non_svp_model |-> {h.type : h \in options.housing_calibration},
     non_svp_parameters |-> IF options.housing_calibration = {} THEN <<>> ELSE housing_parameters,
     target |-> options.calibration_target_options.type,
     values |-> TargetInfo(options.calibration_target_options)]

\* ImportFromYaml, of what the dialogs read.
ImportFromYaml(yaml) ==
    [camera_model |-> yaml.model, camera_parameters |-> yaml.parameters,
     housing_model |-> yaml.non_svp_model, housing_parameters |-> yaml.non_svp_parameters,
     calibration_target |-> yaml.target, values |-> yaml.values]

\* The target a dialog makes of an import: the board's origin, direction and
\* border are not taken from it.
ImportedTarget(p) ==
    CASE p.calibration_target = "Chessboard" -> Chessboard(p.values[2], p.values[1], p.values[3])
      [] p.calibration_target = "Target3D" -> Target3D
      [] p.calibration_target = "Target3DAruco" -> Target3DAruco(p.values[1], p.values[2])
      [] p.calibration_target = "ArucoGridBoard" ->
            ArucoBoard(p.values[1], "TopLeft", "Horizontal", p.values[2], p.values[3],
                       p.values[4], p.values[5], 1)

\* ImportParameters: the form of the dialog after an import.
ImportParameters(p) ==
    SetOptions([camera_model |-> p.camera_model, calibration_target_options |-> ImportedTarget(p),
                housing_calibration |->
                    {[type |-> type, parameters |-> p.housing_parameters] : type \in p.housing_model},
                initial_camera_parameters |-> {p.camera_parameters}])
=============================================================================
