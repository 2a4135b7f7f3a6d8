----------------------------- MODULE Algorithms -----------------------------
(***************************************************************************)
(* The parts of the program that compute without a state of their own,     *)
(* each run on every input within bounds: options on their way through     *)
(* dialogs and reports, the points of an ArUco board, the order of file    *)
(* names, the layout of pictures, the relative pose of two cameras, and    *)
(* simulated annealing.  A behaviour takes one of them, puts an input      *)
(* together, and for the last three goes through the steps.                *)
(***************************************************************************)
EXTENDS CalibrationOptions, ArucoBoard, NaturalSort, Annealing, FlowLayout, RelativePose,
        SequencesExt

CONSTANTS
    Models,        \* the camera models tried
    Values,        \* the values parameters take
    BoardSide,     \* bound: rows and columns of a board
    Widths,        \* widths of layouts
    Corners,       \* where layouts begin, on each axis
    PictureWidths, PictureHeights,
    MaxPictures,   \* bound: pictures in a layout
    Positions,     \* positions of a target along an axis
    MaxViews,      \* bound: views of the target
    Costs,         \* costs of solutions
    MaxTurns       \* bound: turns of the annealing

ASSUME ModelsAssumption == Models \subseteq DOMAIN CameraModels
ASSUME NumbersAssumption ==
    /\ Values \cup Positions \subseteq Int /\ Costs \subseteq Int
    /\ BoardSide \in Nat /\ MaxViews \in Nat /\ MaxTurns \in Nat
    /\ \A cost \in Costs : cost =< Unusable

VARIABLE subject   \* what is computed, and its input

\* What a picture asks for.
Pictures == [width : PictureWidths, height : PictureHeights]

\* A layout is wider than its margins, and scales no picture down to nothing.
ASSUME LayoutAssumption ==
    /\ Corners \subseteq Int /\ MaxPictures \in Nat
    /\ PictureWidths \subseteq Nat \ {0} /\ PictureHeights \subseteq Nat \ {0}
    /\ \A width \in Widths :
          /\ width \in Nat /\ width > 2 * Margin
          /\ \A item \in Pictures : TargetHeight(width - 2 * Margin, item) > 0

Idle == [of |-> "nothing"]
Init == subject = Idle
Compute(input) == subject' = input

-----------------------------------------------------------------------------
(* Inputs *)

\* Texts of parameters: none that can be read, or some number of a value.
Texts(counts) == {<<>>} \cup {[i \in 1 .. n |-> v] : n \in counts, v \in Values}
CameraTexts == Texts({CameraModels[model] : model \in Models})

\* A normal in front of the flat port's other parameters.
WithNormal(v) == v \o [i \in 1 .. 5 |-> 0]
HousingForms ==
    {{}}
    \cup {{[type |-> "DOMEPORT", parameters |-> p]} : p \in Texts({3, 8})}
    \cup {{[type |-> "FLATPORT", parameters |-> p]} :
             p \in {<<>>, WithNormal(<<0, 0, One>>), WithNormal(<<0, 0, 0>>)}}

Targets ==
    {Chessboard(4, 5, 20), Target3D, Target3DAruco("5X5", 1500)}
    \cup {ArucoBoard("4X4", origin, direction, 3, 2, 10, 5, bits) :
             origin \in {"TopLeft", "BottomRight"}, direction \in GridDirections, bits \in {1, 2}}

Forms == [camera_model : Models, target : Targets, housing : HousingForms,
          initial : {{}} \cup {{p} : p \in CameraTexts}]

\* A normal that one of the sphere gives, counted in integers.
UnitNormals == {v \in {<<a, b, c>> : a \in 0 .. One, b \in 0 .. One, c \in -One .. One} :
                   /\ SquaredNorm(v) > (One - 1) * (One - 1)
                   /\ SquaredNorm(v) < (One + 1) * (One + 1)}

\* What the optimisation may make of the parameters.
Estimates(options) ==
    {[camera |-> [i \in 1 .. CameraModels[options.camera_model] |-> 14 * i], housing |-> h] :
        h \in IF \E p \in options.housing_calibration : p.type = "FLATPORT"
              THEN {WithNormal(n) : n \in UnitNormals}
              ELSE {[i \in 1 .. 8 |-> 3]}}

\* What earlier attempts, refused or not, may have left in a dialog.
LeftOver == {AfterValidate(NoMembers, f) : f \in {f \in Forms : f.target = Target3D}}

\* A calibration is made with a form, and its report imported into a dialog.
\* Targets and housings are imported independently of each other.
CalibrateAndImport ==
    /\ subject = Idle
    /\ \E form \in {f \in Forms : Validate(f) /\ (f.housing = {} \/ f.target = Target3D)} :
        \E estimate \in Estimates(Accepted(form)), members \in LeftOver :
            Compute([of |-> "import", options |-> Accepted(form), estimate |-> estimate,
                     members |-> members])

Boards == [rows : 1 .. BoardSide, columns : 1 .. BoardSide, start_id : {0, 3},
           grid_origin : GridOrigins, grid_direction : GridDirections]

\* Markers found in an image: any of the board's, and twice the first or last
\* of it or one beside its ids, the second time too close to the border or not.
Detect ==
    /\ subject = Idle
    /\ \E board \in Boards, is_apriltag \in BOOLEAN, close_to_border \in BOOLEAN :
        \E at \in Grid(board), id \in {0, board.start_id, MaxId(board), MaxId(board) + 1} :
            Compute([of |-> "board", board |-> board, is_apriltag |-> is_apriltag,
                     detected |-> <<[id |-> id, close_to_border |-> FALSE],
                                    [id |-> MarkerId(board, at[1], at[2]), close_to_border |-> FALSE],
                                    [id |-> id, close_to_border |-> close_to_border]>>])

UpToThree(chars) == UNION {[1 .. n -> chars] : n \in 0 .. 3}
Names == UpToThree({Space, Zero, Zero + 1, 97}) \cup UpToThree({Dot, Zero, Zero + 1, 65})

CompareNames == subject = Idle /\ \E name \in Names : Compute([of |-> "name", name |-> name])

\* The pictures go through the loop twice: for the height the layout asks for,
\* and for the places it gives them.
BeginLayout ==
    /\ subject = Idle
    /\ \E x, y \in Corners, width \in Widths :
        LET rect == [x |-> x, y |-> y, width |-> width, height |-> 0] IN
        Compute([of |-> "layout", items |-> <<>>, rect |-> rect,
                 measured |-> Corner(Measured(width)), set |-> Corner(rect)])

LayOut ==
    /\ subject.of = "layout" /\ Len(subject.items) < MaxPictures
    /\ \E item \in Pictures :
        subject' = [subject EXCEPT
                       !.items = Append(@, item),
                       !.measured = Place(Measured(subject.rect.width), @, item),
                       !.set = Place(subject.rect, @, item)]

\* The target is in a view of both cameras.
SeeTarget ==
    \E p, q \in Positions :
        \/ subject = Idle /\ Compute([of |-> "poses", abs_poses1 |-> <<p>>, abs_poses2 |-> <<q>>])
        \/ /\ subject.of = "poses" /\ Len(subject.abs_poses1) < MaxViews
           /\ subject' = [subject EXCEPT !.abs_poses1 = Append(@, p), !.abs_poses2 = Append(@, q)]

\* accepted are the solutions the annealing went through, totals the sums of
\* the first, the first two and so on of the changes of the cost on the way.
BeginAnnealing ==
    /\ subject = Idle
    /\ \E cost \in [Solutions -> Costs], x \in Solutions :
        Compute([of |-> "annealing", cost |-> cost, turns |-> 0, accepted |-> {},
                 totals |-> <<0>>, search |-> Start(x, cost[x])])

Anneal ==
    /\ subject.of = "annealing" /\ ~subject.search.stopped /\ subject.turns < MaxTurns
    /\ \E x_new \in NextSolutions(subject.search.x, MaxTurns - subject.turns) :
          \E accepted \in Acceptable(subject.search, subject.cost[x_new]) :
              subject' = [subject EXCEPT
                             !.turns = @ + 1,
                             !.search = Turn(@, x_new, subject.cost[x_new], accepted),
                             !.accepted = IF accepted /\ subject.cost[x_new] # Unusable
                                          THEN @ \cup {x_new} ELSE @,
                             !.totals =
                                IF subject.cost[x_new] = Unusable THEN @
                                ELSE Append(@, @[Len(@)] + Distance(subject.search.cost_new,
                                                                    subject.cost[x_new]))]

Next ==
    \/ CalibrateAndImport \/ Detect \/ CompareNames \/ BeginLayout \/ LayOut
    \/ SeeTarget \/ BeginAnnealing \/ Anneal

Spec == Init /\ [][Next]_subject

-----------------------------------------------------------------------------
(* Options *)

\* The options a dialog promises after the import of a calibration: the same
\* model, housing and target, with the estimated parameters to six decimals.
\* Of an ArUco board, where its ids begin, where they go and its border are
\* those of a new dialog.
Recalibration(options, estimate) ==
    [camera_model |-> options.camera_model,
     calibration_target_options |->
        LET target == options.calibration_target_options IN
        IF target.type = "ArucoGridBoard"
        THEN [target EXCEPT !.grid_origin = "TopLeft", !.grid_direction = "Horizontal",
                            !.border_bits = 1]
        ELSE target,
     housing_calibration |->
        {[h EXCEPT !.parameters = VectorToCSV(estimate.housing)] : h \in options.housing_calibration},
     initial_camera_parameters |-> {VectorToCSV(estimate.camera)}]

\* The report of any calibration imports into a form that validates as it is,
\* and what the dialog then returns are the calibration's options, whatever a
\* Validate before the import has left in its members.  For a flat port the
\* normal must survive the rounding to six decimals within the 1e-6 that
\* Validate allows.
ImportRestores ==
    subject.of = "import" =>
        LET yaml == GenerateCalibrationYaml(subject.options, subject.estimate.camera,
                                            subject.estimate.housing)
            form == ImportParameters(ImportFromYaml(yaml))
        IN /\ Validate(form)
           /\ GetOptions(AfterValidate(subject.members, form), form)
                 = Recalibration(subject.options, subject.estimate)

-----------------------------------------------------------------------------
(* Boards *)

\* OpenCV draws an AprilTag turned by a half: corner k of a detection is this
\* corner of the marker.
CornerSeen(is_apriltag, k) ==
    IF is_apriltag THEN <<2, 3, 0, 1>>[k + 1] ELSE k

\* Every position of the board has an id of its own, the ids are without a gap
\* from start_id on, the first lies in the corner the grid begins in, those of
\* a line along the grid's direction are consecutive, and the points fill the
\* vector the constructor allocates.
NumbersTheBoard(board) ==
    LET Id(at) == MarkerId(board, at[1], at[2])
        origin == <<IF board.grid_origin \in {"TopLeft", "TopRight"} THEN 0 ELSE board.rows - 1,
                    IF board.grid_origin \in {"TopLeft", "BottomLeft"} THEN 0 ELSE board.columns - 1>>
    IN /\ {Id(at) : at \in Grid(board)} = board.start_id .. MaxId(board)
       /\ Id(origin) = board.start_id
       /\ \A at, other \in Grid(board) :
             IF board.grid_direction = "Horizontal"
             THEN at[1] = other[1] => Id(at) - Id(other) < board.columns
             ELSE at[2] = other[2] => Id(at) - Id(other) < board.rows
       /\ {p.id : p \in Points3D(board)} = 0 .. 4 * board.rows * board.columns - 1

\* Whatever mix of own, foreign, doubled and cut markers is detected, and
\* wherever the ids begin and go, the calibration pairs each corner kept with
\* the point of the board it shows, once, and leaves none of them out.
BoardIds ==
    subject.of = "board" =>
        LET points3D == Points3D(subject.board)
            image == Extract(subject.board, subject.is_apriltag, subject.detected)
            pairs == GetCorrespondences(<<image>>, points3D)[1]
        IN /\ NumbersTheBoard(subject.board)
           /\ \A pair \in pairs :
                 LET seen == pair[1] IN
                 /\ subject.detected[seen.marker].id = MarkerId(subject.board, pair[2].row, pair[2].col)
                 /\ pair[2].corner = CornerSeen(subject.is_apriltag, seen.corner)
           /\ Cardinality(pairs) = 4 * Cardinality(Kept(subject.board, subject.detected))
           /\ Cardinality({pair[2] : pair \in pairs}) = Cardinality(pairs)

-----------------------------------------------------------------------------
(* File names *)

\* Two such names are compared beyond their ends, which may come out either way.
EndsInSpaces(name) == Len(name) >= 2 /\ name[Len(name)] = Space /\ name[Len(name) - 1] = Space
FileNames == {n \in Names : ~EndsInSpaces(n)}

\* What comes after each name, and what is neither before nor after it.
After == [s \in FileNames |-> {t \in FileNames : Compare(s, t) = {TRUE}}]
Alike == [s \in FileNames |-> {t \in FileNames : t \notin After[s] /\ s \notin After[t]}]

\* A name that is some characters and a number, which is no decimal's fraction.
Numbered(prefix, digits) ==
    prefix \o digits \in Names /\ (prefix = <<>> \/ prefix[Len(prefix)] \notin Digits \cup {Dot})
Number(digits) == FoldLeft(LAMBDA value, d : 10 * value + (d - Zero), 0, digits)
DigitRuns == UNION {[1 .. n -> {Zero, Zero + 1}] : n \in 1 .. 3}

\* What std::sort asks of a comparison, which the pairing of a stereo
\* calibration's files rests on: no two names are each before the other,
\* `before' and `alike' are transitive; and names with the same beginning
\* come in the order of their numbers.
NaturalOrder ==
    subject.of = "name" /\ ~EndsInSpaces(subject.name) =>
        LET s == subject.name IN
        /\ \A t \in Names : Cardinality(Compare(s, t)) = 1
        /\ \A t \in After[s] : s \notin After[t] /\ After[t] \subseteq After[s]
        /\ s \in Alike[s] /\ \A t \in Alike[s] : Alike[t] = Alike[s]
        /\ \A m, n \in DigitRuns :
              Numbered(s, m) /\ Numbered(s, n) /\ Number(m) < Number(n) => s \o n \in After[s \o m]

-----------------------------------------------------------------------------
(* Layout *)

Overlap(a, b) ==
    /\ a.x < b.x + b.width /\ b.x < a.x + a.width
    /\ a.y < b.y + b.height /\ b.y < a.y + a.height

\* Wherever the layout lies, every picture is inside its margins and no wider
\* than it asks to be, no two overlap, and the height QLayout was told for the
\* width is the height they take up.
LayoutFits ==
    subject.of = "layout" /\ subject.items # <<>> =>
        LET area == Effective(subject.rect)
            placed == subject.set.placed
            height == LayoutHeight(Measured(subject.rect.width), subject.measured)
            bottom == subject.rect.y + height - Margin
        IN /\ \A i \in DOMAIN placed :
                 /\ area.x =< placed[i].x /\ Right(placed[i]) =< Right(area)
                 /\ area.y =< placed[i].y /\ placed[i].y + placed[i].height =< bottom
                 /\ placed[i].width =< subject.items[i].width
           /\ \A i, k \in DOMAIN placed : i # k => ~Overlap(placed[i], placed[k])
           /\ \E i \in DOMAIN placed : placed[i].y + placed[i].height = bottom

-----------------------------------------------------------------------------
(* Relative poses *)

\* Twice a median: at most half of the values are below it, and at most half above.
IsMedian(vec, r) ==
    /\ 2 * Cardinality({i \in DOMAIN vec : 2 * vec[i] < r}) =< Len(vec)
    /\ 2 * Cardinality({i \in DOMAIN vec : 2 * vec[i] > r}) =< Len(vec)

Highest(vec) == {i \in DOMAIN vec : \A j \in DOMAIN vec : vec[j] =< vec[i]}

\* When the estimate is sure to be what the comment of EstimateRelativePose says
\* (stereo_calibration.cpp:55), a median of the views, which one flipped pose cannot
\* carry away: always for an even number of views; for an odd number, where :95-102
\* averages the median with one of the values behind it, only if more than half of the
\* views give the greatest value; and for a single view, where :69 returns the pose of
\* the opposite direction, only if there is no displacement.
MedianOfViews ==
    subject.of = "poses" =>
        LET vec == Component(subject.abs_poses1, subject.abs_poses2)
            n == Len(vec)
        IN (\A r \in EstimateRelativePose(subject.abs_poses1, subject.abs_poses2) : IsMedian(vec, r))
           <=> \/ n % 2 = 0
               \/ n % 2 = 1 /\ n > 1 /\ 2 * Cardinality(Highest(vec)) > n
               \/ n = 1 /\ vec[1] = 0

-----------------------------------------------------------------------------
(* Annealing *)

\* Whatever is accepted on the way, the result is a solution within its bounds
\* whose cost is that reported, and no solution accepted is cheaper; and the sum
\* that decides when to stop, kept up by adding and subtracting, is the sum of the
\* last changes of the cost, of AvgLimit at most.
AnnealingKeepsBest ==
    subject.of = "annealing" =>
        LET search == subject.search
            n == Len(subject.totals)
            window == IF n - 1 =< AvgLimit THEN n - 1 ELSE AvgLimit
        IN
        /\ search.x \in Solutions
        /\ \A x \in subject.accepted : search.minf =< subject.cost[x]
        /\ IF subject.accepted = {} THEN search.minf = Unusable
           ELSE search.x \in subject.accepted /\ search.minf = subject.cost[search.x]
        /\ Len(search.rolling_avg_elems) = window
        /\ search.avg_sum = subject.totals[n] - subject.totals[n - window]
=============================================================================
