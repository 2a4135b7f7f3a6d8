----------------------------- MODULE ArucoBoard -----------------------------
(***************************************************************************)
(* ArucoBoardFeatureExtractor: which point of the board each corner of     *)
(* each marker is, and which points of an image are said to show it.       *)
(* Positions on the board and in an image are left to the constructor's    *)
(* loop and to the detector: a point of the board is a position of the     *)
(* grid (row and column from the top left) and a corner, 0 to 3 clockwise  *)
(* from the top left; the point of the image a detection holds is named by *)
(* the detection's index and the index of the corner in it.                *)
(***************************************************************************)
EXTENDS CalibrationData, FiniteSets

\* The ids run along the grid's direction, from its origin: the position
\* counted in that way of the marker at a row and a column.
MarkerCol(board, row, col) ==
    LET c == IF board.grid_origin \in {"TopLeft", "BottomLeft"} THEN col
             ELSE (board.columns - 1) - col
        r == IF board.grid_origin \in {"TopLeft", "TopRight"} THEN row
             ELSE (board.rows - 1) - row
    IN IF board.grid_direction = "Horizontal" THEN c ELSE r

MarkerRow(board, row, col) ==
    LET c == IF board.grid_origin \in {"TopLeft", "BottomLeft"} THEN col
             ELSE (board.columns - 1) - col
        r == IF board.grid_origin \in {"TopLeft", "TopRight"} THEN row
             ELSE (board.rows - 1) - row
    IN IF board.grid_direction = "Horizontal" THEN r ELSE c

\* Mutant: the width counts in either direction.
MarkerIdByWidth(board, row, col) ==
    board.start_id + MarkerCol(board, row, col) + MarkerRow(board, row, col) * board.columns

MarkerId(board, row, col) ==
    board.start_id + MarkerCol(board, row, col)
    + MarkerRow(board, row, col) * (IF board.grid_direction = "Horizontal"
                                    THEN board.columns ELSE board.rows)

MapMarkerCornerToPointId(board, marker_id, corner) == (marker_id - board.start_id) * 4 + corner

Grid(board) == (0 .. board.rows - 1) \X (0 .. board.columns - 1)

\* points3D_ of the constructor: what lies at a point id.
Points3D(board) ==
    {[id |-> MapMarkerCornerToPointId(board, MarkerId(board, at[1], at[2]), j),
      row |-> at[1], col |-> at[2], corner |-> j] : at \in Grid(board), j \in 0 .. 3}

-----------------------------------------------------------------------------
(* Extract.  detected is the sequence of what the detector found: marker   *)
(* ids, each with the corners in the detector's order, and whether one of  *)
(* them is close to the image's border.                                    *)

\* An id found twice counts where it was found last; ids are visited in order.
IdToIdx(detected) ==
    [id \in {detected[i].id : i \in DOMAIN detected} |->
        CHOOSE i \in DOMAIN detected :
            detected[i].id = id /\ \A k \in DOMAIN detected : detected[k].id = id => k =< i]

MaxId(board) == board.columns * board.rows + board.start_id - 1

Kept(board, detected) ==
    {i \in {IdToIdx(detected)[id] : id \in DOMAIN IdToIdx(detected)} :
        /\ detected[i].id \in board.start_id .. MaxId(board)
        /\ ~detected[i].close_to_border}

\* OpenCV's AprilTag detector starts at the bottom right.
CornerInDetection(is_apriltag, j) == IF is_apriltag THEN (j + 2) % 4 ELSE j

\* The markers kept in the order of their ids.
InOrder(kept, detected) ==
    [n \in 1 .. Cardinality(kept) |->
        CHOOSE i \in kept : Cardinality({k \in kept : detected[k].id < detected[i].id}) = n - 1]

\* The image Extract fills: four points for each marker kept, in the order of
\* ids, each with the id of the board's point.
Extract(board, is_apriltag, detected) ==
    LET markers == InOrder(Kept(board, detected), detected)
        corners == [n \in 1 .. 4 * Len(markers) |-> <<markers[(n - 1) \div 4 + 1], (n - 1) % 4>>]
    IN ImageOf([n \in DOMAIN corners |-> [marker |-> corners[n][1],
                                          corner |-> CornerInDetection(is_apriltag, corners[n][2])]],
               [n \in DOMAIN corners |->
                    MapMarkerCornerToPointId(board, detected[corners[n][1]].id, corners[n][2])])
=============================================================================
