--------------------------- MODULE CalibrationData ---------------------------
(***************************************************************************)
(* What a calibration is made of: images, each with the points found in it *)
(* and, for the index of a point (from 0), the id of the 3D point it       *)
(* shows; and the 3D points, each found by its id.                         *)
(***************************************************************************)
EXTENDS Integers, Sequences

\* An image with a sequence of points, the i-th of which shows ids[i].
ImageOf(points, ids) ==
    [points2D |-> points, correspondences |-> [idx \in 0 .. Len(ids) - 1 |-> ids[idx + 1]]]

Point2D(image, idx) == image.points2D[idx + 1]

\* GetCorrespondences: for each image, which point of it goes with which 3D
\* point.  The two vectors the code fills are in the order of an
\* unordered_map, the same for both.
GetCorrespondences(images, points3D) ==
    [i \in DOMAIN images |->
        {<<Point2D(images[i], pair[1]), pair[2]>> :
            pair \in {c \in (DOMAIN images[i].correspondences) \X points3D :
                        c[2].id = images[i].correspondences[c[1]]}}]
=============================================================================
