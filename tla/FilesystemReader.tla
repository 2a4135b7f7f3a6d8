-------------------------- MODULE FilesystemReader --------------------------
(***************************************************************************)
(* FilesystemImageReader: a directory read image by image.  A directory is *)
(* the sequence of its files in natural sort order, the order they are     *)
(* read in.  Of a file only its image size and whether the calibration     *)
(* target is found in it matter; a file that is no image is Unreadable.    *)
(* A reader is a record of the object's members.                           *)
(***************************************************************************)
EXTENDS Integers, Sequences, FiniteSets

CONSTANTS
    Sizes,      \* image sizes (width, height)
    MaxFiles    \* bound: regular files in a directory

Unreadable == "unreadable"
NoSize == "unset"              \* image_width_ = image_height_ = -1

ASSUME SizesAssumption == Sizes \cap {Unreadable, NoSize} = {}
ASSUME MaxFilesAssumption == MaxFiles \in Nat

Readable(file) == file.size # Unreadable

Files == {f \in [size : Sizes \cup {Unreadable}, target : BOOLEAN] :
             Readable(f) \/ ~f.target}
Directories == UNION {[1 .. n -> Files] : n \in 0 .. MaxFiles}
Readers == [image_paths_ : Seq(Files), file_index_ : Nat, image_size_ : Sizes \cup {NoSize}]

\* The positions of the files of a directory that can be read.
ReadableFiles(dir) == {k \in DOMAIN dir : Readable(dir[k])}

\* The constructor takes the size of the first readable file of the
\* directory_iterator, whose order is unspecified, and sorts afterwards.
NewReaders(dir) ==
    {[image_paths_ |-> dir, file_index_ |-> 0, image_size_ |-> s] :
        s \in IF ReadableFiles(dir) = {} THEN {NoSize} ELSE {dir[k].size : k \in ReadableFiles(dir)}}

HasNext(reader) == reader.file_index_ < Len(reader.image_paths_)

NextFile(reader) == reader.image_paths_[reader.file_index_ + 1]

\* The status of Next.
NextStatus(reader) ==
    CASE ~HasNext(reader) -> "NO_MORE_IMAGES"
      [] HasNext(reader) /\ ~Readable(NextFile(reader)) -> "READ_ERROR"
      [] HasNext(reader) /\ Readable(NextFile(reader)) ->
            IF reader.image_size_ \in {NoSize, NextFile(reader).size}
            THEN "SUCCESS" ELSE "IMAGE_DIMENSION_MISSMATCH"

\* The reader Next leaves behind.
AfterNext(reader) ==
    IF ~HasNext(reader) THEN reader
    ELSE [reader EXCEPT !.file_index_ = @ + 1,
                        !.image_size_ = IF @ = NoSize /\ Readable(NextFile(reader))
                                        THEN NextFile(reader).size ELSE @]

\* FeatureExtractor::Extract on an image that was read.
ExtractStatus(file) == IF file.target THEN "SUCCESS" ELSE "DETECTION_ERROR"

\* The ExtractionImageWidget status of the next file: the reader's when it
\* fails, the extractor's otherwise.
ItemStatus(reader) ==
    IF NextStatus(reader) = "SUCCESS" THEN ExtractStatus(NextFile(reader))
    ELSE IF NextStatus(reader) = "NO_MORE_IMAGES" THEN "READ_ERROR"
    ELSE NextStatus(reader)

\* A sequence that holds the members of a set of numbers in increasing order:
\* every one of them, once.
Enumerates(s, S) ==
    /\ \A k \in S : \E i \in DOMAIN s : s[i] = k
    /\ \A i \in DOMAIN s : s[i] \in S /\ \A j \in DOMAIN s : i < j => s[i] < s[j]
=============================================================================
