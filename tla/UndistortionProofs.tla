------------------------- MODULE UndistortionProofs -------------------------
(***************************************************************************)
(* For any number of workers and any directory, every image is written     *)
(* once and no worker outlives the dialog.                                 *)
(*                                                                         *)
(* `Phases' says how far runner and dialog can be apart; it yields         *)
(* ThreadsEndBeforeDialog.  `Shared' is about the reader the workers share: *)
(* who is in Next holds the mutex, a file is in one worker's hands at most, *)
(* and a file that was passed is written, in somebody's hands, or to be    *)
(* skipped.                                                                *)
(***************************************************************************)
EXTENDS Undistortion, SequenceTheorems, TLAPS

Pcs == {"unborn", "test", "cancel", "lock", "path", "advance", "read", "write", "ended"}

Types ==
    /\ dir \in Seq(Files)
    /\ reader \in Readers /\ reader.file_index_ =< Len(reader.image_paths_)
    /\ mutex_ \in 0 .. Concurrency
    /\ pc \in [Workers -> Pcs] /\ path \in [Workers -> Nat]
    /\ undistorted \in [DOMAIN dir -> {0, 1}]
    /\ runner \in {"unborn", "start", "join", "post", "ended", "joined"}
    /\ cancellation_flag_ \in BOOLEAN /\ progress \in BOOLEAN /\ posted \in BOOLEAN
    /\ gui \in {"form", "busy", "joining", "closed"}
    /\ fault \in {"none", "joinable runner_ destroyed"}

Phases ==
    /\ runner = "unborn" => /\ \A t \in Workers : pc[t] = "unborn"
                            /\ \A k \in DOMAIN dir : undistorted[k] = 0
    /\ runner # "unborn" => reader.image_paths_ = dir /\ reader.image_size_ # NoSize
    /\ runner \in {"post", "ended", "joined"} => \A t \in Workers : pc[t] = "ended"
    /\ gui = "form" => runner = "unborn"
    /\ gui = "busy" => runner \notin {"unborn", "joined"}
    /\ gui = "joining" => runner = "ended"
    /\ gui = "closed" /\ fault = "none" => runner \in {"unborn", "joined"}
    /\ runner = "joined" => gui = "closed"
    /\ posted => runner = "ended" /\ gui # "joining"

InNext(t) == pc[t] \in {"path", "advance", "read"}
InHand(t) == pc[t] \in {"read", "write"}

Lock == \A t \in Workers : InNext(t) <=> mutex_ = t

Taken ==
    /\ \A t \in Workers : pc[t] = "advance" =>
          reader.file_index_ < Len(reader.image_paths_) /\ path[t] = reader.file_index_ + 1
    /\ \A t \in Workers : InHand(t) =>
          path[t] \in 1 .. reader.file_index_ /\ undistorted[path[t]] = 0
    /\ \A s, t \in Workers : InHand(s) /\ InHand(t) /\ s # t => path[s] # path[t]
    /\ \A t \in Workers : pc[t] = "write" => StatusOf(path[t]) = "SUCCESS"

Passed ==
    \A k \in DOMAIN dir :
        /\ undistorted[k] = 1 => StatusOf(k) = "SUCCESS" /\ k =< reader.file_index_
        /\ StatusOf(k) = "SUCCESS" /\ k =< reader.file_index_ =>
              undistorted[k] = 1 \/ \E t \in Workers : InHand(t) /\ path[t] = k

Exhausted ==
    \A t \in Workers : pc[t] = "ended" /\ ~cancellation_flag_ =>
        reader.file_index_ = Len(reader.image_paths_)

Shared == Lock /\ Taken /\ Passed /\ Exhausted
Safe == Types /\ Phases /\ Shared

-----------------------------------------------------------------------------
(* A directory is a sequence of files; what Next says of a file depends on *)
(* the directory and the size alone                                        *)

LEMMA DirectoryIsSequence == ASSUME NEW d \in Directories PROVE d \in Seq(Files)
<1>1. PICK n \in 0 .. MaxFiles : d \in [1 .. n -> Files]
  BY DEF Directories
<1> QED
  BY <1>1, MaxFilesAssumption

LEMMA StatusStable ==
    ASSUME reader \in Readers, reader' \in Readers, NEW k \in Nat,
           reader'.image_paths_ = reader.image_paths_, reader'.image_size_ = reader.image_size_
    PROVE  StatusOf(k)' = StatusOf(k)
<1>1. [reader' EXCEPT !.file_index_ = k - 1] = [reader EXCEPT !.file_index_ = k - 1]
  BY DEF Readers
<1> QED
  BY <1>1 DEF StatusOf

-----------------------------------------------------------------------------
(* The invariant *)

LEMMA SafeInit == Init => Safe
<1> SUFFICES ASSUME Init PROVE Safe
  OBVIOUS
<1> USE DEF Init
<1>1. dir \in Seq(Files)
  BY DirectoryIsSequence
<1>2. DOMAIN dir = 1 .. Len(dir) /\ Len(dir) \in Nat
  BY <1>1, LenProperties
<1>3. reader \in Readers /\ reader.file_index_ =< Len(reader.image_paths_)
  BY EmptySeq DEF NoReader, Readers
<1>4. Types
  <2>1. mutex_ \in 0 .. Concurrency
    BY ConcurrencyAssumption
  <2>2. undistorted \in [DOMAIN dir -> {0, 1}]
    BY Zenon
  <2>3. pc \in [Workers -> Pcs] /\ path \in [Workers -> Nat]
    BY DEF Pcs
  <2> QED
    BY <1>1, <1>3, <2>1, <2>2, <2>3, Zenon DEF Types
<1>5. Phases
  BY DEF Phases
<1>6. Lock /\ Taken /\ Exhausted
  BY ConcurrencyAssumption DEF Lock, Taken, Exhausted, InNext, InHand, Workers
<1>7. Passed
  BY <1>2 DEF Passed, NoReader
<1> QED
  BY <1>4, <1>5, <1>6, <1>7 DEF Safe, Shared

\* What is known while a worker is at work.
LEMMA WorkerFacts ==
    ASSUME Safe, NEW t \in Workers, pc[t] \notin {"unborn", "ended"}
    PROVE  /\ runner \in {"start", "join"}
           /\ reader \in Readers /\ reader.image_paths_ = dir /\ reader.image_size_ # NoSize
           /\ reader.file_index_ \in Nat /\ reader.file_index_ =< Len(dir)
           /\ dir \in Seq(Files) /\ DOMAIN dir = 1 .. Len(dir) /\ Len(dir) \in Nat
           /\ pc \in [Workers -> Pcs] /\ path \in [Workers -> Nat]
           /\ undistorted \in [DOMAIN dir -> {0, 1}]
           /\ t # 0 /\ t \in 0 .. Concurrency
<1>1. runner \in {"start", "join"}
  BY DEF Safe, Phases, Types
<1>2. dir \in Seq(Files) /\ DOMAIN dir = 1 .. Len(dir) /\ Len(dir) \in Nat
  BY LenProperties DEF Safe, Types
<1>3. reader \in Readers /\ reader.image_paths_ = dir /\ reader.image_size_ # NoSize
  BY <1>1 DEF Safe, Phases, Types
<1>4. reader.file_index_ \in Nat /\ reader.file_index_ =< Len(dir)
  BY <1>3 DEF Safe, Types, Readers
<1>5. t # 0 /\ t \in 0 .. Concurrency
  BY ConcurrencyAssumption DEF Workers
<1> QED
  BY <1>1, <1>2, <1>3, <1>4, <1>5 DEF Safe, Types

\* Types and phases, after a step of a worker that is not its last.
LEMMA WorkerStays ==
    ASSUME Safe, NEW t \in Workers, pc[t] \notin {"unborn", "ended"},
           pc' \in [Workers -> Pcs], path' \in [Workers -> Nat], mutex_' \in 0 .. Concurrency,
           undistorted' \in [DOMAIN dir -> {0, 1}],
           reader' \in Readers, reader'.file_index_ =< Len(dir),
           reader'.image_paths_ = reader.image_paths_, reader'.image_size_ = reader.image_size_,
           UNCHANGED <<dir, runner, cancellation_flag_, progress, posted, gui, fault>>
    PROVE  Types' /\ Phases'
<1>1. Types'
  BY WorkerFacts DEF Safe, Types
<1>2. Phases'
  BY WorkerFacts DEF Safe, Phases
<1> QED
  BY <1>1, <1>2

\* A step that only moves a worker on, neither into Next nor with a file.
LEMMA MoveKeepsShared ==
    ASSUME Safe, NEW t \in Workers, NEW label,
           label \in {"test", "cancel", "lock", "ended"},
           pc[t] \in {"unborn", "test", "cancel", "lock"},
           label = "ended" /\ ~cancellation_flag_ =>
               reader.file_index_ = Len(reader.image_paths_),
           GoTo(t, label), UNCHANGED <<dir, reader, mutex_, path, undistorted, cancellation_flag_>>
    PROVE  Shared'
<1> USE DEF Safe, Types, GoTo
<1>1. \A s \in Workers : (InNext(s)' <=> InNext(s)) /\ (InHand(s)' <=> InHand(s))
  BY DEF InNext, InHand, Pcs
<1>2. Lock'
  BY <1>1 DEF Shared, Lock
<1>3. Taken'
  BY <1>1 DEF Shared, Taken, StatusOf
<1>4. Passed'
  BY <1>1 DEF Shared, Passed, StatusOf
<1>5. Exhausted'
  BY DEF Shared, Exhausted
<1> QED
  BY <1>2, <1>3, <1>4, <1>5 DEF Shared

Unshared == <<dir, runner, cancellation_flag_, progress, posted, gui, fault>>

LEMMA TestStep ==
    ASSUME Safe, NEW t \in Workers, TestNext(t) \/ TestCancel(t), UNCHANGED Unshared
    PROVE  Safe'
<1> DEFINE Stop == reader.file_index_ = Len(reader.image_paths_)
<1>0. pc[t] \notin {"unborn", "ended"} /\ pc[t] \in {"test", "cancel"}
  BY DEF TestNext, TestCancel
<1>1. \E label \in {"cancel", "lock", "ended"} :
          GoTo(t, label) /\ (label = "ended" /\ ~cancellation_flag_ => Stop)
  <2>1. CASE TestNext(t) /\ HasNext(reader)
    BY <2>1 DEF TestNext
  <2>2. CASE TestNext(t) /\ ~HasNext(reader)
    BY <1>0, <2>2, WorkerFacts DEF TestNext, HasNext
  <2>3. CASE TestCancel(t) /\ cancellation_flag_
    BY <2>3 DEF TestCancel
  <2>4. CASE TestCancel(t) /\ ~cancellation_flag_
    BY <2>4 DEF TestCancel
  <2> QED
    BY <2>1, <2>2, <2>3, <2>4
<1>2. UNCHANGED <<reader, mutex_, path, undistorted>>
  BY DEF TestNext, TestCancel
<1>3. Shared'
  BY <1>0, <1>1, <1>2, MoveKeepsShared DEF Unshared
<1>4. pc' \in [Workers -> Pcs]
  BY <1>0, <1>1, WorkerFacts DEF Pcs, GoTo
<1> QED
  BY <1>0, <1>2, <1>3, <1>4, WorkerFacts, WorkerStays DEF Safe, Unshared, Types

LEMMA LockStep ==
    ASSUME Safe, NEW t \in Workers, LockNext(t), UNCHANGED Unshared
    PROVE  Safe'
<1> USE DEF LockNext, GoTo, Unshared
<1>0. pc[t] \notin {"unborn", "ended"}
  OBVIOUS
<1>1. Lock /\ Taken /\ Passed /\ Exhausted
  BY DEF Safe, Shared
<1>2. Types' /\ Phases'
  <2>1. pc' \in [Workers -> Pcs]
    BY <1>0, WorkerFacts DEF Pcs
  <2> QED
    BY <1>0, <2>1, WorkerFacts, WorkerStays
<1>3. \A s \in Workers : (InHand(s)' <=> InHand(s)) /\ (s # t => pc'[s] = pc[s])
  BY <1>0, WorkerFacts DEF InHand
<1>4. pc'[t] = "path" /\ mutex_' = t /\ mutex_ = 0
  BY <1>0, WorkerFacts
<1>5. Lock'
  BY <1>0, <1>1, <1>3, <1>4, WorkerFacts DEF Lock, InNext, Workers
<1>6. Taken'
  BY <1>1, <1>3, <1>4 DEF Taken, StatusOf
<1>7. Passed'
  BY <1>1, <1>3, <1>4 DEF Passed, StatusOf
<1>8. Exhausted'
  BY <1>1, <1>3, <1>4 DEF Exhausted
<1> QED
  BY <1>2, <1>5, <1>6, <1>7, <1>8 DEF Safe, Shared

LEMMA TakeStep ==
    ASSUME Safe, NEW t \in Workers, TakePath(t), UNCHANGED Unshared
    PROVE  Safe'
<1> USE DEF TakePath, GoTo, Unshared
<1>0. pc[t] = "path" /\ pc[t] \notin {"unborn", "ended"}
  OBVIOUS
<1>1. Lock /\ Taken /\ Passed /\ Exhausted
  BY DEF Safe, Shared
<1>2. UNCHANGED <<reader, undistorted>>
  OBVIOUS
<1>3. \/ /\ reader.file_index_ < Len(reader.image_paths_) /\ UNCHANGED mutex_
         /\ pc' = [pc EXCEPT ![t] = "advance"]
         /\ path' = [path EXCEPT ![t] = reader.file_index_ + 1]
      \/ mutex_' = 0 /\ pc' = [pc EXCEPT ![t] = "test"] /\ UNCHANGED path
  BY DEF HasNext
<1>4. mutex_ = t
  BY <1>0, <1>1 DEF Lock, InNext
<1>5. Types' /\ Phases'
  <2>1. pc' \in [Workers -> Pcs]
    BY <1>0, <1>3, WorkerFacts DEF Pcs
  <2>2. path' \in [Workers -> Nat]
    <3>1. reader.file_index_ + 1 \in Nat /\ path \in [Workers -> Nat]
      BY <1>0, WorkerFacts
    <3> HIDE DEF TakePath
    <3> QED
      BY <1>3, <3>1
  <2>3. mutex_' \in 0 .. Concurrency
    BY <1>0, <1>3, <1>4, WorkerFacts, ConcurrencyAssumption
  <2> QED
    BY <1>0, <1>2, <2>1, <2>2, <2>3, WorkerFacts, WorkerStays
<1>6. \A s \in Workers : s # t => pc'[s] = pc[s] /\ path'[s] = path[s]
  BY <1>0, <1>3, WorkerFacts
<1>7. ~InHand(t) /\ ~InHand(t)' /\ pc'[t] \in {"advance", "test"}
  BY <1>0, <1>3, WorkerFacts DEF InHand
<1>8. \A s \in Workers : (InHand(s)' <=> InHand(s)) /\ (InHand(s) => path'[s] = path[s])
  BY <1>6, <1>7 DEF InHand
<1>9. Lock'
  <2>1. CASE mutex_' = 0 /\ pc'[t] = "test"
    BY <1>0, <1>1, <1>4, <1>6, <2>1, WorkerFacts DEF Lock, InNext, Workers
  <2>2. CASE UNCHANGED mutex_ /\ pc'[t] = "advance"
    BY <1>1, <1>4, <1>6, <2>2 DEF Lock, InNext
  <2> QED
    BY <1>0, <1>3, <2>1, <2>2, WorkerFacts
<1>10. Taken'
  <2>1. \A s \in Workers : pc'[s] = "advance" =>
            reader.file_index_ < Len(reader.image_paths_) /\ path'[s] = reader.file_index_ + 1
    BY <1>0, <1>1, <1>3, <1>6, WorkerFacts DEF Taken
  <2>2. \A s \in Workers : pc'[s] = "write" => pc[s] = "write" /\ InHand(s)
    BY <1>6, <1>7 DEF InHand
  <2> QED
    BY <1>1, <1>2, <1>8, <2>1, <2>2 DEF Taken, StatusOf
<1>11. Passed'
  BY <1>1, <1>2, <1>8 DEF Passed, StatusOf
<1>12. Exhausted'
  BY <1>1, <1>2, <1>6, <1>7 DEF Exhausted
<1> QED
  BY <1>5, <1>9, <1>10, <1>11, <1>12 DEF Safe, Shared

LEMMA AdvanceStep ==
    ASSUME Safe, NEW t \in Workers, Advance(t), UNCHANGED Unshared
    PROVE  Safe'
<1>0. pc[t] = "advance" /\ pc[t] \notin {"unborn", "ended"}
  BY DEF Advance
<1>1. Lock /\ Taken /\ Passed /\ Exhausted
  BY DEF Safe, Shared
<1>2. /\ reader.file_index_ < Len(dir) /\ path[t] = reader.file_index_ + 1
      /\ mutex_ = t /\ path[t] \in DOMAIN dir
  BY <1>0, <1>1, WorkerFacts DEF Lock, Taken, InNext
<1>3. /\ reader' \in Readers /\ reader'.file_index_ = reader.file_index_ + 1
      /\ reader'.image_paths_ = reader.image_paths_ /\ reader'.image_size_ = reader.image_size_
  BY <1>0, <1>2, WorkerFacts DEF Advance, AfterNext, HasNext, Readers
<1>4. UNCHANGED <<mutex_, path, undistorted>> /\ pc' = [pc EXCEPT ![t] = "read"]
  BY DEF Advance, GoTo
<1>5. UNCHANGED dir
  BY DEF Unshared
<1>6. \A k \in Nat : StatusOf(k)' = StatusOf(k)
  BY <1>0, <1>3, WorkerFacts, StatusStable
<1>7. Types' /\ Phases'
  <2>1. pc' \in [Workers -> Pcs]
    BY <1>0, <1>4, WorkerFacts DEF Pcs
  <2> QED
    BY <1>0, <1>2, <1>3, <1>4, <2>1, WorkerFacts, WorkerStays DEF Unshared
<1>8. \A s \in Workers : s # t => pc'[s] = pc[s] /\ (InHand(s)' <=> InHand(s)) /\ pc'[s] # "advance"
  BY <1>0, <1>1, <1>2, <1>4, WorkerFacts DEF Lock, InNext, InHand
<1>9. InHand(t)' /\ pc'[t] = "read"
  BY <1>0, <1>4, WorkerFacts DEF InHand
<1>10. Lock'
  BY <1>1, <1>2, <1>4, <1>8, <1>9 DEF Lock, InNext
<1>11. undistorted[path[t]] = 0
  <2>1. undistorted[path[t]] # 1
    BY <1>0, <1>1, <1>2, WorkerFacts DEF Passed
  <2> QED
    BY <1>0, <1>2, <2>1, WorkerFacts
<1>12. Taken'
  <2>1. \A s \in Workers : s # t /\ InHand(s)' =>
            path[s] \in 1 .. reader.file_index_ /\ undistorted[path[s]] = 0
    BY <1>1, <1>8 DEF Taken
  <2>2. \A s \in Workers : InHand(s)' =>
            path[s] \in 1 .. reader'.file_index_ /\ undistorted[path[s]] = 0
    BY <1>0, <1>2, <1>3, <1>11, <2>1, WorkerFacts
  <2>3. \A s \in Workers : s # t /\ InHand(s)' => path[s] # path[t]
    BY <1>0, <1>2, <2>1, WorkerFacts
  <2>4. \A s, u \in Workers : InHand(s)' /\ InHand(u)' /\ s # u => path[s] # path[u]
    BY <1>1, <1>8, <2>3 DEF Taken
  <2>5. ASSUME NEW s \in Workers, pc'[s] = "write"
        PROVE  StatusOf(path[s])' = "SUCCESS"
    <3>1. pc[s] = "write" /\ path'[s] = path[s] /\ path[s] \in Nat
      BY <1>0, <1>4, <1>8, <1>9, <2>5, WorkerFacts
    <3>2. PICK k \in Nat : k = path[s]
      BY <3>1
    <3>3. StatusOf(k) = "SUCCESS"
      BY <1>1, <3>1, <3>2 DEF Taken
    <3>4. StatusOf(k)' = "SUCCESS"
      BY <1>6, <3>3
    <3> QED
      BY <3>1, <3>2, <3>4 DEF StatusOf
  <2> QED
    BY <1>4, <1>8, <1>9, <2>2, <2>4, <2>5 DEF Taken
<1>13. Passed'
  <2> SUFFICES ASSUME NEW k \in DOMAIN dir
               PROVE  /\ undistorted[k] = 1 => StatusOf(k) = "SUCCESS" /\ k =< reader'.file_index_
                      /\ StatusOf(k) = "SUCCESS" /\ k =< reader'.file_index_ =>
                            undistorted[k] = 1 \/ \E s \in Workers : InHand(s)' /\ path[s] = k
    BY <1>0, <1>4, <1>5, <1>6, WorkerFacts DEF Passed
  <2>1. k \in Nat /\ (k =< reader'.file_index_ => k =< reader.file_index_ \/ k = path[t])
    BY <1>0, <1>2, <1>3, WorkerFacts
  <2>2. undistorted[k] = 1 => StatusOf(k) = "SUCCESS" /\ k =< reader'.file_index_
    BY <1>0, <1>1, <1>3, <2>1, WorkerFacts DEF Passed
  <2>3. CASE k = path[t]
    BY <1>9, <2>2, <2>3
  <2>4. CASE k =< reader.file_index_
    <3>1. \A s \in Workers : InHand(s) => InHand(s)'
      BY <1>8, <1>9
    <3> QED
      BY <1>1, <2>2, <2>4, <3>1 DEF Passed
  <2>5. CASE ~(k =< reader'.file_index_)
    BY <2>2, <2>5
  <2> QED
    BY <2>1, <2>3, <2>4, <2>5
<1>14. Exhausted'
  <2>1. \A s \in Workers : pc'[s] = "ended" => pc[s] = "ended"
    BY <1>8, <1>9
  <2>2. \A s \in Workers : pc[s] = "ended" => cancellation_flag_
    BY <1>0, <1>1, <1>2, WorkerFacts DEF Exhausted
  <2> QED
    BY <2>1, <2>2 DEF Exhausted, Unshared
<1> QED
  BY <1>7, <1>10, <1>12, <1>13, <1>14 DEF Safe, Shared

LEMMA ReadStep ==
    ASSUME Safe, NEW t \in Workers, ReadPixmap(t), UNCHANGED Unshared
    PROVE  Safe'
<1> DEFINE Written == StatusOf(path[t]) = "SUCCESS"
<1>0. pc[t] = "read" /\ pc[t] \notin {"unborn", "ended"}
  BY DEF ReadPixmap
<1>1. Lock /\ Taken /\ Passed /\ Exhausted
  BY DEF Safe, Shared
<1>2. UNCHANGED <<dir, reader, path, undistorted, cancellation_flag_>>
  BY DEF ReadPixmap, Unshared
<1>3. /\ mutex_' = 0
      /\ \/ Written /\ pc' = [pc EXCEPT ![t] = "write"]
         \/ ~Written /\ pc' = [pc EXCEPT ![t] = "test"]
  BY DEF ReadPixmap, GoTo
<1>4. mutex_ = t
  BY <1>0, <1>1 DEF Lock, InNext
<1> HIDE DEF Written
<1>5. Types' /\ Phases'
  <2>1. pc' \in [Workers -> Pcs]
    BY <1>0, <1>3, WorkerFacts DEF Pcs
  <2>2. mutex_' \in 0 .. Concurrency
    BY <1>3, ConcurrencyAssumption
  <2> QED
    BY <1>0, <1>2, <2>1, <2>2, WorkerFacts, WorkerStays DEF Unshared
<1>6. \A s \in Workers : s # t => pc'[s] = pc[s] /\ (InHand(s)' <=> InHand(s))
  BY <1>0, <1>3, WorkerFacts DEF InHand
<1>7. /\ InHand(t) /\ pc'[t] \in {"write", "test"}
      /\ (InHand(t)' <=> Written) /\ (pc'[t] = "write" => Written)
  BY <1>0, <1>3, WorkerFacts DEF InHand
<1>8. \A s \in Workers : (InHand(s)' => InHand(s)) /\ (InHand(s) /\ s # t => InHand(s)')
  BY <1>6, <1>7
<1>9. Lock'
  BY <1>0, <1>1, <1>3, <1>4, <1>6, <1>7, WorkerFacts DEF Lock, InNext, Workers
<1>10. Taken'
  <2>1. \A s \in Workers : pc'[s] = "advance" => pc[s] = "advance"
    BY <1>6, <1>7
  <2>2. \A s \in Workers : pc'[s] = "write" => StatusOf(path[s]) = "SUCCESS"
    BY <1>1, <1>6, <1>7 DEF Taken, Written
  <2> QED
    BY <1>1, <1>2, <1>8, <2>1, <2>2 DEF Taken, StatusOf
<1>11. Passed'
  <2>1. ASSUME NEW k \in DOMAIN dir, StatusOf(k) = "SUCCESS", NEW s \in Workers, InHand(s), path[s] = k
        PROVE  InHand(s)'
    BY <1>7, <1>8, <2>1 DEF Written
  <2> QED
    BY <1>1, <1>2, <2>1 DEF Passed, StatusOf
<1>12. Exhausted'
  BY <1>1, <1>2, <1>6, <1>7 DEF Exhausted
<1> QED
  BY <1>5, <1>9, <1>10, <1>11, <1>12 DEF Safe, Shared

LEMMA WriteStep ==
    ASSUME Safe, NEW t \in Workers, Write(t), UNCHANGED Unshared
    PROVE  Safe'
<1>0. pc[t] = "write" /\ pc[t] \notin {"unborn", "ended"}
  BY DEF Write
<1>1. Lock /\ Taken /\ Passed /\ Exhausted
  BY DEF Safe, Shared
<1>2. /\ UNCHANGED <<dir, reader, mutex_, path, cancellation_flag_>>
      /\ pc' = [pc EXCEPT ![t] = "test"]
      /\ undistorted' = [undistorted EXCEPT ![path[t]] = @ + 1]
  BY DEF Write, GoTo, Unshared
<1>3. /\ path[t] \in 1 .. reader.file_index_ /\ path[t] \in DOMAIN dir
      /\ undistorted[path[t]] = 0 /\ StatusOf(path[t]) = "SUCCESS"
  BY <1>0, <1>1, WorkerFacts DEF Taken, InHand
<1>4. /\ undistorted' \in [DOMAIN dir -> {0, 1}]
      /\ undistorted'[path[t]] = 1
      /\ \A k \in DOMAIN dir : k # path[t] => undistorted'[k] = undistorted[k]
  BY <1>0, <1>2, <1>3, WorkerFacts
<1>5. Types' /\ Phases'
  <2>1. pc' \in [Workers -> Pcs]
    BY <1>0, <1>2, WorkerFacts DEF Pcs
  <2>2. mutex_ \in 0 .. Concurrency
    BY DEF Safe, Types
  <2> QED
    BY <1>0, <1>2, <1>4, <2>1, <2>2, WorkerFacts, WorkerStays DEF Unshared
<1>6. \A s \in Workers : s # t => pc'[s] = pc[s] /\ (InHand(s)' <=> InHand(s))
  BY <1>0, <1>2, WorkerFacts DEF InHand
<1>7. InHand(t) /\ ~InHand(t)' /\ pc'[t] = "test"
  BY <1>0, <1>2, WorkerFacts DEF InHand
<1>8. Lock'
  BY <1>0, <1>1, <1>2, <1>6, <1>7 DEF Lock, InNext
<1>9. Taken'
  <2>1. ASSUME NEW s \in Workers, InHand(s)'
        PROVE  path[s] \in 1 .. reader.file_index_ /\ undistorted'[path[s]] = 0
    <3>1. s # t /\ InHand(s)
      BY <1>6, <1>7, <2>1
    <3>2. path[s] \in 1 .. reader.file_index_ /\ undistorted[path[s]] = 0 /\ path[s] # path[t]
      BY <1>1, <1>7, <3>1 DEF Taken
    <3>3. path[s] \in DOMAIN dir
      BY <1>0, <3>2, WorkerFacts
    <3> QED
      BY <1>4, <3>2, <3>3
  <2>2. \A s, u \in Workers : InHand(s)' /\ InHand(u)' /\ s # u => path[s] # path[u]
    BY <1>1, <1>6, <1>7 DEF Taken
  <2>3. \A s \in Workers : /\ pc'[s] = "write" => pc[s] = "write"
                           /\ pc'[s] = "advance" => pc[s] = "advance"
    BY <1>6, <1>7
  <2> QED
    BY <1>1, <1>2, <2>1, <2>2, <2>3 DEF Taken, StatusOf
<1>10. Passed'
  <2> SUFFICES ASSUME NEW k \in DOMAIN dir
               PROVE  /\ undistorted'[k] = 1 => StatusOf(k) = "SUCCESS" /\ k =< reader.file_index_
                      /\ StatusOf(k) = "SUCCESS" /\ k =< reader.file_index_ =>
                            undistorted'[k] = 1 \/ \E s \in Workers : InHand(s)' /\ path[s] = k
    BY <1>2 DEF Passed, StatusOf
  <2>1. CASE k = path[t]
    BY <1>0, <1>3, <1>4, <2>1, WorkerFacts
  <2>2. CASE k # path[t]
    BY <1>1, <1>4, <1>6, <2>2 DEF Passed
  <2> QED
    BY <2>1, <2>2
<1>11. Exhausted'
  BY <1>1, <1>2, <1>6, <1>7 DEF Exhausted
<1> QED
  BY <1>5, <1>8, <1>9, <1>10, <1>11 DEF Safe, Shared

LEMMA WorkerStep ==
    ASSUME Safe, NEW t \in Workers, Worker(t)
    PROVE  Safe'
BY TestStep, LockStep, TakeStep, AdvanceStep, ReadStep, WriteStep DEF Worker, Unshared, dialogVars

-----------------------------------------------------------------------------
(* The runner and the dialog *)

LEMMA StartWorkerStep ==
    ASSUME Safe, NEW t \in Workers, StartWorker(t)
    PROVE  Safe'
<1>0. /\ runner = "start" /\ pc[t] = "unborn" /\ GoTo(t, "test")
      /\ runner' \in {"start", "join"}
      /\ UNCHANGED <<dir, reader, mutex_, path, undistorted, dialogVars>>
  BY DEF StartWorker
<1>1. pc' \in [Workers -> Pcs]
  BY <1>0 DEF Safe, Types, GoTo, Pcs
<1>2. Types'
  BY <1>0, <1>1 DEF Safe, Types, dialogVars
<1>3. Phases'
  BY <1>0 DEF Safe, Phases, dialogVars
<1>4. Shared'
  BY <1>0, MoveKeepsShared DEF dialogVars
<1> QED
  BY <1>2, <1>3, <1>4 DEF Safe

LEMMA StartStep ==
    ASSUME Safe, StartUndistortingImages
    PROVE  Safe'
<1>0. /\ gui = "form" /\ gui' = "busy" /\ progress' = TRUE /\ runner' = "start"
      /\ reader' \in NewReaders(dir) /\ reader'.image_size_ # NoSize
      /\ UNCHANGED <<dir, mutex_, pc, path, undistorted, cancellation_flag_, posted, fault>>
  BY DEF StartUndistortingImages
<1>1. /\ \A t \in Workers : pc[t] = "unborn"
      /\ \A k \in DOMAIN dir : undistorted[k] = 0
      /\ dir \in Seq(Files) /\ DOMAIN dir = 1 .. Len(dir) /\ Len(dir) \in Nat
      /\ ~posted
  BY <1>0, LenProperties DEF Safe, Types, Phases
<1>2. PICK s \in Sizes \cup {NoSize} :
          reader' = [image_paths_ |-> dir, file_index_ |-> 0, image_size_ |-> s]
  <2>1. \A k \in ReadableFiles(dir) : dir[k].size \in Sizes
    BY <1>1 DEF Files, Readable, ReadableFiles
  <2>2. PICK s \in IF ReadableFiles(dir) = {} THEN {NoSize}
                   ELSE {dir[k].size : k \in ReadableFiles(dir)} :
          reader' = [image_paths_ |-> dir, file_index_ |-> 0, image_size_ |-> s]
    BY <1>0 DEF NewReaders
  <2>3. s \in Sizes \cup {NoSize}
    BY <2>1, <2>2
  <2> QED
    BY <2>2, <2>3
<1>3. /\ reader' \in Readers /\ reader'.image_paths_ = dir /\ reader'.file_index_ = 0
      /\ reader'.file_index_ =< Len(reader'.image_paths_)
  BY <1>1, <1>2 DEF Readers
<1>4. Types'
  <2>1. /\ mutex_ \in 0 .. Concurrency /\ pc \in [Workers -> Pcs] /\ path \in [Workers -> Nat]
        /\ undistorted \in [DOMAIN dir -> {0, 1}]
        /\ cancellation_flag_ \in BOOLEAN /\ posted \in BOOLEAN
        /\ fault \in {"none", "joinable runner_ destroyed"}
    BY DEF Safe, Types
  <2>2. progress' \in BOOLEAN
    BY <1>0
  <2> QED
    BY <1>0, <1>1, <1>3, <2>1, <2>2 DEF Types
<1>5. Phases'
  BY <1>0, <1>1, <1>3 DEF Safe, Phases
<1>6. Lock' /\ Taken' /\ Exhausted'
  BY <1>0, <1>1 DEF Safe, Shared, Lock, Taken, Exhausted, InNext, InHand
<1>7. Passed'
  BY <1>0, <1>1, <1>3 DEF Passed
<1> QED
  BY <1>4, <1>5, <1>6, <1>7 DEF Safe, Shared

\* Nobody else touches what the workers share; that the user cancels only
\* weakens what is asked of them.
LEMMA OthersKeepShared ==
    ASSUME Safe, UNCHANGED <<dir, workerVars>>, cancellation_flag_' \in {cancellation_flag_, TRUE}
    PROVE  Shared'
<1> USE DEF Safe, Shared, workerVars
<1>0. ~cancellation_flag_' => ~cancellation_flag_
  OBVIOUS
<1>1. Lock' /\ Exhausted'
  BY <1>0 DEF Lock, Exhausted, InNext
<1>2. Taken'
  BY DEF Taken, InHand, StatusOf
<1>3. Passed'
  BY DEF Passed, InHand, StatusOf
<1> QED
  BY <1>1, <1>2, <1>3

LEMMA OtherSteps ==
    ASSUME Safe,
           \/ JoinWorkers \/ PostClose \/ RunFunctor \/ JoinRunner
           \/ CloseForm \/ PressCancel \/ HideProgress \/ CloseBusy \/ UNCHANGED vars
    PROVE  Safe'
<1>1. UNCHANGED <<dir, workerVars>> /\ cancellation_flag_' \in {cancellation_flag_, TRUE}
  BY DEF JoinWorkers, PostClose, RunFunctor, JoinRunner, CloseForm, PressCancel, HideProgress,
         CloseBusy, vars, dialogVars
<1>2. Shared'
  BY <1>1, OthersKeepShared
<1>3. Types'
  <2>1. UNCHANGED <<dir, reader, mutex_, pc, path, undistorted>>
    BY <1>1 DEF workerVars
  <2>2. /\ runner' \in {"unborn", "start", "join", "post", "ended", "joined"}
        /\ cancellation_flag_' \in BOOLEAN /\ progress' \in BOOLEAN /\ posted' \in BOOLEAN
        /\ gui' \in {"form", "busy", "joining", "closed"}
        /\ fault' \in {"none", "joinable runner_ destroyed"}
    BY DEF Safe, Types, JoinWorkers, PostClose, RunFunctor, JoinRunner, CloseForm, PressCancel,
           HideProgress, CloseBusy, vars, dialogVars
  <2> QED
    BY <2>1, <2>2 DEF Safe, Types
<1>4. Phases'
  <2>1. Phases /\ UNCHANGED <<dir, reader, pc, undistorted>>
    BY <1>1 DEF Safe, workerVars
  <2>2. CASE JoinWorkers
    BY <2>1, <2>2 DEF Phases, JoinWorkers, dialogVars
  <2>3. CASE PostClose
    BY <2>1, <2>3 DEF Phases, PostClose
  <2>4. CASE RunFunctor
    BY <2>1, <2>4 DEF Phases, RunFunctor
  <2>5. CASE JoinRunner
    BY <2>1, <2>5 DEF Phases, JoinRunner
  <2>6. CASE CloseForm
    BY <2>1, <2>6 DEF Phases, CloseForm
  <2>7. CASE PressCancel
    BY <2>1, <2>7 DEF Phases, PressCancel
  <2>8. CASE HideProgress
    BY <2>1, <2>8 DEF Phases, HideProgress
  <2>9. CASE CloseBusy
    BY <2>1, <2>9 DEF Phases, CloseBusy
  <2>10. CASE UNCHANGED vars
    BY <2>1, <2>10 DEF Phases, vars, dialogVars
  <2> QED
    BY <2>2, <2>3, <2>4, <2>5, <2>6, <2>7, <2>8, <2>9, <2>10
<1> QED
  BY <1>2, <1>3, <1>4 DEF Safe

LEMMA SafeNext == Safe /\ [Next]_vars => Safe'
BY WorkerStep, StartWorkerStep, StartStep, OtherSteps
   DEF Next, User, Runner, EventLoop, Work, Closed

\* The strengthening of both properties, for any number of workers.
THEOREM SafeAlways == Spec => []Safe
BY SafeInit, SafeNext, PTL DEF Spec

-----------------------------------------------------------------------------
LEMMA SafeGivesWrites == Safe => WritesEachImageOnce
<1> SUFFICES ASSUME Safe, NEW k \in DOMAIN undistorted
             PROVE  /\ undistorted[k] =< IF StatusOf(k) = "SUCCESS" THEN 1 ELSE 0
                    /\ Finished /\ ~cancellation_flag_ /\ StatusOf(k) = "SUCCESS" => undistorted[k] = 1
  BY DEF WritesEachImageOnce
<1>1. k \in DOMAIN dir /\ undistorted[k] \in {0, 1} /\ k \in 1 .. Len(dir)
  BY LenProperties DEF Safe, Types
<1>2. undistorted[k] =< IF StatusOf(k) = "SUCCESS" THEN 1 ELSE 0
  BY <1>1 DEF Safe, Shared, Passed
<1>3. ASSUME Finished, ~cancellation_flag_, StatusOf(k) = "SUCCESS"
      PROVE  undistorted[k] = 1
  <2>1. /\ \A t \in Workers : pc[t] = "ended"
        /\ reader.image_paths_ = dir
    BY <1>3 DEF Safe, Phases, Finished
  <2>2. 1 \in Workers
    BY ConcurrencyAssumption DEF Workers
  <2>3. reader.file_index_ = Len(dir)
    BY <1>3, <2>1, <2>2 DEF Safe, Shared, Exhausted
  <2>4. \A t \in Workers : ~InHand(t)
    BY <2>1 DEF InHand
  <2> QED
    BY <1>1, <1>3, <2>3, <2>4 DEF Safe, Shared, Passed
<1> QED
  BY <1>2, <1>3

\* Every image of the right size is written exactly once by a finished run that
\* was not cancelled, and never twice, however many workers share the reader.
THEOREM WritesOnce == Spec => []WritesEachImageOnce
BY SafeAlways, SafeGivesWrites, PTL

LEMMA SafeGivesEnd == Safe => ThreadsEndBeforeDialog
BY DEF Safe, Phases, ThreadsEndBeforeDialog, Alive, Running

\* No worker is left when the dialog closes by itself: none uses the reader or
\* the camera of a dialog that is gone.
THEOREM ThreadsEnd == Spec => []ThreadsEndBeforeDialog
BY SafeAlways, SafeGivesEnd, PTL
=============================================================================
