---------------------------- MODULE Undistortion ----------------------------
(***************************************************************************)
(* The undistortion dialog: as many worker threads as the machine has      *)
(* cores take images from one reader, under its mutex, and write each one  *)
(* undistorted; a runner thread starts and joins them and then has the GUI *)
(* thread join itself and close the dialog.                                *)
(*                                                                         *)
(* The steps of a worker's FilesystemImageReader::Next are apart, so that  *)
(* the mutex has something to do.  `fault' records the end of the process  *)
(* when the dialog is destroyed with its runner still to be joined.        *)
(***************************************************************************)
EXTENDS FilesystemReader

CONSTANT
    Concurrency    \* std::thread::hardware_concurrency()

ASSUME ConcurrencyAssumption == Concurrency \in Nat \ {0}   \* C++ also allows 0: unknown

VARIABLES
    dir,           \* the input directory's files, in reading order
    reader,        \* the one all workers share
    mutex_,        \* the worker that holds it exclusively, 0 if none does
    pc, path,      \* every worker's control point, and the file in its hands
    undistorted,   \* how many times each file was written undistorted
    runner,        \* the runner's control point
    cancellation_flag_,
    progress,      \* is the progress dialog shown?
    posted,        \* is the closing functor in the queue?
    gui, fault

workerVars == <<reader, mutex_, pc, path, undistorted>>
dialogVars == <<cancellation_flag_, progress, posted, gui, fault>>
vars == <<dir, workerVars, runner, dialogVars>>

Workers == 1 .. Concurrency
NoReader == [image_paths_ |-> <<>>, file_index_ |-> 0, image_size_ |-> NoSize]

\* The status of Next for the file at this position.
StatusOf(k) == NextStatus([reader EXCEPT !.file_index_ = k - 1])

\* No target is looked for here.
Init ==
    /\ dir \in Directories /\ \A k \in DOMAIN dir : dir[k].target = Readable(dir[k])
    /\ reader = NoReader /\ mutex_ = 0
    /\ pc = [t \in Workers |-> "unborn"] /\ path = [t \in Workers |-> 0]
    /\ undistorted = [k \in DOMAIN dir |-> 0]
    /\ runner = "unborn"
    /\ cancellation_flag_ = FALSE /\ progress = FALSE /\ posted = FALSE
    /\ gui = "form" /\ fault = "none"

-----------------------------------------------------------------------------
(* The dialog, until the runner starts *)

\* An input error, or the user declines to overwrite: the dialog is enabled
\* again.  Closing the dialog then ends it.
CloseForm ==
    /\ gui = "form"
    /\ gui' = "closed"
    /\ UNCHANGED <<dir, workerVars, runner, cancellation_flag_, progress, posted, fault>>

\* "Start" with valid inputs: without a readable image there is no size.
StartUndistortingImages ==
    /\ gui = "form"
    /\ reader' \in NewReaders(dir) /\ reader'.image_size_ # NoSize
    /\ gui' = "busy" /\ progress' = TRUE
    /\ runner' = "start"
    /\ UNCHANGED <<dir, mutex_, pc, path, undistorted, cancellation_flag_, posted, fault>>

-----------------------------------------------------------------------------
(* A worker: UndistortImages *)

GoTo(t, label) == pc' = [pc EXCEPT ![t] = label]

\* while (reader.HasNext() && !cancel), under the shared lock
TestNext(t) ==
    /\ pc[t] = "test" /\ mutex_ = 0
    /\ GoTo(t, IF HasNext(reader) THEN "cancel" ELSE "ended")
    /\ UNCHANGED <<reader, mutex_, path, undistorted>>

TestCancel(t) ==
    /\ pc[t] = "cancel"
    /\ GoTo(t, IF cancellation_flag_ THEN "ended" ELSE "lock")
    /\ UNCHANGED <<reader, mutex_, path, undistorted>>

\* Mutant: Next without the lock.
LockNothing(t) ==
    /\ pc[t] = "lock"
    /\ GoTo(t, "path")
    /\ UNCHANGED <<reader, mutex_, path, undistorted>>

LockNext(t) ==
    /\ pc[t] = "lock" /\ mutex_ = 0
    /\ mutex_' = t /\ GoTo(t, "path")
    /\ UNCHANGED <<reader, path, undistorted>>

\* Another worker may have taken the last file since the test.
TakePath(t) ==
    /\ pc[t] = "path"
    /\ IF HasNext(reader)
       THEN path' = [path EXCEPT ![t] = reader.file_index_ + 1] /\ GoTo(t, "advance")
            /\ UNCHANGED mutex_
       ELSE GoTo(t, "test") /\ mutex_' = 0 /\ UNCHANGED path
    /\ UNCHANGED <<reader, undistorted>>

Advance(t) ==
    /\ pc[t] = "advance"
    /\ reader' = AfterNext(reader)
    /\ GoTo(t, "read")
    /\ UNCHANGED <<mutex_, path, undistorted>>

\* Reading is still under the lock.  Files that cannot be read, and images of
\* another size, are skipped.
ReadPixmap(t) ==
    /\ pc[t] = "read"
    /\ mutex_' = 0
    /\ GoTo(t, IF StatusOf(path[t]) = "SUCCESS" THEN "write" ELSE "test")
    /\ UNCHANGED <<reader, path, undistorted>>

Write(t) ==
    /\ pc[t] = "write"
    /\ undistorted' = [undistorted EXCEPT ![path[t]] = @ + 1]
    /\ GoTo(t, "test")
    /\ UNCHANGED <<reader, mutex_, path>>

Worker(t) ==
    /\ \/ TestNext(t) \/ TestCancel(t) \/ LockNext(t) \/ TakePath(t)
       \/ Advance(t) \/ ReadPixmap(t) \/ Write(t)
    /\ UNCHANGED <<dir, runner, dialogVars>>

-----------------------------------------------------------------------------
(* The runner *)

StartWorker(t) ==
    /\ runner = "start" /\ pc[t] = "unborn"
    /\ \A s \in Workers : s < t => pc[s] # "unborn"
    /\ GoTo(t, "test")
    /\ runner' = IF t = Concurrency THEN "join" ELSE runner
    /\ UNCHANGED <<dir, reader, mutex_, path, undistorted, dialogVars>>

\* Mutant: only the first worker is joined.
JoinFirst ==
    /\ runner = "join" /\ pc[1] = "ended"
    /\ runner' = "post"
    /\ UNCHANGED <<dir, workerVars, dialogVars>>

JoinWorkers ==
    /\ runner = "join" /\ \A t \in Workers : pc[t] = "ended"
    /\ runner' = "post"
    /\ UNCHANGED <<dir, workerVars, dialogVars>>

\* Mutant: nobody closes the dialog.
PostNothing ==
    /\ runner = "post"
    /\ runner' = "ended"
    /\ UNCHANGED <<dir, workerVars, dialogVars>>

PostClose ==
    /\ runner = "post"
    /\ posted' = TRUE /\ runner' = "ended"
    /\ UNCHANGED <<dir, workerVars, cancellation_flag_, progress, gui, fault>>

-----------------------------------------------------------------------------
(* The GUI thread, while the dialog is disabled *)

PressCancel ==
    /\ gui = "busy" /\ progress /\ ~cancellation_flag_
    /\ cancellation_flag_' = TRUE
    /\ UNCHANGED <<dir, workerVars, runner, progress, posted, gui, fault>>

\* The progress dialog is only hidden; its button is out of reach then.
HideProgress ==
    /\ gui = "busy" /\ progress
    /\ progress' = FALSE
    /\ UNCHANGED <<dir, workerVars, runner, cancellation_flag_, posted, gui, fault>>

\* A disabled dialog takes no input, but a window system may still let the user
\* close its window: the dialog is destroyed with its thread.
CloseBusy ==
    /\ gui = "busy"
    /\ gui' = "closed" /\ fault' = "joinable runner_ destroyed"
    /\ UNCHANGED <<dir, workerVars, runner, cancellation_flag_, progress, posted>>

\* The functor closes the progress dialog and waits for the thread that posted it.
RunFunctor ==
    /\ gui = "busy" /\ posted
    /\ posted' = FALSE /\ progress' = FALSE /\ gui' = "joining"
    /\ UNCHANGED <<dir, workerVars, runner, cancellation_flag_, fault>>

JoinRunner ==
    /\ gui = "joining" /\ runner = "ended"
    /\ runner' = "joined" /\ gui' = "closed"
    /\ UNCHANGED <<dir, workerVars, cancellation_flag_, progress, posted, fault>>

-----------------------------------------------------------------------------
Alive == fault = "none"
Work(t) == Alive /\ (StartWorker(t) \/ Worker(t))
Runner == Alive /\ (JoinWorkers \/ PostClose)
EventLoop == Alive /\ (RunFunctor \/ JoinRunner)
User == Alive /\ (CloseForm \/ StartUndistortingImages \/ PressCancel \/ HideProgress \/ CloseBusy)

Closed == gui = "closed" /\ UNCHANGED vars

Next == User \/ Runner \/ EventLoop \/ (\E t \in Workers : Work(t)) \/ Closed

\* All threads are scheduled; the mutex, free again and again, is given to every
\* thread that asks for it.  The user owes nothing.
Spec == /\ Init /\ [][Next]_vars
        /\ WF_vars(Runner) /\ WF_vars(EventLoop)
        /\ \A t \in Workers : SF_vars(Work(t))

-----------------------------------------------------------------------------
Running(t) == pc[t] \notin {"unborn", "ended"}
Finished == gui = "closed" /\ runner = "joined"

\* Every image of the right size is written once, by whichever worker, however
\* the workers interleave; nothing else is.  Only a cancelled run leaves some
\* out.
WritesEachImageOnce ==
    \A k \in DOMAIN undistorted :
        /\ undistorted[k] =< IF StatusOf(k) = "SUCCESS" THEN 1 ELSE 0
        /\ Finished /\ ~cancellation_flag_ /\ StatusOf(k) = "SUCCESS" => undistorted[k] = 1

\* When the dialog closes by itself no thread is left that would use the reader,
\* the camera or the dialog's token ("ensure the runner can be cleaned up on
\* close").
ThreadsEndBeforeDialog ==
    Alive /\ gui \in {"joining", "closed"} => \A t \in Workers : ~Running(t)

\* A started run comes to its end and closes the dialog, cancelled or not.
ClosesItself == gui = "busy" ~> gui = "closed"
=============================================================================
