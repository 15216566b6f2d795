--------------------------- MODULE DesktopSession ---------------------------
(***************************************************************************)
(* The capture session of the desktop application: the SessionService      *)
(* state machine (session.rs) together with the session storage it drives  *)
(* (storage.rs), for several processes that share one session root.        *)
(*                                                                         *)
(* A command claims the state under the mutex, works with the mutex        *)
(* released, one file-system call per step, and publishes its outcome      *)
(* under the mutex again.  Every call may fail, and a process may die      *)
(* between any two steps.  The state of a dead process is gone; the disk   *)
(* stays, and the next process recovers it before it serves a command.     *)
(***************************************************************************)
CONSTANTS
    Instances,   \* processes of the application that share the session root
    Workers,     \* threads of one process that run the blocking commands
    Main,        \* the event-loop thread: startup recovery and exit cleanup
    Sessions,    \* directory names that create_session can allocate
    Suspicious,  \* entries of the root that are no intact session of the app
    None         \* no instance, no session

ASSUME ConstantsAssumption ==
    /\ Main \notin Workers
    /\ None \notin Instances \union Sessions \union Suspicious
    /\ Sessions \intersect Suspicious = {}

VARIABLES
    dirs,       \* session directories that exist
    files,      \* files[n][f]: the file f of directory n
    lock,       \* the process that holds the advisory lock of the root
    phase,      \* phase[i]: where process i is between launch and end
    stage,      \* stage[i]: the InternalState of i's SessionService
    held,       \* held[i]: the SessionFiles stored in that state
    todo,       \* todo[i]: directory entries startup recovery has yet to visit
    task,       \* task[i][t]: what thread t of process i is executing
    told,       \* history: leftovers whose failed cleanup i has reported
    discarded   \* history: sessions a cancellation has begun to remove

diskVars == <<dirs, files, lock>>
procVars == <<phase, stage, held, todo>>
historyVars == <<told, discarded>>
vars == <<dirs, files, lock, phase, stage, held, todo, task, told, discarded>>

-----------------------------------------------------------------------------
Names == Sessions \union Suspicious
Threads == Workers \union {Main}
FileNames == {"marker", "before", "after", "other"}
FileStates == {"absent", "partial", "complete"}
Stages == {"Ready", "Starting", "Capturing", "Finishing", "Results"}
Phases == {"down", "launched", "recovering", "up", "stopping", "stopped", "failed"}
Goals == {"none", "start", "finish", "cancel", "discard", "recover"}
Points == {"idle", "mkdir", "marker_open", "marker_write", "undo_dir", "start_failed",
           "capture", "before_open", "before_write", "started",
           "read_before", "after_open", "after_write", "read_after", "drop_after",
           "finish_failed", "validate", "rm_before", "rm_after", "rm_marker", "rm_dir",
           "cleanup_ok", "cleanup_failed"}
Tasks == [pc : Points, session : Names \union {None}, goal : Goals]

\* The phases in which a process owns the session root.
Owning == {"recovering", "up", "stopping", "stopped"}

\* The phases in which a command that is dispatched finds a SessionService.
Serving == {"up", "stopping", "stopped"}

Idle == [pc |-> "idle", session |-> None, goal |-> "none"]
NoFiles == [f \in FileNames |-> "absent"]

TypeOK ==
    /\ dirs \subseteq Names
    /\ files \in [Names -> [FileNames -> FileStates]]
    /\ lock \in Instances \union {None}
    /\ phase \in [Instances -> Phases]
    /\ stage \in [Instances -> Stages]
    /\ held \in [Instances -> Names \union {None}]
    /\ todo \in [Instances -> SUBSET Names]
    /\ task \in [Instances -> [Threads -> Tasks]]
    /\ told \in [Instances -> SUBSET Names]
    /\ discarded \subseteq Names

\* An entry with a session name that the app must leave alone: a directory
\* without the ownership marker, or one that holds a file the app never wrote.
SuspiciousContents ==
    {[NoFiles EXCEPT !["before"] = "complete"],
     [NoFiles EXCEPT !["marker"] = "complete", !["before"] = "complete",
                     !["other"] = "complete"]}

Init ==
    /\ dirs = Suspicious
    /\ files \in {f \in [Names -> SuspiciousContents \union {NoFiles}] :
                    \A n \in Names : f[n] = NoFiles <=> n \in Sessions}
    /\ lock = None
    /\ phase = [i \in Instances |-> "down"]
    /\ stage = [i \in Instances |-> "Ready"]
    /\ held = [i \in Instances |-> None]
    /\ todo = [i \in Instances |-> {}]
    /\ task = [i \in Instances |-> [t \in Threads |-> Idle]]
    /\ told = [i \in Instances |-> {}]
    /\ discarded = {}

-----------------------------------------------------------------------------
(***************************************************************************)
(* Storage: what the calls look at, and the steps they are made of.        *)
(***************************************************************************)

\* validate_session: the directory is there and its marker reads back intact.
Verified(n) == n \in dirs /\ files[n]["marker"] = "complete"

\* validate_session_entries: nothing but the marker and the two Snapshots.
Allowlisted(n) == files[n]["other"] = "absent"

\* Unredacted Snapshot bytes of this directory are on disk, whole or in part.
Evidence(n) == files[n]["before"] # "absent" \/ files[n]["after"] # "absent"

At(i, t, pc) == task[i][t].pc = pc
SessionOf(i, t) == task[i][t].session
SetTask(i, t, k) == task' = [task EXCEPT ![i][t] = k]
Goto(i, t, pc) == SetTask(i, t, [task[i][t] EXCEPT !.pc = pc])
Store(n, f, v) == files' = [files EXCEPT ![n][f] = v]
EndTask(i, t) == SetTask(i, t, Idle)

\* Where a failed capture, write or read of the command continues.
ErrorPath(i, t) ==
    Goto(i, t, IF task[i][t].goal = "start" THEN "validate" ELSE "drop_after")

\* create_dir under a fresh name.  A collision draws another name; when every
\* attempt collides, or create_dir fails, the command fails with nothing made.
MakeDirectory(i, t) ==
    /\ At(i, t, "mkdir")
    /\ \/ \E n \in Names \ dirs :
            /\ dirs' = dirs \union {n}
            /\ SetTask(i, t, [task[i][t] EXCEPT !.pc = "marker_open", !.session = n])
            /\ discarded' = discarded \ {n}
       \/ /\ Goto(i, t, "start_failed")
          /\ UNCHANGED <<dirs, discarded>>
    /\ UNCHANGED <<files, lock, procVars, told>>

\* The marker file, created empty and then filled.  On an error the directory
\* is removed if that is possible, and the result of that is ignored.
OpenMarker(i, t) ==
    /\ At(i, t, "marker_open")
    /\ \/ Store(SessionOf(i, t), "marker", "partial") /\ Goto(i, t, "marker_write")
       \/ Goto(i, t, "undo_dir") /\ UNCHANGED files
    /\ UNCHANGED <<dirs, lock, procVars, historyVars>>

WriteMarker(i, t) ==
    /\ At(i, t, "marker_write")
    /\ \/ Store(SessionOf(i, t), "marker", "complete") /\ Goto(i, t, "capture")
       \/ Goto(i, t, "undo_dir") /\ UNCHANGED files
    /\ UNCHANGED <<dirs, lock, procVars, historyVars>>

UndoDirectory(i, t) ==
    /\ At(i, t, "undo_dir")
    /\ \/ files[SessionOf(i, t)] = NoFiles /\ dirs' = dirs \ {SessionOf(i, t)}
       \/ UNCHANGED dirs
    /\ Goto(i, t, "start_failed")
    /\ UNCHANGED <<files, lock, procVars, historyVars>>

\* source.capture(), the native collection.
Capture(i, t) ==
    /\ At(i, t, "capture")
    /\ \/ Goto(i, t, IF task[i][t].goal = "start" THEN "before_open" ELSE "after_open")
       \/ ErrorPath(i, t)
    /\ UNCHANGED <<diskVars, procVars, historyVars>>

\* write_snapshot: validate, serialize under the size cap, create_new, write.
\* A serialization that exceeds the cap fails before the file exists; a failed
\* write leaves a partial file.
OpenSnapshot(i, t, pc, f, next) ==
    /\ At(i, t, pc)
    /\ \/ /\ Verified(SessionOf(i, t))
          /\ files[SessionOf(i, t)][f] = "absent"
          /\ Store(SessionOf(i, t), f, "partial")
          /\ Goto(i, t, next)
       \/ ErrorPath(i, t) /\ UNCHANGED files
    /\ UNCHANGED <<dirs, lock, procVars, historyVars>>

WriteSnapshot(i, t, pc, f, next) ==
    /\ At(i, t, pc)
    /\ \/ Store(SessionOf(i, t), f, "complete") /\ Goto(i, t, next)
       \/ ErrorPath(i, t) /\ UNCHANGED files
    /\ UNCHANGED <<dirs, lock, procVars, historyVars>>

\* read_snapshot: validate, read within the cap, decode.  A partial file does
\* not decode.  For the second Snapshot the step includes the comparison.
ReadSnapshot(i, t, pc, f, next) ==
    /\ At(i, t, pc)
    /\ \/ /\ Verified(SessionOf(i, t))
          /\ files[SessionOf(i, t)][f] = "complete"
          /\ Goto(i, t, next)
       \/ ErrorPath(i, t)
    /\ UNCHANGED <<diskVars, procVars, historyVars>>

\* remove_after_if_present, on the error path of finish_capture.
MutantDropsBefore(i, t) ==
    /\ At(i, t, "drop_after")
    /\ \/ Verified(SessionOf(i, t)) /\ Store(SessionOf(i, t), "before", "absent")
       \/ UNCHANGED files
    /\ Goto(i, t, "finish_failed")
    /\ UNCHANGED <<dirs, lock, procVars, historyVars>>

DropAfter(i, t) ==
    /\ At(i, t, "drop_after")
    /\ \/ Verified(SessionOf(i, t)) /\ Store(SessionOf(i, t), "after", "absent")
       \/ UNCHANGED files
    /\ Goto(i, t, "finish_failed")
    /\ UNCHANGED <<dirs, lock, procVars, historyVars>>

\* cleanup_session: validate the session and its entries, then remove one file
\* at a time and the directory last.  The first failure ends the cleanup.
MutantValidateMarkerOnly(i, t) ==
    /\ At(i, t, "validate")
    /\ \/ Verified(SessionOf(i, t)) /\ Goto(i, t, "rm_before")
       \/ Goto(i, t, "cleanup_failed")
    /\ UNCHANGED <<diskVars, procVars, historyVars>>

ValidateCleanup(i, t) ==
    /\ At(i, t, "validate")
    /\ \/ /\ Verified(SessionOf(i, t))
          /\ Allowlisted(SessionOf(i, t))
          /\ Goto(i, t, "rm_before")
       \/ Goto(i, t, "cleanup_failed")
    /\ UNCHANGED <<diskVars, procVars, historyVars>>

RemoveFile(i, t, pc, f, next) ==
    /\ At(i, t, pc)
    /\ \/ Store(SessionOf(i, t), f, "absent") /\ Goto(i, t, next)
       \/ Goto(i, t, "cleanup_failed") /\ UNCHANGED files
    /\ UNCHANGED <<dirs, lock, procVars, historyVars>>

RemoveDirectory(i, t) ==
    /\ At(i, t, "rm_dir")
    /\ \/ /\ files[SessionOf(i, t)] = NoFiles
          /\ dirs' = dirs \ {SessionOf(i, t)}
          /\ Goto(i, t, "cleanup_ok")
       \/ Goto(i, t, "cleanup_failed") /\ UNCHANGED dirs
    /\ UNCHANGED <<files, lock, procVars, historyVars>>

MutantMarkerFirst(i, t) ==
    \/ RemoveFile(i, t, "rm_before", "marker", "rm_after")
    \/ RemoveFile(i, t, "rm_after", "before", "rm_marker")
    \/ RemoveFile(i, t, "rm_marker", "after", "rm_dir")

RemoveFiles(i, t) ==
    \/ RemoveFile(i, t, "rm_before", "before", "rm_after")
    \/ RemoveFile(i, t, "rm_after", "after", "rm_marker")
    \/ RemoveFile(i, t, "rm_marker", "marker", "rm_dir")

WriteSteps(i, t) ==
    \/ OpenSnapshot(i, t, "before_open", "before", "before_write")
    \/ WriteSnapshot(i, t, "before_write", "before", "started")
    \/ OpenSnapshot(i, t, "after_open", "after", "after_write")
    \/ WriteSnapshot(i, t, "after_write", "after", "read_after")

ReadSteps(i, t) ==
    \/ ReadSnapshot(i, t, "read_before", "before", "capture")
    \/ ReadSnapshot(i, t, "read_after", "after", "validate")

-----------------------------------------------------------------------------
(***************************************************************************)
(* Commands: the claim under the mutex, and the outcome published under it *)
(***************************************************************************)

\* The commands that a state refuses leave everything as it is and need no
\* action.  A claim moves the state away from the stage it found.
Claim(i, t, to, n, pc, goal) ==
    /\ phase[i] \in Serving
    /\ At(i, t, "idle")
    /\ stage' = [stage EXCEPT ![i] = to]
    /\ held' = [held EXCEPT ![i] = None]
    /\ SetTask(i, t, [pc |-> pc, session |-> n, goal |-> goal])

\* start_capture from Ready.
StartCommand(i, t) ==
    /\ t \in Workers
    /\ stage[i] = "Ready"
    /\ Claim(i, t, "Starting", None, "mkdir", "start")
    /\ UNCHANGED <<diskVars, phase, todo, historyVars>>

\* finish_capture from Capturing.
MutantFinishKeepsCapturing(i, t) ==
    /\ t \in Workers
    /\ stage[i] = "Capturing"
    /\ At(i, t, "idle")
    /\ SetTask(i, t, [pc |-> "read_before", session |-> held[i], goal |-> "finish"])
    /\ UNCHANGED <<diskVars, procVars, historyVars>>

FinishCommand(i, t) ==
    /\ t \in Workers
    /\ stage[i] = "Capturing"
    /\ Claim(i, t, "Finishing", held[i], "read_before", "finish")
    /\ UNCHANGED <<diskVars, phase, todo, historyVars>>

\* cancel_capture from Capturing or from Results.  Results with nothing left to
\* clean return to Ready at once; thread t then has nothing to do.
MutantCancelAnyStage(i, t) ==
    /\ Claim(i, t, "Finishing", held[i], "validate", "cancel")
    /\ discarded' = discarded \union {held[i]}
    /\ UNCHANGED <<diskVars, phase, todo, told>>

CancelCapturing(i, t) ==
    /\ stage[i] = "Capturing"
    /\ Claim(i, t, "Finishing", held[i], "validate", "cancel")
    /\ discarded' = discarded \union {held[i]}
    /\ UNCHANGED <<diskVars, phase, todo, told>>

CancelResults(i, t) ==
    /\ stage[i] = "Results" /\ held[i] # None
    /\ Claim(i, t, "Finishing", held[i], "validate", "discard")
    /\ UNCHANGED <<diskVars, phase, todo, historyVars>>

LeaveResults(i, t) ==
    /\ phase[i] \in Serving
    /\ At(i, t, "idle")
    /\ stage[i] = "Results" /\ held[i] = None
    /\ stage' = [stage EXCEPT ![i] = "Ready"]
    /\ UNCHANGED <<diskVars, phase, held, todo, task, historyVars>>

CancelCommand(i, t) ==
    \/ CancelCapturing(i, t)
    \/ CancelResults(i, t)

\* Publish the outcome of a claimed command and end its task.
Publish(i, t, to, n) ==
    /\ stage' = [stage EXCEPT ![i] = to]
    /\ held' = [held EXCEPT ![i] = n]
    /\ EndTask(i, t)
    /\ UNCHANGED <<diskVars, todo, discarded>>

Report(i, n) == told' = [told EXCEPT ![i] = @ \union {n}]

StartSucceeds(i, t) ==
    /\ task[i][t].goal = "start" /\ At(i, t, "started")
    /\ Publish(i, t, "Capturing", SessionOf(i, t))
    /\ UNCHANGED <<phase, told>>

\* A failed start returns to Ready.  When its cleanup failed as well, the error
\* says so and nothing in the state remembers the session.
MutantStartReturnsEarly(i, t) ==
    /\ task[i][t].goal = "start"
    /\ task[i][t].pc \in {"start_failed", "cleanup_ok", "cleanup_failed"}
    /\ EndTask(i, t)
    /\ UNCHANGED <<diskVars, procVars, historyVars>>

StartFails(i, t) ==
    /\ task[i][t].goal = "start"
    /\ task[i][t].pc \in {"start_failed", "cleanup_ok", "cleanup_failed"}
    /\ Publish(i, t, "Ready", None)
    /\ IF At(i, t, "cleanup_failed") THEN Report(i, SessionOf(i, t)) ELSE UNCHANGED told
    /\ UNCHANGED phase

\* Results keep the session whose cleanup failed as cleanup_pending.
MutantForgetsPending(i, t) ==
    /\ task[i][t].goal = "finish"
    /\ task[i][t].pc \in {"cleanup_ok", "cleanup_failed"}
    /\ Publish(i, t, "Results", None)
    /\ UNCHANGED <<phase, told>>

FinishSucceeds(i, t) ==
    /\ task[i][t].goal = "finish"
    /\ task[i][t].pc \in {"cleanup_ok", "cleanup_failed"}
    /\ Publish(i, t, "Results", IF At(i, t, "cleanup_failed") THEN SessionOf(i, t) ELSE None)
    /\ UNCHANGED <<phase, told>>

MutantFinishFailsToReady(i, t) ==
    /\ task[i][t].goal = "finish" /\ At(i, t, "finish_failed")
    /\ Publish(i, t, "Ready", None)
    /\ UNCHANGED <<phase, told>>

FinishFails(i, t) ==
    /\ task[i][t].goal = "finish" /\ At(i, t, "finish_failed")
    /\ Publish(i, t, "Capturing", SessionOf(i, t))
    /\ UNCHANGED <<phase, told>>

\* The end of cancel_capture; the event loop goes on to exit after its own.
CancelEnds(i, t) ==
    /\ task[i][t].goal \in {"cancel", "discard"}
    /\ \/ /\ At(i, t, "cleanup_ok")
          /\ Publish(i, t, "Ready", None)
       \/ /\ At(i, t, "cleanup_failed")
          /\ Publish(i, t, IF task[i][t].goal = "cancel" THEN "Capturing" ELSE "Results",
                     SessionOf(i, t))
    /\ phase' = IF t = Main THEN [phase EXCEPT ![i] = "stopped"] ELSE phase
    /\ UNCHANGED told

-----------------------------------------------------------------------------
(***************************************************************************)
(* The life of a process.                                                  *)
(***************************************************************************)
Launch(i) ==
    /\ phase[i] = "down"
    /\ phase' = [phase EXCEPT ![i] = "launched"]
    /\ UNCHANGED <<diskVars, stage, held, todo, task, historyVars>>

\* acquire_root_lock and the directory listing that recovery then walks.  A
\* process that does not get the lock serves its cached error until it ends.
MutantRecoverWithoutLock(i) ==
    /\ phase[i] = "launched"
    /\ lock' = i
    /\ phase' = [phase EXCEPT ![i] = "recovering"]
    /\ todo' = [todo EXCEPT ![i] = dirs]
    /\ UNCHANGED <<dirs, files, stage, held, task, historyVars>>

AcquireLock(i) ==
    /\ phase[i] = "launched"
    /\ \/ /\ lock = None
          /\ lock' = i
          /\ phase' = [phase EXCEPT ![i] = "recovering"]
          /\ todo' = [todo EXCEPT ![i] = dirs]
       \/ /\ phase' = [phase EXCEPT ![i] = "failed"]
          /\ UNCHANGED <<lock, todo>>
    /\ UNCHANGED <<dirs, files, stage, held, task, historyVars>>

\* recover_stale_sessions: cleanup_session on each entry, one after another.
RecoverEntry(i) ==
    /\ phase[i] = "recovering"
    /\ At(i, Main, "idle")
    /\ \E n \in todo[i] :
         SetTask(i, Main, [pc |-> "validate", session |-> n, goal |-> "recover"])
    /\ UNCHANGED <<diskVars, procVars, historyVars>>

MutantRetryRefused(i) ==
    /\ task[i][Main].goal = "recover"
    /\ task[i][Main].pc \in {"cleanup_ok", "cleanup_failed"}
    /\ IF At(i, Main, "cleanup_ok")
         THEN todo' = [todo EXCEPT ![i] = @ \ {SessionOf(i, Main)}]
         ELSE UNCHANGED todo
    /\ EndTask(i, Main)
    /\ UNCHANGED <<diskVars, phase, stage, held, historyVars>>

\* cleaned_sessions or refused_entries counts the entry.
RecoverEntryEnds(i) ==
    /\ task[i][Main].goal = "recover"
    /\ task[i][Main].pc \in {"cleanup_ok", "cleanup_failed"}
    /\ todo' = [todo EXCEPT ![i] = @ \ {SessionOf(i, Main)}]
    /\ IF At(i, Main, "cleanup_failed") THEN Report(i, SessionOf(i, Main))
                                        ELSE UNCHANGED told
    /\ EndTask(i, Main)
    /\ UNCHANGED <<diskVars, phase, stage, held, discarded>>

RecoveryEnds(i) ==
    /\ phase[i] = "recovering" /\ todo[i] = {} /\ At(i, Main, "idle")
    /\ phase' = [phase EXCEPT ![i] = "up"]
    /\ UNCHANGED <<diskVars, stage, held, todo, task, historyVars>>

\* Enumerating the root fails: the service is not built and its lock is dropped.
RecoveryAborts(i) ==
    /\ phase[i] = "recovering" /\ At(i, Main, "idle")
    /\ phase' = [phase EXCEPT ![i] = "failed"]
    /\ lock' = None
    /\ todo' = [todo EXCEPT ![i] = {}]
    /\ told' = [told EXCEPT ![i] = {}]
    /\ UNCHANGED <<dirs, files, stage, held, task, discarded>>

\* ExitRequested: shutdown_cleanup reads the stage, and lets go of the mutex
\* before it calls cancel_capture for a stable capture or Results.
ExitRequested(i) ==
    /\ phase[i] = "up"
    /\ phase' = [phase EXCEPT ![i] = IF stage[i] \in {"Capturing", "Results"}
                                       THEN "stopping" ELSE "stopped"]
    /\ UNCHANGED <<diskVars, stage, held, todo, task, historyVars>>

\* cancel_capture as called by shutdown_cleanup.  The stage may have moved on:
\* then the call is refused, or has no cleanup to do, and the process exits.
ExitCancel(i) ==
    /\ phase[i] = "stopping" /\ At(i, Main, "idle")
    /\ CancelCommand(i, Main)

ExitWithoutCleanup(i) ==
    /\ phase[i] = "stopping" /\ At(i, Main, "idle")
    /\ ~(stage[i] = "Capturing" \/ (stage[i] = "Results" /\ held[i] # None))
    /\ stage' = IF stage[i] = "Results" THEN [stage EXCEPT ![i] = "Ready"] ELSE stage
    /\ phase' = [phase EXCEPT ![i] = "stopped"]
    /\ UNCHANGED <<diskVars, held, todo, task, historyVars>>

\* Whatever a process knew is gone with it, and the system drops its lock.
ProcessGone(i) ==
    /\ phase' = [phase EXCEPT ![i] = "down"]
    /\ stage' = [stage EXCEPT ![i] = "Ready"]
    /\ held' = [held EXCEPT ![i] = None]
    /\ todo' = [todo EXCEPT ![i] = {}]
    /\ told' = [told EXCEPT ![i] = {}]
    /\ task' = [task EXCEPT ![i] = [t \in Threads |-> Idle]]
    /\ lock' = IF lock = i THEN None ELSE lock
    /\ UNCHANGED <<dirs, files, discarded>>

Terminate(i) == phase[i] \in {"stopped", "failed"} /\ ProcessGone(i)
Crash(i) == phase[i] \notin {"down", "stopped", "failed"} /\ ProcessGone(i)

-----------------------------------------------------------------------------
StorageStep(i, t) ==
    \/ MakeDirectory(i, t)
    \/ OpenMarker(i, t)
    \/ WriteMarker(i, t)
    \/ UndoDirectory(i, t)
    \/ Capture(i, t)
    \/ WriteSteps(i, t)
    \/ ReadSteps(i, t)
    \/ DropAfter(i, t)
    \/ ValidateCleanup(i, t)
    \/ RemoveFiles(i, t)
    \/ RemoveDirectory(i, t)

PublishStep(i, t) ==
    \/ StartSucceeds(i, t)
    \/ StartFails(i, t)
    \/ FinishSucceeds(i, t)
    \/ FinishFails(i, t)
    \/ CancelEnds(i, t)

\* What a thread that has a task does next.
ThreadStep(i, t) == StorageStep(i, t) \/ PublishStep(i, t)

\* What the user asks of a running application.
UserCommand(i, t) ==
    \/ StartCommand(i, t)
    \/ FinishCommand(i, t)
    \/ t \in Workers /\ CancelCommand(i, t)
    \/ t \in Workers /\ LeaveResults(i, t)

\* What the startup and the exit of a process do by themselves.
ProcessStep(i) ==
    \/ AcquireLock(i)
    \/ RecoverEntry(i)
    \/ RecoverEntryEnds(i)
    \/ RecoveryEnds(i)
    \/ ExitCancel(i)
    \/ ExitWithoutCleanup(i)
    \/ Terminate(i)

Next ==
    \E i \in Instances :
        \/ \E t \in Threads : ThreadStep(i, t) \/ UserCommand(i, t)
        \/ ProcessStep(i)
        \/ Launch(i)
        \/ RecoveryAborts(i)
        \/ ExitRequested(i)
        \/ Crash(i)

Spec == Init /\ [][Next]_vars

\* A running thread is scheduled, and its file-system calls and the native
\* capture return.  Nothing obliges a user to act or a process to crash.
Fairness ==
    \A i \in Instances :
        /\ WF_vars(ProcessStep(i))
        /\ \A t \in Threads : WF_vars(ThreadStep(i, t))

FairSpec == Spec /\ Fairness

-----------------------------------------------------------------------------
Busy(i, t) == ~At(i, t, "idle")

\* At most one thread of all processes works on the session root, it belongs to
\* the process that holds the root lock, and no stable state refers to a session
\* meanwhile: duplicate commands, an exit that raced a command and a second
\* process never touch the files of a live capture (the claims of session.rs
\* 157-243, and the lock that SessionService::new takes before it recovers).
ExclusiveOwner ==
    /\ \A i \in Instances, t \in Threads :
         Busy(i, t) =>
           /\ lock = i
           /\ held[i] = None
           /\ \A j \in Instances, u \in Threads : Busy(j, u) => j = i /\ u = t
    /\ \A i \in Instances : held[i] # None => lock = i

\* Snapshot bytes lie only in a directory that startup recovery accepts, at every
\* step of every creation, write and cleanup and so after a crash at any of them:
\* the marker is complete before the first byte and outlives the last one
\* (create_session_named, write_snapshot and the order in cleanup_session).
EvidenceRecoverable ==
    \A n \in Sessions : Evidence(n) => Verified(n) /\ Allowlisted(n)

\* While a process serves commands, evidence on the disk is the session of its
\* state or of its running command, or one whose failed cleanup it has reported:
\* no path of start, finish, cancel or recovery leaves Snapshots behind silently.
NoSilentEvidence ==
    \A i \in Instances : phase[i] \in Serving =>
        \A n \in Sessions : Evidence(n) =>
            \/ n = held[i]
            \/ n \in told[i]
            \/ \E t \in Threads : SessionOf(i, t) = n

\* The first Snapshot of a capture stays whole for a retry, however often finish
\* fails and at whichever step, until a cancellation has begun to remove it
\* (the error path of finish_capture_work removes the second Snapshot only).
BaselineKept ==
    \A i \in Instances :
        stage[i] = "Capturing" /\ held[i] \notin discarded =>
            Verified(held[i]) /\ files[held[i]]["before"] = "complete"

\* Recovery leaves a directory without an intact marker, or with a file the app
\* did not write, exactly as it found it (validate_session and
\* validate_session_entries come before the first removal).
SuspiciousUntouched ==
    [][\A n \in Suspicious : n \in dirs' /\ files'[n] = files[n]]_<<dirs, files>>

\* A command that was accepted is answered: Starting and Finishing end, whatever
\* fails on the way (every path of the work functions publishes an outcome).
CommandsAnswer ==
    \A i \in Instances :
        stage[i] \in {"Starting", "Finishing"} ~> stage[i] \notin {"Starting", "Finishing"}

\* Startup reaches a serving or a failed process, and an exit that was requested
\* ends the process: a refused recovery entry or a busy session holds up neither.
ProcessSettles ==
    \A i \in Instances :
        /\ phase[i] \in {"launched", "recovering"} ~> phase[i] \notin {"launched", "recovering"}
        /\ phase[i] = "stopping" ~> phase[i] = "down"

\* What the cleanup notice says of Results that kept their evidence: "Choose New
\* capture to retry cleanup" (i18n.ts:51).  The retry validates the marker first.
CleanupRetryCanSucceed ==
    \A i \in Instances :
        stage[i] = "Results" /\ held[i] # None => Verified(held[i]) /\ Allowlisted(held[i])
=============================================================================
