------------------------- MODULE SessionRefinement --------------------------
(***************************************************************************)
(* DesktopSession implements CaptureLifecycle.                             *)
(***************************************************************************)
EXTENDS DesktopSession

Doing(goal) == \E i \in Instances, t \in Threads : task[i][t].goal = goal

Comparing ==
    \E i \in Instances, t \in Threads :
        /\ task[i][t].goal = "finish"
        /\ task[i][t].pc \in {"read_before", "capture", "after_open", "after_write",
                              "read_after", "drop_after", "finish_failed"}

InStage(s) == \E i \in Instances : stage[i] = s

LifecycleMode ==
    CASE Doing("start")   -> "Starting"
      [] Comparing        -> "Comparing"
      [] Doing("finish") /\ ~Comparing -> "Compared"
      [] Doing("cancel")  -> "DiscardingCapture"
      [] Doing("discard") -> "DiscardingResults"
      [] InStage("Capturing") -> "Capturing"
      [] InStage("Results")   -> "Results"
      [] OTHER -> "Ready"

\* The directory of the capture that a state or a command of a process is about.
Current(n) ==
    \E i \in Instances :
        \/ held[i] = n
        \/ \E t \in Threads : SessionOf(i, t) = n /\ task[i][t].goal # "recover"

LifecycleBaseline ==
    IF \E n \in Sessions : Current(n) /\ Verified(n) /\ files[n]["before"] = "complete"
      THEN "kept" ELSE "none"

Lifecycle == INSTANCE CaptureLifecycle WITH
    owner <- lock, mode <- LifecycleMode, baseline <- LifecycleBaseline

\* The session, with its threads, its single file-system calls and their
\* failures, crashes and recovery, keeps the promises of CaptureLifecycle: no
\* results without a readable first Snapshot, no baseline lost by a failed start
\* or finish, and one owner at a time (session.rs and storage.rs as a whole).
ImplementsLifecycle == Lifecycle!Spec
=============================================================================
