-------------------------- MODULE CaptureLifecycle --------------------------
(***************************************************************************)
(* What the desktop session promises, without threads, files or failures   *)
(* of single calls.  One process owns the session root.  A capture begins  *)
(* by keeping a first Snapshot, the baseline; results are only ever        *)
(* computed from a baseline that is still kept; a comparison that fails    *)
(* gives the capture back with its baseline as it was; and only after a    *)
(* comparison or in a cancellation is a baseline given up.                 *)
(***************************************************************************)
CONSTANTS Instances, None

VARIABLES
    owner,     \* the process that owns the session root, or None
    mode,      \* what that process is doing
    baseline   \* whether the first Snapshot of its capture can be read

vars == <<owner, mode, baseline>>

Modes == {"Ready", "Starting", "Capturing", "Comparing", "Compared",
          "DiscardingCapture", "DiscardingResults", "Results"}

TypeOK ==
    /\ owner \in Instances \union {None}
    /\ mode \in Modes
    /\ baseline \in {"none", "kept"}

Init == owner = None /\ mode = "Ready" /\ baseline = "none"

-----------------------------------------------------------------------------
Move(from, to) == mode \in from /\ mode' = to /\ UNCHANGED owner

\* A process takes ownership only when no other one has it.
Acquire ==
    /\ owner = None
    /\ owner' \in Instances
    /\ UNCHANGED <<mode, baseline>>

\* The owner ends or dies; what is on its disk is no capture of anyone then.
Release ==
    /\ owner # None
    /\ owner' = None /\ mode' = "Ready" /\ baseline' = "none"

Start == Move({"Ready"}, "Starting") /\ UNCHANGED baseline

Keep ==
    /\ mode = "Starting" /\ baseline = "none" /\ baseline' = "kept"
    /\ UNCHANGED <<owner, mode>>

Started == Move({"Starting"}, "Capturing") /\ baseline = "kept" /\ UNCHANGED baseline

StartFailed == Move({"Starting"}, "Ready") /\ baseline = "none" /\ UNCHANGED baseline

Compare == Move({"Capturing"}, "Comparing") /\ UNCHANGED baseline

CompareSucceeded ==
    Move({"Comparing"}, "Compared") /\ baseline = "kept" /\ UNCHANGED baseline

CompareFailed == Move({"Comparing"}, "Capturing") /\ UNCHANGED baseline

Cancel == Move({"Capturing"}, "DiscardingCapture") /\ UNCHANGED baseline

RetryCleanup == Move({"Results"}, "DiscardingResults") /\ UNCHANGED baseline

\* The only steps that give up a baseline.
GiveUp ==
    /\ mode \in {"Compared", "DiscardingCapture", "DiscardingResults"}
    /\ baseline = "kept" /\ baseline' = "none"
    /\ UNCHANGED <<owner, mode>>

\* A cancellation ends in Ready when everything is gone, else where it began.
Discarded ==
    /\ Move({"DiscardingCapture", "DiscardingResults"}, "Ready")
    /\ baseline = "none" /\ UNCHANGED baseline

DiscardFailed ==
    /\ \/ Move({"DiscardingCapture"}, "Capturing")
       \/ Move({"DiscardingResults"}, "Results")
    /\ UNCHANGED baseline

Show == Move({"Compared"}, "Results") /\ UNCHANGED baseline

Leave == Move({"Results"}, "Ready") /\ baseline = "none" /\ UNCHANGED baseline

Serve ==
    \/ Start \/ Keep \/ Started \/ StartFailed
    \/ Compare \/ CompareSucceeded \/ CompareFailed
    \/ Cancel \/ RetryCleanup \/ GiveUp \/ Discarded \/ DiscardFailed
    \/ Show \/ Leave

Next == Acquire \/ Release \/ (owner # None /\ Serve)

Spec == Init /\ [][Next]_vars
=============================================================================
