--------------------------- MODULE ScanRefinement ---------------------------
(***************************************************************************)
(* RegistryScan implements ScopeCapture: however the native calls and the  *)
(* writes to the key interleave, a scope ends as if it had been captured   *)
(* in one step.  Order is forgotten, and so is where the scan stands.      *)
(***************************************************************************)
EXTENDS RegistryScan

Promise == INSTANCE ScopeCapture WITH
    content <- ToSet(values),
    result <- [s \in 1 .. Scopes |->
                [status |-> result[s].status, found |-> ToSet(result[s].found)]]

\* Each step of the scan is a change of the key, the end of a scope with an
\* outcome that ScopeCapture allows, or no step of it at all.
ImplementsCapture == Promise!CaptureSpec
=============================================================================
