----------------------------- MODULE DesktopUI ------------------------------
(***************************************************************************)
(* The page of the desktop application (App.tsx) and the commands it sends *)
(* to the session service.  A command is a message and so is its answer;   *)
(* the page that sent it may be gone when the answer comes.  The service   *)
(* is the one of DesktopSession without its threads and files: a command   *)
(* claims the stage in one step and ends in another.                       *)
(*                                                                         *)
(* What is rendered is a function of the page's state: while that is newer *)
(* than the rendered page, the buttons of the latter are disabled.         *)
(***************************************************************************)
EXTENDS Naturals, FiniteSets

CONSTANTS
    MaxCalls,    \* bound of the model: calls under way at once
    MaxResults,  \* bound of the model: after so many comparisons numbers repeat
    MaxReloads   \* bound of the model: reloads of the page

ASSUME PageAssumption ==
    MaxCalls \in Nat \ {0, 1} /\ MaxResults \in Nat \ {0} /\ MaxReloads \in Nat

VARIABLES
    serving,    \* the process has a SessionService
    view,       \* what that service would answer to get_session_state
    compared,   \* the latest comparison
    calls,      \* calls that were sent and whose answer was not delivered
    reloads,    \* how often the page was reloaded
    mounted,    \* the page has asked for the state of the session
    inFlight,   \* a command of the page waits for its answer
    working,    \* the buttons are disabled
    session,    \* the state of the session as the page knows it
    error,      \* the error the page shows, or "none"
    details     \* the technical panel: whether it is open, the result it shows

service == <<serving, view, compared>>
page == <<mounted, inFlight, working, session, error, details>>
vars == <<service, calls, reloads, page>>

-----------------------------------------------------------------------------
Stages == {"ready", "starting", "capturing", "finishing", "results"}
Busy == {"starting", "finishing"}

\* A presentation is the number of the comparison it shows; 0 is none.
View(stage, presentation, cleanup_pending) ==
    [stage |-> stage, presentation |-> presentation, cleanup_pending |-> cleanup_pending]

Views == [stage : Stages, presentation : 0 .. MaxResults, cleanup_pending : BOOLEAN]

initialState == View("ready", 0, FALSE)

\* The panel shows the details of a comparison, nothing yet (0), or an error.
Closed == [open |-> FALSE, of |-> 0, refused |-> FALSE]

Technical == "get_technical_details"
Commands == {"get_session_state", "start_capture", "finish_capture", "cancel_capture"}

\* A call waits for the service, runs, or has its answer; view is that answer,
\* or what the service goes back to when the call that runs fails.
Call(id, command) ==
    [id |-> id, command |-> command, listening |-> TRUE, status |-> "sent", view |-> initialState]

TypeOK ==
    /\ serving \in BOOLEAN
    /\ view \in Views
    /\ (view.presentation # 0) = (view.stage = "results")
    /\ compared \in 0 .. MaxResults
    /\ \A c \in calls :
        /\ c.id \in 1 .. MaxCalls
        /\ c.command \in Commands \union {Technical}
        /\ c.listening \in BOOLEAN
        /\ c.status \in {"sent", "running", "ok", "conflict", "failed", "restart"}
        /\ c.view \in Views
    /\ Cardinality({c.id : c \in calls}) = Cardinality(calls)
    /\ reloads \in 0 .. MaxReloads
    /\ mounted \in BOOLEAN /\ inFlight \in BOOLEAN /\ working \in BOOLEAN
    /\ session \in Views
    /\ error \in {"none", "conflict", "failed", "restart"}
    /\ details \in [open : BOOLEAN, of : 0 .. MaxResults, refused : BOOLEAN]

\* The state of a page before its first effect.
Fresh(isMounted, isInFlight, isWorking, shows, err, panel) ==
    /\ isMounted = FALSE /\ isInFlight = FALSE /\ isWorking = TRUE
    /\ shows = initialState /\ err = "none" /\ panel = Closed

Init ==
    /\ serving \in BOOLEAN
    /\ view = initialState
    /\ compared = 0
    /\ calls = {}
    /\ reloads = 0
    /\ Fresh(mounted, inFlight, working, session, error, details)

-----------------------------------------------------------------------------
(***************************************************************************)
(* The service                                                             *)
(***************************************************************************)
With(id) == {c \in calls : c.id = id}

Answer(c, status, v) ==
    calls' = (calls \ {c}) \union {[c EXCEPT !.status = status, !.view = v]}

\* The stage is claimed for a command, and taken over by it.
Claim(c, stage) == view' = View(stage, 0, FALSE) /\ Answer(c, "running", view)

Conflict(c) == Answer(c, "conflict", initialState) /\ UNCHANGED view

Tell(c) == Answer(c, "ok", view) /\ UNCHANGED view

Accept(c) ==
    \/ /\ c.command = "get_session_state"
       /\ Tell(c)
    \/ /\ c.command = "start_capture"
       /\ \/ view.stage = "ready" /\ Claim(c, "starting")
          \/ view.stage # "ready" /\ Conflict(c)
    \/ /\ c.command = "finish_capture"
       /\ \/ view.stage = "capturing" /\ Claim(c, "finishing")
          \/ view.stage # "capturing" /\ Conflict(c)
    \/ /\ c.command = "cancel_capture"
       /\ \/ /\ view.stage = "results" /\ ~view.cleanup_pending
             /\ view' = initialState
             /\ Answer(c, "ok", initialState)
          \/ /\ view.stage = "capturing" \/ view.cleanup_pending
             /\ Claim(c, "finishing")
          \/ view.stage \in Busy \union {"ready"} /\ Conflict(c)
    \/ /\ c.command = Technical
       /\ \/ view.stage = "results" /\ Tell(c)
          \/ view.stage # "results" /\ Conflict(c)

\* A call reaches the service, or a process that failed to set one up.
Begin(id) ==
    /\ \E c \in With(id) :
        /\ c.status = "sent"
        /\ \/ serving /\ Accept(c)
           \/ ~serving /\ Answer(c, "restart", initialState) /\ UNCHANGED view
    /\ UNCHANGED <<serving, compared, reloads, page>>

Latest == (compared % MaxResults) + 1

Successes(command) ==
    CASE command = "start_capture"  -> {View("capturing", 0, FALSE)}
      [] command = "finish_capture" -> [stage : {"results"}, presentation : {Latest},
                                        cleanup_pending : BOOLEAN]
      [] command = "cancel_capture" -> {initialState}

\* Mutant: the stage is restored, but not the results that go with it.
MutantRestoreStage(c) == View(c.view.stage, 0, FALSE)

Restored(c) == c.view

\* The work of a call ends; if it fails, it gives back what it had claimed.
End(id) ==
    /\ \E c \in With(id) :
        /\ c.status = "running"
        /\ \/ \E v \in Successes(c.command) :
                /\ view' = v
                /\ Answer(c, "ok", v)
                /\ compared' = IF v.stage = "results" THEN Latest ELSE compared
           \/ /\ view' = Restored(c)
              /\ Answer(c, "failed", initialState)
              /\ UNCHANGED compared
    /\ UNCHANGED <<serving, reloads, page>>

-----------------------------------------------------------------------------
(***************************************************************************)
(* The page                                                                *)
(***************************************************************************)
\* What App renders, and the commands that its buttons offer.
Content(err, s) ==
    CASE err # "none"                                -> "error"
      [] err = "none" /\ s.stage \in Busy            -> "busy"
      [] err = "none" /\ s.stage = "capturing"       -> "capturing"
      [] err = "none" /\ s.stage = "results" /\ s.presentation # 0 -> "results"
      [] OTHER                                       -> "ready"

Shown == Content(error, session)

Buttons ==
    CASE Shown = "error"     -> IF error = "restart" THEN {} ELSE {"get_session_state"}
      [] Shown = "capturing" -> {"finish_capture", "cancel_capture"}
      [] Shown = "results"   -> {"cancel_capture"}
      [] Shown = "ready"     -> {"start_capture"}
      [] Shown = "busy"      -> {}

Offered == IF working THEN {} ELSE Buttons

\* The n-th identifier that is not in use.
Free(n) ==
    {id \in 1 .. MaxCalls :
        /\ With(id) = {}
        /\ Cardinality({k \in 1 .. id : With(k) = {}}) = n}

\* Mutant: the technical panel outlives the results it was opened for.
MutantKeepDetails(err, s, remaining) ==
    calls' = remaining /\ UNCHANGED details

\* The technical panel belongs to the rendered results; with them it goes, and
\* an answer that is still under way does not find it any more.
KeepDetails(err, s, remaining) ==
    IF Content(err, s) = "results"
      THEN calls' = remaining /\ UNCHANGED details
      ELSE /\ calls' = {[c EXCEPT !.listening = @ /\ c.command # Technical] : c \in remaining}
           /\ details' = Closed

\* Mutant: the answer to the first of two effects is used as well.
MutantStillListens == TRUE

ListensAfterDispose == FALSE

\* The effect that asks for the state.  In a development build it runs twice,
\* and the first call of the two is disposed of.
Mount ==
    /\ ~mounted
    /\ mounted' = TRUE /\ inFlight' = TRUE
    /\ \/ \E id \in Free(1) : calls' = calls \union {Call(id, "get_session_state")}
       \/ \E first \in Free(1), second \in Free(2) :
            calls' = calls \union {[Call(first, "get_session_state") EXCEPT
                                        !.listening = ListensAfterDispose],
                                   Call(second, "get_session_state")}
    /\ UNCHANGED <<service, reloads, working, session, error, details>>

\* invokeState: the stage that the command will lead to is shown at once.
Optimistic(command) ==
    CASE command = "start_capture"  -> View("starting", 0, FALSE)
      [] command = "finish_capture" -> [session EXCEPT !.stage = "finishing"]
      [] OTHER                      -> session

Click ==
    /\ mounted /\ ~inFlight
    /\ \E command \in Offered, id \in Free(1) :
        /\ session' = Optimistic(command)
        /\ KeepDetails("none", session', calls \union {Call(id, command)})
    /\ error' = "none"
    /\ inFlight' = TRUE /\ working' = TRUE
    /\ UNCHANGED <<service, reloads, mounted>>

Answered(c) == c.status \notin {"sent", "running"}

\* Mutant: the buttons come back only when a command has succeeded.
MutantFreeOnSuccess(c) == c.status # "ok"

StillWorking(c) == FALSE

\* The answer to a command, or to the call of the effect.
Deliver(id) ==
    /\ \E c \in With(id) :
        /\ Answered(c) /\ c.listening /\ c.command # Technical
        /\ session' = IF c.status = "ok" THEN c.view ELSE session
        /\ error' = IF c.status = "ok" THEN error ELSE c.status
        /\ KeepDetails(error', session', calls \ {c})
        /\ inFlight' = StillWorking(c) /\ working' = StillWorking(c)
    /\ UNCHANGED <<service, reloads, mounted>>

\* toggleTechnical: the details are loaded when they are shown first.
ToggleTechnical ==
    /\ Shown = "results"
    /\ details' = [details EXCEPT !.open = ~@]
    /\ IF ~details.open /\ details.of = 0 /\ ~details.refused
         THEN \E id \in Free(1) : calls' = calls \union {Call(id, Technical)}
         ELSE UNCHANGED calls
    /\ UNCHANGED <<service, reloads, mounted, inFlight, working, session, error>>

DeliverTechnical(id) ==
    /\ \E c \in With(id) :
        /\ Answered(c) /\ c.listening /\ c.command = Technical
        /\ details' = IF c.status = "ok" THEN [details EXCEPT !.of = c.view.presentation]
                      ELSE [details EXCEPT !.refused = TRUE]
        /\ calls' = calls \ {c}
    /\ UNCHANGED <<service, reloads, mounted, inFlight, working, session, error>>

\* Nobody listens to the answer any more.
Discard(id) ==
    /\ \E c \in With(id) : Answered(c) /\ ~c.listening /\ calls' = calls \ {c}
    /\ UNCHANGED <<service, reloads, page>>

\* The page is loaded again; what the service is doing goes on.
Reload ==
    /\ reloads < MaxReloads
    /\ reloads' = reloads + 1
    /\ calls' = {[c EXCEPT !.listening = FALSE] : c \in calls}
    /\ Fresh(mounted', inFlight', working', session', error', details')
    /\ UNCHANGED service

Progress(id) == Begin(id) \/ End(id) \/ Deliver(id) \/ DeliverTechnical(id) \/ Discard(id)

Next == Mount \/ Click \/ ToggleTechnical \/ Reload \/ (\E id \in 1 .. MaxCalls : Progress(id))

Spec == Init /\ [][Next]_vars

\* The page runs its effects, and every call is served and answered; nobody has
\* to click on anything.
FairSpec == Spec /\ WF_vars(Mount) /\ \A id \in 1 .. MaxCalls : WF_vars(Progress(id))

-----------------------------------------------------------------------------
(***************************************************************************)
(* Properties                                                              *)
(***************************************************************************)

\* A page that was not reloaded and awaits nothing shows exactly what the
\* service holds: stage, results and the notice of a pending cleanup.  No late
\* answer overwrites a newer one.
ViewIsCurrent ==
    mounted /\ ~working /\ error = "none" /\ reloads = 0 => session = view

\* Without a reload the page never sends a command that the stage of the
\* session does not allow; its guards do not rely on the service's refusals.
ConflictsNeedReload ==
    \A c \in calls : c.status = "conflict" /\ c.command # Technical => reloads > 0

\* The technical details on display are those of the results on display, also
\* when they arrive late, or after a reload.  (Two reloads can leave a start and a
\* finish behind that pass a cancellation of the third page: that page then reads
\* the details of newer results than it shows.)
DetailsFit ==
    reloads < 2 /\ Shown = "results" /\ details.of # 0 => details.of = session.presentation

\* Again and again the page offers something to do, unless the process has no
\* session, or the page was loaded while the service was busy: such a page shows
\* the busy view, which has no button, and asks no more.
UserIsOffered ==
    []<>(Offered # {} \/ error = "restart" \/ (Shown = "busy" /\ reloads > 0))
=============================================================================
