--------------------------- MODULE DesktopUIProofs ---------------------------
(***************************************************************************)
(* What DesktopUI promises, for any number of calls under way, of          *)
(* comparisons and of reloads: type correctness; of a page that was not    *)
(* reloaded, that it shows what the service holds and sends no command     *)
(* that the service must refuse; of one that was reloaded once at most,    *)
(* that its technical details are those of its results.  Everything rests  *)
(* on there being one call at most whose answer the page still wants.      *)
(***************************************************************************)
EXTENDS DesktopUI, TLAPS, FiniteSetTheorems

CallSet ==
    [id : 1 .. MaxCalls, command : Commands \union {Technical}, listening : BOOLEAN,
     status : {"sent", "running", "ok", "conflict", "failed", "restart"}, view : Views]

\* The calls that are about the state of the session, and those that change it.
Ordinary == {c \in calls : c.command # Technical}
Changing == {"start_capture", "finish_capture", "cancel_capture"}

Good(v) == v \in Views /\ (v.stage = "results" => v.presentation # 0)

\* The service accepts this command at this stage.
Allowed(command, stage) ==
    /\ command = "start_capture" => stage = "ready"
    /\ command = "finish_capture" => stage = "capturing"
    /\ command = "cancel_capture" => stage \in {"capturing", "results"}

\* What a call that the page listens to knows of the service.
Consistent(c) ==
    /\ c.status = "sent" => Allowed(c.command, view.stage)
    /\ c.status = "ok" => c.view = view

Typed ==
    /\ calls \in SUBSET CallSet
    /\ Good(view) /\ compared \in Nat /\ reloads \in Nat
    /\ \A c \in calls : c.status = "running" => c.command \in Changing /\ Good(c.view)

\* The page and its calls, as long as it has not been reloaded.
OneConversation ==
    /\ inFlight => mounted /\ working
    /\ ~mounted => working
    /\ ~inFlight => \A c \in Ordinary : c.listening = FALSE
    /\ \A c, d \in Ordinary : c.listening = TRUE /\ d.listening = TRUE => c = d
    /\ \A c \in Ordinary : c.command \in Changing => c.listening = TRUE
    /\ \A c \in Ordinary : c.status # "conflict"
    /\ \A c \in Ordinary : c.listening = TRUE => Consistent(c)
    /\ mounted /\ ~working /\ error = "none" => session = view

Flags == mounted \in BOOLEAN /\ inFlight \in BOOLEAN /\ working \in BOOLEAN

PageInv == Typed /\ Flags /\ (reloads = 0 => OneConversation)

-----------------------------------------------------------------------------
LEMMA PageInit == Init => PageInv
<1> SUFFICES ASSUME Init PROVE PageInv
  OBVIOUS
<1>1. Good(view)
  BY PageAssumption DEF Init, Good, Views, View, initialState, Stages
<1> QED
  BY <1>1 DEF Init, Fresh, PageInv, Typed, Flags, OneConversation, Ordinary

\* With a reload nothing more is claimed.
LEMMA ReloadKeeps ==
  ASSUME PageInv, Reload
  PROVE  PageInv'
<1>1. reloads' # 0 /\ reloads' \in Nat
  BY DEF Reload, PageInv, Typed
<1>2. calls' \in SUBSET CallSet
  BY DEF Reload, PageInv, Typed, CallSet
<1>3. \A c \in calls' : c.status = "running" => c.command \in Changing /\ Good(c.view)
  BY DEF Reload, PageInv, Typed, CallSet
<1>4. Flags'
  BY DEF Reload, Fresh, Flags
<1> QED
  BY <1>1, <1>2, <1>3, <1>4 DEF Reload, service, PageInv, Typed

LEMMA NewCall ==
  ASSUME NEW id \in 1 .. MaxCalls, NEW command \in Commands \union {Technical}
  PROVE  /\ Call(id, command) \in CallSet
         /\ Call(id, command).command = command
         /\ Call(id, command).status = "sent"
         /\ Call(id, command).listening = TRUE
BY PageAssumption DEF Call, CallSet, Views, View, initialState, Stages

\* The page asks for the state; in a development build there is a second call
\* that nobody listens to.
LEMMA MountShape ==
  ASSUME Mount
  PROVE  \E new \in CallSet, more \in SUBSET CallSet :
           /\ calls' = calls \union {new} \union more
           /\ new.command = "get_session_state" /\ new.status = "sent" /\ new.listening = TRUE
           /\ \A c \in more : c.command = "get_session_state" /\ c.status = "sent"
                             /\ c.listening = FALSE
           /\ \A c \in calls, d \in {new} \union more : c.id # d.id
           /\ \A c, d \in {new} \union more : c.id = d.id => c = d
<1> DEFINE state == "get_session_state"
           Deaf(id) == [Call(id, state) EXCEPT !.listening = FALSE]
<1>0. state \in Commands
  BY DEF Commands
<1>1. \A id \in 1 .. MaxCalls :
        /\ Deaf(id) \in CallSet /\ Deaf(id).command = state
        /\ Deaf(id).status = "sent" /\ Deaf(id).listening = FALSE /\ Deaf(id).id = id
  BY <1>0, NewCall DEF Call, CallSet
<1>2. \A id \in 1 .. MaxCalls :
        /\ Call(id, state) \in CallSet /\ Call(id, state).command = state
        /\ Call(id, state).status = "sent" /\ Call(id, state).listening = TRUE
        /\ Call(id, state).id = id
  BY <1>0, NewCall DEF Call
<1>3. \A n : \A id \in Free(n) : id \in 1 .. MaxCalls /\ \A c \in calls : c.id # id
  BY DEF Free, With
<1> HIDE DEF Deaf
<1>4. CASE \E id \in Free(1) : calls' = calls \union {Call(id, state)}
  <2>1. PICK id \in Free(1) : calls' = calls \union {Call(id, state)}
    BY <1>4
  <2>2. calls' = calls \union {Call(id, state)} \union {}
    BY <2>1
  <2> QED
    <3>1. /\ id \in 1 .. MaxCalls /\ \A c \in calls : c.id # id
      BY <1>3
    <3> Call(id, state) \in CallSet
      BY <1>2, <3>1
    <3> WITNESS Call(id, state) \in CallSet, {} \in SUBSET CallSet
    <3> QED
      BY <1>2, <2>2, <3>1
<1>5. CASE \E first \in Free(1), second \in Free(2) :
             calls' = calls \union {Deaf(first), Call(second, state)}
  <2>1. PICK first \in Free(1), second \in Free(2) :
             calls' = calls \union {Deaf(first), Call(second, state)}
    BY <1>5
  <2>2. calls' = calls \union {Call(second, state)} \union {Deaf(first)}
    BY <2>1
  <2>3. first # second
    BY DEF Free
  <2>4. /\ first \in 1 .. MaxCalls /\ second \in 1 .. MaxCalls
        /\ \A c \in calls : c.id # first /\ c.id # second
    BY <1>3
  <2>5. /\ Call(second, state) \in CallSet /\ Call(second, state).command = state
        /\ Call(second, state).status = "sent" /\ Call(second, state).listening = TRUE
        /\ Call(second, state).id = second
    BY <1>2, <2>4
  <2>6. /\ Deaf(first) \in CallSet /\ Deaf(first).command = state
        /\ Deaf(first).status = "sent" /\ Deaf(first).listening = FALSE
        /\ Deaf(first).id = first
    BY <1>1, <2>4
  <2> DEFINE new == Call(second, state)
             more == {Deaf(first)}
  <2>7. /\ \A c \in calls, d \in {new} \union more : c.id # d.id
        /\ \A c, d \in {new} \union more : c.id = d.id => c = d
    BY <2>3, <2>4, <2>5, <2>6
  <2> HIDE DEF new
  <2> new \in CallSet /\ more \in SUBSET CallSet
    BY <2>5, <2>6 DEF new
  <2> WITNESS new \in CallSet, more \in SUBSET CallSet
  <2> QED
    BY <2>2, <2>5, <2>6, <2>7 DEF new
<1> QED
  BY <1>4, <1>5 DEF Mount, Deaf, ListensAfterDispose

LEMMA MountKeeps ==
  ASSUME PageInv, Mount
  PROVE  PageInv'
<1>0. "get_session_state" # Technical /\ "get_session_state" \notin Changing
  BY DEF Technical, Changing
<1>1. PICK new \in CallSet, more \in SUBSET CallSet :
        /\ calls' = calls \union {new} \union more
        /\ new.command = "get_session_state" /\ new.status = "sent" /\ new.listening = TRUE
        /\ \A c \in more : c.command = "get_session_state" /\ c.status = "sent"
                          /\ c.listening = FALSE
  BY MountShape
<1>2. Typed' /\ Flags'
  BY <1>1 DEF Mount, service, PageInv, Typed, Flags, Good
<1>3. ASSUME reloads = 0
      PROVE  OneConversation'
  <2>1. \A c \in Ordinary : c.listening = FALSE
    BY <1>3 DEF Mount, PageInv, OneConversation
  <2>2. Ordinary' = Ordinary \union {new} \union more
    BY <1>0, <1>1 DEF Ordinary
  <2>3. \A c \in Ordinary' : c.listening = TRUE => c = new
    BY <1>1, <2>1, <2>2
  <2>4. Consistent(new)'
    BY <1>1 DEF Consistent, Allowed
  <2>5. \A c \in Ordinary' : c.command \in Changing => c.listening = TRUE
    BY <1>0, <1>1, <1>3, <2>2 DEF PageInv, OneConversation
  <2>6. \A c \in Ordinary' : c.status # "conflict"
    BY <1>1, <1>3, <2>2 DEF PageInv, OneConversation
  <2>7. inFlight' = TRUE /\ mounted' = TRUE /\ working' = TRUE
    BY <1>3 DEF Mount, PageInv, OneConversation, Flags
  <2> QED
    BY <2>3, <2>4, <2>5, <2>6, <2>7 DEF OneConversation
<1> QED
  BY <1>2, <1>3 DEF Mount, PageInv

-----------------------------------------------------------------------------
(***************************************************************************)
(* The service                                                             *)
(***************************************************************************)

\* A step of the service for one call.  It changes the session for a call that
\* may do so only, and then no other answer that the page wants is under way.
LEMMA AnswerKeeps ==
  ASSUME PageInv, NEW c \in calls,
         NEW status \in {"running", "ok", "conflict", "failed", "restart"}, NEW v \in Views,
         Answer(c, status, v), UNCHANGED <<reloads, page>>,
         Good(view'), compared' \in Nat,
         view' # view => c.command \in Changing,
         status = "running" => c.command \in Changing /\ Good(v),
         status = "ok" => v = view',
         reloads = 0 /\ c.command # Technical => status # "conflict"
  PROVE  PageInv'
<1> DEFINE new == [c EXCEPT !.status = status, !.view = v]
<1>1. c \in CallSet /\ calls' = (calls \ {c}) \union {new}
  BY DEF PageInv, Typed, Answer
<1>2. /\ new \in CallSet /\ new.status = status /\ new.view = v
      /\ new.command = c.command /\ new.listening = c.listening
  BY <1>1 DEF CallSet
<1> HIDE DEF new
<1>3. Typed' /\ Flags'
  BY <1>1, <1>2 DEF PageInv, Typed, Flags, page
<1>4. ASSUME reloads = 0
      PROVE  OneConversation'
  <2>1. OneConversation
    BY <1>4 DEF PageInv
  <2>2. ASSUME NEW d \in Ordinary'
        PROVE  d \in Ordinary \/ (d = new /\ c \in Ordinary)
    <3>1. d \in calls' /\ d.command # Technical
      BY DEF Ordinary
    <3> QED
      BY <1>1, <1>2, <3>1 DEF Ordinary
  <2>3. c \notin Ordinary' \/ c = new
    BY <1>1 DEF Ordinary
  <2>4. ~inFlight => \A d \in Ordinary' : d.listening = FALSE
    BY <1>2, <2>1, <2>2 DEF OneConversation
  <2>5. \A d, e \in Ordinary' : d.listening = TRUE /\ e.listening = TRUE => d = e
    BY <1>2, <2>1, <2>2, <2>3 DEF OneConversation
  <2>6. \A d \in Ordinary' : d.command \in Changing => d.listening = TRUE
    BY <1>2, <2>1, <2>2 DEF OneConversation
  <2>7. \A d \in Ordinary' : d.status # "conflict"
    <3>1. new \in Ordinary' => status # "conflict"
      BY <1>2, <1>4 DEF Ordinary
    <3> QED
      BY <1>2, <2>1, <2>2, <3>1 DEF OneConversation
  <2>8. view' # view => c \in Ordinary /\ c.listening = TRUE
    BY <2>1 DEF OneConversation, Ordinary, Changing, Technical
  <2>9. ASSUME NEW d \in Ordinary', d.listening = TRUE
        PROVE  Consistent(d)'
    <3>1. CASE d = new
      BY <1>2, <3>1 DEF Consistent
    <3>2. CASE d # new
      <4>1. d \in Ordinary /\ d # c
        BY <2>2, <2>3, <3>2
      <4>2. view' = view
        BY <2>1, <2>8, <2>9, <4>1 DEF OneConversation
      <4> QED
        BY <2>1, <2>9, <4>1, <4>2 DEF OneConversation, Consistent
    <3> QED
      BY <3>1, <3>2
  <2>10. mounted /\ ~working /\ error = "none" => session = view'
    <3>1. view' # view => inFlight
      BY <2>1, <2>8, <1>1 DEF OneConversation, Flags, PageInv
    <3> QED
      BY <2>1, <3>1 DEF OneConversation
  <2> QED
    BY <2>1, <2>4, <2>5, <2>6, <2>7, <2>9, <2>10 DEF OneConversation, page
<1> QED
  BY <1>3, <1>4 DEF PageInv

LEMMA GoodViews ==
  /\ initialState \in Views
  /\ \A stage \in Stages \ {"results"} : Good(View(stage, 0, FALSE))
BY PageAssumption DEF Good, Views, View, initialState, Stages

LEMMA BeginKeeps ==
  ASSUME PageInv, NEW id, Begin(id)
  PROVE  PageInv'
<1>1. PICK c \in calls : /\ c.status = "sent"
                         /\ \/ Accept(c)
                            \/ Answer(c, "restart", initialState) /\ UNCHANGED view
  BY DEF Begin, With
<1>2. UNCHANGED <<reloads, page>> /\ compared' \in Nat
  BY DEF Begin, PageInv, Typed
<1>3. Good(view) /\ view \in Views
  BY DEF PageInv, Typed, Good
<1>4. reloads = 0 /\ c.command \in Changing => Allowed(c.command, view.stage)
  BY <1>1 DEF PageInv, OneConversation, Ordinary, Consistent, Changing, Technical
<1>5. CASE Answer(c, "restart", initialState) /\ UNCHANGED view
  BY <1>2, <1>3, <1>5, GoodViews, AnswerKeeps
<1>6. CASE Tell(c)
  BY <1>2, <1>3, <1>6, AnswerKeeps DEF Tell
<1>7. CASE Conflict(c) /\ ~(reloads = 0 /\ c.command # Technical)
  BY <1>2, <1>3, <1>7, GoodViews, AnswerKeeps DEF Conflict
<1>8. CASE c.command \in Changing /\ \E stage \in Busy : Claim(c, stage)
  <2>1. PICK stage \in Busy : Claim(c, stage)
    BY <1>8
  <2>2. view' = View(stage, 0, FALSE) /\ Answer(c, "running", view)
    BY <2>1 DEF Claim
  <2>3. Good(view')
    BY <2>2, GoodViews DEF Busy, Stages
  <2> QED
    BY <1>2, <1>3, <1>8, <2>2, <2>3, AnswerKeeps
<1>9. CASE c.command \in Changing /\ view' = initialState /\ Answer(c, "ok", initialState)
  <2>1. Good(view')
    BY <1>9, GoodViews DEF initialState, Stages
  <2> QED
    BY <1>2, <1>9, <2>1, GoodViews, AnswerKeeps
<1>10. ASSUME Accept(c)
       PROVE  PageInv'
  <2>1. CASE c.command = "get_session_state"
    BY <1>6, <1>10, <2>1 DEF Accept, Technical
  <2>2. CASE c.command = "start_capture"
    <3>1. reloads = 0 => view.stage = "ready"
      BY <1>4, <2>2 DEF Allowed, Changing
    <3> QED
      BY <1>7, <1>8, <1>10, <2>2, <3>1 DEF Accept, Technical, Changing, Busy
  <2>3. CASE c.command = "finish_capture"
    <3>1. reloads = 0 => view.stage = "capturing"
      BY <1>4, <2>3 DEF Allowed, Changing
    <3> QED
      BY <1>7, <1>8, <1>10, <2>3, <3>1 DEF Accept, Technical, Changing, Busy
  <2>4. CASE c.command = "cancel_capture"
    <3>1. reloads = 0 => view.stage \in {"capturing", "results"}
      BY <1>4, <2>4 DEF Allowed, Changing
    <3>2. Conflict(c) => (reloads # 0) \/ ~(view.stage \in Busy \union {"ready"})
      BY <3>1 DEF Busy
    <3> QED
      BY <1>7, <1>8, <1>9, <1>10, <2>4, <3>1 DEF Accept, Technical, Changing, Busy
  <2>5. CASE c.command = Technical
    BY <1>6, <1>7, <1>10, <2>5 DEF Accept, Technical
  <2> QED
    BY <1>10, <2>1, <2>2, <2>3, <2>4, <2>5 DEF Accept
<1> QED
  BY <1>1, <1>5, <1>10

LEMMA EndKeeps ==
  ASSUME PageInv, NEW id, End(id)
  PROVE  PageInv'
<1>1. PICK c \in calls :
        /\ c.status = "running"
        /\ \/ \E v \in Successes(c.command) :
                /\ view' = v
                /\ Answer(c, "ok", v)
                /\ compared' = IF v.stage = "results" THEN Latest ELSE compared
           \/ /\ view' = Restored(c)
              /\ Answer(c, "failed", initialState)
              /\ UNCHANGED compared
  BY DEF End, With
<1>2. UNCHANGED <<reloads, page>>
  BY DEF End
<1>3. c.command \in Changing
  BY <1>1 DEF PageInv, Typed
<1>4. Latest \in 1 .. MaxResults
  BY PageAssumption DEF Latest, PageInv, Typed
<1>5. ASSUME NEW v \in Successes(c.command)
      PROVE  Good(v)
  <2>1. CASE c.command = "start_capture"
    <3>1. v = View("capturing", 0, FALSE)
      BY <1>5, <2>1 DEF Successes
    <3> QED
      BY <3>1, GoodViews DEF Stages
  <2>2. CASE c.command = "finish_capture"
    <3>1. v \in [stage : {"results"}, presentation : {Latest}, cleanup_pending : BOOLEAN]
      BY <1>5, <2>2 DEF Successes
    <3> QED
      BY <1>4, <3>1, PageAssumption DEF Good, Views, Stages
  <2>3. CASE c.command = "cancel_capture"
    <3>1. v = View("ready", 0, FALSE)
      BY <1>5, <2>3 DEF Successes, initialState
    <3> QED
      BY <3>1, GoodViews DEF Stages
  <2> QED
    BY <1>3, <2>1, <2>2, <2>3 DEF Changing
<1>6. ASSUME NEW v \in Successes(c.command), view' = v, Answer(c, "ok", v),
             compared' = IF v.stage = "results" THEN Latest ELSE compared
      PROVE  PageInv'
  <2>1. Good(v) /\ v \in Views
    BY <1>5, <1>6 DEF Good
  <2>2. compared' \in Nat
    BY <1>4, <1>6 DEF PageInv, Typed
  <2> QED
    BY <1>2, <1>3, <1>6, <2>1, <2>2, AnswerKeeps
<1>7. ASSUME view' = c.view, Answer(c, "failed", initialState), UNCHANGED compared
      PROVE  PageInv'
  <2>1. compared' \in Nat
    BY <1>7 DEF PageInv, Typed
  <2>2. Good(view')
    BY <1>1, <1>7 DEF PageInv, Typed
  <2> QED
    BY <1>2, <1>3, <1>7, <2>1, <2>2, GoodViews, AnswerKeeps
<1> QED
  BY <1>1, <1>6, <1>7 DEF Restored

-----------------------------------------------------------------------------
(***************************************************************************)
(* The page                                                                *)
(***************************************************************************)

\* Whatever becomes of the technical panel, the other calls stay as they are.
LEMMA DetailsApart ==
  ASSUME NEW err, NEW shown, NEW remaining \in SUBSET CallSet,
         KeepDetails(err, shown, remaining)
  PROVE  /\ calls' \in SUBSET CallSet
         /\ Ordinary' = {c \in remaining : c.command # Technical}
         /\ \A c \in calls' : \E d \in remaining :
                c.status = d.status /\ c.command = d.command /\ c.view = d.view
         /\ (\A c, d \in remaining : c.id = d.id => c = d)
                => \A c, d \in calls' : c.id = d.id => c = d
         /\ Content(err, shown) = "results" => calls' = remaining /\ details' = details
         /\ Content(err, shown) # "results" =>
                /\ details' = Closed
                /\ \A c \in calls' : c.command = Technical => c.listening = FALSE
<1> DEFINE Muted(c) == [c EXCEPT !.listening = @ /\ c.command # Technical]
<1>1. \/ Content(err, shown) = "results" /\ calls' = remaining /\ details' = details
      \/ Content(err, shown) # "results" /\ calls' = {Muted(c) : c \in remaining} /\ details' = Closed
  BY DEF KeepDetails
<1>2. ASSUME NEW c \in remaining
      PROVE  /\ Muted(c) \in CallSet
             /\ Muted(c).status = c.status /\ Muted(c).command = c.command
             /\ Muted(c).view = c.view /\ Muted(c).id = c.id
             /\ c.command = Technical => Muted(c).listening = FALSE
  BY DEF CallSet
<1>3. ASSUME NEW c \in remaining, c.command # Technical
      PROVE  Muted(c) = c
  <2>1. (c.listening /\ c.command # Technical) = c.listening
    <3>1. c.listening \in BOOLEAN
      BY DEF CallSet
    <3> QED
      BY <1>3, <3>1
  <2>2. Muted(c) = [c EXCEPT !.listening = c.listening]
    BY <2>1
  <2> QED
    BY <2>2 DEF CallSet
<1> HIDE DEF Muted
<1>4. CASE Content(err, shown) = "results" /\ calls' = remaining /\ details' = details
  BY <1>4 DEF Ordinary
<1>5. CASE Content(err, shown) # "results" /\ calls' = {Muted(c) : c \in remaining} /\ details' = Closed
  <2>1. Ordinary' = {c \in remaining : c.command # Technical}
    BY <1>2, <1>3, <1>5 DEF Ordinary
  <2>2. /\ calls' \in SUBSET CallSet
        /\ \A c \in calls' : \E d \in remaining :
              c.status = d.status /\ c.command = d.command /\ c.view = d.view
    BY <1>2, <1>5
  <2>3. \A c \in calls' : c.command = Technical => c.listening = FALSE
    BY <1>2, <1>5
  <2>4. ASSUME \A c, d \in remaining : c.id = d.id => c = d,
               NEW c \in calls', NEW d \in calls', c.id = d.id
        PROVE  c = d
    <3>1. PICK e \in remaining, f \in remaining : c = Muted(e) /\ d = Muted(f)
      BY <1>5
    <3>2. e.id = f.id
      BY <1>2, <2>4, <3>1
    <3> QED
      BY <2>4, <3>1, <3>2
  <2> QED
    BY <1>5, <2>1, <2>2, <2>3, <2>4
<1> QED
  BY <1>1, <1>4, <1>5

LEMMA ClickKeeps ==
  ASSUME PageInv, Click
  PROVE  PageInv'
<1>1. PICK command \in Offered, id \in Free(1) :
        KeepDetails("none", session', calls \union {Call(id, command)})
  BY DEF Click
<1> DEFINE new == Call(id, command)
           remaining == calls \union {new}
<1>2. /\ ~working /\ command \in Buttons
      /\ command \in Commands /\ command # Technical /\ id \in 1 .. MaxCalls
  <2>1. ~working /\ command \in Buttons
    BY <1>1 DEF Offered
  <2>2. Buttons \subseteq Commands /\ Technical \notin Commands
    <3>1. Shown \in {"error", "busy", "capturing", "results", "ready"}
      BY DEF Shown, Content
    <3> QED
      BY <3>1 DEF Buttons, Commands, Technical
  <2>3. id \in 1 .. MaxCalls
    BY <1>1 DEF Free
  <2> QED
    BY <2>1, <2>2, <2>3
<1>3. /\ new \in CallSet /\ new.command = command
      /\ new.status = "sent" /\ new.listening = TRUE
  BY <1>2, NewCall
<1>4. UNCHANGED <<view, compared, reloads, mounted>>
      /\ mounted /\ ~inFlight /\ inFlight' = TRUE /\ working' = TRUE
  BY DEF Click, service
<1> HIDE DEF new
<1>5. /\ calls' \in SUBSET CallSet
      /\ Ordinary' = Ordinary \union {new}
      /\ \A c \in calls' : \E d \in remaining :
            c.status = d.status /\ c.command = d.command /\ c.view = d.view
  <2>1. remaining \in SUBSET CallSet
    BY <1>3 DEF PageInv, Typed
  <2>2. KeepDetails("none", session', remaining)
    BY <1>1 DEF new
  <2>3. /\ calls' \in SUBSET CallSet
        /\ Ordinary' = {c \in remaining : c.command # Technical}
        /\ \A c \in calls' : \E d \in remaining :
              c.status = d.status /\ c.command = d.command /\ c.view = d.view
    BY <2>1, <2>2, DetailsApart
  <2>4. {c \in remaining : c.command # Technical} = Ordinary \union {new}
    BY <1>2, <1>3 DEF Ordinary
  <2> QED
    BY <2>3, <2>4
<1>6. Typed'
  BY <1>3, <1>4, <1>5 DEF PageInv, Typed, Good
<1>7. Flags'
  BY <1>4 DEF PageInv, Flags
<1>8. ASSUME reloads = 0
      PROVE  OneConversation'
  <2>1. OneConversation
    BY <1>8 DEF PageInv
  <2>2. \A c \in Ordinary : c.listening = FALSE
    BY <1>4, <2>1 DEF OneConversation
  <2>3. Allowed(command, view.stage)
    <3>1. CASE error # "none"
      BY <1>2, <3>1 DEF Buttons, Shown, Content, Allowed
    <3>2. CASE error = "none"
      <4>1. session = view /\ view \in Views /\ (view.stage = "results" => view.presentation # 0)
        BY <1>2, <1>4, <2>1, <3>2 DEF OneConversation, PageInv, Typed, Good
      <4>2. view.stage \in Stages
        <5>1. \A v \in Views : v.stage \in Stages
          BY DEF Views
        <5> QED
          BY <4>1, <5>1
      <4>3. CASE view.stage \in Busy
        BY <1>2, <3>2, <4>1, <4>3 DEF Buttons, Shown, Content, Busy
      <4>4. CASE view.stage = "capturing"
        BY <1>2, <3>2, <4>1, <4>4 DEF Buttons, Shown, Content, Allowed, Busy
      <4>5. CASE view.stage = "results"
        BY <1>2, <3>2, <4>1, <4>5 DEF Buttons, Shown, Content, Allowed, Busy
      <4>6. CASE view.stage = "ready"
        BY <1>2, <3>2, <4>1, <4>6 DEF Buttons, Shown, Content, Allowed, Busy
      <4> QED
        BY <4>2, <4>3, <4>4, <4>5, <4>6 DEF Stages, Busy
    <3> QED
      BY <3>1, <3>2
  <2>4. Consistent(new)'
    BY <1>3, <1>4, <2>3 DEF Consistent
  <2>5. \A c \in Ordinary' : c.listening = TRUE => c = new
    BY <1>5, <2>2
  <2>6. \A c \in Ordinary' : c.status # "conflict"
    BY <1>3, <1>5, <2>1 DEF OneConversation
  <2>7. \A c \in Ordinary' : c.command \in Changing => c.listening = TRUE
    BY <1>3, <1>5, <2>1 DEF OneConversation
  <2> QED
    BY <1>4, <2>4, <2>5, <2>6, <2>7 DEF OneConversation
<1> QED
  BY <1>4, <1>6, <1>7, <1>8 DEF PageInv

LEMMA DeliverKeeps ==
  ASSUME PageInv, NEW id, Deliver(id)
  PROVE  PageInv'
<1>1. PICK c \in calls :
        /\ Answered(c) /\ c.listening /\ c.command # Technical
        /\ session' = IF c.status = "ok" THEN c.view ELSE session
        /\ error' = IF c.status = "ok" THEN error ELSE c.status
        /\ KeepDetails(error', session', calls \ {c})
        /\ inFlight' = FALSE /\ working' = FALSE
  BY DEF Deliver, With, StillWorking
<1>2. UNCHANGED <<view, compared, reloads, mounted>>
  BY DEF Deliver, service
<1>3. /\ calls' \in SUBSET CallSet
      /\ Ordinary' = {d \in calls \ {c} : d.command # Technical}
      /\ \A d \in calls' : \E e \in calls \ {c} :
            d.status = e.status /\ d.command = e.command /\ d.view = e.view
  <2>1. calls \ {c} \in SUBSET CallSet
    BY DEF PageInv, Typed
  <2> QED
    BY <1>1, <2>1, DetailsApart
<1>4. Ordinary' = Ordinary \ {c}
  BY <1>3 DEF Ordinary
<1>5. Typed'
  BY <1>2, <1>3 DEF PageInv, Typed, Good
<1>6. Flags'
  BY <1>1, <1>2 DEF PageInv, Flags
<1>7. ASSUME reloads = 0
      PROVE  OneConversation'
  <2>1. OneConversation
    BY <1>7 DEF PageInv
  <2>2. c \in Ordinary /\ c.listening = TRUE
    <3>1. c.listening \in BOOLEAN
      BY DEF PageInv, Typed, CallSet
    <3> QED
      BY <1>1, <3>1 DEF Ordinary
  <2>3. \A d \in Ordinary' : d \in Ordinary /\ d.listening # TRUE
    BY <1>4, <2>1, <2>2 DEF OneConversation
  <2>4. \A d \in Ordinary' : d.listening = FALSE
    <3>1. \A d \in Ordinary : d.listening \in BOOLEAN
      BY DEF PageInv, Typed, CallSet, Ordinary
    <3> QED
      BY <2>3, <3>1
  <2>5. error' = "none" => session' = view'
    <3>1. c.status \in {"ok", "conflict", "failed", "restart"}
      BY <1>1 DEF Answered, PageInv, Typed, CallSet
    <3>2. c.status = "ok" => c.view = view
      BY <2>1, <2>2 DEF OneConversation, Consistent
    <3> QED
      BY <1>1, <1>2, <3>1, <3>2
  <2>6. mounted'
    BY <1>2, <2>1, <2>2 DEF OneConversation, PageInv, Flags
  <2> QED
    BY <1>1, <2>1, <2>3, <2>4, <2>5, <2>6 DEF OneConversation
<1> QED
  BY <1>2, <1>5, <1>6, <1>7 DEF PageInv

\* A step that changes calls for technical details only, or drops calls.
LEMMA FewerCallsKeep ==
  ASSUME PageInv, UNCHANGED <<service, reloads, mounted, inFlight, working, session, error>>,
         calls' \in SUBSET CallSet, Ordinary' \subseteq Ordinary,
         \A c \in calls' : c \in calls \/ c.status = "sent"
  PROVE  PageInv'
<1>1. Typed' /\ Flags'
  BY DEF PageInv, Typed, Flags, Good, service
<1>2. OneConversation => OneConversation'
  BY DEF OneConversation, Consistent, service
<1> QED
  BY <1>1, <1>2 DEF PageInv

LEMMA ToggleKeeps ==
  ASSUME PageInv, ToggleTechnical
  PROVE  PageInv'
<1>1. UNCHANGED calls \/ \E id \in Free(1) : calls' = calls \union {Call(id, Technical)}
  BY DEF ToggleTechnical
<1>2. UNCHANGED <<service, reloads, mounted, inFlight, working, session, error>>
  BY DEF ToggleTechnical
<1>3. CASE UNCHANGED calls
  BY <1>2, <1>3, FewerCallsKeep DEF Ordinary, PageInv, Typed
<1>4. CASE \E id \in Free(1) : calls' = calls \union {Call(id, Technical)}
  <2>1. PICK id \in 1 .. MaxCalls : calls' = calls \union {Call(id, Technical)}
    BY <1>4 DEF Free
  <2>2. /\ Call(id, Technical) \in CallSet /\ Call(id, Technical).command = Technical
        /\ Call(id, Technical).status = "sent"
    BY NewCall
  <2>3. Ordinary' \subseteq Ordinary
    BY <2>1, <2>2 DEF Ordinary
  <2>4. calls' \in SUBSET CallSet /\ \A c \in calls' : c \in calls \/ c.status = "sent"
    BY <2>1, <2>2 DEF PageInv, Typed
  <2> QED
    BY <1>2, <2>3, <2>4, FewerCallsKeep
<1> QED
  BY <1>1, <1>3, <1>4

LEMMA DropKeeps ==
  ASSUME PageInv, NEW id, DeliverTechnical(id) \/ Discard(id)
  PROVE  PageInv'
<1>1. \E c \in calls : calls' = calls \ {c}
  BY DEF DeliverTechnical, Discard, With
<1>2. UNCHANGED <<service, reloads, mounted, inFlight, working, session, error>>
  BY DEF DeliverTechnical, Discard, page
<1> QED
  BY <1>1, <1>2, FewerCallsKeep DEF Ordinary, PageInv, Typed

LEMMA PageNext == PageInv /\ [Next]_vars => PageInv'
<1> SUFFICES ASSUME PageInv, [Next]_vars PROVE PageInv'
  OBVIOUS
<1>1. CASE UNCHANGED vars
  BY <1>1, FewerCallsKeep DEF vars, page, Ordinary, PageInv, Typed
<1>2. ASSUME NEW id \in 1 .. MaxCalls, Progress(id)
      PROVE  PageInv'
  BY <1>2, BeginKeeps, EndKeeps, DeliverKeeps, DropKeeps DEF Progress
<1> QED
  BY <1>1, <1>2, MountKeeps, ClickKeeps, ToggleKeeps, ReloadKeeps DEF Next

-----------------------------------------------------------------------------
\* A page that was not reloaded and awaits nothing shows what the service holds,
\* for any number of calls under way: no late answer overwrites a newer one.
THEOREM PageShowsService == Spec => []ViewIsCurrent
<1>1. PageInv => ViewIsCurrent
  BY DEF PageInv, OneConversation, ViewIsCurrent
<1> QED
  BY <1>1, PageInit, PageNext, PTL DEF Spec

\* Without a reload the service never has to refuse a command of the page.
THEOREM RefusalsNeedReload == Spec => []ConflictsNeedReload
<1>1. PageInv => ConflictsNeedReload
  BY DEF PageInv, Typed, OneConversation, Ordinary, ConflictsNeedReload
<1> QED
  BY <1>1, PageInit, PageNext, PTL DEF Spec

-----------------------------------------------------------------------------
(***************************************************************************)
(* The technical details.  A page that has results and was reloaded once   *)
(* at most can be left behind by the service, but not by a whole capture:  *)
(* that takes a cancellation, a start and a finish, of which the page      *)
(* sends the first only, and the page before it has left one command.      *)
(***************************************************************************)

Sound(v) ==
    /\ v \in Views
    /\ v.presentation # 0 <=> v.stage = "results"
    /\ v.cleanup_pending => v.stage = "results"

\* The one call that runs has claimed the stage, and can give it back.
Runs(c) ==
    /\ c.command \in Changing /\ Sound(c.view)
    /\ c.command = "start_capture" => view.stage = "starting" /\ c.view.stage = "ready"
    /\ c.command = "finish_capture" => view.stage = "finishing" /\ c.view.stage = "capturing"
    /\ c.command = "cancel_capture" =>
         view.stage = "finishing" /\ c.view.stage \in {"capturing", "results"}

ServiceInv ==
    /\ calls \in SUBSET CallSet
    /\ Sound(view)
    /\ \A c \in calls : c.status = "running" => Runs(c)
    /\ \A c, d \in calls : c.status = "running" /\ d.status = "running" => c = d
    /\ \A c \in calls : c.command = "cancel_capture" /\ c.status = "ok" => c.view = initialState

\* The page waits for one answer at a time, and the last page left one command.
WaitingInv ==
    /\ Flags /\ reloads \in 0 .. MaxReloads
    /\ session \in Views
    /\ details \in [open : BOOLEAN, of : 0 .. MaxResults, refused : BOOLEAN]
    /\ inFlight => mounted
    /\ ~inFlight => \A c \in Ordinary : c.listening = FALSE
    /\ \A c, d \in Ordinary : c.listening = TRUE /\ d.listening = TRUE => c = d
    /\ reloads = 0 => \A c \in Ordinary : c.command \in Changing => c.listening = TRUE
    /\ reloads < 2 => \A c, d \in Ordinary :
         c.command \in Changing /\ c.listening = FALSE /\ d.command \in Changing /\ d.listening = FALSE
           => c = d

\* Commands of the last page that have yet to reach the service, and the
\* cancellation of this page that has succeeded.
Stale == {c \in Ordinary : c.command \in Changing /\ c.listening = FALSE /\ c.status = "sent"}
Cancelled ==
    \E c \in Ordinary : c.command = "cancel_capture" /\ c.listening = TRUE /\ c.status = "ok"

\* What the service may have become since the results p were there.
LeftFrom(p) ==
    /\ view.stage = "results" => view.presentation = p
    /\ view.stage = "finishing" => \A c \in calls : c.status = "running" =>
         c.command = "cancel_capture" /\ c.view.stage = "results" /\ c.view.presentation = p
    /\ view.stage = "ready" => Stale = {} \/ Cancelled
    /\ view.stage \in {"starting", "capturing"} => Stale = {} /\ Cancelled

HasResults == session.stage = "results"

\* The results that the page has, and what it waits for while it has them.
ResultsLeft == HasResults => LeftFrom(session.presentation)
ResultsAwait == HasResults => \A c \in Ordinary :
    c.listening = TRUE => c.command \in {"get_session_state", "cancel_capture"}

\* The results that the page is about to learn of.
AnswersFit == \A c \in Ordinary :
    c.listening = TRUE /\ c.status = "ok" /\ c.view.stage = "results" =>
        /\ LeftFrom(c.view.presentation)
        /\ HasResults => c.view.presentation = session.presentation

\* The details that it waits for, and those that it shows.
TechnicalFits == \A c \in calls :
    c.command = Technical /\ c.listening = TRUE =>
        /\ Shown = "results"
        /\ c.status = "ok" => c.view.presentation = session.presentation
DetailsOf == details.of # 0 => Shown = "results" /\ details.of = session.presentation

ShowingInv ==
    reloads < 2 => ResultsLeft /\ ResultsAwait /\ AnswersFit /\ TechnicalFits /\ DetailsOf

DetailsInv == ServiceInv /\ WaitingInv /\ ShowingInv

-----------------------------------------------------------------------------
LEMMA DetailsInit == Init => DetailsInv
<1> SUFFICES ASSUME Init PROVE DetailsInv
  OBVIOUS
<1>1. Sound(view) /\ view.stage = "ready"
  BY PageAssumption DEF Init, Sound, Views, View, initialState, Stages
<1>2. session.stage = "ready" /\ details.of = 0
  BY DEF Init, Fresh, initialState, View, Closed
<1>3. session \in Views /\ details \in [open : BOOLEAN, of : 0 .. MaxResults, refused : BOOLEAN]
  BY PageAssumption DEF Init, Fresh, Views, View, initialState, Stages, Closed
<1>4. reloads \in 0 .. MaxReloads /\ calls = {}
  BY PageAssumption DEF Init
<1>5. Flags /\ inFlight = FALSE
  BY DEF Init, Fresh, Flags
<1> QED
  BY <1>1, <1>2, <1>3, <1>4, <1>5
  DEF DetailsInv, ServiceInv, WaitingInv, ShowingInv, ResultsLeft, ResultsAwait,
      AnswersFit, TechnicalFits, DetailsOf, HasResults, Ordinary

(***************************************************************************)
(* A step of the service: it takes a call, and answers it now or later.    *)
(***************************************************************************)
Takes(c, new) ==
    \/ new.status \in {"conflict", "restart"} /\ view' = view
    \/ /\ c.command = "get_session_state" \/ (c.command = Technical /\ view.stage = "results")
       /\ new.status = "ok" /\ new.view = view /\ view' = view
    \/ /\ c.command = "cancel_capture" /\ view.stage = "results"
       /\ new.status = "ok" /\ new.view = initialState /\ view' = initialState
    \/ /\ c.command \in Changing
       /\ c.command = "start_capture" => view.stage = "ready" /\ view'.stage = "starting"
       /\ c.command = "finish_capture" => view.stage = "capturing" /\ view'.stage = "finishing"
       /\ c.command = "cancel_capture" =>
            view.stage \in {"capturing", "results"} /\ view'.stage = "finishing"
       /\ new.status = "running" /\ new.view = view

Ends(c, new) ==
    \/ /\ c.command = "start_capture" => view'.stage = "capturing"
       /\ c.command = "finish_capture" => view'.stage = "results"
       /\ c.command = "cancel_capture" => view' = initialState
       /\ new.status = "ok" /\ new.view = view'
    \/ new.status = "failed" /\ view' = c.view

Serves(c, new) ==
    /\ c \in calls /\ new \in CallSet
    /\ calls' = (calls \ {c}) \union {new}
    /\ new.id = c.id /\ new.command = c.command /\ new.listening = c.listening
    /\ \/ c.status = "sent" /\ Takes(c, new)
       \/ c.status = "running" /\ Ends(c, new)
    /\ Sound(view')

LEMMA AnswerShape ==
  ASSUME calls \in SUBSET CallSet, NEW c \in calls,
         NEW status \in {"running", "ok", "conflict", "failed", "restart"}, NEW v \in Views,
         Answer(c, status, v)
  PROVE  \E new \in CallSet :
            /\ calls' = (calls \ {c}) \union {new}
            /\ new.id = c.id /\ new.command = c.command /\ new.listening = c.listening
            /\ new.status = status /\ new.view = v
<1> DEFINE new == [c EXCEPT !.status = status, !.view = v]
<1>1. calls' = (calls \ {c}) \union {new} /\ c \in CallSet
  BY DEF Answer
<1>2. /\ new \in CallSet /\ new.id = c.id /\ new.command = c.command
      /\ new.listening = c.listening /\ new.status = status /\ new.view = v
  BY <1>1 DEF CallSet
<1> HIDE DEF new
<1> QED
  BY <1>1, <1>2

LEMMA SoundViews ==
  /\ initialState \in Views /\ Sound(initialState) /\ initialState.stage = "ready"
  /\ \A stage \in Stages \ {"results"} :
       Sound(View(stage, 0, FALSE)) /\ View(stage, 0, FALSE).stage = stage
BY PageAssumption DEF Sound, Views, View, initialState, Stages

LEMMA BeginServes ==
  ASSUME ServiceInv, NEW id, Begin(id)
  PROVE  \E c, new \in CallSet : Serves(c, new)
<1>0. calls \in SUBSET CallSet /\ Sound(view) /\ view \in Views
  BY DEF ServiceInv, Sound
<1>1. PICK c \in calls : /\ c.status = "sent"
                         /\ \/ Accept(c)
                            \/ Answer(c, "restart", initialState) /\ UNCHANGED view
  BY DEF Begin, With
<1>2. c \in CallSet
  BY <1>0
<1>3. ASSUME NEW status \in {"running", "ok", "conflict", "failed", "restart"}, NEW v \in Views,
             Answer(c, status, v), Sound(view'),
             \A new \in CallSet : new.status = status /\ new.view = v => Takes(c, new)
      PROVE  \E new \in CallSet : Serves(c, new)
  <2>1. PICK new \in CallSet :
          /\ calls' = (calls \ {c}) \union {new}
          /\ new.id = c.id /\ new.command = c.command /\ new.listening = c.listening
          /\ new.status = status /\ new.view = v
    BY <1>0, <1>3, AnswerShape
  <2>2. Takes(c, new)
    BY <1>3, <2>1
  <2> QED
    BY <1>1, <1>3, <2>1, <2>2 DEF Serves
<1>4. CASE Answer(c, "restart", initialState) /\ UNCHANGED view
  BY <1>0, <1>2, <1>3, <1>4, SoundViews DEF Takes
<1>5. CASE Conflict(c)
  BY <1>0, <1>2, <1>3, <1>5, SoundViews DEF Takes, Conflict
<1>6. CASE Tell(c) /\ (c.command = "get_session_state" \/ (c.command = Technical /\ view.stage = "results"))
  BY <1>0, <1>2, <1>3, <1>6 DEF Takes, Tell
<1>7. CASE /\ c.command = "cancel_capture" /\ view.stage = "results"
           /\ view' = initialState /\ Answer(c, "ok", initialState)
  BY <1>0, <1>2, <1>3, <1>7, SoundViews DEF Takes
<1>8. ASSUME NEW stage \in Busy, Claim(c, stage), c.command \in Changing,
             c.command = "start_capture" => view.stage = "ready" /\ stage = "starting",
             c.command = "finish_capture" => view.stage = "capturing" /\ stage = "finishing",
             c.command = "cancel_capture" =>
               view.stage \in {"capturing", "results"} /\ stage = "finishing"
      PROVE  \E new \in CallSet : Serves(c, new)
  <2>1. view' = View(stage, 0, FALSE) /\ Answer(c, "running", view)
    BY <1>8 DEF Claim
  <2>2. Sound(view') /\ view'.stage = stage
    BY <2>1, SoundViews DEF Busy, Stages
  <2>3. \A new \in CallSet : new.status = "running" /\ new.view = view => Takes(c, new)
    BY <1>8, <2>2 DEF Takes
  <2> QED
    BY <1>0, <1>3, <2>1, <2>2, <2>3
<1>9. CASE Accept(c)
  <2>0. {"starting", "finishing"} \subseteq Busy
    BY DEF Busy
  <2>1. CASE c.command = "start_capture"
    <3>1. (view.stage = "ready" /\ Claim(c, "starting")) \/ Conflict(c)
      BY <1>9, <2>1 DEF Accept, Technical
    <3>2. ASSUME view.stage = "ready", Claim(c, "starting")
          PROVE  \E new \in CallSet : Serves(c, new)
      BY <1>8, <2>0, <2>1, <3>2 DEF Changing
    <3> QED
      BY <1>2, <1>5, <3>1, <3>2
  <2>2. CASE c.command = "finish_capture"
    <3>1. (view.stage = "capturing" /\ Claim(c, "finishing")) \/ Conflict(c)
      BY <1>9, <2>2 DEF Accept, Technical
    <3>2. ASSUME view.stage = "capturing", Claim(c, "finishing")
          PROVE  \E new \in CallSet : Serves(c, new)
      BY <1>8, <2>0, <2>2, <3>2 DEF Changing
    <3> QED
      BY <1>2, <1>5, <3>1, <3>2
  <2>3. CASE c.command = "cancel_capture"
    <3>1. view.cleanup_pending => view.stage = "results"
      BY <1>0 DEF Sound
    <3>2. \/ view.stage = "results" /\ view' = initialState /\ Answer(c, "ok", initialState)
          \/ view.stage \in {"capturing", "results"} /\ Claim(c, "finishing")
          \/ Conflict(c)
      BY <1>9, <2>3, <3>1 DEF Accept, Technical
    <3>3. ASSUME view.stage \in {"capturing", "results"}, Claim(c, "finishing")
          PROVE  \E new \in CallSet : Serves(c, new)
      BY <1>8, <2>0, <2>3, <3>3 DEF Changing
    <3> QED
      BY <1>2, <1>5, <1>7, <2>3, <3>2, <3>3
  <2>4. CASE c.command \in {"get_session_state", Technical}
    BY <1>5, <1>6, <1>9, <2>4 DEF Accept, Technical
  <2>5. c.command \in Commands \union {Technical}
    BY <1>2 DEF CallSet
  <2> QED
    BY <2>1, <2>2, <2>3, <2>4, <2>5 DEF Commands
<1> QED
  BY <1>1, <1>2, <1>4, <1>9

LEMMA EndServes ==
  ASSUME Typed, ServiceInv, NEW id, End(id)
  PROVE  \E c, new \in CallSet : Serves(c, new)
<1>0. calls \in SUBSET CallSet /\ compared \in Nat
  BY DEF ServiceInv, Typed
<1>1. PICK c \in calls :
        /\ c.status = "running"
        /\ \/ \E v \in Successes(c.command) : view' = v /\ Answer(c, "ok", v)
           \/ view' = Restored(c) /\ Answer(c, "failed", initialState)
  BY DEF End, With
<1>2. c \in CallSet /\ Runs(c) /\ c.command \in Changing /\ Sound(c.view)
  BY <1>0, <1>1 DEF ServiceInv, Runs
<1>3. Latest \in 1 .. MaxResults
  BY <1>0, PageAssumption DEF Latest
<1>4. ASSUME NEW v \in Successes(c.command)
      PROVE  /\ Sound(v)
             /\ c.command = "start_capture" => v.stage = "capturing"
             /\ c.command = "finish_capture" => v.stage = "results"
             /\ c.command = "cancel_capture" => v = initialState
  <2>1. CASE c.command = "start_capture"
    <3>1. v = View("capturing", 0, FALSE)
      BY <1>4, <2>1 DEF Successes
    <3> QED
      BY <2>1, <3>1, SoundViews DEF Stages
  <2>2. CASE c.command = "finish_capture"
    <3>1. v \in [stage : {"results"}, presentation : {Latest}, cleanup_pending : BOOLEAN]
      BY <1>4, <2>2 DEF Successes
    <3> QED
      BY <1>3, <2>2, <3>1, PageAssumption DEF Sound, Views, Stages
  <2>3. CASE c.command = "cancel_capture"
    BY <1>4, <2>3, SoundViews DEF Successes
  <2> QED
    BY <1>2, <2>1, <2>2, <2>3 DEF Changing
<1>5. ASSUME NEW v \in Successes(c.command), view' = v, Answer(c, "ok", v)
      PROVE  \E new \in CallSet : Serves(c, new)
  <2>1. v \in Views
    BY <1>4 DEF Sound
  <2>2. PICK new \in CallSet :
          /\ calls' = (calls \ {c}) \union {new}
          /\ new.id = c.id /\ new.command = c.command /\ new.listening = c.listening
          /\ new.status = "ok" /\ new.view = v
    BY <1>0, <1>5, <2>1, AnswerShape
  <2> QED
    BY <1>1, <1>4, <1>5, <2>2 DEF Serves, Ends
<1>6. ASSUME view' = c.view, Answer(c, "failed", initialState)
      PROVE  \E new \in CallSet : Serves(c, new)
  <2>1. PICK new \in CallSet :
          /\ calls' = (calls \ {c}) \union {new}
          /\ new.id = c.id /\ new.command = c.command /\ new.listening = c.listening
          /\ new.status = "failed" /\ new.view = initialState
    BY <1>0, <1>6, SoundViews, AnswerShape
  <2> QED
    BY <1>1, <1>2, <1>6, <2>1 DEF Serves, Ends
<1> QED
  BY <1>1, <1>2, <1>5, <1>6 DEF Restored

LEMMA ServiceKeeps ==
  ASSUME ServiceInv, NEW c, NEW new, Serves(c, new)
  PROVE  ServiceInv'
<1>1. /\ calls \in SUBSET CallSet /\ c \in calls /\ new \in CallSet
      /\ calls' = (calls \ {c}) \union {new} /\ new.command = c.command /\ Sound(view')
  BY DEF ServiceInv, Serves
<1>2. calls' \in SUBSET CallSet
  BY <1>1
<1>3. view' # view \/ new.status = "running" =>
        \A d \in calls : d.status = "running" => d = c
  <2>1. CASE c.status = "running"
    BY <1>1, <2>1 DEF ServiceInv
  <2>2. CASE c.status = "sent" /\ Takes(c, new)
    <3>1. view' # view \/ new.status = "running" =>
            view.stage \in {"ready", "capturing", "results"}
      BY <1>1, <2>2 DEF Takes, Changing
    <3>2. \A d \in calls : d.status = "running" => view.stage \in {"starting", "finishing"}
      BY DEF ServiceInv, Runs, Changing
    <3> QED
      BY <3>1, <3>2
  <2> QED
    BY <2>1, <2>2 DEF Serves
<1>4. new.status = "running" => Runs(new)'
  <2>1. new.status = "running" => Takes(c, new)
    BY DEF Serves, Ends
  <2> QED
    BY <1>1, <2>1 DEF Takes, Runs, Changing, ServiceInv
<1>5. ASSUME NEW d \in calls', d.status = "running"
      PROVE  /\ Runs(d)'
             /\ \A e \in calls' : e.status = "running" => d = e
  <2>1. CASE d = new
    <3>1. \A e \in calls' : e.status = "running" => e = new
      BY <1>1, <1>3, <1>5, <2>1
    <3> QED
      BY <1>4, <1>5, <2>1, <3>1
  <2>2. CASE d # new
    <3>1. d \in calls /\ d # c
      BY <1>1, <2>2
    <3>2. view' = view /\ new.status # "running"
      BY <1>3, <1>5, <3>1
    <3>3. Runs(d)'
      BY <1>5, <3>1, <3>2 DEF ServiceInv, Runs
    <3>4. \A e \in calls' : e.status = "running" => e \in calls
      BY <1>1, <3>2
    <3> QED
      BY <1>5, <3>1, <3>3, <3>4 DEF ServiceInv
  <2> QED
    BY <2>1, <2>2
<1>6. new.command = "cancel_capture" /\ new.status = "ok" => new.view = initialState
  <2>1. CASE c.status = "sent" /\ Takes(c, new)
    BY <1>1, <2>1 DEF Takes, Technical
  <2>2. CASE c.status = "running" /\ Ends(c, new)
    BY <1>1, <2>2 DEF Ends
  <2> QED
    BY <2>1, <2>2 DEF Serves
<1> QED
  BY <1>1, <1>2, <1>5, <1>6 DEF ServiceInv

LEMMA WaitingKeeps ==
  ASSUME calls \in SUBSET CallSet, WaitingInv, NEW c, NEW new, Serves(c, new),
         UNCHANGED <<reloads, page>>
  PROVE  WaitingInv'
<1>1. /\ c \in calls /\ calls' = (calls \ {c}) \union {new}
      /\ new.command = c.command /\ new.listening = c.listening
  BY DEF Serves
<1>2. \A d \in Ordinary' : (d \in Ordinary /\ d # c) \/ (d = new /\ c \in Ordinary)
  BY <1>1 DEF Ordinary
<1>3. c \in Ordinary' => c = new
  BY <1>1 DEF Ordinary
<1> QED
  BY <1>1, <1>2, <1>3 DEF WaitingInv, Flags, page

\* While the page waits for nothing but the state or a cancellation, the service
\* goes on from the results p as LeftFrom says.
LEMMA LeftKeeps ==
  ASSUME ServiceInv, WaitingInv, reloads < 2, NEW c, NEW new, Serves(c, new),
         NEW p, LeftFrom(p),
         c.command # Technical /\ c.listening = TRUE =>
           c.command \in {"get_session_state", "cancel_capture"}
  PROVE  LeftFrom(p)'
<1>1. /\ c \in calls /\ c \in CallSet /\ new \in CallSet
      /\ calls' = (calls \ {c}) \union {new}
      /\ new.command = c.command /\ new.listening = c.listening
      /\ new.status # "sent" /\ c.status \in {"sent", "running"}
  BY DEF ServiceInv, Serves, Takes, Ends
<1>2. c.command \in Changing => c \in Ordinary /\ new \in Ordinary'
  BY <1>1 DEF Ordinary, Changing, Technical
<1>3. Stale' \subseteq Stale
  BY <1>1 DEF Stale, Ordinary
<1>4. \A d \in Stale : c.command \in Changing /\ c.listening = FALSE => c = d
  BY <1>2 DEF Stale, WaitingInv
<1>5. c \notin Stale'
  BY <1>1 DEF Stale, Ordinary
<1>6. Cancelled => Cancelled'
  BY <1>1 DEF Cancelled, Ordinary
<1>7. Cancelled /\ c.command \in Changing => c.listening = FALSE
  <2>1. Cancelled /\ c \in Ordinary /\ c.listening = TRUE => FALSE
    BY <1>1 DEF Cancelled, WaitingInv
  <2> QED
    BY <1>1, <1>2, <2>1 DEF CallSet
<1>8. c.command = "cancel_capture" /\ c.listening = TRUE /\ new.status = "ok" => Cancelled'
  BY <1>1, <1>2 DEF Cancelled, Changing
<1>9. c.listening = TRUE \/ c.listening = FALSE
  BY <1>1 DEF CallSet
<1>10. CASE view' = view /\ new.status # "running"
  <2>1. \A d \in calls' : d.status = "running" => d \in calls
    BY <1>1, <1>10
  <2> QED
    BY <1>3, <1>6, <1>10, <2>1 DEF LeftFrom
<1>11. CASE view'.stage = "ready" /\ c.command = "cancel_capture" /\ new.status = "ok"
  <2>1. c.listening = FALSE => Stale' = {}
    BY <1>3, <1>4, <1>5, <1>11 DEF Changing
  <2> QED
    BY <1>8, <1>9, <1>11, <2>1 DEF LeftFrom
<1>12. CASE c.status = "sent" /\ c.command \in Changing /\ new.status = "running" /\ Takes(c, new)
  <2>1. c.listening = FALSE => c \in Stale
    BY <1>2, <1>12 DEF Stale
  <2>2. CASE c.command = "start_capture"
    <3>1. view.stage = "ready" /\ view'.stage = "starting" /\ c.listening = FALSE
      BY <1>9, <1>12, <2>2 DEF Takes, Technical
    <3>2. Cancelled
      BY <2>1, <3>1 DEF LeftFrom
    <3>3. Stale' = {}
      BY <1>3, <1>4, <1>5, <1>12, <3>1
    <3> QED
      BY <1>6, <3>1, <3>2, <3>3 DEF LeftFrom
  <2>3. view.stage # "capturing"
    <3>1. view.stage = "capturing" => Stale = {} /\ Cancelled
      BY DEF LeftFrom
    <3> QED
      BY <1>7, <1>12, <2>1, <3>1
  <2>4. CASE c.command = "cancel_capture"
    <3>1. view.stage = "results" /\ view'.stage = "finishing" /\ new.view = view
      BY <1>12, <2>3, <2>4 DEF Takes
    <3>2. \A d \in calls : d.status # "running"
      BY <3>1 DEF ServiceInv, Runs, Changing
    <3>3. \A d \in calls' : d.status = "running" => d = new
      BY <1>1, <3>2
    <3> QED
      BY <1>1, <2>4, <3>1, <3>3 DEF LeftFrom
  <2>5. c.command # "finish_capture"
    BY <1>12, <2>3 DEF Takes
  <2> QED
    BY <1>12, <2>2, <2>4, <2>5 DEF Changing
<1>13. CASE c.status = "running" /\ Ends(c, new)
  <2>1. Runs(c) /\ c.command \in Changing
    BY <1>1, <1>13 DEF ServiceInv, Runs
  <2>2. CASE c.command = "start_capture"
    <3>1. view.stage = "starting" /\ view'.stage \in {"capturing", "ready"}
      BY <1>13, <2>1, <2>2 DEF Runs, Ends
    <3> QED
      BY <1>3, <1>6, <3>1 DEF LeftFrom
  <2>3. c.command = "cancel_capture" => c.view.stage = "results" /\ c.view.presentation = p
    BY <1>1, <1>13, <2>1 DEF Runs, LeftFrom
  <2>4. CASE c.command = "cancel_capture"
    BY <1>11, <1>13, <2>3, <2>4, SoundViews DEF Ends, LeftFrom
  <2>5. c.command # "finish_capture"
    BY <1>1, <1>13, <2>1 DEF Runs, LeftFrom
  <2> QED
    BY <2>1, <2>2, <2>4, <2>5 DEF Changing
<1>14. CASE c.status = "sent" /\ Takes(c, new)
  BY <1>10, <1>11, <1>12, <1>14, SoundViews DEF Takes
<1> QED
  BY <1>13, <1>14 DEF Serves

LEMMA ResultsShown == Shown = "results" => HasResults /\ error = "none"
BY DEF Shown, Content, HasResults, Busy

LEMMA ShowingKeeps ==
  ASSUME ServiceInv, WaitingInv, ShowingInv, NEW c, NEW new, Serves(c, new),
         UNCHANGED <<reloads, page>>
  PROVE  ShowingInv'
<1> SUFFICES ASSUME reloads < 2
             PROVE  ResultsLeft' /\ ResultsAwait' /\ AnswersFit' /\ TechnicalFits' /\ DetailsOf'
  BY DEF ShowingInv
<1>1. /\ c \in calls /\ new \in CallSet /\ calls' = (calls \ {c}) \union {new}
      /\ new.command = c.command /\ new.listening = c.listening
  BY DEF Serves
<1>2. UNCHANGED <<session, error, details>> /\ Shown' = Shown /\ HasResults' = HasResults
  BY DEF page, Shown, HasResults
<1>3. ResultsLeft /\ ResultsAwait /\ AnswersFit /\ TechnicalFits /\ DetailsOf
  BY DEF ShowingInv
<1>4. \A d \in Ordinary' : (d \in Ordinary /\ d # c) \/ (d = new /\ c \in Ordinary)
  BY <1>1 DEF Ordinary
<1>5. ResultsLeft'
  <2>1. ASSUME HasResults
        PROVE  LeftFrom(session.presentation)'
    <3>1. LeftFrom(session.presentation)
      BY <1>3, <2>1 DEF ResultsLeft
    <3>2. c.command # Technical /\ c.listening = TRUE =>
            c.command \in {"get_session_state", "cancel_capture"}
      BY <1>1, <1>3, <2>1 DEF ResultsAwait, Ordinary
    <3>3. \A p : LeftFrom(p) => LeftFrom(p)'
      BY <3>2, LeftKeeps
    <3> QED
      BY <1>2, <3>1, <3>3 DEF LeftFrom
  <2> QED
    BY <1>2, <2>1 DEF ResultsLeft
<1>6. ResultsAwait'
  BY <1>1, <1>2, <1>3, <1>4 DEF ResultsAwait
<1>7. ASSUME NEW d \in Ordinary', d.listening = TRUE, d.status = "ok", d.view.stage = "results"
      PROVE  /\ LeftFrom(d.view.presentation)'
             /\ HasResults => d.view.presentation = session.presentation
  <2>1. CASE d \in Ordinary /\ d # c
    <3>1. /\ LeftFrom(d.view.presentation)
          /\ HasResults => d.view.presentation = session.presentation
      BY <1>3, <1>7, <2>1 DEF AnswersFit
    <3>2. c.command # Technical => c.listening # TRUE
      BY <1>1, <1>7, <2>1 DEF WaitingInv, Ordinary
    <3>3. \A p : LeftFrom(p) => LeftFrom(p)'
      BY <1>2, <3>2, LeftKeeps DEF ShowingInv
    <3> QED
      BY <3>1, <3>3
  <2>2. CASE d = new /\ c \in Ordinary
    <3>1. new.view = view'
      <4>1. CASE c.status = "sent" /\ Takes(c, new)
        BY <1>7, <2>2, <4>1, SoundViews DEF Takes
      <4>2. CASE c.status = "running" /\ Ends(c, new)
        BY <1>7, <2>2, <4>2 DEF Ends
      <4> QED
        BY <4>1, <4>2 DEF Serves
    <3>2. LeftFrom(new.view.presentation)'
      BY <1>7, <2>2, <3>1 DEF LeftFrom
    <3>3. ASSUME HasResults
          PROVE  new.view.presentation = session.presentation
      <4>1. c.command \in {"get_session_state", "cancel_capture"}
        BY <1>1, <1>3, <1>7, <2>2, <3>3 DEF ResultsAwait
      <4>2. CASE c.status = "sent" /\ Takes(c, new)
        <5>1. new.view = view /\ view.stage = "results"
          BY <1>7, <2>2, <4>2, SoundViews DEF Takes
        <5> QED
          BY <1>3, <3>3, <5>1 DEF ResultsLeft, LeftFrom
      <4>3. CASE c.status = "running" /\ Ends(c, new)
        <5>1. c.command = "cancel_capture"
          BY <1>1, <4>1, <4>3 DEF ServiceInv, Runs, Changing
        <5> QED
          BY <1>7, <2>2, <4>3, <5>1, SoundViews DEF Ends
      <4> QED
        BY <4>2, <4>3 DEF Serves
    <3> QED
      BY <2>2, <3>2, <3>3
  <2> QED
    BY <1>4, <2>1, <2>2
<1>8. AnswersFit'
  BY <1>2, <1>7 DEF AnswersFit
<1>9. TechnicalFits'
  <2>1. ASSUME NEW d \in calls', d.command = Technical, d.listening = TRUE
        PROVE  /\ Shown = "results"
               /\ d.status = "ok" => d.view.presentation = session.presentation
    <3>1. CASE d \in calls
      BY <1>3, <2>1, <3>1 DEF TechnicalFits
    <3>2. CASE d = new
      <4>1. Shown = "results" /\ HasResults
        BY <1>1, <1>3, <2>1, <3>2, ResultsShown DEF TechnicalFits
      <4>2. c.status # "running"
        BY <1>1, <2>1, <3>2 DEF ServiceInv, Runs, Changing, Technical
      <4>3. new.status = "ok" => new.view = view /\ view.stage = "results"
        BY <1>1, <2>1, <3>2, <4>2 DEF Serves, Takes, Technical
      <4> QED
        BY <1>3, <3>2, <4>1, <4>3 DEF ResultsLeft, LeftFrom
    <3> QED
      BY <1>1, <3>1, <3>2
  <2> QED
    BY <1>2, <2>1 DEF TechnicalFits
<1>10. DetailsOf'
  BY <1>2, <1>3 DEF DetailsOf
<1> QED
  BY <1>5, <1>6, <1>8, <1>9, <1>10

(***************************************************************************)
(* A step of the page.                                                     *)
(***************************************************************************)

\* A step of the page leaves the service alone.
LEMMA LeftStays ==
  ASSUME NEW p, LeftFrom(p), view' = view, Stale' \subseteq Stale, Cancelled => Cancelled',
         \A d \in calls' : d.status = "running" => d \in calls
  PROVE  LeftFrom(p)'
BY DEF LeftFrom

\* The service is fine as long as no call appears to run that did not.
LEMMA ServiceStays ==
  ASSUME ServiceInv, view' = view, calls' \in SUBSET CallSet,
         \A d \in calls' : d.status = "running" => d \in calls,
         \A d \in calls' : d.status = "ok" =>
            \E e \in calls : e.command = d.command /\ e.status = "ok" /\ e.view = d.view
  PROVE  ServiceInv'
BY DEF ServiceInv, Runs

LEMMA MountDetails ==
  ASSUME DetailsInv, Mount
  PROVE  DetailsInv'
<1>0. /\ "get_session_state" # Technical /\ "get_session_state" \notin Changing
      /\ "get_session_state" # "cancel_capture"
  BY DEF Technical, Changing
<1>1. PICK new \in CallSet, more \in SUBSET CallSet :
        /\ calls' = calls \union {new} \union more
        /\ new.command = "get_session_state" /\ new.status = "sent" /\ new.listening = TRUE
        /\ \A c \in more : c.command = "get_session_state" /\ c.status = "sent"
                          /\ c.listening = FALSE
  BY MountShape
<1>2. /\ view' = view /\ UNCHANGED <<reloads, session, error, details, working>>
      /\ ~mounted /\ mounted' = TRUE /\ inFlight' = TRUE
  BY DEF Mount, service
<1>3. \A d \in Ordinary : d.listening = FALSE
  BY <1>2 DEF DetailsInv, WaitingInv
<1>4. \A d \in Ordinary' : d \in Ordinary \/ d = new \/ d \in more
  BY <1>1 DEF Ordinary
<1>5. ServiceInv'
  <2>1. calls' \in SUBSET CallSet
    BY <1>1 DEF DetailsInv, ServiceInv
  <2>2. \A d \in calls' : d \in calls \/ d.status = "sent"
    BY <1>1
  <2> QED
    BY <1>2, <2>1, <2>2, ServiceStays DEF DetailsInv
<1>8. reloads' \in 0 .. MaxReloads
  BY <1>2 DEF DetailsInv, WaitingInv
<1>6. WaitingInv'
  <2>1. Flags' /\ session' \in Views /\ (inFlight' => mounted')
        /\ details' \in [open : BOOLEAN, of : 0 .. MaxResults, refused : BOOLEAN]
    BY <1>2 DEF DetailsInv, WaitingInv, Flags
  <2>2. \A d \in Ordinary' : d.listening = TRUE => d = new
    BY <1>1, <1>3, <1>4
  <2>3. \A d \in Ordinary' : d.command \in Changing => d \in Ordinary
    BY <1>0, <1>1, <1>4
  <2>4. reloads' = 0 => \A d \in Ordinary' : d.command \in Changing => d.listening = TRUE
    BY <1>2, <2>3 DEF DetailsInv, WaitingInv
  <2>5. reloads' < 2 => \A d, e \in Ordinary' :
         d.command \in Changing /\ d.listening = FALSE /\ e.command \in Changing /\ e.listening = FALSE
           => d = e
    BY <1>2, <2>3 DEF DetailsInv, WaitingInv
  <2> QED
    BY <1>2, <1>8, <2>1, <2>2, <2>4, <2>5 DEF WaitingInv
<1>7. ASSUME reloads < 2
      PROVE  ResultsLeft' /\ ResultsAwait' /\ AnswersFit' /\ TechnicalFits' /\ DetailsOf'
  <2>1. ResultsLeft /\ ResultsAwait /\ AnswersFit /\ TechnicalFits /\ DetailsOf
    BY <1>7 DEF DetailsInv, ShowingInv
  <2>2. Shown' = Shown /\ HasResults' = HasResults
    BY <1>2 DEF Shown, HasResults
  <2>3. Stale' \subseteq Stale
    BY <1>0, <1>1, <1>4 DEF Stale
  <2>4. ~Cancelled
    BY <1>3 DEF Cancelled
  <2>5. \A d \in calls' : d.status = "running" => d \in calls
    BY <1>1
  <2>6. \A p : LeftFrom(p) => LeftFrom(p)'
    BY <1>2, <2>3, <2>4, <2>5, LeftStays
  <2>7. ResultsLeft'
    <3>1. LeftFrom(session.presentation)' <=> LeftFrom(session.presentation)'
      OBVIOUS
    <3> QED
      BY <1>2, <2>1, <2>2, <2>6 DEF ResultsLeft, LeftFrom
  <2>8. ResultsAwait'
    BY <1>1, <1>2, <1>3, <1>4 DEF ResultsAwait
  <2>9. AnswersFit'
    BY <1>1, <1>3, <1>4 DEF AnswersFit
  <2>10. TechnicalFits' /\ DetailsOf'
    BY <1>0, <1>1, <1>2, <2>1, <2>2 DEF TechnicalFits, DetailsOf
  <2> QED
    BY <2>7, <2>8, <2>9, <2>10
<1> QED
  BY <1>2, <1>5, <1>6, <1>7 DEF DetailsInv, ShowingInv

LEMMA ClickDetails ==
  ASSUME DetailsInv, Click
  PROVE  DetailsInv'
<1>0. ServiceInv /\ WaitingInv
  BY DEF DetailsInv
<1>1. PICK command \in Offered, id \in Free(1) :
        /\ session' = Optimistic(command)
        /\ KeepDetails("none", session', calls \union {Call(id, command)})
  BY DEF Click
<1> DEFINE new == Call(id, command)
           remaining == calls \union {new}
<1>2. /\ command \in Commands /\ command # Technical /\ id \in 1 .. MaxCalls
  <2>1. Buttons \subseteq Commands /\ Technical \notin Commands
    <3>1. Shown \in {"error", "busy", "capturing", "results", "ready"}
      BY DEF Shown, Content
    <3> QED
      BY <3>1 DEF Buttons, Commands, Technical
  <2> QED
    BY <1>1, <2>1 DEF Offered, Free
<1>3. /\ new \in CallSet /\ new.command = command
      /\ new.status = "sent" /\ new.listening = TRUE
  BY <1>2, NewCall
<1>4. /\ view' = view /\ UNCHANGED <<reloads, mounted>>
      /\ mounted /\ ~inFlight /\ inFlight' = TRUE /\ working' = TRUE /\ error' = "none"
  BY DEF Click, service
<1> HIDE DEF new
<1>5. KeepDetails("none", session', remaining) /\ remaining \in SUBSET CallSet
  BY <1>0, <1>1, <1>3 DEF new, ServiceInv
<1>6. /\ calls' \in SUBSET CallSet
      /\ Ordinary' = {c \in remaining : c.command # Technical}
      /\ \A c \in calls' : \E d \in remaining :
            c.status = d.status /\ c.command = d.command /\ c.view = d.view
      /\ Content("none", session') = "results" => calls' = remaining /\ details' = details
      /\ Content("none", session') # "results" =>
            /\ details' = Closed
            /\ \A c \in calls' : c.command = Technical => c.listening = FALSE
  <2> HIDE DEF remaining
  <2> QED
    BY <1>5, DetailsApart
<1>15. Closed \in [open : BOOLEAN, of : 0 .. MaxResults, refused : BOOLEAN] /\ Closed.of = 0
  BY PageAssumption DEF Closed
<1>16. details' = details \/ details' = Closed
  BY <1>6
<1>7. Ordinary' = Ordinary \union {new}
  BY <1>2, <1>3, <1>6 DEF Ordinary
<1>8. \A c \in Ordinary : c.listening = FALSE
  BY <1>0, <1>4 DEF WaitingInv
<1>9. \A c \in calls' : c.status = "running" => c \in calls
  <2>1. ASSUME NEW c \in calls', c.status = "running"
        PROVE  c \in calls
    <3>1. c.command # Technical
      BY <1>0, <1>3, <1>6, <2>1 DEF ServiceInv, Runs, Changing, Technical
    <3>2. c \in remaining
      BY <1>6, <2>1, <3>1 DEF Ordinary
    <3> QED
      BY <1>3, <2>1, <3>2
  <2> QED
    BY <2>1
<1>10. ServiceInv'
  <2>1. \A d \in calls' : d.status = "ok" =>
            \E e \in calls : e.command = d.command /\ e.status = "ok" /\ e.view = d.view
    BY <1>3, <1>6
  <2> QED
    BY <1>0, <1>4, <1>6, <1>9, <2>1, ServiceStays
<1>11. session' \in Views /\ (HasResults' => session' = session)
  <2>1. Optimistic(command) \in Views
    BY <1>0, SoundViews, PageAssumption DEF Optimistic, WaitingInv, Views, View, Stages
  <2>2. Optimistic(command).stage = "results" => Optimistic(command) = session
    BY <1>0 DEF Optimistic, WaitingInv, Views, View
  <2> QED
    BY <1>1, <2>1, <2>2 DEF HasResults
<1>12. HasResults' => command \in {"get_session_state", "cancel_capture"}
  <2>1. command \in {"start_capture", "finish_capture"} => Optimistic(command).stage # "results"
    BY <1>0 DEF Optimistic, WaitingInv, Views, View
  <2> QED
    BY <1>1, <1>2, <2>1 DEF HasResults, Commands
<1>17. reloads' \in 0 .. MaxReloads
  BY <1>0, <1>4 DEF WaitingInv
<1>13. WaitingInv'
  <2>1. Flags' /\ (inFlight' => mounted')
    BY <1>0, <1>4 DEF WaitingInv, Flags
  <2>2. details' \in [open : BOOLEAN, of : 0 .. MaxResults, refused : BOOLEAN]
    BY <1>0, <1>15, <1>16 DEF WaitingInv
  <2>3. \A d \in Ordinary' : d.listening = TRUE => d = new
    BY <1>7, <1>8
  <2>4. reloads' = 0 => \A d \in Ordinary' : d.command \in Changing => d.listening = TRUE
    BY <1>0, <1>3, <1>4, <1>7 DEF WaitingInv
  <2>5. reloads' < 2 => \A d, e \in Ordinary' :
         d.command \in Changing /\ d.listening = FALSE /\ e.command \in Changing /\ e.listening = FALSE
           => d = e
    BY <1>0, <1>3, <1>4, <1>7 DEF WaitingInv
  <2> QED
    BY <1>4, <1>17, <1>11, <2>1, <2>2, <2>3, <2>4, <2>5 DEF WaitingInv
<1>14. ASSUME reloads < 2
       PROVE  ResultsLeft' /\ ResultsAwait' /\ AnswersFit' /\ TechnicalFits' /\ DetailsOf'
  <2>1. ResultsLeft /\ ResultsAwait /\ AnswersFit /\ TechnicalFits /\ DetailsOf
    BY <1>14 DEF DetailsInv, ShowingInv
  <2>2. Stale' \subseteq Stale /\ ~Cancelled
    BY <1>3, <1>7, <1>8 DEF Stale, Cancelled
  <2>3. \A p : LeftFrom(p) => LeftFrom(p)'
    BY <1>4, <1>9, <2>2, LeftStays
  <2>4. ResultsLeft'
    BY <1>11, <2>1, <2>3 DEF ResultsLeft, HasResults, LeftFrom
  <2>5. ResultsAwait'
    BY <1>3, <1>7, <1>8, <1>12 DEF ResultsAwait
  <2>6. AnswersFit'
    BY <1>3, <1>7, <1>8 DEF AnswersFit
  <2>7. Shown' = Content("none", session')
    BY <1>4 DEF Shown
  <2>8. CASE Shown' = "results"
    <3>1. session' = session /\ calls' = calls \union {new} /\ details' = details
      BY <1>6, <1>11, <2>7, <2>8, ResultsShown DEF Content, HasResults, Busy
    <3>2. DetailsOf'
      BY <2>1, <2>8, <3>1 DEF DetailsOf
    <3>3. TechnicalFits'
      BY <1>2, <1>3, <2>1, <2>8, <3>1 DEF TechnicalFits
    <3> QED
      BY <2>4, <2>5, <2>6, <3>2, <3>3
  <2>9. CASE Shown' # "results"
    <3>1. details'.of = 0 /\ \A c \in calls' : c.command = Technical => c.listening = FALSE
      BY <1>6, <1>15, <2>7, <2>9
    <3> QED
      BY <2>4, <2>5, <2>6, <3>1 DEF TechnicalFits, DetailsOf
  <2> QED
    BY <2>4, <2>5, <2>6, <2>8, <2>9
<1> QED
  BY <1>4, <1>10, <1>13, <1>14 DEF DetailsInv, ShowingInv

LEMMA DeliverDetails ==
  ASSUME DetailsInv, NEW id, Deliver(id)
  PROVE  DetailsInv'
<1>0. ServiceInv /\ WaitingInv
  BY DEF DetailsInv
<1>1. PICK c \in calls :
        /\ Answered(c) /\ c.listening /\ c.command # Technical
        /\ session' = IF c.status = "ok" THEN c.view ELSE session
        /\ error' = IF c.status = "ok" THEN error ELSE c.status
        /\ KeepDetails(error', session', calls \ {c})
        /\ inFlight' = FALSE /\ working' = FALSE
  BY DEF Deliver, With, StillWorking
<1>2. view' = view /\ UNCHANGED <<reloads, mounted>>
  BY DEF Deliver, service
<1>3. /\ c \in CallSet /\ c \in Ordinary /\ c.listening = TRUE
      /\ c.view \in Views /\ c.status \in {"ok", "conflict", "failed", "restart"}
  <2>1. c \in CallSet /\ c \in Ordinary
    BY <1>0, <1>1 DEF ServiceInv, Ordinary
  <2> QED
    BY <1>1, <2>1 DEF CallSet, Answered
<1>4. calls \ {c} \in SUBSET CallSet
  BY <1>0 DEF ServiceInv
<1>5. /\ calls' \in SUBSET CallSet
      /\ Ordinary' = {d \in calls \ {c} : d.command # Technical}
      /\ \A d \in calls' : \E e \in calls \ {c} :
            d.status = e.status /\ d.command = e.command /\ d.view = e.view
      /\ Content(error', session') = "results" => calls' = calls \ {c} /\ details' = details
      /\ Content(error', session') # "results" =>
            /\ details' = Closed
            /\ \A d \in calls' : d.command = Technical => d.listening = FALSE
  <2> DEFINE remaining == calls \ {c}
  <2>1. remaining \in SUBSET CallSet /\ KeepDetails(error', session', remaining)
    BY <1>1, <1>4
  <2> HIDE DEF remaining
  <2>2. /\ calls' \in SUBSET CallSet
        /\ Ordinary' = {d \in remaining : d.command # Technical}
        /\ \A d \in calls' : \E e \in remaining :
              d.status = e.status /\ d.command = e.command /\ d.view = e.view
        /\ Content(error', session') = "results" => calls' = remaining /\ details' = details
        /\ Content(error', session') # "results" =>
              /\ details' = Closed
              /\ \A d \in calls' : d.command = Technical => d.listening = FALSE
    BY <2>1, DetailsApart
  <2> QED
    BY <2>2 DEF remaining
<1>6. Ordinary' = Ordinary \ {c}
  BY <1>5 DEF Ordinary
<1>7. \A d \in Ordinary : d.listening = TRUE => d = c
  BY <1>0, <1>3 DEF WaitingInv
<1>8. \A d \in Ordinary' : d.listening = FALSE
  <2>1. \A d \in Ordinary : d.listening \in BOOLEAN
    BY <1>0 DEF ServiceInv, CallSet, Ordinary
  <2> QED
    BY <1>6, <1>7, <2>1
<1>9. \A d \in calls' : d.status = "running" => d \in calls
  <2>1. ASSUME NEW d \in calls', d.status = "running"
        PROVE  d \in calls
    <3>1. d.command # Technical
      BY <1>0, <1>5, <2>1 DEF ServiceInv, Runs, Changing, Technical
    <3> QED
      BY <1>5, <2>1, <3>1 DEF Ordinary
  <2> QED
    BY <2>1
<1>10. ServiceInv'
  <2>1. \A d \in calls' : d.status = "ok" =>
            \E e \in calls : e.command = d.command /\ e.status = "ok" /\ e.view = d.view
    BY <1>5
  <2> QED
    BY <1>0, <1>2, <1>5, <1>9, <2>1, ServiceStays
<1>11. Closed \in [open : BOOLEAN, of : 0 .. MaxResults, refused : BOOLEAN] /\ Closed.of = 0
  BY PageAssumption DEF Closed
<1>14. reloads' \in 0 .. MaxReloads
  BY <1>0, <1>2 DEF WaitingInv
<1>12. WaitingInv'
  <2>1. details' = details \/ details' = Closed
    BY <1>5
  <2>2. Flags' /\ session' \in Views
    BY <1>0, <1>1, <1>2, <1>3 DEF WaitingInv, Flags
  <2>3. reloads' = 0 => \A d \in Ordinary' : d.command \in Changing => d.listening = TRUE
    BY <1>0, <1>2, <1>6 DEF WaitingInv
  <2>4. reloads' < 2 => \A d, e \in Ordinary' :
         d.command \in Changing /\ d.listening = FALSE /\ e.command \in Changing /\ e.listening = FALSE
           => d = e
    BY <1>0, <1>2, <1>6 DEF WaitingInv
  <2>5. details' \in [open : BOOLEAN, of : 0 .. MaxResults, refused : BOOLEAN]
    BY <1>0, <1>11, <2>1 DEF WaitingInv
  <2> QED
    BY <1>1, <1>8, <1>14, <2>2, <2>3, <2>4, <2>5 DEF WaitingInv
<1>13. ASSUME reloads < 2
       PROVE  ResultsLeft' /\ ResultsAwait' /\ AnswersFit' /\ TechnicalFits' /\ DetailsOf'
  <2>1. ResultsLeft /\ ResultsAwait /\ AnswersFit /\ TechnicalFits /\ DetailsOf
    BY <1>13 DEF DetailsInv, ShowingInv
  <2>2. Stale' \subseteq Stale
    BY <1>6 DEF Stale
  <2>3. ResultsLeft'
    <3>1. ASSUME HasResults'
          PROVE  LeftFrom(session'.presentation) /\ ~Cancelled
      <4>1. CASE c.status = "ok"
        <5>1. session' = c.view /\ c.view.stage = "results"
          BY <1>1, <3>1, <4>1 DEF HasResults
        <5>2. c.command # "cancel_capture"
          BY <1>0, <4>1, <5>1, SoundViews DEF ServiceInv
        <5> QED
          BY <1>3, <1>7, <2>1, <4>1, <5>1, <5>2 DEF AnswersFit, Cancelled
      <4>2. CASE c.status # "ok"
        BY <1>1, <1>7, <2>1, <3>1, <4>2 DEF ResultsLeft, HasResults, Cancelled
      <4> QED
        BY <4>1, <4>2
    <3>2. ASSUME NEW p, LeftFrom(p), ~Cancelled
          PROVE  LeftFrom(p)'
      BY <1>2, <1>9, <2>2, <3>2, LeftStays
    <3> QED
      BY <3>1, <3>2 DEF ResultsLeft, LeftFrom
  <2>4. ResultsAwait' /\ AnswersFit'
    BY <1>8 DEF ResultsAwait, AnswersFit
  <2>5. Shown' = Content(error', session')
    BY DEF Shown
  <2>6. CASE Shown' = "results"
    <3>1. calls' = calls \ {c} /\ details' = details
      BY <1>5, <2>5, <2>6
    <3>2. error' = "none" /\ session'.stage = "results"
      BY <2>6 DEF Shown, Content, Busy
    <3>3. c.status = "ok" /\ session' = c.view
      BY <1>1, <1>3, <3>2
    <3>4. HasResults => session'.presentation = session.presentation
      BY <1>3, <2>1, <3>2, <3>3 DEF AnswersFit
    <3>5. TechnicalFits'
      BY <2>1, <2>6, <3>1, <3>4, ResultsShown DEF TechnicalFits
    <3>6. DetailsOf'
      BY <2>1, <2>6, <3>1, <3>4, ResultsShown DEF DetailsOf
    <3> QED
      BY <2>3, <2>4, <3>5, <3>6
  <2>7. CASE Shown' # "results"
    <3>1. details'.of = 0 /\ \A d \in calls' : d.command = Technical => d.listening = FALSE
      BY <1>5, <1>11, <2>5, <2>7
    <3> QED
      BY <2>3, <2>4, <3>1 DEF TechnicalFits, DetailsOf
  <2> QED
    BY <2>6, <2>7
<1> QED
  BY <1>2, <1>10, <1>12, <1>13 DEF DetailsInv, ShowingInv

\* A step that concerns the technical panel, or an answer that nobody wants.
LEMMA PanelKeeps ==
  ASSUME DetailsInv, UNCHANGED <<service, reloads, mounted, inFlight, working, session, error>>,
         calls' \in SUBSET CallSet,
         \A d \in calls' : d \in calls \/ (d.command = Technical /\ d.status = "sent"),
         \A d \in calls \ calls' : d.command = Technical \/ d.listening = FALSE,
         details' \in [open : BOOLEAN, of : 0 .. MaxResults, refused : BOOLEAN],
         calls' \subseteq calls \/ Shown = "results",
         reloads < 2 => \/ details'.of = details.of
                        \/ Shown = "results" /\ details'.of = session.presentation
  PROVE  DetailsInv'
<1>1. view' = view /\ UNCHANGED reloads /\ Shown' = Shown /\ HasResults' = HasResults
  BY DEF service, Shown, HasResults
<1>2. Ordinary' \subseteq Ordinary
  BY DEF Ordinary
<1>3. \A d \in calls' : d.status = "running" \/ d.status = "ok" => d \in calls
  OBVIOUS
<1>4. ServiceInv'
  BY <1>1, <1>3, ServiceStays DEF DetailsInv
<1>5. WaitingInv'
  BY <1>1, <1>2 DEF DetailsInv, WaitingInv, Flags
<1>6. ASSUME reloads < 2
      PROVE  ResultsLeft' /\ ResultsAwait' /\ AnswersFit' /\ TechnicalFits' /\ DetailsOf'
  <2>1. ResultsLeft /\ ResultsAwait /\ AnswersFit /\ TechnicalFits /\ DetailsOf
    BY <1>6 DEF DetailsInv, ShowingInv
  <2>2. Stale' \subseteq Stale
    BY <1>2 DEF Stale
  <2>3. Cancelled => Cancelled'
    BY DEF Cancelled, Ordinary, Technical
  <2>4. \A p : LeftFrom(p) => LeftFrom(p)'
    BY <1>1, <1>3, <2>2, <2>3, LeftStays
  <2>5. ResultsLeft'
    BY <1>1, <2>1, <2>4 DEF ResultsLeft, LeftFrom
  <2>6. ResultsAwait'
    BY <1>1, <1>2, <2>1 DEF ResultsAwait
  <2>7. AnswersFit'
    <3>1. ASSUME NEW c \in Ordinary', c.listening = TRUE, c.status = "ok", c.view.stage = "results"
          PROVE  /\ LeftFrom(c.view.presentation)
                 /\ HasResults => c.view.presentation = session.presentation
      BY <1>2, <2>1, <3>1 DEF AnswersFit
    <3> QED
      BY <1>1, <2>4, <3>1 DEF AnswersFit
  <2>8. TechnicalFits'
    BY <1>1, <1>3, <2>1 DEF TechnicalFits
  <2>9. DetailsOf'
    BY <1>1, <1>6, <2>1 DEF DetailsOf
  <2> QED
    BY <2>5, <2>6, <2>7, <2>8, <2>9
<1> QED
  BY <1>1, <1>4, <1>5, <1>6 DEF DetailsInv, ShowingInv

LEMMA ToggleDetails ==
  ASSUME DetailsInv, ToggleTechnical
  PROVE  DetailsInv'
<1>1. Shown = "results" /\ details' = [details EXCEPT !.open = ~@]
  BY DEF ToggleTechnical
<1>2. UNCHANGED <<service, reloads, mounted, inFlight, working, session, error>>
  BY DEF ToggleTechnical
<1>3. calls' = calls \/ \E id \in Free(1) : calls' = calls \union {Call(id, Technical)}
  BY DEF ToggleTechnical
<1>4. calls \in SUBSET CallSet /\ details \in [open : BOOLEAN, of : 0 .. MaxResults, refused : BOOLEAN]
  BY DEF DetailsInv, ServiceInv, WaitingInv
<1>5. /\ details' \in [open : BOOLEAN, of : 0 .. MaxResults, refused : BOOLEAN]
      /\ details'.of = details.of
  BY <1>1, <1>4
<1>6. /\ calls' \in SUBSET CallSet /\ calls \subseteq calls'
      /\ \A d \in calls' : d \in calls \/ (d.command = Technical /\ d.status = "sent")
  <2>1. \A id \in Free(1) : /\ Call(id, Technical) \in CallSet
                            /\ Call(id, Technical).command = Technical
                            /\ Call(id, Technical).status = "sent"
    BY NewCall DEF Free
  <2> QED
    BY <1>3, <1>4, <2>1
<1> QED
  BY <1>1, <1>2, <1>5, <1>6, PanelKeeps

LEMMA DeliverTechnicalDetails ==
  ASSUME DetailsInv, NEW id, DeliverTechnical(id)
  PROVE  DetailsInv'
<1>1. PICK c \in calls :
        /\ Answered(c) /\ c.listening /\ c.command = Technical
        /\ details' = IF c.status = "ok" THEN [details EXCEPT !.of = c.view.presentation]
                      ELSE [details EXCEPT !.refused = TRUE]
        /\ calls' = calls \ {c}
  BY DEF DeliverTechnical, With
<1>2. UNCHANGED <<service, reloads, mounted, inFlight, working, session, error>>
  BY DEF DeliverTechnical
<1>3. /\ calls \in SUBSET CallSet /\ c \in CallSet
      /\ details \in [open : BOOLEAN, of : 0 .. MaxResults, refused : BOOLEAN]
  BY DEF DetailsInv, ServiceInv, WaitingInv
<1>4. c.listening = TRUE /\ c.view.presentation \in 0 .. MaxResults
  BY <1>1, <1>3 DEF CallSet, Views
<1>5. details' \in [open : BOOLEAN, of : 0 .. MaxResults, refused : BOOLEAN]
  BY <1>1, <1>3, <1>4
<1>6. details'.of = IF c.status = "ok" THEN c.view.presentation ELSE details.of
  BY <1>1, <1>3
<1>7. reloads < 2 =>
        Shown = "results" /\ (c.status = "ok" => c.view.presentation = session.presentation)
  BY <1>1, <1>4 DEF DetailsInv, ShowingInv, TechnicalFits
<1> QED
  BY <1>1, <1>2, <1>3, <1>5, <1>6, <1>7, PanelKeeps

LEMMA DiscardDetails ==
  ASSUME DetailsInv, NEW id, Discard(id)
  PROVE  DetailsInv'
<1>1. PICK c \in calls : ~c.listening /\ calls' = calls \ {c}
  BY DEF Discard, With
<1>2. UNCHANGED <<service, reloads, mounted, inFlight, working, session, error, details>>
  BY DEF Discard, page
<1>3. /\ calls \in SUBSET CallSet /\ c \in CallSet
      /\ details \in [open : BOOLEAN, of : 0 .. MaxResults, refused : BOOLEAN]
  BY DEF DetailsInv, ServiceInv, WaitingInv
<1>4. c.listening = FALSE
  BY <1>1, <1>3 DEF CallSet
<1> QED
  BY <1>1, <1>2, <1>3, <1>4, PanelKeeps

LEMMA ReloadDetails ==
  ASSUME DetailsInv, Reload
  PROVE  DetailsInv'
<1> DEFINE Deaf(c) == [c EXCEPT !.listening = FALSE]
<1>1. /\ view' = view /\ reloads' = reloads + 1 /\ calls' = {Deaf(c) : c \in calls}
      /\ Fresh(mounted', inFlight', working', session', error', details')
  BY DEF Reload, service
<1>2. calls \in SUBSET CallSet /\ reloads \in Nat
  BY DEF DetailsInv, ServiceInv, WaitingInv
<1>3. \A c \in calls : /\ Deaf(c) \in CallSet
                       /\ Deaf(c).listening = FALSE /\ Deaf(c).command = c.command
                       /\ Deaf(c).status = c.status /\ Deaf(c).view = c.view
  BY <1>2 DEF CallSet
<1> HIDE DEF Deaf
<1>4. \A c \in calls' : c.listening = FALSE
  BY <1>1, <1>3
<1>5. ServiceInv'
  <2>1. calls' \in SUBSET CallSet
    BY <1>1, <1>3
  <2>2. Sound(view')
    BY <1>1 DEF DetailsInv, ServiceInv
  <2>3. ASSUME NEW c \in calls', NEW d \in calls', c.status = "running"
        PROVE  Runs(c)' /\ (d.status = "running" => c = d)
    <3>1. PICK e \in calls, f \in calls : c = Deaf(e) /\ d = Deaf(f)
      BY <1>1
    <3>2. Runs(e) /\ (f.status = "running" => e = f)
      BY <1>3, <2>3, <3>1 DEF DetailsInv, ServiceInv
    <3> QED
      BY <1>1, <1>3, <3>1, <3>2 DEF Runs
  <2>4. \A c \in calls' : c.command = "cancel_capture" /\ c.status = "ok" => c.view = initialState
    BY <1>1, <1>3 DEF DetailsInv, ServiceInv
  <2> QED
    BY <2>1, <2>2, <2>3, <2>4 DEF ServiceInv
<1>6. /\ Flags' /\ ~inFlight' /\ session' \in Views /\ ~HasResults'
      /\ details' \in [open : BOOLEAN, of : 0 .. MaxResults, refused : BOOLEAN]
      /\ details'.of = 0
  <2>1. /\ mounted' = FALSE /\ inFlight' = FALSE /\ working' = TRUE
        /\ session' = initialState /\ details' = Closed
    BY <1>1 DEF Fresh
  <2>2. session'.stage = "ready"
    BY <2>1, SoundViews
  <2>3. Closed \in [open : BOOLEAN, of : 0 .. MaxResults, refused : BOOLEAN] /\ Closed.of = 0
    BY PageAssumption DEF Closed
  <2> QED
    BY <2>1, <2>2, <2>3, SoundViews DEF Flags, HasResults
<1>7. WaitingInv'
  <2>1. reloads' \in 0 .. MaxReloads /\ reloads' # 0
    BY <1>2, PageAssumption DEF Reload
  <2>2. ASSUME reloads' < 2, NEW c \in Ordinary', NEW d \in Ordinary',
               c.command \in Changing, d.command \in Changing
        PROVE  c = d
    <3>1. reloads = 0
      BY <1>1, <1>2, <2>2
    <3>2. PICK e \in calls, f \in calls : c = Deaf(e) /\ d = Deaf(f)
      BY <1>1 DEF Ordinary
    <3>3. e \in Ordinary /\ f \in Ordinary /\ e.command \in Changing /\ f.command \in Changing
      BY <1>3, <2>2, <3>2 DEF Ordinary
    <3>4. e.listening = TRUE /\ f.listening = TRUE
      BY <3>1, <3>3 DEF DetailsInv, WaitingInv
    <3>5. e = f
      BY <3>3, <3>4 DEF DetailsInv, WaitingInv
    <3> QED
      BY <3>2, <3>5
  <2>3. \A c \in Ordinary' : c.listening = FALSE
    BY <1>4 DEF Ordinary
  <2> QED
    BY <1>6, <2>1, <2>2, <2>3 DEF WaitingInv
<1>8. ShowingInv'
  <2>1. \A c \in Ordinary' : c.listening = FALSE
    BY <1>4 DEF Ordinary
  <2> QED
    BY <1>4, <1>6, <2>1
    DEF ShowingInv, ResultsLeft, ResultsAwait, AnswersFit, TechnicalFits, DetailsOf
<1> QED
  BY <1>5, <1>7, <1>8 DEF DetailsInv

-----------------------------------------------------------------------------
LEMMA DetailsNext == PageInv /\ DetailsInv /\ [Next]_vars => DetailsInv'
<1> SUFFICES ASSUME PageInv, DetailsInv, [Next]_vars PROVE DetailsInv'
  OBVIOUS
<1>1. CASE UNCHANGED vars
  <2>1. UNCHANGED <<service, reloads, mounted, inFlight, working, session, error, details, calls>>
    BY <1>1 DEF vars, page
  <2> QED
    BY <2>1, PanelKeeps DEF DetailsInv, ServiceInv, WaitingInv
<1>2. ASSUME NEW c, NEW new, Serves(c, new), UNCHANGED <<reloads, page>>
      PROVE  DetailsInv'
  <2>1. ServiceInv /\ WaitingInv /\ ShowingInv /\ calls \in SUBSET CallSet
    BY DEF DetailsInv, ServiceInv
  <2> QED
    BY <1>2, <2>1, ServiceKeeps, WaitingKeeps, ShowingKeeps DEF DetailsInv
<1>3. ASSUME NEW id \in 1 .. MaxCalls, Progress(id)
      PROVE  DetailsInv'
  <2>1. CASE Begin(id)
    <3>1. \E c, new \in CallSet : Serves(c, new)
      BY <2>1, BeginServes DEF DetailsInv
    <3> QED
      BY <1>2, <2>1, <3>1 DEF Begin
  <2>2. CASE End(id)
    <3>1. \E c, new \in CallSet : Serves(c, new)
      BY <2>2, EndServes DEF DetailsInv, PageInv
    <3> QED
      BY <1>2, <2>2, <3>1 DEF End
  <2> QED
    BY <1>3, <2>1, <2>2, DeliverDetails, DeliverTechnicalDetails, DiscardDetails DEF Progress
<1> QED
  BY <1>1, <1>3, MountDetails, ClickDetails, ToggleDetails, ReloadDetails DEF Next

\* The technical details on display are those of the results on display, for any
\* number of calls and comparisons, on a page that was reloaded once at most.
THEOREM DetailsAlwaysFit == Spec => []DetailsFit
<1>1. DetailsInv => DetailsFit
  BY ResultsShown DEF DetailsInv, ShowingInv, DetailsOf, DetailsFit
<1> QED
  BY <1>1, PageInit, PageNext, DetailsInit, DetailsNext, PTL DEF Spec

-----------------------------------------------------------------------------
(***************************************************************************)
(* Type correctness.  What is left of it is that a call is found by its    *)
(* identifier, which a free one is given and keeps until it is dropped.    *)
(***************************************************************************)
Distinct(S) == \A c, d \in S : c.id = d.id => c = d

CallsInv ==
    /\ serving \in BOOLEAN
    /\ compared \in 0 .. MaxResults
    /\ error \in {"none", "conflict", "failed", "restart"}
    /\ Distinct(calls)

LEMMA CallsInit == Init => CallsInv
BY PageAssumption DEF Init, Fresh, CallsInv, Distinct

LEMMA NewIdentifier ==
  ASSUME Distinct(calls), NEW n, NEW id \in Free(n), NEW command
  PROVE  Distinct(calls \union {Call(id, command)})
<1>1. \A c \in calls : c.id # id
  BY DEF Free, With
<1>2. Call(id, command).id = id
  BY DEF Call
<1> QED
  BY <1>1, <1>2 DEF Distinct

LEMMA ServiceCalls ==
  ASSUME PageInv, DetailsInv, CallsInv, NEW id, Begin(id) \/ End(id)
  PROVE  CallsInv'
<1>1. PICK c \in CallSet, new \in CallSet : Serves(c, new)
  BY BeginServes, EndServes DEF PageInv, DetailsInv
<1>2. c \in calls /\ calls' = (calls \ {c}) \union {new} /\ new.id = c.id
  BY <1>1 DEF Serves
<1>3. Distinct(calls')
  BY <1>2 DEF CallsInv, Distinct
<1>4. UNCHANGED <<serving, error>>
  BY DEF Begin, End, page
<1>5. compared' \in 0 .. MaxResults
  <2>1. Latest \in 1 .. MaxResults
    BY PageAssumption DEF Latest, CallsInv
  <2>2. compared' = compared \/ compared' = Latest
    BY DEF Begin, End
  <2> QED
    BY <2>1, <2>2, PageAssumption DEF CallsInv
<1> QED
  BY <1>3, <1>4, <1>5 DEF CallsInv

LEMMA PageCalls ==
  ASSUME DetailsInv, CallsInv, Mount \/ Click \/ ToggleTechnical \/ Reload
  PROVE  CallsInv'
<1>1. UNCHANGED <<serving, compared>> /\ error' \in {"none", error}
  BY DEF Mount, Click, ToggleTechnical, Reload, Fresh, service
<1>2. calls \in SUBSET CallSet
  BY DEF DetailsInv, ServiceInv
<1>7. error' \in {"none", "conflict", "failed", "restart"}
  BY <1>1 DEF CallsInv
<1>3. CASE Mount
  <2>1. PICK new \in CallSet, more \in SUBSET CallSet :
          /\ calls' = calls \union {new} \union more
          /\ \A c \in calls, d \in {new} \union more : c.id # d.id
          /\ \A c, d \in {new} \union more : c.id = d.id => c = d
    BY <1>3, MountShape
  <2>2. \A c \in calls' : c \in calls \/ c \in {new} \union more
    BY <2>1
  <2>3. Distinct(calls')
    BY <2>1, <2>2 DEF CallsInv, Distinct
  <2> QED
    BY <1>1, <1>7, <2>3 DEF CallsInv
<1>4. CASE Click
  <2>1. PICK command \in Offered, id \in Free(1) :
          KeepDetails("none", session', calls \union {Call(id, command)})
    BY <1>4 DEF Click
  <2> DEFINE remaining == calls \union {Call(id, command)}
  <2>2. Distinct(remaining)
    BY NewIdentifier DEF CallsInv
  <2>3. Offered \subseteq Commands
    <3>1. Shown \in {"error", "busy", "capturing", "results", "ready"}
      BY DEF Shown, Content
    <3> QED
      BY <3>1 DEF Offered, Buttons, Commands
  <2>4. remaining \in SUBSET CallSet
    BY <1>2, <2>3, NewCall DEF Free
  <2> HIDE DEF remaining
  <2>5. KeepDetails("none", session', remaining)
    BY <2>1 DEF remaining
  <2> QED
    BY <1>1, <2>2, <2>4, <2>5, DetailsApart DEF CallsInv, Distinct
<1>5. CASE ToggleTechnical
  <2>1. UNCHANGED calls \/ \E id \in Free(1) : calls' = calls \union {Call(id, Technical)}
    BY <1>5 DEF ToggleTechnical
  <2>2. Distinct(calls')
    BY <2>1, NewIdentifier DEF CallsInv
  <2> QED
    BY <1>1, <2>2 DEF CallsInv
<1>6. CASE Reload
  <2> DEFINE Deaf(c) == [c EXCEPT !.listening = FALSE]
  <2>1. calls' = {Deaf(c) : c \in calls}
    BY <1>6 DEF Reload
  <2>2. \A c \in calls : Deaf(c).id = c.id
    BY <1>2 DEF CallSet
  <2> HIDE DEF Deaf
  <2>3. Distinct(calls')
    <3>1. ASSUME NEW c \in calls', NEW d \in calls', c.id = d.id
          PROVE  c = d
      <4>1. PICK e \in calls, f \in calls : c = Deaf(e) /\ d = Deaf(f)
        BY <2>1
      <4> QED
        BY <2>2, <3>1, <4>1 DEF CallsInv, Distinct
    <3> QED
      BY <3>1 DEF Distinct
  <2> QED
    BY <1>1, <2>3 DEF CallsInv
<1> QED
  BY <1>1, <1>3, <1>4, <1>5, <1>6, <1>7

LEMMA AnswerCalls ==
  ASSUME DetailsInv, CallsInv, NEW id, Deliver(id) \/ DeliverTechnical(id) \/ Discard(id)
  PROVE  CallsInv'
<1>1. UNCHANGED <<serving, compared>>
  BY DEF Deliver, DeliverTechnical, Discard, service
<1>2. calls \in SUBSET CallSet
  BY DEF DetailsInv, ServiceInv
<1>3. CASE Deliver(id)
  <2>1. PICK c \in calls :
          /\ Answered(c)
          /\ error' = IF c.status = "ok" THEN error ELSE c.status
          /\ KeepDetails(error', session', calls \ {c})
    BY <1>3 DEF Deliver, With
  <2>2. error' \in {"none", "conflict", "failed", "restart"}
    BY <1>2, <2>1 DEF CallsInv, CallSet, Answered
  <2> DEFINE remaining == calls \ {c}
  <2>3. remaining \in SUBSET CallSet /\ Distinct(remaining) /\ KeepDetails(error', session', remaining)
    BY <1>2, <2>1 DEF CallsInv, Distinct
  <2> HIDE DEF remaining
  <2>4. Distinct(calls')
    BY <2>3, DetailsApart DEF Distinct
  <2> QED
    BY <1>1, <2>2, <2>4 DEF CallsInv
<1>4. CASE DeliverTechnical(id) \/ Discard(id)
  <2>1. calls' \subseteq calls /\ UNCHANGED error
    BY <1>4 DEF DeliverTechnical, Discard, page
  <2> QED
    BY <1>1, <2>1 DEF CallsInv, Distinct
<1> QED
  BY <1>3, <1>4

LEMMA CallsNext == PageInv /\ DetailsInv /\ CallsInv /\ [Next]_vars => CallsInv'
<1> SUFFICES ASSUME PageInv, DetailsInv, CallsInv, [Next]_vars PROVE CallsInv'
  OBVIOUS
<1>1. CASE UNCHANGED vars
  BY <1>1 DEF vars, service, page, CallsInv
<1>2. ASSUME NEW id \in 1 .. MaxCalls, Progress(id)
      PROVE  CallsInv'
  BY <1>2, ServiceCalls, AnswerCalls DEF Progress
<1> QED
  BY <1>1, <1>2, PageCalls DEF Next

LEMMA IdentifiersCount ==
  ASSUME calls \in SUBSET CallSet, Distinct(calls)
  PROVE  Cardinality({c.id : c \in calls}) = Cardinality(calls)
<1> DEFINE ids == {c.id : c \in calls}
           f == [c \in calls |-> c.id]
<1>1. ids \subseteq 1 .. MaxCalls
  BY DEF CallSet
<1>2. IsFiniteSet(ids)
  <2>1. MaxCalls \in Int
    BY PageAssumption
  <2>2. IsFiniteSet(1 .. MaxCalls)
    BY <2>1, FS_Interval
  <2> HIDE DEF ids
  <2> QED
    BY <1>1, <2>2, FS_Subset
<1>3. f \in Injection(calls, ids)
  BY DEF Distinct, Injection, IsInjective
<1>4. f \in Surjection(calls, ids)
  BY DEF Surjection
<1> HIDE DEF ids, f
<1>5. Cardinality(calls) = Cardinality(ids)
  BY <1>2, <1>3, <1>4, FS_Injection
<1> QED
  BY <1>5 DEF ids

\* Every call has an identifier of its own, the service's view has a presentation
\* exactly when it has results, and every other variable has its type.
THEOREM PageTyped == Spec => []TypeOK
<1>1. PageInv /\ DetailsInv /\ CallsInv => TypeOK
  <2> SUFFICES ASSUME PageInv, DetailsInv, CallsInv PROVE TypeOK
    OBVIOUS
  <2>1. calls \in SUBSET CallSet /\ Sound(view) /\ WaitingInv
    BY DEF DetailsInv, ServiceInv
  <2>2. Cardinality({c.id : c \in calls}) = Cardinality(calls)
    BY <2>1, IdentifiersCount DEF CallsInv
  <2>3. (view.presentation # 0) = (view.stage = "results")
    BY <2>1 DEF Sound
  <2>4. \A c \in calls :
          /\ c.id \in 1 .. MaxCalls
          /\ c.command \in Commands \union {Technical}
          /\ c.listening \in BOOLEAN
          /\ c.status \in {"sent", "running", "ok", "conflict", "failed", "restart"}
          /\ c.view \in Views
    BY <2>1 DEF CallSet
  <2> QED
    BY <2>1, <2>2, <2>3, <2>4 DEF TypeOK, CallsInv, WaitingInv, Flags, Sound
<1> QED
  BY <1>1, PageInit, PageNext, DetailsInit, DetailsNext, CallsInit, CallsNext, PTL DEF Spec
=============================================================================
