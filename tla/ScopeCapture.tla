---------------------------- MODULE ScopeCapture ----------------------------
(***************************************************************************)
(* What the registry collector promises, scope by scope.  The key changes  *)
(* at will; then, in one step, the scope ends.  A complete outcome is the  *)
(* content of the key at that moment.  A partial one has some values the   *)
(* key has held since the scope began, no name twice.  Any other has none. *)
(***************************************************************************)
EXTENDS Naturals

CONSTANTS
    Scopes,   \* number of scopes
    Names,    \* value names
    Data      \* values a name can have

VARIABLES
    scope,    \* the scope being read
    content,  \* the records its key holds
    seen,     \* the records it has held since the scope began
    result    \* result[s]: status and records of scope s

captureVars == <<scope, content, seen, result>>

Records == [name : Names, datum : Data]

\* A name has one datum at a time.
Functional(rs) == \A q, r \in rs : q.name = r.name => q = r

Contents == {rs \in SUBSET Records : Functional(rs)}

Outcome(status, found) == [status |-> status, found |-> found]

Outcomes(now, ever) ==
    {Outcome("complete", now)}
        \union {Outcome("partial", rs) : rs \in {x \in SUBSET ever : Functional(x)}}
        \union {Outcome(st, {}) : st \in {"permission_denied", "failed"}}

-----------------------------------------------------------------------------
CaptureInit ==
    /\ scope = 1
    /\ content \in Contents
    /\ seen = content
    /\ result = [s \in 1 .. Scopes |-> Outcome("pending", {})]

Change ==
    /\ scope <= Scopes
    /\ content' \in Contents
    /\ seen' = seen \union content'
    /\ UNCHANGED <<scope, result>>

EndScope ==
    /\ scope <= Scopes
    /\ \E outcome \in Outcomes(content, seen) :
        result' = [result EXCEPT ![scope] = outcome]
    /\ scope' = scope + 1
    /\ content' \in IF scope < Scopes THEN Contents ELSE {{}}
    /\ seen' = content'

CaptureNext == Change \/ EndScope

CaptureSpec == CaptureInit /\ [][CaptureNext]_captureVars
=============================================================================
