--------------------------- MODULE EscapeContract ---------------------------
(***************************************************************************)
(* What escape_scope and eject promise their callers, without frames,      *)
(* addresses, carriers or unwinders (docs/reference/unwind.md, "Surface"   *)
(* and "Failure modes"): scopes nest, an eject lands at the nearest        *)
(* enclosing scope, whose result holds that error, or the process ends;    *)
(* no scope reports success while an escape is aimed at it, and no second  *)
(* escape starts while one is under way.  Where a handler of the program   *)
(* can catch the escape (WebAssembly), another exception may take its      *)
(* place, and the scope is then left by that exception.                    *)
(***************************************************************************)
EXTENDS Naturals

CONSTANTS Tags, Payloads, NoPayload

VARIABLES
  open,     \* the open scopes: an identity, newer is larger, and an error type
  pending,  \* the scope the escape under way is aimed at (0: none), its error
  outcome,  \* how the scope that ended last was left
  dead,     \* TRUE: the process has ended
  replaceable  \* TRUE: handlers can catch an escape, fixed by the platform

vars == <<open, pending, outcome, dead, replaceable>>

NoEscape == [to |-> 0, err |-> NoPayload]

Init ==
  /\ open = {}
  /\ pending = NoEscape
  /\ outcome = [how |-> "none", err |-> NoPayload]
  /\ dead = FALSE
  /\ replaceable \in BOOLEAN

Innermost(s) == s \in open /\ \A r \in open : r.id <= s.id

Open(s) ==
  /\ ~dead
  /\ s.id > 0 /\ s.tag \in Tags
  /\ \A r \in open : r.id < s.id
  /\ open' = open \cup {s}
  /\ UNCHANGED <<pending, outcome, dead, replaceable>>

Escape(s, err) ==
  /\ ~dead
  /\ Innermost(s)
  /\ pending = NoEscape
  /\ pending' = [to |-> s.id, err |-> err]
  /\ UNCHANGED <<open, outcome, dead, replaceable>>

Land(s) ==
  /\ ~dead
  /\ Innermost(s)
  /\ pending.to = s.id
  /\ open' = open \ {s}
  /\ outcome' = [how |-> "error", err |-> pending.err]
  /\ pending' = NoEscape
  /\ UNCHANGED <<dead, replaceable>>

\* The body returned, or threw an exception of its own.
Leave(s, how) ==
  /\ ~dead
  /\ Innermost(s)
  /\ pending.to # s.id
  /\ open' = open \ {s}
  /\ outcome' = [how |-> how, err |-> NoPayload]
  /\ UNCHANGED <<pending, dead, replaceable>>

\* The exception that took the place of the escape leaves the scope.
Overtake(s) ==
  /\ ~dead
  /\ replaceable
  /\ Innermost(s)
  /\ pending.to = s.id
  /\ open' = open \ {s}
  /\ outcome' = [how |-> "exception", err |-> NoPayload]
  /\ pending' = NoEscape
  /\ UNCHANGED <<dead, replaceable>>

Terminate ==
  /\ ~dead
  /\ dead' = TRUE
  /\ UNCHANGED <<open, pending, outcome, replaceable>>

Next ==
  \/ \E s \in open' : Open(s)
  \/ \E s \in open, err \in Payloads : Escape(s, err)
  \/ \E s \in open : Land(s)
  \/ \E s \in open, how \in {"value", "exception"} : Leave(s, how)
  \/ \E s \in open : Overtake(s)
  \/ Terminate

Spec == Init /\ [][Next]_vars
=============================================================================
