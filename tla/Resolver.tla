------------------------------ MODULE Resolver ------------------------------
(***************************************************************************)
(* The reference resolver (reference_app/src/resolve.hpp) and the program  *)
(* that resolves every key of a file with one resolver                     *)
(* (reference_app/src/config_resolve.cpp).                                 *)
(*                                                                         *)
(* A value is the sequence of the pieces interpolate() meets: literal      *)
(* text, a reference ${name}, or a ${ that is never closed, which can only *)
(* be the last.  The resolved value is the sequence of the keys whose      *)
(* literal text it is made of.                                             *)
(***************************************************************************)
EXTENDS Descent

CONSTANTS
  MaxDepth,  \* max_depth: references followed from the key asked for
  RawText    \* the whole text of a value, where a key is expected

ASSUME ResolverAssumption == MaxDepth \in Nat

\* resolving_, a set, in the order its keys were inserted: the guard of a frame
\* erases its key.
Erase(p, key) ==
  IF key \notin Elements(p) THEN p
  ELSE LET at == CHOOSE i \in 1..Len(p) : p[i] = key
       IN  [i \in 1..(Len(p) - 1) |-> IF i < at THEN p[i] ELSE p[i + 1]]

\* resolver::resolve_key, called by main for every key of the table: input has
\* the keys that hold a text, and another key of it is one that does not.
ResolveKey(key) ==
  /\ Begin("resolver", input, key, <<NewFrame(key, 0, 1)>>)
  /\ mode' = "run"
  /\ UNCHANGED <<path, held, fault_name, count, deepest>>
ConfigResolve == app = "resolver" /\ \E key \in Keys : ResolveKey(key)

\* (Mutant) The check compares the key with the innermost one only.
OnPathNearest(key) == path # <<>> /\ path[Len(path)] = key

OnPath(key) == key \in Elements(path)

\* resolver::resolve up to the guard.
Resolve ==
  /\ At("resolver", "enter")
  /\ IF Top.depth > MaxDepth \/ OnPath(Top.name)
     THEN /\ Eject(IF Top.depth > MaxDepth THEN "too_deep" ELSE "cycle",
                   Top.name, Top.depth)
          /\ UNCHANGED path
     ELSE /\ path' = Append(path, Top.name)
          /\ Go([Top EXCEPT !.marks = TRUE, !.pc = "value"])
  /\ UNCHANGED <<held, count, deepest>>

\* resolver::resolve, the look-up.
LookUp ==
  /\ At("resolver", "value")
  /\ IF Top.name \in DOMAIN input
     THEN Go([Top EXCEPT !.pc = "text"])
     ELSE Eject("missing", Top.name, Top.depth)
  /\ UNCHANGED <<path, held, count, deepest>>

\* What interpolate has built so far, followed by a resolved reference.
Joined(before, value) == before \o value

\* resolver::interpolate, one piece of the text.
Interpolate ==
  /\ At("resolver", "text")
  /\ Top.at <= Len(input[Top.name])
  /\ LET piece == input[Top.name][Top.at]
     IN  \/ /\ piece.kind = "text"
            /\ Go([Top EXCEPT !.at = @ + 1, !.out = Append(@, Top.name)])
         \/ /\ piece.kind = "open"
            /\ Eject("malformed", RawText, Top.depth)
         \/ /\ piece.kind = "ref"
            /\ Enter(Top, NewFrame(piece.to, Top.depth + 1, 1))
  /\ UNCHANGED <<path, held, count, deepest>>

\* (Mutant) interpolate does not go on behind the reference it resolved.
ResolveReturnStays ==
  /\ At("resolver", "text")
  /\ Top.at > Len(input[Top.name])
  /\ path' = Erase(path, Top.name)
  /\ \/ Succeed(0, Top.out)
     \/ ReturnTo([Caller EXCEPT !.out = Joined(@, Top.out)])
  /\ UNCHANGED <<held, count, deepest>>

\* resolver::resolve returns: the guard runs and the caller's text goes on.
ResolveReturn ==
  /\ At("resolver", "text")
  /\ Top.at > Len(input[Top.name])
  /\ path' = Erase(path, Top.name)
  /\ \/ Succeed(0, Top.out)
     \/ ReturnTo([Caller EXCEPT !.at = @ + 1, !.out = Joined(@, Top.out)])
  /\ UNCHANGED <<held, count, deepest>>

\* (Mutant) The guards are skipped, as by a bare longjmp.
ResolveJumped ==
  /\ app = "resolver" /\ mode = "escape"
  /\ Leave(path, held)
  /\ UNCHANGED payload

\* The escape leaves a frame of resolve: its guard erases the key.
ResolveUnwind ==
  /\ app = "resolver" /\ mode = "escape"
  /\ Leave(IF Top.marks THEN Erase(path, Top.name) ELSE path, held)
  /\ UNCHANGED payload

\* escape_scope in resolve_key returns the error, and error_key() the key.
ResolveLand ==
  /\ app = "resolver"
  /\ Land(fault_name)
  /\ UNCHANGED <<path, held, payload>>

ResolverNext ==
  \/ ConfigResolve \/ Resolve \/ LookUp \/ Interpolate
  \/ ResolveReturn \/ ResolveUnwind \/ ResolveLand
=============================================================================
