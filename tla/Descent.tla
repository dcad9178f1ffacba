------------------------------- MODULE Descent -------------------------------
(***************************************************************************)
(* What the repository's applications have in common: a call descends      *)
(* recursively through a structure the caller supplied, every level        *)
(* records itself in state that outlives the call (the path of a cycle     *)
(* check, an open file, a hash context, a diagnostic record), and a fault  *)
(* at any depth leaves all the levels at once.                             *)
(*                                                                         *)
(* Two ways of leaving exist.  "escape" is unwind::eject: the frames are   *)
(* left innermost first, their destructors run, and escape_scope returns   *)
(* the payload (UnwindArm shows that the arm does this).  "fail" is a      *)
(* failed result handed from level to level by JMPXX_TRY.                  *)
(*                                                                         *)
(* The modules Resolver, StoreCheck, ManifestTA, SceneAudit and            *)
(* ConfigValidate extend this one with one application each.               *)
(***************************************************************************)
EXTENDS Integers, Sequences, FiniteSets

CONSTANTS
  Names,   \* keys, records, entries and nodes, also ones nothing defines
  NoName   \* no reference, an empty name

VARIABLES
  app,         \* the application, fixed when the process starts
  input,       \* the document, image, manifest or scene the calls work on
  mode,        \* "idle", "begin" (before the descent), "run", "escape", "fail"
  call,        \* the name the last call was given
  frames,      \* the frames of the descent, outermost first
  path,        \* names on the path (seen so far, in the scene audit)
  held,        \* files, hash contexts or diagnostic records held
  payload,     \* the error under way: fault, depth, hops recorded for it
  fault_name,  \* the name left beside the error for the landing to report
  count,       \* what the call has completed so far
  deepest,     \* the deepest level the call has entered
  verdict      \* what the last call returned

Keys == Names \cup {NoName}

vars == <<app, input, mode, call, frames, path, held, payload, fault_name,
          count, deepest, verdict>>

\* A frame: the name it works on, its depth, where it is in its function, its
\* position in a loop or buffer, what it has built, and which of its guard
\* objects are constructed: the mark on the path and the owned resource.
NewFrame(name, depth, at) ==
  [name |-> name, depth |-> depth, pc |-> "enter", at |-> at, out |-> <<>>,
   marks |-> FALSE, owns |-> FALSE]

NoError == [fault |-> "none", depth |-> 0, hops |-> 0]
NoVerdict ==
  [ok |-> FALSE, fault |-> "none", depth |-> 0, hops |-> 0, name |-> NoName,
   count |-> 0, out |-> <<>>]

Top == frames[Len(frames)]
Front(s) == SubSeq(s, 1, Len(s) - 1)
At(a, pc) == app = a /\ mode = "run" /\ frames # <<>> /\ Top.pc = pc

\* The top frame goes on as f.
Go(f) ==
  /\ frames' = [frames EXCEPT ![Len(frames)] = f]
  /\ UNCHANGED <<app, input, mode, call, payload, fault_name, verdict>>

\* The top frame goes on as f when the level it enters, g, has returned.
Enter(f, g) ==
  /\ frames' = Append(Front(frames), f) \o <<g>>
  /\ UNCHANGED <<app, input, mode, call, payload, fault_name, verdict>>

\* A call on in begins with the frames fs, or with none if it can fail before
\* the descent.
Begin(a, in, name, fs) ==
  /\ app = a
  /\ mode = "idle"
  /\ input' = in
  /\ call' = name
  /\ frames' = fs
  /\ verdict' = NoVerdict
  /\ payload' = NoError
  /\ UNCHANGED app

\* The caller has read the verdict and lets go of the input; what only lived
\* as long as the call is gone, the globals of the trusted application stay.
Forget ==
  /\ mode = "idle"
  /\ app \in {"manifest", "scene", "config"}
  /\ input # NoName
  /\ input' = NoName
  /\ call' = NoName
  /\ payload' = NoError
  /\ verdict' = NoVerdict
  /\ fault_name' = IF app = "manifest" THEN fault_name ELSE NoName
  /\ count' = IF app = "manifest" THEN count ELSE 0
  /\ UNCHANGED <<app, mode, frames, path, held, deepest>>

\* The error f is raised with name beside it, leaving the way m.
Raise(m, f, name, depth) ==
  /\ mode' = m
  /\ payload' = [fault |-> f, depth |-> depth, hops |-> 0]
  /\ fault_name' = name
  /\ UNCHANGED <<app, input, call, frames, verdict>>

\* unwind::eject below the application's escape_scope.
Eject(f, name, depth) == Raise("escape", f, name, depth)

\* The top frame returns a failed result it made itself, holding h records.
FailHere(f, name, depth, h) ==
  /\ mode' = "fail"
  /\ payload' = [fault |-> f, depth |-> depth, hops |-> 0]
  /\ fault_name' = name
  /\ held' = h
  /\ frames' = Front(frames)
  /\ UNCHANGED <<app, input, call, path, count, deepest, verdict>>

\* A function below the top frame returns a failed result to its JMPXX_TRY.
FailBelow(f, name, depth, h) ==
  /\ Raise("fail", f, name, depth)
  /\ held' = h
  /\ UNCHANGED <<path, count, deepest>>

\* The top frame is left by the error under way; its destructors leave path p
\* and h resources.
Leave(p, h) ==
  /\ frames # <<>>
  /\ frames' = Front(frames)
  /\ path' = p
  /\ held' = h
  /\ UNCHANGED <<app, input, mode, call, fault_name, count, deepest, verdict>>

\* JMPXX_TRY of the top frame: record a hop if the error has a record, with
\* room for max hops, and return the failure.
TryReturns(max) ==
  /\ Leave(path, held)
  /\ payload' = IF held = 1 /\ payload.hops < max
                THEN [payload EXCEPT !.hops = @ + 1] ELSE payload

\* The error under way reaches the boundary of the call, which returns v.
LandAs(v) ==
  /\ mode \in {"escape", "fail"}
  /\ frames = <<>>
  /\ mode' = "idle"
  /\ verdict' = v
  /\ UNCHANGED <<app, input, call, frames, fault_name, count, deepest>>
Failure(name) ==
  [NoVerdict EXCEPT !.fault = payload.fault, !.depth = payload.depth,
     !.hops = payload.hops, !.name = name]
Land(name) == LandAs(Failure(name))

\* The outermost frame returns: the call succeeds, returning v.
SucceedAs(v) ==
  /\ Len(frames) = 1
  /\ frames' = <<>>
  /\ mode' = "idle"
  /\ verdict' = v
  /\ UNCHANGED <<app, input, call, payload, fault_name>>
Success(n, out) == [NoVerdict EXCEPT !.ok = TRUE, !.count = n, !.out = out]
Succeed(n, out) == SucceedAs(Success(n, out))

\* An inner frame returns to its caller, which goes on as f.
ReturnTo(f) ==
  /\ Len(frames) > 1
  /\ frames' = Append(Front(Front(frames)), f)
  /\ UNCHANGED <<app, input, mode, call, payload, fault_name, verdict>>

\* A function's early returns in their order, as pairs <<condition, fault>>:
\* the fault of the first that is taken.
FirstFault(checks) ==
  LET taken == {i \in 1..Len(checks) : checks[i][1]}
  IN  IF taken = {} THEN "none"
      ELSE checks[CHOOSE i \in taken : \A j \in taken : i <= j][2]

Caller == frames[Len(frames) - 1]
Elements(s) == {s[i] : i \in 1..Len(s)}
=============================================================================
