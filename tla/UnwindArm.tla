------------------------------ MODULE UnwindArm ------------------------------
(***************************************************************************)
(* The experimental non-local unwind arm (include/jmpxx/unwind/escape.hpp  *)
(* and include/jmpxx/unwind/backend.hpp) on one thread: escape_scope,      *)
(* eject, the forced unwind and the code its cleanups run.                 *)
(*                                                                         *)
(* All the arm's state is thread_local or lives in a frame, so threads are *)
(* independent and one is modelled.  The call stack is explicit: frames    *)
(* hold automatic objects whose destructors the unwind must run, handlers  *)
(* that may meet the escape, and stack addresses, because the landing is   *)
(* recognised by comparing addresses.  What a handler does to the escape   *)
(* is decided by the C++ runtime and follows docs/design/unwind-arm.md.    *)
(***************************************************************************)
EXTENDS Integers, Sequences

CONSTANTS
  Runtimes,   \* the C++ runtimes the program is built for
  Tags,       \* the error types E escape_scope and eject are instantiated with
  Payloads,   \* error values
  Guards,     \* the handlers frames of the program have, a subset of AllGuards
  FrameSize,  \* stack addresses one frame occupies
  MaxFrames,  \* bound of the model: frames on the stack
  MaxObjs,    \* bound of the model: live objects of one frame
  MaxOps      \* bound of the model: operations the program's own code performs

\* "typed" catches only the program's own exceptions; "coop" is a catch-all that
\* rethrows, "swallow" one that does not, "translate" one that throws another
\* exception; "noexcept" is an empty exception specification; "bare" is a frame
\* compiled with exceptions disabled, which an unwind crosses but whose cleanups
\* it does not know; "opaque" is a frame compiled without any unwind tables, at
\* which the unwinder reports the end of the stack or gives up.
AllGuards ==
  {"none", "typed", "coop", "swallow", "translate", "noexcept", "bare", "opaque"}

ASSUME ArmAssumption ==
  /\ Runtimes \subseteq {"libstdcxx", "libcxxabi", "libcxxrt", "wasm"}
  /\ Guards \subseteq AllGuards
  /\ "none" \in Guards
  /\ FrameSize \in Nat \ {0}
  /\ MaxFrames \in Nat /\ MaxObjs \in Nat /\ MaxOps \in Nat
  /\ Tags # {} /\ Payloads # {}

VARIABLES
  runtime,    \* the C++ runtime, fixed when the program is built
  stack,      \* the thread's frames, outermost first
  mode,       \* "run", "forced" (escape unwinding), "throw", or "dead"
  active,     \* active(): index of the innermost carrier's frame, 0 = nullptr
  in_flight,  \* escape_in_flight()
  escape,     \* the escape under way: its carrier's frame and address (the
              \* stop function's parameter) and the error eject was given
  outcome,    \* how the scope that ended last was left
  lost,       \* TRUE: some object's frame is gone without its destructor
  death,      \* why the process ended
  ops         \* operations the program may still perform

vars == <<runtime, stack, mode, active, in_flight, escape, outcome, lost, death,
          ops>>

NoTag == "none"
NoPayload == "none"

\* A frame spans the addresses low..cfa-1 and the stack grows down.  A scope
\* frame holds the carrier: its address car, prev, tag, ejected and error.
\* A dtor frame is a destructor called by an unwind, which it resumes.
Frame ==
  [kind : {"call", "scope", "dtor"}, guard : AllGuards, objs : Nat,
   cfa : Int, low : Int, car : Int, prev : Nat, tag : Tags \cup {NoTag},
   ejected : BOOLEAN, error : Payloads \cup {NoPayload},
   resume : {"run", "forced", "throw"}]

Deaths == {"alive", "no active scope", "type mismatch", "already in flight",
           "swallowed", "terminate", "unwind failed", "wild landing"}

NoEscape == [to |-> 0, marker |-> 0, err |-> NoPayload]
NoOutcome == [how |-> "none", err |-> NoPayload]

TypeOK ==
  /\ runtime \in Runtimes
  /\ stack \in Seq(Frame)
  /\ mode \in {"run", "forced", "throw", "dead"}
  /\ active \in 0..Len(stack)
  /\ in_flight \in BOOLEAN
  /\ escape \in [to : Nat, marker : Int, err : Payloads \cup {NoPayload}]
  /\ outcome \in [how : {"none", "value", "error", "exception"},
                  err : Payloads \cup {NoPayload}]
  /\ lost \in BOOLEAN
  /\ death \in Deaths
  /\ ops \in Nat

-----------------------------------------------------------------------------
(* Frames.                                                                  *)

Depth == Len(stack)
Top == stack[Depth]
Cut(n) == SubSeq(stack, 1, n)
Pop == Cut(Depth - 1)

\* A frame below one whose lowest address is low.
CallFrame(low, kind, guard, resume) ==
  [kind |-> kind, guard |-> guard, objs |-> 0, cfa |-> low,
   low |-> low - FrameSize, car |-> low, prev |-> 0, tag |-> NoTag,
   ejected |-> FALSE, error |-> NoPayload, resume |-> resume]

\* (Mutant) The carrier does not remember the enclosing one.
ScopeFrameUnlinked(low, tag, off) ==
  [CallFrame(low, "scope", "none", "run") EXCEPT
     !.car = low - FrameSize + off, !.tag = tag]

\* escape_scope's frame: the carrier lies inside it, at its lowest address + off.
ScopeFrame(low, tag, off) ==
  [CallFrame(low, "scope", "none", "run") EXCEPT
     !.car = low - FrameSize + off, !.prev = active, !.tag = tag]

Bottom == CallFrame(0, "call", "none", "run")

ScopeIndexes == {i \in 1..Depth : stack[i].kind = "scope"}

Init ==
  /\ runtime \in Runtimes
  /\ stack = <<Bottom>>
  /\ mode = "run"
  /\ active = 0
  /\ in_flight = FALSE
  /\ escape = NoEscape
  /\ outcome = NoOutcome
  /\ lost = FALSE
  /\ death = "alive"
  /\ ops = MaxOps

\* platform::fail_fast, std::terminate
Die(why) ==
  /\ mode' = "dead"
  /\ death' = why
  /\ UNCHANGED <<stack, active, in_flight, escape, outcome, lost>>

\* The program's own code performs one operation.
Perform ==
  /\ mode = "run"
  /\ ops > 0
  /\ ops' = ops - 1
  /\ UNCHANGED runtime

-----------------------------------------------------------------------------
(* The program's own code, in the body of a scope, outside any, or in a     *)
(* destructor an unwind is running.                                         *)

\* A function with handler g is called.
Call(g) ==
  /\ Perform
  /\ Depth < MaxFrames
  /\ stack' = Append(stack, CallFrame(Top.low, "call", g, "run"))
  /\ UNCHANGED <<mode, active, in_flight, escape, outcome, lost, death>>

\* An automatic object with a destructor is constructed.
Construct ==
  /\ Perform
  /\ Top.objs < MaxObjs
  /\ stack' = [stack EXCEPT ![Depth].objs = @ + 1]
  /\ UNCHANGED <<mode, active, in_flight, escape, outcome, lost, death>>

\* The program throws an ordinary exception.
Throw ==
  /\ Perform
  /\ mode' = "throw"
  /\ UNCHANGED <<stack, active, in_flight, escape, outcome, lost, death>>

\* escape_scope<tag>(body): the carrier is pushed and body runs in run_body's
\* frame, below the landing frame.
OpenScope(tag, off) ==
  LET s == ScopeFrame(Top.low, tag, off)
  IN  /\ Perform
      /\ Depth + 2 <= MaxFrames
      /\ stack' = stack \o <<s, CallFrame(s.low, "call", "none", "run")>>
      /\ active' = Depth + 1
      /\ UNCHANGED <<mode, in_flight, escape, outcome, lost, death>>

\* (Mutant) A second escape is not refused.
EjectRefusalUnguarded(tag) ==
  IF active = 0 THEN "no active scope"
  ELSE IF stack[active].tag # tag THEN "type mismatch"
  ELSE "alive"

\* eject<tag>(err): three refusals in order, then the carrier is filled and the
\* backend starts the unwind.
EjectRefusal(tag) ==
  IF active = 0 THEN "no active scope"
  ELSE IF stack[active].tag # tag THEN "type mismatch"
  ELSE IF in_flight THEN "already in flight"
  ELSE "alive"

Eject(tag, err) ==
  /\ Perform
  /\ IF EjectRefusal(tag) # "alive"
     THEN Die(EjectRefusal(tag))
     ELSE /\ stack' = [stack EXCEPT ![active].error = err,
                                    ![active].ejected = TRUE]
          /\ in_flight' = TRUE
          /\ escape' = [to |-> active, marker |-> stack[active].car,
                         err |-> err]
          /\ mode' = "forced"
          /\ UNCHANGED <<active, outcome, lost, death>>

\* A function returns to its caller, its objects destroyed.
Return ==
  /\ mode = "run"
  /\ Depth > 1
  /\ Top.kind = "call"
  /\ stack[Depth - 1].kind # "scope"
  /\ stack' = Pop
  /\ UNCHANGED <<mode, active, in_flight, escape, outcome, lost, death, ops, runtime>>

\* (Mutant) The backstop is missing.
SwallowedUnnoticed(s) == FALSE

\* The check escape_scope makes on its carrier when the body has returned.
Swallowed(s) == s.ejected

\* The body returns into escape_scope: a body that returns although its carrier
\* was ejected had its escape swallowed.
ReturnFromBody ==
  LET s == stack[Depth - 1]
  IN  /\ mode = "run"
      /\ Depth > 1
      /\ Top.kind = "call"
      /\ s.kind = "scope"
      /\ IF Swallowed(s)
         THEN Die("swallowed")
         ELSE /\ stack' = Cut(Depth - 2)
              /\ active' = s.prev
              /\ outcome' = [how |-> "value", err |-> NoPayload]
              /\ UNCHANGED <<mode, in_flight, escape, lost, death>>
      /\ UNCHANGED <<ops, runtime>>

\* (Mutant) The unwind is not resumed.
DtorEndsUnwind ==
  /\ mode = "run"
  /\ Top.kind = "dtor"
  /\ stack' = Pop
  /\ UNCHANGED <<mode, active, in_flight, escape, outcome, lost, death, ops, runtime>>

\* A destructor run by an unwind returns, and the unwind goes on.
ReturnFromDtor ==
  /\ mode = "run"
  /\ Top.kind = "dtor"
  /\ stack' = Pop
  /\ mode' = Top.resume
  /\ UNCHANGED <<active, in_flight, escape, outcome, lost, death, ops, runtime>>

-----------------------------------------------------------------------------
(* Unwinding: frames are left innermost first, after their destructors.     *)

\* (Mutant) A cleanup is entered again after it has run.
RunDtorAgain ==
  /\ Top.objs > 0
  /\ stack' = Append(stack, CallFrame(Top.low, "dtor", "noexcept", mode))
  /\ mode' = "run"
  /\ UNCHANGED <<active, in_flight, escape, outcome, lost, death, ops, runtime>>

\* The next destructor of the top frame is called.  Destructors are noexcept.
RunDtor ==
  /\ Top.objs > 0
  /\ stack' = Append([stack EXCEPT ![Depth].objs = @ - 1],
                     CallFrame(Top.low, "dtor", "noexcept", mode))
  /\ mode' = "run"
  /\ UNCHANGED <<active, in_flight, escape, outcome, lost, death, ops, runtime>>

\* (Mutant) scope_pop does not run.
LeaveFrameUnpopped(next) ==
  /\ stack' = Pop
  /\ mode' = next
  /\ UNCHANGED <<active, in_flight, lost, death, ops, runtime>>

\* The unwind leaves the top frame for its caller; in escape_scope's frame the
\* scope_pop guard runs.
LeaveFrame(next) ==
  /\ stack' = Pop
  /\ mode' = next
  /\ active' = IF Top.kind = "scope" THEN Top.prev ELSE active
  /\ UNCHANGED <<in_flight, lost, death, ops, runtime>>

\* No unwind runs the cleanups of a frame compiled with exceptions disabled.  On
\* WebAssembly, which has no unwind tables, an opaque frame is such a frame.
Skipped(g) == g = "bare" \/ (g = "opaque" /\ runtime = "wasm")

\* The unwind passes the top frame, and its objects are never destroyed.
SkipFrame ==
  /\ stack' = Pop
  /\ lost' = (lost \/ Top.objs > 0)
  /\ UNCHANGED <<mode, active, in_flight, escape, outcome, death, ops, runtime>>

\* What the runtime makes of the escape in a frame with handler g.
HandlerDoes(g) ==
  IF g \in {"none", "typed"} THEN "transit"
  ELSE IF Skipped(g) \/ runtime = "libcxxrt" THEN "skip"
  ELSE IF g = "coop" /\ runtime # "libcxxabi" THEN "transit"
  ELSE IF g \in {"coop", "noexcept", "opaque"} THEN "terminate"
  ELSE IF runtime = "wasm" THEN g
  ELSE "swallowed"

\* (Mutant) The address compared is that of the frame's lower end.
StopsLate(cfa, marker, end) == cfa - FrameSize > marker \/ end

\* (Mutant) The comparison admits the frame next to the carrier.
StopsEarly(cfa, marker, end) == cfa >= marker \/ end

\* stop_function: the frame's CFA is above the carrier, or the unwinder is at the
\* end of what it can unwind.
StopsHere(cfa, marker, end) == cfa > marker \/ end

\* The frame whose landing the escape has reached, 0 if none.  WebAssembly: the
\* catch clause of the innermost escape_scope.
LandsAt ==
  IF runtime = "wasm"
  THEN IF Top.kind = "scope" THEN Depth ELSE 0
  ELSE IF StopsHere(Top.cfa, escape.marker, Depth = 1 \/ Top.guard = "opaque")
       THEN escape.to ELSE 0

\* Control resumes in the landing frame l, which returns the carried error.
Land ==
  LET l == LandsAt
  IN  /\ mode = "forced"
      /\ l # 0
      /\ IF l > Depth
         THEN Die("wild landing")
         ELSE /\ stack' = Cut(l - 1)
              /\ lost' = (lost \/ \E i \in l..Depth : stack[i].objs > 0)
              /\ in_flight' = FALSE
              /\ active' = stack[l].prev
              /\ outcome' = [how |-> "error", err |-> stack[l].error]
              /\ escape' = NoEscape
              /\ mode' = "run"
              /\ UNCHANGED death
      /\ UNCHANGED <<ops, runtime>>

\* A frame on the escape's path.
ForcedDtor ==
  /\ mode = "forced"
  /\ LandsAt = 0
  /\ HandlerDoes(Top.guard) # "skip"
  /\ RunDtor

ForcedFrame ==
  /\ mode = "forced"
  /\ LandsAt = 0
  /\ Top.objs = 0 \/ HandlerDoes(Top.guard) = "skip"
  /\ CASE HandlerDoes(Top.guard) = "transit" ->
            LeaveFrame("forced") /\ UNCHANGED <<escape, outcome>>
       [] HandlerDoes(Top.guard) = "skip" -> SkipFrame
       [] HandlerDoes(Top.guard) = "swallow" ->
            /\ mode' = "run"
            /\ UNCHANGED <<stack, active, in_flight, escape, outcome, lost,
                           death, ops, runtime>>
       [] HandlerDoes(Top.guard) = "translate" ->
            LeaveFrame("throw") /\ UNCHANGED <<escape, outcome>>
       [] OTHER -> Die(HandlerDoes(Top.guard)) /\ UNCHANGED <<ops, runtime>>

\* drive_unwind, its last lines: _Unwind_ForcedUnwind gives up at a frame it has
\* no tables for, and returns.
UnwindFails ==
  /\ mode = "forced"
  /\ runtime # "wasm"
  /\ Top.guard = "opaque"
  /\ Die("unwind failed")
  /\ UNCHANGED <<ops, runtime>>

\* A frame on the path of an ordinary exception.
ThrowDtor ==
  /\ mode = "throw"
  /\ ~Skipped(Top.guard)
  /\ RunDtor

ThrowFrame ==
  /\ mode = "throw"
  /\ Top.objs = 0 \/ Skipped(Top.guard)
  /\ CASE Depth = 1 \/ (Top.guard \in {"noexcept", "opaque"} /\ ~Skipped(Top.guard)) ->
            Die("terminate") /\ UNCHANGED <<ops, runtime>>
       [] Depth > 1 /\ Skipped(Top.guard) -> SkipFrame
       [] Depth > 1 /\ Top.guard \in {"typed", "swallow"} ->
            /\ mode' = "run"
            /\ UNCHANGED <<stack, active, in_flight, escape, outcome, lost,
                           death, ops, runtime>>
       [] OTHER ->
            /\ LeaveFrame("throw")
            /\ outcome' = IF Top.kind = "scope"
                          THEN [how |-> "exception", err |-> NoPayload]
                          ELSE outcome
            /\ escape' = IF escape.to = Depth THEN NoEscape ELSE escape

Next ==
  \/ \E g \in Guards : Call(g)
  \/ Construct
  \/ Throw
  \/ \E tag \in Tags, off \in 0..(FrameSize - 1) : OpenScope(tag, off)
  \/ \E tag \in Tags, err \in Payloads : Eject(tag, err)
  \/ Return
  \/ ReturnFromBody
  \/ ReturnFromDtor
  \/ Land
  \/ ForcedDtor
  \/ ForcedFrame
  \/ UnwindFails
  \/ ThrowDtor
  \/ ThrowFrame

Spec == Init /\ [][Next]_vars

\* A thread executes its next step as long as it has one.
FairSpec == Spec /\ WF_vars(Next)

-----------------------------------------------------------------------------
(* Properties.                                                              *)

\* The unwind that a destructor on the stack will resume is an escape.
Unwinding == mode = "forced" \/ \E i \in 1..Depth : stack[i].resume = "forced"

\* active() is the innermost escape_scope on the stack whichever way scopes were
\* left - value, landing, exception - and whatever cleanups opened meanwhile, so
\* the next eject targets the nearest enclosing scope (scope_pop).
ActiveIsInnermost ==
  mode # "dead" =>
    /\ active = 0 => ScopeIndexes = {}
    /\ active # 0 => /\ active \in ScopeIndexes
                     /\ \A i \in ScopeIndexes : i <= active

\* escape_in_flight() is TRUE exactly while an escape is unwinding, cleanups
\* included: it is neither left set by a landing nor cleared under a cleanup.  Only
\* on WebAssembly, where a handler may catch the escape, may it outlast the unwind.
InFlightExact ==
  mode # "dead" =>
    /\ Unwinding => in_flight
    /\ in_flight /\ runtime # "wasm" => Unwinding

\* The landing frame the jump out of the walk resumes is always still on the stack:
\* the walk never passes the frame of the carrier it looks for (stop_function).
NoWildLanding == death # "wild landing"

\* No step of an unwind and no landing skips a destructor (stop_function), with the
\* exceptions the documents own up to: libcxxrt leaves a frame with a catch-all or
\* a noexcept without running its destructors (unwind.md:79), a frame compiled with
\* exceptions disabled has its destructors skipped (unwind.md:47, unwind-arm.md:
\* 234), and one without any tables ends the walk, so that the landing cuts off
\* what lies above it.
NothingLost ==
  [][lost' # lost =>
       \/ runtime = "libcxxrt" /\ HandlerDoes(Top.guard) = "skip"
       \/ Top.guard \in {"bare", "opaque"}]_vars

\* "Each of these is a defined termination with its own diagnostic, not undefined
\* behavior: ... A non-cooperative catch (...) on the path swallows the escape, so
\* it never reaches its landing" (docs/reference/unwind.md:61 and 70): while the
\* process lives, the scope an escape is aimed at is still there to receive it
\* or to report it.
SwallowReported ==
  (in_flight /\ mode # "dead") => escape.to \in ScopeIndexes

\* The forbidden outcome of tests/unwind/runtime_matrix.cpp, silent_loss: a scope
\* never returns a value while an escape aimed at it is undelivered, even where a
\* catch-all swallowed that escape.
NoSilentSuccess ==
  [][(escape.to \in ScopeIndexes /\ escape.to \notin ScopeIndexes')
       => outcome'.how # "value"]_vars

\* An escape that has started lands, ends the process or, on WebAssembly only,
\* goes away with the scope that another exception leaves: none stays aimed at a
\* scope for ever, whatever the destructors on its path do (drive_unwind).
EscapeResolves == (mode = "forced") ~> (mode = "dead" \/ escape = NoEscape)

\* The arm implements the contract its callers rely on: the open scopes are the
\* scope frames, the escape under way is the one eject started, and only the
\* handlers of WebAssembly can put another exception in its place.
Contract == INSTANCE EscapeContract WITH
  open <- {[id |-> i, tag |-> stack[i].tag] : i \in ScopeIndexes},
  pending <- [to |-> escape.to, err |-> escape.err],
  dead <- (mode = "dead"),
  replaceable <- (runtime = "wasm")
ImplementsContract == Contract!Spec
=============================================================================
