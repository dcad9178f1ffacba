------------------------------ MODULE Boundary ------------------------------
(***************************************************************************)
(* An outcome carried through the bridges of interop/: std::expected,      *)
(* exceptions and optional-like values, in any order.                      *)
(*                                                                         *)
(* form says what holds the outcome now: a jmpxx result, a std::expected,  *)
(* a plain value, an exception in flight, or an optional or a flag with a  *)
(* value beside it.  Moving the carried type may throw.                    *)
(***************************************************************************)
EXTENDS Integers

CONSTANTS
  Data,    \* what a value or an error carries
  Mapped,  \* the error the caller's make_error, on_empty or on_absent makes
  MaxLegs  \* bound: bridges crossed

VARIABLES
  form,     \* what holds the outcome
  good,     \* TRUE for a value, FALSE for an error
  data,     \* the payload
  origin,   \* what set out: [form, good, data]
  foreign,  \* an exception that is not error_exception<E> was thrown on the way
  legs      \* bridges crossed

boundary == <<form, good, data, origin, foreign, legs>>

Cross(to, g, d) ==
  /\ legs < MaxLegs
  /\ legs' = legs + 1
  /\ form' = to /\ good' = g /\ data' = d
  /\ UNCHANGED origin

\* What a program can set out with.
Origins ==
  [form : {"result", "expected", "optional", "condition"}, good : BOOLEAN, data : Data]
    \cup [form : {"value"}, good : {TRUE}, data : Data]
    \cup [form : {"thrown", "alien"}, good : {FALSE}, data : Data]

BoundaryInit(origins) ==
  /\ origin \in origins
  /\ form = origin.form /\ good = origin.good /\ data = origin.data
  /\ foreign = (origin.form = "alien")
  /\ legs = 0

\* to_expected: the value or the error of the result, moved or copied.
to_expected == form = "result" /\ Cross("expected", good, data) /\ UNCHANGED foreign

\* from_expected.
from_expected == form = "expected" /\ Cross("result", good, data) /\ UNCHANGED foreign

\* value_or_throw: the value, or error_exception<E> around the error.
value_or_throw ==
  /\ form = "result"
  /\ Cross(IF good THEN "value" ELSE "thrown", good, data)
  /\ UNCHANGED foreign

\* An exception of another type leaves the callable: form "alien".
\* (Mutant) catch (...) stands first and takes the library's own exception too.
CatchAllFirst ==
  /\ \/ form = "value" /\ Cross("result", TRUE, data)
     \/ form \in {"thrown", "alien"} /\ Cross("result", FALSE, Mapped)
  /\ UNCHANGED foreign

\* catch_into_result: the callable returns or throws; ours comes back with its
\* error, anything else becomes make_error's.
catch_into_result ==
  /\ \/ form = "value" /\ Cross("result", TRUE, data)
     \/ form = "thrown" /\ Cross("result", FALSE, data)
     \/ form = "alien" /\ Cross("result", FALSE, Mapped)
  /\ UNCHANGED foreign

\* The value's own constructor throws inside the try block: a foreign
\* exception like another, mapped by the second handler.
CatchBuilding ==
  /\ form = "value"
  /\ Cross("result", FALSE, Mapped)
  /\ foreign' = TRUE

\* catch_into_result is noexcept: make_error or the copy of the error throws
\* in a handler, and the program ends.
CatchTerminates ==
  /\ form \in {"thrown", "alien"}
  /\ Cross("terminated", good, data)
  /\ UNCHANGED foreign

\* A bridge that is not noexcept lets the exception of a throwing move out to
\* whoever called it.
MoveThrows ==
  /\ form \in {"result", "expected", "optional", "condition"}
  /\ Cross("alien", FALSE, data)
  /\ foreign' = TRUE

\* from_optional and from_condition.
from_optional ==
  /\ form \in {"optional", "condition"}
  /\ Cross("result", good, IF good THEN data ELSE Mapped)
  /\ UNCHANGED foreign

BoundaryNext ==
  \/ to_expected
  \/ from_expected
  \/ value_or_throw
  \/ catch_into_result
  \/ CatchBuilding
  \/ CatchTerminates
  \/ MoveThrows
  \/ from_optional

-----------------------------------------------------------------------------

\* Whatever bridges an outcome crosses, in whatever order, it arrives as it
\* set out; only an exception that is not the library's own, or an empty
\* optional, turns it into the error the caller chose (exception.hpp:72-76, expected.hpp:47, adapt.hpp:29).
BoundaryFaithful ==
  form \in {"result", "expected", "value", "thrown"} =>
    IF foreign \/ (origin.form \in {"optional", "condition"} /\ ~origin.good)
    THEN ~good /\ data = Mapped
    ELSE good = origin.good /\ data = origin.data
=============================================================================
