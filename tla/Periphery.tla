----------------------------- MODULE Periphery ------------------------------
(***************************************************************************)
(* What surrounds the transport, the store and the arm: the bridges of     *)
(* interop/, the metadata of reflect.hpp, the erased error, the stack      *)
(* trace, and the project's tools.  They share no state.  A behaviour      *)
(* exercises one of them, its subject; the others rest in a trivial        *)
(* initial state.  What is a function of its input has no steps: the input *)
(* is query.                                                               *)
(***************************************************************************)
EXTENDS Sweep, Lint, Amalgamate, Boundary, ErrorCodeBridge, Platform

CONSTANTS
  Sources,              \* the translation units lint is run on
  Trees, Roots,         \* header files, and the roots to amalgamate
  Enums, Pairs, Stacks, Bodies,  \* inputs of the functions
  Subjects              \* what an instance exercises

\* A stack has a depth, and capture takes any int as skip.
ASSUME StacksAssumption == Stacks \subseteq [depth : Nat, skip : Int]

\* A translation unit is a sequence of nodes.
ASSUME SourcesAssumption == Sources \subseteq Seq(Seq(Node))

\* The names of an enum differ and its values fit its type; a window may be
\* empty.
WellFormed(e) ==
  /\ e.decls \in Seq([name : STRING, value : Int])
  /\ e.lo \in Int /\ e.hi \in Int /\ Span(e) \in Nat /\ e.modulus \in Nat
  /\ \A i, j \in DOMAIN e.decls : e.decls[i].name = e.decls[j].name => i = j
  /\ \A i \in DOMAIN e.decls :
       /\ e.decls[i].name # NoName
       /\ e.modulus # 0 => e.decls[i].value \in 0..(e.modulus - 1)
ASSUME EnumsAssumption == \A e \in Enums : WellFormed(e)

\* A bare error is two integers.
ASSUME PairsAssumption ==
  Pairs \subseteq [a : [code : Int, tag : Int], b : [code : Int, tag : Int]]

\* A function is a sequence of lines.
ASSUME BodiesAssumption == Bodies \subseteq [a : Seq(Line), b : Seq(Line)]

\* A line of a header includes a header or is text.
ASSUME TreesAssumption ==
  /\ Trees \subseteq [Headers -> Seq(Headers \cup {Text})]
  /\ Roots \subseteq Seq(Headers)

VARIABLES subject, query

vars == <<subject, query, sweep, lint, amalgam, boundary, categories>>

Inputs ==
  [enum |-> Enums, erased |-> Pairs, trace |-> Stacks, labels |-> Bodies]

IdleOrigin == [form |-> "value", good |-> TRUE, data |-> Mapped]

Init ==
  /\ subject \in Subjects
  /\ query \in IF subject \in DOMAIN Inputs THEN Inputs[subject] ELSE {NoName}
  /\ IF subject = "sweep" THEN SweepInit(DOMAIN Cells \ {"idle"})
     ELSE SweepInit({"idle"})
  /\ LintInit(IF subject = "lint" THEN Sources ELSE {<<>>})
  /\ AmalgamateInit(IF subject = "amalgamate" THEN Trees ELSE {[h \in Headers |-> <<>>]},
                    IF subject = "amalgamate" THEN Roots ELSE {<<>>})
  /\ BoundaryInit(IF subject = "boundary" THEN Origins ELSE {IdleOrigin})
  /\ CodesInit

Sweeping ==
  /\ subject = "sweep" /\ SweepNext
  /\ UNCHANGED <<subject, query, lint, amalgam, boundary, categories>>
Linting ==
  /\ subject = "lint" /\ LintNext
  /\ UNCHANGED <<subject, query, sweep, amalgam, boundary, categories>>
Amalgamating ==
  /\ subject = "amalgamate" /\ AmalgamateNext
  /\ UNCHANGED <<subject, query, sweep, lint, boundary, categories>>
Bridging ==
  /\ subject = "boundary" /\ BoundaryNext
  /\ UNCHANGED <<subject, query, sweep, lint, amalgam, categories>>
Converting ==
  /\ subject = "codes" /\ CodesNext
  /\ UNCHANGED <<subject, query, sweep, lint, amalgam, boundary>>

Next == Sweeping \/ Linting \/ Amalgamating \/ Bridging \/ Converting

\* The amalgamation is a sequential program that runs on.
Spec == Init /\ [][Next]_vars /\ WF_vars(Amalgamating)

-----------------------------------------------------------------------------

\* The amalgamation comes to the end of its last root even over headers that
\* include each other (amalgamate.py:30: a header is visited before its lines
\* are read).
AmalgamationEnds == subject = "amalgamate" ~> (roots = <<>> /\ calls = <<>>)

-----------------------------------------------------------------------------
\* The functions.

\* Every enumerator is one the fallback can meet, and meets once.
InRange(e) ==
  /\ Values(e) \subseteq Window(e)
  /\ e.modulus = 0 \/ Span(e) <= e.modulus
Distinct(e) ==
  \A i, j \in DOMAIN e.decls : e.decls[i].value = e.decls[j].value => i = j

\* What the declaration says, for an enum without aliases.
Declared(e) ==
  LET NameOf(v) == (CHOOSE d \in ToSet(e.decls) : d.value = v).name
      ValueOf(n) == (CHOOSE d \in ToSet(e.decls) : d.name = n).value
  IN  [enum_name |-> [v \in Objects(e) |-> IF v \in Values(e) THEN NameOf(v) ELSE NoName],
       enum_cast |-> [n \in Names(e) \cup {NoName} |-> IF n = NoName THEN NoName ELSE ValueOf(n)],
       enum_count |-> Len(e.decls),
       failures |-> [k \in DOMAIN e.decls |->
          CHOOSE d \in ToSet(e.decls) :
            Cardinality({v \in Values(e) : v < d.value}) = k - 1],
       message |-> [v \in Objects(e) |-> IF v \in Values(e) THEN NameOf(v) ELSE Unknown]]

\* Both paths of reflect.hpp derive what the enum declares, wherever its values
\* lie in the window, in whatever order they are declared, and whatever its
\* underlying type; as long as no two enumerators have the same value.
MetadataExact ==
  subject = "enum" /\ InRange(query) /\ Distinct(query) =>
    \A reflection \in BOOLEAN : Derived(query, reflection) = Declared(query)

\* The two paths derive the same from every enum whose values the fallback
\* scans (reflect.hpp:20, 356-359: "Identical on both paths within the
\* fallback's scanned range").
PathsAgree ==
  subject = "enum" /\ InRange(query) => Derived(query, TRUE) = Derived(query, FALSE)

\* Two bare errors are equal once erased exactly when code and tag are, while
\* both fit half a word; one of them may be negative or too wide and is still
\* never taken for an error of another domain (erased.hpp:44-57, 140-144).
ErasedFaithful ==
  subject = "erased" =>
    LET Fits(n) == n \in 0..(Doubled(1)[HalfBits] - 1)
        a == ErasedGeneric(query.a.code, query.a.tag)
        b == ErasedGeneric(query.b.code, query.b.tag)
    IN  /\ (\A x \in {query.a, query.b} : Fits(x.code) /\ Fits(x.tag)) =>
             (ErasedEqual(a, b) <=> query.a = query.b)
        /\ Fits(query.a.tag) /\ Fits(query.b.tag) /\ query.a.code = query.b.code =>
             (ErasedEqual(a, b) <=> query.a.tag = query.b.tag)
        /\ ~ErasedEqual(a, ErasedIn(a.value, Unknown))

\* A trace holds the innermost frames after the skipped ones, as many as it has
\* room for; beyond the slack it loses frames at the outer end only
\* (trace.hpp:41-69).
CaptureExact ==
  subject = "trace" =>
    LET skip == Max({query.skip, 0})
        stack == [i \in 1..query.depth |-> i]
        want == SubSeq(stack, skip + 1, Min({query.depth, skip + MaxFrames}))
        have == capture(stack, query.skip)
    IN  /\ IsPrefix(have, want)
        /\ skip <= Slack => have = want

\* Two functions are canonically equal exactly when some renaming of local
\* labels makes one the other (main.cpp:522-528).
LabelsCanonical ==
  subject = "labels" =>
    LET a == query.a
        b == query.b
        Labels(x) == {x[i].arg : i \in DOMAIN x} \ {0}
        Renamed(f) == \A i \in DOMAIN a :
          /\ a[i].op = b[i].op
          /\ b[i].arg = IF a[i].arg = 0 THEN 0 ELSE f[a[i].arg]
    IN  canon_labels(a) = canon_labels(b) <=>
          Len(a) = Len(b) /\ \E f \in Bijection(Labels(a), Labels(b)) : Renamed(f)
=============================================================================
