-------------------------- MODULE PeripheryProofs ---------------------------
(***************************************************************************)
(* Proofs about what surrounds the library's core: the bridges of interop/ *)
(* and the tools.                                                          *)
(***************************************************************************)
EXTENDS Periphery, FiniteSetTheorems, SequenceTheorems, WellFoundedInduction, TLAPS

-----------------------------------------------------------------------------
\* The bridges.

\* What sets out, whether or not the boundary is the subject.
OriginOK ==
  /\ origin.good \in BOOLEAN
  /\ origin.form = "value" => origin.good
  /\ origin.form = "thrown" => ~origin.good
  /\ origin.form = "alien" => ~origin.good

\* What the outcome is, by what holds it.  An optional or a flag has crossed
\* nothing yet; an alien exception is foreign by definition; a plain value is
\* good and an exception of the library's own is an error.
FormOK ==
  /\ good \in BOOLEAN
  /\ foreign \in BOOLEAN
  /\ form \in {"result", "expected", "optional", "condition", "value", "thrown",
               "alien", "terminated"}
  /\ form \in {"optional", "condition"} =>
       form = origin.form /\ (good <=> origin.good) /\ data = origin.data /\ ~foreign
  /\ form = "alien" => foreign
  /\ form = "value" => good
  /\ form = "thrown" => ~good

BoundaryInv == OriginOK /\ FormOK /\ BoundaryFaithful

LEMMA InitBoundary == Init => BoundaryInv
<1> SUFFICES ASSUME Init PROVE BoundaryInv
  OBVIOUS
<1>1. PICK origins \in {Origins, {IdleOrigin}} : BoundaryInit(origins)
  BY DEF Init
<1>2. /\ form = origin.form /\ (good <=> origin.good) /\ data = origin.data
      /\ foreign <=> origin.form = "alien"
      /\ good = origin.good /\ foreign \in BOOLEAN
  BY <1>1 DEF BoundaryInit
<1>3. origin \in Origins \/ origin = IdleOrigin
  BY <1>1 DEF BoundaryInit
<1>4. /\ origin.good \in BOOLEAN
      /\ origin.form \in {"result", "expected", "optional", "condition", "value", "thrown", "alien"}
      /\ origin.form = "value" => origin.good
      /\ origin.form \in {"thrown", "alien"} => ~origin.good
  <2>1. CASE origin \in [form : {"result", "expected", "optional", "condition"},
                        good : BOOLEAN, data : Data]
    BY <2>1
  <2>2. CASE origin \in [form : {"value"}, good : {TRUE}, data : Data]
    <3>1. origin.form = "value" /\ origin.good = TRUE
      BY <2>2
    <3> QED
      BY <3>1
  <2>3. CASE origin \in [form : {"thrown", "alien"}, good : {FALSE}, data : Data]
    <3>1. origin.form \in {"thrown", "alien"} /\ origin.good = FALSE
      BY <2>3
    <3> QED
      BY <3>1
  <2>4. CASE origin = IdleOrigin
    <3>1. origin.form = "value" /\ origin.good = TRUE
      BY <2>4 DEF IdleOrigin
    <3> QED
      BY <3>1
  <2> QED
    BY <1>3, <2>1, <2>2, <2>3, <2>4 DEF Origins
<1>5. OriginOK
  BY <1>4 DEF OriginOK
<1>6. FormOK
  BY <1>2, <1>4 DEF FormOK
<1>7. BoundaryFaithful
  BY <1>2, <1>4 DEF BoundaryFaithful
<1> QED
  BY <1>5, <1>6, <1>7 DEF BoundaryInv

\* A bridge keeps what is known of an outcome.
LEMMA BridgeStep ==
  ASSUME BoundaryInv, BoundaryNext
  PROVE  BoundaryInv'
<1> USE DEF BoundaryInv, OriginOK, FormOK, BoundaryFaithful, Cross
<1>1. CASE to_expected
  BY <1>1 DEF to_expected
<1>2. CASE from_expected
  BY <1>2 DEF from_expected
<1>3. CASE value_or_throw
  <2>1. CASE good
    BY <1>3, <2>1 DEF value_or_throw
  <2>2. CASE ~good
    BY <1>3, <2>2 DEF value_or_throw
  <2> QED
    BY <2>1, <2>2
<1>4. CASE catch_into_result
  BY <1>4 DEF catch_into_result
<1>5. CASE CatchBuilding
  BY <1>5 DEF CatchBuilding
<1>6. CASE CatchTerminates
  BY <1>6 DEF CatchTerminates
<1>7. CASE MoveThrows
  BY <1>7 DEF MoveThrows
<1>8. CASE from_optional
  <2>1. CASE good
    BY <1>8, <2>1 DEF from_optional
  <2>2. CASE ~good
    BY <1>8, <2>2 DEF from_optional
  <2> QED
    BY <2>1, <2>2
<1> QED
  BY <1>1, <1>2, <1>3, <1>4, <1>5, <1>6, <1>7, <1>8 DEF BoundaryNext

\* Whatever bridges an outcome crosses, in whatever order and however often, it
\* arrives as it set out, or as the error the caller chose for an empty optional
\* or an exception of another type (exception.hpp:72-76, expected.hpp:47,
\* adapt.hpp:29): for any payloads, and however many bridges are crossed.
THEOREM OutcomesAreFaithful == Spec => []BoundaryFaithful
<1>1. Init => BoundaryInv
  BY InitBoundary
<1>2. BoundaryInv /\ [Next]_vars => BoundaryInv'
  <2> SUFFICES ASSUME BoundaryInv, [Next]_vars PROVE BoundaryInv'
    OBVIOUS
  <2>1. CASE Bridging
    BY <2>1, BridgeStep DEF Bridging
  <2>2. CASE UNCHANGED boundary
    BY <2>2 DEF boundary, BoundaryInv, OriginOK, FormOK, BoundaryFaithful
  <2>3. Bridging \/ UNCHANGED boundary
    BY DEF Next, vars, Sweeping, Linting, Amalgamating, Converting
  <2> QED
    BY <2>1, <2>2, <2>3
<1>3. BoundaryInv => BoundaryFaithful
  BY DEF BoundaryInv
<1> QED
  BY <1>1, <1>2, <1>3, PTL DEF Spec

-----------------------------------------------------------------------------
\* The stack trace.

LEMMA MinOfTwo ==
  ASSUME NEW a \in Int, NEW b \in Int
  PROVE  Min({a, b}) = IF a <= b THEN a ELSE b
<1> DEFINE m == IF a <= b THEN a ELSE b
<1>1. m \in {a, b} /\ \A y \in {a, b} : m =< y
  OBVIOUS
<1>2. \A x \in {a, b} : (\A y \in {a, b} : x =< y) => x = m
  OBVIOUS
<1> QED
  BY <1>1, <1>2, Zenon DEF Min

LEMMA MaxOfTwo ==
  ASSUME NEW a \in Int, NEW b \in Int
  PROVE  Max({a, b}) = IF a >= b THEN a ELSE b
<1> DEFINE m == IF a >= b THEN a ELSE b
<1>1. m \in {a, b} /\ \A y \in {a, b} : m >= y
  OBVIOUS
<1>2. \A x \in {a, b} : (\A y \in {a, b} : x >= y) => x = m
  OBVIOUS
<1> QED
  BY <1>1, <1>2, Zenon DEF Max

\* The frames first + 1 .. last of a stack whose frame i is i.
LEMMA FramesOf ==
  ASSUME NEW stack, NEW depth \in Nat, NEW first \in Nat, NEW last \in Int,
         \A i \in 1..depth : stack[i] = i, last <= depth
  PROVE  /\ SubSeq(stack, first + 1, last) \in Seq(Int)
         /\ Len(SubSeq(stack, first + 1, last)) = IF first < last THEN last - first ELSE 0
         /\ \A i \in 1..(last - first) : SubSeq(stack, first + 1, last)[i] = first + i
<1>1. \A i \in (first + 1)..last : stack[i] \in Int /\ stack[i] = i
  OBVIOUS
<1>2. /\ SubSeq(stack, first + 1, last) \in Seq(Int)
      /\ Len(SubSeq(stack, first + 1, last)) =
           IF first + 1 <= last THEN last - (first + 1) + 1 ELSE 0
      /\ \A i \in 1..(last - (first + 1) + 1) :
           SubSeq(stack, first + 1, last)[i] = stack[(first + 1) + i - 1]
  BY <1>1, SubSeqProperties
<1>3. \A i \in 1..(last - first) : (first + 1) + i - 1 \in (first + 1)..last
  OBVIOUS
<1>4. last - (first + 1) + 1 = last - first
  OBVIOUS
<1>5. \A i \in 1..(last - first) : (first + 1) + i - 1 = first + i
  OBVIOUS
<1>6. \A i \in 1..(last - first) : SubSeq(stack, first + 1, last)[i] = first + i
  BY <1>1, <1>2, <1>3, <1>4, <1>5
<1> QED
  BY <1>2, <1>6

\* What capture returns, and that it is what a trace of that room can hold.
LEMMA CaptureHolds ==
  ASSUME NEW depth \in Nat, NEW sk \in Int
  PROVE  LET skip == Max({sk, 0})
             stack == [i \in 1..depth |-> i]
             want == SubSeq(stack, skip + 1, Min({depth, skip + MaxFrames}))
             have == capture(stack, sk)
         IN  IsPrefix(have, want) /\ (skip <= Slack => have = want)
<1> USE RoomAssumption
<1> DEFINE skip == Max({sk, 0})
           stack == [i \in 1..depth |-> i]
           last == Min({depth, skip + MaxFrames})
           want == SubSeq(stack, skip + 1, last)
           room == Min({MaxFrames + skip, MaxFrames + Slack})
           n == Min({room, Len(stack)})
           raw == SubSeq(stack, 1, n)
           end == Min({Len(raw), skip + MaxFrames})
           have == SubSeq(raw, skip + 1, end)
<1>1. skip \in Nat
  BY MaxOfTwo
<1>2. /\ stack \in Seq(Int) /\ Len(stack) = depth
      /\ \A i \in 1..depth : stack[i] = i
  OBVIOUS
<1>3. have = capture(stack, sk)
  BY DEF capture, backtrace
<1> HIDE DEF skip
<1>4. /\ last = IF depth <= skip + MaxFrames THEN depth ELSE skip + MaxFrames
      /\ last \in Nat /\ last <= depth
  BY <1>1, MinOfTwo
<1>5. /\ room = IF skip <= Slack THEN MaxFrames + skip ELSE MaxFrames + Slack
      /\ room \in Nat
  BY <1>1, MinOfTwo
<1>6. n \in Nat /\ n = IF room <= depth THEN room ELSE depth
  <2> HIDE DEF room, stack
  <2> QED
    BY <1>2, <1>5, MinOfTwo
<1> HIDE DEF last, room, n, stack
<1>7. Len(raw) = n /\ \A i \in 1..n : raw[i] = i
  <2>1. /\ Len(SubSeq(stack, 0 + 1, n)) = IF 0 < n THEN n - 0 ELSE 0
        /\ \A i \in 1..(n - 0) : SubSeq(stack, 0 + 1, n)[i] = 0 + i
    <3>1. n <= depth /\ n \in Int /\ 0 \in Nat
      BY <1>6, <1>5
    <3> QED
      BY <1>2, <3>1, FramesOf
  <2> QED
    BY <2>1, <1>6
<1> HIDE DEF raw
<1>8. /\ end = IF n <= skip + MaxFrames THEN n ELSE skip + MaxFrames
      /\ end \in Nat /\ end <= n
  BY <1>1, <1>6, <1>7, MinOfTwo
<1> HIDE DEF end
<1>9. /\ have \in Seq(Int) /\ Len(have) = IF skip < end THEN end - skip ELSE 0
      /\ \A i \in 1..(end - skip) : have[i] = skip + i
  <2>1. end \in Int
    BY <1>8
  <2> QED
    BY <1>1, <1>6, <1>7, <1>8, <2>1, FramesOf
<1>10. /\ want \in Seq(Int) /\ Len(want) = IF skip < last THEN last - skip ELSE 0
       /\ \A i \in 1..(last - skip) : want[i] = skip + i
  <2>1. last \in Int
    BY <1>4
  <2> QED
    BY <1>1, <1>2, <1>4, <2>1, FramesOf
<1>11. end <= last /\ (skip <= Slack => end = last)
  BY <1>1, <1>4, <1>5, <1>6, <1>8
<1> HIDE DEF have, want
<1>12. IsPrefix(have, want)
  <2>1. Len(have) <= Len(want) /\ Len(have) \in Nat /\ Len(want) \in Nat
    BY <1>1, <1>4, <1>8, <1>9, <1>10, <1>11
  <2>2. \A i \in 1..Len(have) : have[i] = want[i]
    <3>1. \A i \in 1..Len(have) : i \in 1..(end - skip) /\ i \in 1..(last - skip)
      BY <1>1, <1>4, <1>8, <1>9, <1>11
    <3> QED
      BY <1>9, <1>10, <3>1
  <2>3. /\ SubSeq(have, 1, Len(have)) \in Seq(Int)
        /\ Len(SubSeq(have, 1, Len(have))) = Len(have)
        /\ \A i \in 1..Len(have) : SubSeq(have, 1, Len(have))[i] = have[i]
    BY <1>9, <2>1, SubSeqFull
  <2>4. /\ SubSeq(want, 1, Len(have)) \in Seq(Int)
        /\ Len(SubSeq(want, 1, Len(have))) = Len(have)
        /\ \A i \in 1..Len(have) : SubSeq(want, 1, Len(have))[i] = want[i]
    <3> DEFINE h == Len(have)
    <3>1. \A i \in 1..h : want[i] \in Int
      BY <1>10, <2>1
    <3>2. h \in Nat
      BY <2>1
    <3> HIDE DEF h
    <3>3. /\ SubSeq(want, 1, h) \in Seq(Int)
          /\ Len(SubSeq(want, 1, h)) = IF 1 <= h THEN h - 1 + 1 ELSE 0
          /\ \A i \in 1..(h - 1 + 1) : SubSeq(want, 1, h)[i] = want[1 + i - 1]
      BY <3>1, <3>2, SubSeqProperties
    <3>4. /\ SubSeq(want, 1, h) \in Seq(Int)
          /\ Len(SubSeq(want, 1, h)) = h
          /\ \A i \in 1..h : SubSeq(want, 1, h)[i] = want[i]
      BY <3>2, <3>3
    <3> QED
      BY <3>4 DEF h
  <2>5. SubSeq(have, 1, Len(have)) = SubSeq(want, 1, Len(have))
    BY <2>2, <2>3, <2>4, SeqEqual
  <2> QED
    BY <2>1, <2>5 DEF IsPrefix
<1>13. ASSUME skip <= Slack PROVE have = want
  <2>1. Len(have) = Len(want) /\ \A i \in 1..Len(have) : have[i] = want[i]
    <3>1. \A i \in 1..Len(have) : i \in 1..(end - skip)
      BY <1>1, <1>4, <1>8, <1>9
    <3> QED
      BY <1>9, <1>10, <1>11, <1>13, <3>1
  <2> QED
    BY <1>9, <1>10, <2>1, SeqEqual
<1> QED
  BY <1>3, <1>12, <1>13 DEF have, want, last, stack, skip

\* A trace holds the innermost frames after the skipped ones, as many as it has
\* room for, and beyond the slack it loses frames at the outer end only
\* (trace.hpp:41-69): for every depth, every skip, and any room and slack.
THEOREM TracesAreExact == Spec => []CaptureExact
<1> DEFINE Asked == subject = "trace" => query \in Stacks
<1>1. Init => Asked
  BY DEF Init, Inputs
<1>2. Asked /\ [Next]_vars => Asked'
  BY DEF Next, vars, Sweeping, Linting, Amalgamating, Bridging, Converting
<1>3. Asked => CaptureExact
  <2> SUFFICES ASSUME subject = "trace", query \in Stacks PROVE CaptureExact
    BY DEF CaptureExact
  <2>1. query.depth \in Nat /\ query.skip \in Int
    BY StacksAssumption
  <2> QED
    BY <2>1, CaptureHolds, Zenon DEF CaptureExact
<1> QED
  BY <1>1, <1>2, <1>3, PTL DEF Spec

-----------------------------------------------------------------------------
\* The files of the sweep.

\* The files a probe goes through, and the commands of it that read one back.
FilesOf(p) ==
  CASE p = "codegen" -> {"cg.s"}
    [] p = "release-diff" -> {"rd.s", "rd_b.s"}
    [] p = "size-delta" -> {"sd_fixture.o", "sd_baseline.o", "size.txt"}
    [] p = "compile-cost" ->
         {"cc_fixture.json", "cc_baseline.json", "cc_baseline.o", "cc_fixture.o"}
    [] p = "abi-layout" -> {"abi_descriptor", "abi_layout.txt"}
    [] p = "unwind-matrix" -> {MatrixFile}
    [] OTHER -> {}
ReadsAt(p) ==
  CASE p = "codegen" -> {2}
    [] p = "release-diff" -> {2, 4}
    [] p = "size-delta" -> {4, 6}
    [] p = "compile-cost" -> {2, 4}
    [] p = "abi-layout" -> {3}
    [] p = "unwind-matrix" -> {k \in Nat : k > 1 /\ k % 2 = 0}
    [] OTHER -> {}

\* How the commands of a probe follow each other: what is read was written, or
\* made anew, by the command just before, and a trace that failed is not read.
Shape(cs, p) ==
  /\ Len(cs) \in Nat
  /\ \A k \in 1..Len(cs) :
       /\ cs[k].file \in FilesOf(p)
       /\ cs[k].op = "read" <=> k \in ReadsAt(p)
       /\ k \in ReadsAt(p) => k > 1 /\ cs[k - 1].file = cs[k].file
       /\ cs[k].op = "trace" => k + 2 \notin ReadsAt(p)

LEMMA FilesApart ==
  ASSUME NEW p, NEW q, NEW f, f \in FilesOf(p), f \in FilesOf(q)
  PROVE  p = q /\ p \in FileProbes
BY DEF FilesOf, FileProbes, MatrixFile

LEMMA ReadsApart ==
  ASSUME NEW p, NEW k \in ReadsAt(p)
  PROVE  k \in Nat /\ k > 1 /\ k + 1 \notin ReadsAt(p)
BY DEF ReadsAt

LEMMA QueriesShape ==
  ASSUME NEW qs, Len(qs) \in Nat
  PROVE  Shape(Queries(qs), "unwind-matrix")
<1> DEFINE cs == Queries(qs)
           n == 2 * Len(qs)
<1>1. n \in Nat
  OBVIOUS
<1>2. cs = [k \in 1..n |-> IF k % 2 = 1 THEN Ask(qs[(k + 1) \div 2], MatrixFile)
                           ELSE Read(MatrixFile)]
  BY DEF Queries
<1> HIDE DEF cs, n
<1>3. Len(cs) = n
  BY <1>1, <1>2
<1>4. FilesOf("unwind-matrix") = {MatrixFile}
  BY DEF FilesOf
<1>5. \A k : k \in ReadsAt("unwind-matrix") <=> k \in Nat /\ k > 1 /\ k % 2 = 0
  BY DEF ReadsAt
<1>6. ASSUME NEW k \in 1..n
      PROVE  /\ cs[k].file = MatrixFile
             /\ k % 2 = 1 => cs[k].op = "ask"
             /\ k % 2 # 1 => cs[k].op = "read"
  BY <1>1, <1>2, <1>6 DEF Ask, Read
<1>7. \A k \in 1..n : k \in Nat /\ (k % 2 = 0 \/ k % 2 = 1) /\ (k % 2 = 0 => k > 1)
  BY <1>1
<1>8. ASSUME NEW k \in 1..n
      PROVE  /\ cs[k].file \in FilesOf("unwind-matrix")
             /\ cs[k].op = "read" <=> k \in ReadsAt("unwind-matrix")
             /\ k \in ReadsAt("unwind-matrix") => k > 1 /\ cs[k - 1].file = cs[k].file
             /\ cs[k].op # "trace"
  <2>1. k > 1 => k - 1 \in 1..n
    BY <1>1
  <2> QED
    BY <1>4, <1>5, <1>6, <1>7, <2>1
<1> QED
  BY <1>1, <1>3, <1>8 DEF Shape, cs

LEMMA TuplesAreSeqs ==
  ASSUME NEW S, NEW a \in S, NEW b \in S
  PROVE  <<a>> \in Seq(S) /\ <<a, b>> \in Seq(S)
OBVIOUS

LEMMA TwoCommands ==
  ASSUME NEW a, NEW b
  PROVE  Len(<<a, b>>) = 2 /\ <<a, b>>[1] = a /\ <<a, b>>[2] = b
OBVIOUS

LEMMA ThreeCommands ==
  ASSUME NEW a, NEW b, NEW c
  PROVE  /\ Len(<<a, b, c>>) = 3
         /\ <<a, b, c>>[1] = a /\ <<a, b, c>>[2] = b /\ <<a, b, c>>[3] = c
OBVIOUS

LEMMA JoinedCommands ==
  ASSUME NEW a, NEW b, NEW c, NEW d
  PROVE  /\ <<a, b>> \o <<>> = <<a, b>>
         /\ Len(<<a, b>> \o <<c, d>>) = 4
         /\ (<<a, b>> \o <<c, d>>)[1] = a /\ (<<a, b>> \o <<c, d>>)[2] = b
         /\ (<<a, b>> \o <<c, d>>)[3] = c /\ (<<a, b>> \o <<c, d>>)[4] = d
OBVIOUS

LEMMA SixCommands ==
  ASSUME NEW a, NEW b, NEW c, NEW d, NEW e, NEW f
  PROVE  /\ Len(<<a, b, c, d, e, f>>) = 6
         /\ <<a, b, c, d, e, f>>[1] = a /\ <<a, b, c, d, e, f>>[2] = b
         /\ <<a, b, c, d, e, f>>[3] = c /\ <<a, b, c, d, e, f>>[4] = d
         /\ <<a, b, c, d, e, f>>[5] = e /\ <<a, b, c, d, e, f>>[6] = f
OBVIOUS

LEMMA CommandFields ==
  ASSUME NEW a, NEW f
  PROVE  /\ Compile(a, f).op = "compile" /\ Compile(a, f).file = f
         /\ Trace(a, f).op = "trace" /\ Trace(a, f).file = f
         /\ Exec(a, f).op = "exec" /\ Exec(a, f).file = f
         /\ Read(f).op = "read" /\ Read(f).file = f
BY DEF Compile, Trace, Exec, Read

\* What is listed to the matrix is a sequence, whatever answer was read.
LEMMA ListedLen ==
  ASSUME World.listed \in Seq(STRING), NEW c
  PROVE  Len(Listed(c)) \in Nat /\ Len(<<"--runtime", "--list">> \o Listed(c)) \in Nat
<1> DEFINE S == STRING \cup {World.runtime, "?", "--runtime", "--list"}
<1>3. /\ World.runtime \in S /\ STRING \subseteq S
      /\ "?" \in S /\ "--runtime" \in S /\ "--list" \in S
  BY Zenon
<1> HIDE DEF S
<1>1. Listed(c) \in Seq(S)
  <2>1. World.listed \in Seq(S)
    BY <1>3, SeqMonotonic
  <2>2. <<World.runtime>> \in Seq(S) /\ <<"?">> \in Seq(S)
    BY <1>3, TuplesAreSeqs
  <2> QED
    BY <2>1, <2>2 DEF Listed
<1>2. <<"--runtime", "--list">> \in Seq(S)
  BY <1>3, TuplesAreSeqs
<1> QED
  BY <1>1, <1>2, LenProperties, ConcatProperties

LEMMA CommandsShape ==
  ASSUME World.listed \in Seq(STRING), NEW t
  PROVE  Shape(Commands(t), Registered[t].probe)
<1> DEFINE r == Registered[t]
           p == r.probe
<1>1. CASE p = "codegen"
  <2>1. Commands(t) = <<Compile(r.fixture, "cg.s"), Read("cg.s")>>
    BY <1>1 DEF Commands
  <2>2. FilesOf(p) = {"cg.s"} /\ ReadsAt(p) = {2}
    BY <1>1 DEF FilesOf, ReadsAt
  <2>5. /\ Len(Commands(t)) = 2
        /\ Commands(t)[1].op = "compile" /\ Commands(t)[1].file = "cg.s"
        /\ Commands(t)[2].op = "read" /\ Commands(t)[2].file = "cg.s"
    BY <2>1, TwoCommands, CommandFields
  <2>6. \A k \in 1..2 : k = 1 \/ k = 2
    OBVIOUS
  <2> QED
    BY <2>2, <2>5, <2>6 DEF Shape
<1>2. CASE p = "release-diff"
  <2>1. FilesOf(p) = {"rd.s", "rd_b.s"} /\ ReadsAt(p) = {2, 4}
    BY <1>2 DEF FilesOf, ReadsAt
  <2>2. CASE r.baseline = NoName
    <3>1. Commands(t) = <<Compile(r.fixture, "rd.s"), Read("rd.s")>> \o <<>>
      BY <1>2, <2>2 DEF Commands
    <3>2. Commands(t) = <<Compile(r.fixture, "rd.s"), Read("rd.s")>>
      BY <3>1, JoinedCommands
    <3>5. /\ Len(Commands(t)) = 2
          /\ Commands(t)[1].op = "compile" /\ Commands(t)[1].file = "rd.s"
          /\ Commands(t)[2].op = "read" /\ Commands(t)[2].file = "rd.s"
      BY <3>2, TwoCommands, CommandFields
    <3>6. \A k \in 1..2 : k = 1 \/ k = 2
      OBVIOUS
    <3> QED
      BY <2>1, <3>5, <3>6 DEF Shape
  <2>3. CASE r.baseline # NoName
    <3>1. Commands(t) = <<Compile(r.fixture, "rd.s"), Read("rd.s")>>
                          \o <<Compile(r.baseline, "rd_b.s"), Read("rd_b.s")>>
      BY <1>2, <2>3 DEF Commands
    <3>5. /\ Len(Commands(t)) = 4
          /\ Commands(t)[1].op = "compile" /\ Commands(t)[1].file = "rd.s"
          /\ Commands(t)[2].op = "read" /\ Commands(t)[2].file = "rd.s"
          /\ Commands(t)[3].op = "compile" /\ Commands(t)[3].file = "rd_b.s"
          /\ Commands(t)[4].op = "read" /\ Commands(t)[4].file = "rd_b.s"
      BY <3>1, JoinedCommands, CommandFields
    <3>6. \A k \in 1..4 : k = 1 \/ k = 2 \/ k = 3 \/ k = 4
      OBVIOUS
    <3> QED
      BY <2>1, <3>5, <3>6 DEF Shape
  <2> QED
    BY <2>2, <2>3
<1>3. CASE p = "size-delta"
  <2>1. Commands(t) =
          <<Compile(r.fixture, "sd_fixture.o"), Compile(r.baseline, "sd_baseline.o"),
            Exec("sd_fixture.o", "size.txt"), Read("size.txt"),
            Exec("sd_baseline.o", "size.txt"), Read("size.txt")>>
    BY <1>3 DEF Commands
  <2>2. /\ FilesOf(p) = {"sd_fixture.o", "sd_baseline.o", "size.txt"}
        /\ ReadsAt(p) = {4, 6}
    BY <1>3 DEF FilesOf, ReadsAt
  <2>5. /\ Len(Commands(t)) = 6
        /\ Commands(t)[1].op = "compile" /\ Commands(t)[1].file = "sd_fixture.o"
        /\ Commands(t)[2].op = "compile" /\ Commands(t)[2].file = "sd_baseline.o"
        /\ Commands(t)[3].op = "exec" /\ Commands(t)[3].file = "size.txt"
        /\ Commands(t)[4].op = "read" /\ Commands(t)[4].file = "size.txt"
        /\ Commands(t)[5].op = "exec" /\ Commands(t)[5].file = "size.txt"
        /\ Commands(t)[6].op = "read" /\ Commands(t)[6].file = "size.txt"
    BY <2>1, SixCommands, CommandFields
  <2>6. \A k \in 1..6 : k = 1 \/ k = 2 \/ k = 3 \/ k = 4 \/ k = 5 \/ k = 6
    OBVIOUS
  <2> QED
    BY <2>2, <2>5, <2>6 DEF Shape
<1>4. CASE p = "compile-cost"
  <2>1. Commands(t) =
          <<Trace(r.fixture, "cc_fixture.json"), Read("cc_fixture.json"),
            Trace(r.baseline, "cc_baseline.json"), Read("cc_baseline.json"),
            Compile(r.baseline, "cc_baseline.o"), Compile(r.fixture, "cc_fixture.o")>>
    BY <1>4 DEF Commands
  <2>2. /\ FilesOf(p) =
             {"cc_fixture.json", "cc_baseline.json", "cc_baseline.o", "cc_fixture.o"}
        /\ ReadsAt(p) = {2, 4}
    BY <1>4 DEF FilesOf, ReadsAt
  <2>5. /\ Len(Commands(t)) = 6
        /\ Commands(t)[1].op = "trace" /\ Commands(t)[1].file = "cc_fixture.json"
        /\ Commands(t)[2].op = "read" /\ Commands(t)[2].file = "cc_fixture.json"
        /\ Commands(t)[3].op = "trace" /\ Commands(t)[3].file = "cc_baseline.json"
        /\ Commands(t)[4].op = "read" /\ Commands(t)[4].file = "cc_baseline.json"
        /\ Commands(t)[5].op = "compile" /\ Commands(t)[5].file = "cc_baseline.o"
        /\ Commands(t)[6].op = "compile" /\ Commands(t)[6].file = "cc_fixture.o"
    BY <2>1, SixCommands, CommandFields
  <2>6. \A k \in 1..6 : k = 1 \/ k = 2 \/ k = 3 \/ k = 4 \/ k = 5 \/ k = 6
    OBVIOUS
  <2> QED
    BY <2>2, <2>5, <2>6 DEF Shape
<1>5. CASE p = "abi-layout"
  <2>1. Commands(t) =
          <<Compile(r.fixture, "abi_descriptor"),
            Exec("abi_descriptor", "abi_layout.txt"), Read("abi_layout.txt")>>
    BY <1>5 DEF Commands
  <2>2. FilesOf(p) = {"abi_descriptor", "abi_layout.txt"} /\ ReadsAt(p) = {3}
    BY <1>5 DEF FilesOf, ReadsAt
  <2>5. /\ Len(Commands(t)) = 3
        /\ Commands(t)[1].op = "compile" /\ Commands(t)[1].file = "abi_descriptor"
        /\ Commands(t)[2].op = "exec" /\ Commands(t)[2].file = "abi_layout.txt"
        /\ Commands(t)[3].op = "read" /\ Commands(t)[3].file = "abi_layout.txt"
    BY <2>1, ThreeCommands, CommandFields
  <2>6. \A k \in 1..3 : k = 1 \/ k = 2 \/ k = 3
    OBVIOUS
  <2> QED
    BY <2>2, <2>5, <2>6 DEF Shape
<1>6. CASE p = "unwind-matrix"
  <2> DEFINE names == IF 4 \in DOMAIN got[t] THEN Listed(got[t][4]) ELSE <<>>
             qs == <<"--runtime", "--list">> \o names
  <2>1. Commands(t) = Queries(qs)
    BY <1>6 DEF Commands
  <2>2. Len(qs) \in Nat
    <3>1. CASE 4 \in DOMAIN got[t]
      BY <3>1, ListedLen
    <3>2. CASE 4 \notin DOMAIN got[t]
      BY <3>2
    <3> QED
      BY <3>1, <3>2
  <2> HIDE DEF qs
  <2>3. Shape(Queries(qs), "unwind-matrix")
    BY <2>2, QueriesShape
  <2> QED
    BY <1>6, <2>1, <2>3
<1>7. CASE p \notin FileProbes
  <2>1. Commands(t) = <<>>
    BY <1>7 DEF Commands, FileProbes
  <2> QED
    BY <2>1 DEF Shape
<1> QED
  BY <1>1, <1>2, <1>3, <1>4, <1>5, <1>6, <1>7 DEF FileProbes

\* What a sweep meets.
CellOK ==
  /\ World.listed \in Seq(STRING)
  /\ IsFiniteSet(Suite)
  /\ jobs \in Nat \ {0}
  /\ pc \in [Suite -> Int]
  /\ DOMAIN got = Suite

\* No two running tests go through the same files.
Apart ==
  \A t, u \in Suite :
    t # u /\ Running(t) /\ Running(u) /\ Registered[t].probe = Registered[u].probe
      => Registered[t].probe \notin FileProbes

\* A test that is about to read a file has just written it.
Fresh ==
  \A t \in Suite :
    Running(t) /\ pc[t] <= Len(Commands(t)) /\ pc[t] \in ReadsAt(Registered[t].probe) =>
      /\ Commands(t)[pc[t]].file \in DOMAIN disk
      /\ disk[Commands(t)[pc[t]].file].by = t

SweepInv ==
  CellOK /\ (Disciplined(Registered, jobs) => Apart /\ Fresh /\ ReadsOwn)

LEMMA InitSweep == Init => SweepInv
<1> SUFFICES ASSUME Init PROVE SweepInv
  OBVIOUS
<1>1. PICK c \in DOMAIN Cells :
        /\ cell = Cells[c] /\ jobs \in cell.jobs
        /\ pc = [t \in Suite |-> 0] /\ got = [t \in Suite |-> <<>>]
  BY CellsAssumption DEF Init, SweepInit
<1>2. CellOK
  BY <1>1, CellsAssumption DEF CellOK, World, Suite, Registered
<1>3. \A t \in Suite : pc[t] = 0 /\ got[t] = <<>>
  BY <1>1
<1>4. \A t \in Suite : ~Running(t) /\ DOMAIN got[t] = {}
  BY <1>3 DEF Running
<1> QED
  BY <1>2, <1>4 DEF SweepInv, Apart, Fresh, ReadsOwn

\* The lock, RUN_SERIAL and -j keep a test out while another uses its files.
LEMMA StartsApart ==
  ASSUME CellOK, Apart, Disciplined(Registered, jobs), NEW t \in Suite, MayStart(t),
         NEW u \in Suite, u # t, Running(u), Registered[t].probe = Registered[u].probe
  PROVE  Registered[t].probe \notin FileProbes
<1> SUFFICES ASSUME Registered[t].probe \in FileProbes PROVE FALSE
  OBVIOUS
<1> DEFINE running == {v \in Suite : Running(v)}
<1>1. u \in running /\ IsFiniteSet(running)
  BY FS_Subset DEF CellOK
<1>2. CASE jobs = 1
  <2>1. Cardinality(running) < 1
    BY <1>2 DEF MayStart
  <2>2. Cardinality(running) \in Nat /\ (Cardinality(running) = 0 <=> running = {})
    BY <1>1, FS_CardinalityType, FS_EmptySet
  <2> QED
    BY <1>1, <2>1, <2>2
<1>3. CASE jobs # 1
  <2>1. \/ Registered[t].serial \/ Registered[u].serial
        \/ Registered[t].lock # NoName /\ Registered[t].lock = Registered[u].lock
    BY <1>3 DEF Disciplined, Suite
  <2>2. /\ ~Registered[t].serial /\ ~Registered[u].serial
        /\ Registered[t].lock # NoName => Registered[u].lock # Registered[t].lock
    BY <1>1 DEF MayStart
  <2> QED
    BY <2>1, <2>2
<1> QED
  BY <1>2, <1>3

\* Where the commands and the cell are the same as before, by test.
LEMMA SameCommands ==
  ASSUME UNCHANGED cell, NEW t, got'[t] = got[t]
  PROVE  Commands(t)' = Commands(t)
BY DEF Commands, Registered, Listed, World

LEMMA StartKeeps ==
  ASSUME SweepInv, NEW t \in Suite, Start(t)
  PROVE  SweepInv'
<1>1. /\ UNCHANGED <<cell, jobs, got, disk>> /\ pc[t] = 0 /\ MayStart(t)
      /\ pc' = [pc EXCEPT ![t] = 1]
  BY DEF Start
<1>2. CellOK /\ Suite' = Suite /\ Registered' = Registered
  BY <1>1 DEF SweepInv, Suite, Registered
<1>3. CellOK'
  BY <1>1, <1>2 DEF CellOK, World
<1>4. SUFFICES ASSUME Disciplined(Registered, jobs)'
               PROVE  Apart' /\ Fresh' /\ ReadsOwn'
  BY <1>3 DEF SweepInv
<1>5. Disciplined(Registered, jobs) /\ Apart /\ Fresh /\ ReadsOwn
  BY <1>1, <1>2, <1>4 DEF SweepInv, Disciplined
<1>6. \A u \in Suite : pc'[u] = IF u = t THEN 1 ELSE pc[u]
  BY <1>1, <1>2 DEF CellOK
<1>7. Apart'
  <2> SUFFICES ASSUME NEW v \in Suite, NEW w \in Suite, v # w, Running(v)', Running(w)',
                      Registered[v].probe = Registered[w].probe
               PROVE  Registered[v].probe \notin FileProbes
    BY <1>2 DEF Apart
  <2>1. CASE v # t /\ w # t
    BY <1>5, <1>6, <2>1 DEF Apart, Running
  <2>2. CASE v = t
    BY <1>1, <1>2, <1>5, <1>6, <2>2, StartsApart DEF Running
  <2>3. CASE w = t
    BY <1>1, <1>2, <1>5, <1>6, <2>3, StartsApart DEF Running
  <2> QED
    BY <2>1, <2>2, <2>3
<1>8. Fresh'
  <2>1. \A u \in Suite : Commands(u)' = Commands(u)
    BY <1>1, SameCommands
  <2>2. 1 \notin ReadsAt(Registered[t].probe)
    BY ReadsApart
  <2> QED
    BY <1>1, <1>2, <1>5, <1>6, <2>1, <2>2 DEF Fresh, Running
<1>9. ReadsOwn'
  BY <1>1, <1>2, <1>5 DEF ReadsOwn
<1> QED
  BY <1>7, <1>8, <1>9

\* A command that reads: the file is the test's own.
LEMMA ReadKeeps ==
  ASSUME CellOK, Disciplined(Registered, jobs), Apart, Fresh, ReadsOwn,
         UNCHANGED <<cell, jobs, disk>>, NEW t \in Suite, Running(t),
         pc[t] <= Len(Commands(t)), Commands(t)[pc[t]].op = "read",
         got' = [got EXCEPT ![t] = Put(@, pc[t], disk[Commands(t)[pc[t]].file])],
         pc' = [pc EXCEPT ![t] = @ + 1]
  PROVE  Fresh' /\ ReadsOwn'
<1> DEFINE k == pc[t]
           c == Commands(t)[k]
           p == Registered[t].probe
<1>1. /\ Suite' = Suite /\ Registered' = Registered
      /\ \A u \in Suite : pc'[u] = IF u = t THEN k + 1 ELSE pc[u]
      /\ \A u \in Suite : u # t => got'[u] = got[u]
  BY DEF CellOK, Suite, Registered
<1>2. Shape(Commands(t), p) /\ k \in 1..Len(Commands(t))
  <2>1. Shape(Commands(t), p)
    BY CommandsShape DEF CellOK
  <2> QED
    BY <2>1 DEF CellOK, Running, Shape
<1>3. k \in ReadsAt(p)
  BY <1>2 DEF Shape
<1>4. disk[c.file].by = t
  BY <1>3 DEF Fresh
<1>5. /\ DOMAIN got'[t] = {k} \cup DOMAIN got[t]
      /\ \A j \in DOMAIN got'[t] : got'[t][j] = IF j = k THEN disk[c.file] ELSE got[t][j]
  <2>1. got'[t] = Put(got[t], k, disk[c.file])
    BY DEF CellOK
  <2> HIDE DEF c, k
  <2> QED
    BY <2>1 DEF Put
<1>6. ReadsOwn'
  BY <1>1, <1>4, <1>5 DEF ReadsOwn
<1>7. Fresh'
  <2> SUFFICES ASSUME NEW u \in Suite, Running(u)', pc'[u] <= Len(Commands(u))',
                      pc'[u] \in ReadsAt(Registered[u].probe)
               PROVE  /\ Commands(u)'[pc'[u]].file \in DOMAIN disk
                      /\ disk[Commands(u)'[pc'[u]].file].by = u
    BY <1>1 DEF Fresh
  <2>1. u # t
    BY <1>1, <1>3, ReadsApart
  <2>2. Commands(u)' = Commands(u) /\ pc'[u] = pc[u]
    BY <1>1, <2>1, SameCommands
  <2> QED
    BY <2>2 DEF Fresh, Running
<1> QED
  BY <1>6, <1>7

\* A command that writes: nobody who runs is about to read that file but the
\* test itself.
LEMMA WriteKeeps ==
  ASSUME CellOK, Disciplined(Registered, jobs), Apart, Fresh, ReadsOwn,
         UNCHANGED <<cell, jobs, got>>, NEW t \in Suite, Running(t),
         pc[t] <= Len(Commands(t)), Commands(t)[pc[t]].op # "read",
         NEW w, w.by = t,
         disk' = Put(disk, Commands(t)[pc[t]].file, w),
         pc' = [pc EXCEPT ![t] = @ + 1]
  PROVE  Fresh' /\ ReadsOwn'
<1> DEFINE k == pc[t]
           c == Commands(t)[k]
           p == Registered[t].probe
<1>1. /\ Suite' = Suite /\ Registered' = Registered
      /\ \A u \in Suite : pc'[u] = IF u = t THEN k + 1 ELSE pc[u]
      /\ \A u \in Suite : Commands(u)' = Commands(u)
  <2>1. \A u \in Suite : Commands(u)' = Commands(u)
    BY SameCommands
  <2> QED
    BY <2>1 DEF CellOK, Suite, Registered
<1>2. Shape(Commands(t), p) /\ k \in 1..Len(Commands(t))
  <2>1. Shape(Commands(t), p)
    BY CommandsShape DEF CellOK
  <2> QED
    BY <2>1 DEF CellOK, Running, Shape
<1>3. c.file \in FilesOf(p)
  BY <1>2 DEF Shape
<1>4. /\ DOMAIN disk' = {c.file} \cup DOMAIN disk
      /\ \A f \in DOMAIN disk' : disk'[f] = IF f = c.file THEN w ELSE disk[f]
  <2> HIDE DEF c
  <2>1. disk' = Put(disk, c.file, w)
    BY DEF c
  <2> QED
    BY <2>1 DEF Put
<1>5. ReadsOwn'
  BY <1>1 DEF ReadsOwn
<1>6. Fresh'
  <2> SUFFICES ASSUME NEW u \in Suite, Running(u)', pc'[u] <= Len(Commands(u)),
                      pc'[u] \in ReadsAt(Registered[u].probe)
               PROVE  /\ Commands(u)[pc'[u]].file \in DOMAIN disk'
                      /\ disk'[Commands(u)[pc'[u]].file].by = u
    BY <1>1 DEF Fresh
  <2>1. CASE u = t
    <3>1. k + 1 \in 1..Len(Commands(t)) /\ k + 1 \in ReadsAt(p)
      BY <1>1, <1>2, <2>1 DEF Shape
    <3>2. Commands(t)[(k + 1) - 1].file = Commands(t)[k + 1].file
      BY <1>2, <3>1 DEF Shape
    <3>3. (k + 1) - 1 = k
      BY <1>2
    <3>4. Commands(t)[k + 1].file = c.file
      BY <3>2, <3>3
    <3> QED
      BY <1>1, <1>4, <2>1, <3>4
  <2>2. CASE u # t
    <3> DEFINE f == Commands(u)[pc[u]].file
    <3>1. pc'[u] = pc[u] /\ Running(u)
      BY <1>1, <2>2 DEF Running
    <3>2. f \in DOMAIN disk /\ disk[f].by = u
      BY <3>1 DEF Fresh
    <3>3. f \in FilesOf(Registered[u].probe)
      <4>1. Shape(Commands(u), Registered[u].probe)
        BY CommandsShape DEF CellOK
      <4>2. pc[u] \in 1..Len(Commands(u))
        BY <3>1, <4>1 DEF CellOK, Running, Shape
      <4> QED
        BY <4>1, <4>2 DEF Shape
    <3>4. f # c.file
      <4> SUFFICES ASSUME f = c.file PROVE FALSE
        OBVIOUS
      <4>1. p = Registered[u].probe /\ p \in FileProbes
        BY <1>3, <3>3, FilesApart
      <4> QED
        BY <2>2, <3>1, <4>1 DEF Apart
    <3> QED
      BY <1>4, <3>1, <3>2, <3>4
  <2> QED
    BY <2>1, <2>2
<1> QED
  BY <1>5, <1>6

\* A command that fails: the test goes past the reading of what is not there.
LEMMA FailureKeeps ==
  ASSUME CellOK, Disciplined(Registered, jobs), Apart, Fresh, ReadsOwn,
         UNCHANGED <<cell, jobs, got, disk>>, NEW t \in Suite, Running(t),
         pc[t] <= Len(Commands(t)),
         pc' = [pc EXCEPT ![t] = IF Commands(t)[pc[t]].op = "trace" THEN @ + 2
                                 ELSE Len(Commands(t)) + 2]
  PROVE  Fresh' /\ ReadsOwn'
<1> DEFINE k == pc[t]
           p == Registered[t].probe
<1>1. /\ Suite' = Suite /\ Registered' = Registered
      /\ \A u \in Suite : u # t => pc'[u] = pc[u]
      /\ pc'[t] = IF Commands(t)[k].op = "trace" THEN k + 2 ELSE Len(Commands(t)) + 2
      /\ \A u \in Suite : Commands(u)' = Commands(u)
  <2>1. \A u \in Suite : Commands(u)' = Commands(u)
    BY SameCommands
  <2> QED
    BY <2>1 DEF CellOK, Suite, Registered
<1>2. Shape(Commands(t), p) /\ k \in 1..Len(Commands(t))
  <2>1. Shape(Commands(t), p)
    BY CommandsShape DEF CellOK
  <2> QED
    BY <2>1 DEF CellOK, Running, Shape
<1>3. pc'[t] > Len(Commands(t)) \/ pc'[t] \notin ReadsAt(p)
  BY <1>1, <1>2 DEF Shape
<1>4. Len(Commands(t)) \in Nat /\ pc'[t] \in Int
  BY <1>1, <1>2 DEF Shape
<1>5. Fresh'
  <2> SUFFICES ASSUME NEW u \in Suite, Running(u)', pc'[u] <= Len(Commands(u)),
                      pc'[u] \in ReadsAt(Registered[u].probe)
               PROVE  /\ Commands(u)[pc'[u]].file \in DOMAIN disk
                      /\ disk[Commands(u)[pc'[u]].file].by = u
    <3>1. \A u \in Suite : Registered'[u] = Registered[u] /\ Commands(u)' = Commands(u)
      BY <1>1
    <3>2. disk' = disk
      OBVIOUS
    <3> QED
      BY <1>1, <3>1, <3>2 DEF Fresh
  <2>1. u # t
    BY <1>3, <1>4
  <2> QED
    BY <1>1, <2>1 DEF Fresh, Running
<1>6. ReadsOwn'
  BY <1>1 DEF ReadsOwn
<1> QED
  BY <1>5, <1>6

LEMMA StepKeeps ==
  ASSUME SweepInv, NEW t \in Suite, Step(t)
  PROVE  SweepInv'
<1> DEFINE k == pc[t]
           c == Commands(t)[k]
<1>1. /\ UNCHANGED <<cell, jobs>> /\ Running(t) /\ k <= Len(Commands(t))
      /\ \/ /\ c.op = "read" /\ UNCHANGED disk
            /\ got' = [got EXCEPT ![t] = Put(@, k, disk[c.file])]
            /\ pc' = [pc EXCEPT ![t] = @ + 1]
         \/ /\ c.op # "read" /\ UNCHANGED got
            /\ disk' = Put(disk, c.file, Written(t, c))
            /\ pc' = [pc EXCEPT ![t] = @ + 1]
         \/ /\ c.op # "read" /\ UNCHANGED <<got, disk>>
            /\ pc' = [pc EXCEPT ![t] = IF c.op = "trace" THEN @ + 2
                                       ELSE Len(Commands(t)) + 2]
  BY DEF Step
<1>2. CellOK /\ Suite' = Suite /\ Registered' = Registered
  BY <1>1 DEF SweepInv, Suite, Registered
<1>3. Len(Commands(t)) \in Nat
  BY <1>2, CommandsShape DEF Shape, CellOK
<1> HIDE DEF c
<1>4. /\ pc' \in [Suite -> Int] /\ DOMAIN got' = Suite
      /\ \A u \in Suite : Running(u)' <=> Running(u)
  <2>1. \E n \in Int : n > 0 /\ pc' = [pc EXCEPT ![t] = n]
    BY <1>1, <1>2, <1>3 DEF CellOK, Running
  <2> QED
    BY <1>1, <1>2, <2>1 DEF CellOK, Running
<1>5. CellOK'
  BY <1>1, <1>2, <1>4 DEF CellOK, World
<1>6. SUFFICES ASSUME Disciplined(Registered, jobs)'
               PROVE  Apart' /\ Fresh' /\ ReadsOwn'
  BY <1>5 DEF SweepInv
<1>7. Disciplined(Registered, jobs) /\ Apart /\ Fresh /\ ReadsOwn
  BY <1>1, <1>2, <1>6 DEF SweepInv, Disciplined
<1>8. Apart'
  BY <1>2, <1>4, <1>7 DEF Apart
<1>9. Fresh' /\ ReadsOwn'
  <2>1. CASE /\ c.op = "read" /\ UNCHANGED disk
             /\ got' = [got EXCEPT ![t] = Put(@, k, disk[c.file])]
             /\ pc' = [pc EXCEPT ![t] = @ + 1]
    BY <1>1, <1>2, <1>7, <2>1, ReadKeeps DEF c
  <2>2. CASE /\ c.op # "read" /\ UNCHANGED got
             /\ disk' = Put(disk, c.file, Written(t, c))
             /\ pc' = [pc EXCEPT ![t] = @ + 1]
    <3> DEFINE w == Written(t, c)
    <3>1. w.by = t
      BY DEF Written
    <3> HIDE DEF w
    <3>2. disk' = Put(disk, c.file, w)
      BY <2>2 DEF w
    <3> QED
      BY <1>1, <1>2, <1>7, <2>2, <3>1, <3>2, WriteKeeps DEF c
  <2>3. CASE /\ c.op # "read" /\ UNCHANGED <<got, disk>>
             /\ pc' = [pc EXCEPT ![t] = IF c.op = "trace" THEN @ + 2
                                        ELSE Len(Commands(t)) + 2]
    BY <1>1, <1>2, <1>7, <2>3, FailureKeeps DEF c
  <2> QED
    BY <1>1, <2>1, <2>2, <2>3
<1> QED
  BY <1>8, <1>9

LEMMA FinishKeeps ==
  ASSUME SweepInv, NEW t \in Suite, Finish(t)
  PROVE  SweepInv'
<1>1. UNCHANGED <<cell, jobs, got, disk>> /\ pc' = [pc EXCEPT ![t] = Done]
  BY DEF Finish
<1>2. CellOK /\ Suite' = Suite /\ Registered' = Registered
  BY <1>1 DEF SweepInv, Suite, Registered
<1>3. CellOK'
  BY <1>1, <1>2 DEF CellOK, World, Done
<1>4. SUFFICES ASSUME Disciplined(Registered, jobs)'
               PROVE  Apart' /\ Fresh' /\ ReadsOwn'
  BY <1>3 DEF SweepInv
<1>5. Disciplined(Registered, jobs) /\ Apart /\ Fresh /\ ReadsOwn
  BY <1>1, <1>2, <1>4 DEF SweepInv, Disciplined
<1>6. \A u \in Suite : Running(u)' => u # t /\ Running(u) /\ pc'[u] = pc[u]
  BY <1>1, <1>2 DEF CellOK, Running, Done
<1>7. \A u \in Suite : Commands(u)' = Commands(u)
  BY <1>1, SameCommands
<1>8. Apart'
  BY <1>2, <1>5, <1>6 DEF Apart
<1>9. Fresh'
  BY <1>1, <1>2, <1>5, <1>6, <1>7 DEF Fresh
<1>10. ReadsOwn'
  BY <1>1, <1>2, <1>5 DEF ReadsOwn
<1> QED
  BY <1>8, <1>9, <1>10

\* What a test reads back from a file under /tmp is what its own command has put
\* there, in every interleaving and whatever fails on the way, as long as the
\* registration keeps tests of one probe apart (tests/CMakeLists.txt:686-690):
\* for any suite, any number of jobs and any build.  RegistryDisciplined of
\* MCPeriphery is that it does, for all but unwind.matrix and its inverted test.
THEOREM FilesAreOwn == Spec => [](Disciplined(Registered, jobs) => ReadsOwn)
<1>1. Init => SweepInv
  BY InitSweep
<1>2. SweepInv /\ [Next]_vars => SweepInv'
  <2> SUFFICES ASSUME SweepInv, [Next]_vars PROVE SweepInv'
    OBVIOUS
  <2>1. CASE Sweeping
    <3>1. CASE \E t \in Suite : Start(t) \/ Step(t) \/ Finish(t)
      BY <3>1, StartKeeps, StepKeeps, FinishKeeps
    <3>2. CASE Aggregate
      <4>1. UNCHANGED <<cell, jobs, pc, got, disk>>
        BY <3>2 DEF Aggregate
      <4>2. \A t : Commands(t)' = Commands(t)
        BY <4>1, SameCommands
      <4> QED
        BY <4>1, <4>2 DEF SweepInv, CellOK, Apart, Fresh, ReadsOwn, Disciplined,
                          Suite, Registered, World, Running
    <3> QED
      BY <2>1, <3>1, <3>2 DEF Sweeping, SweepNext
  <2>2. CASE UNCHANGED sweep
    <3>1. UNCHANGED <<cell, jobs, pc, got, disk>>
      BY <2>2 DEF sweep
    <3>2. \A t : Commands(t)' = Commands(t)
      BY <3>1, SameCommands
    <3> QED
      BY <3>1, <3>2 DEF SweepInv, CellOK, Apart, Fresh, ReadsOwn, Disciplined,
                        Suite, Registered, World, Running
  <2> QED
    BY <2>1, <2>2 DEF Next, vars, Linting, Amalgamating, Bridging, Converting
<1>3. SweepInv => (Disciplined(Registered, jobs) => ReadsOwn)
  BY DEF SweepInv
<1> QED
  BY <1>1, <1>2, <1>3, PTL DEF Spec

-----------------------------------------------------------------------------
\* The amalgamation.

InlineCall == [file : Headers, line : Nat \ {0}]

AmalgamType ==
  /\ lines \in [Headers -> Seq(Headers \cup {Text})]
  /\ roots \in Seq(Headers)
  /\ calls \in Seq(InlineCall)
  /\ visited \subseteq Headers
  /\ out \in Seq([file : Headers, line : Nat])

\* The lines of a header that inline has come past: all of them but for one that
\* is still on the stack.
PassedLines(h) ==
  {i \in DOMAIN lines[h] : \A a \in DOMAIN calls : calls[a].file = h => i < calls[a].line}

\* The stack: every header on it once, and visited; an outer one reaches every
\* inner one.
CallsOK ==
  /\ \A a \in DOMAIN calls : calls[a].file \in visited
  /\ \A a, b \in DOMAIN calls :
       a < b => /\ calls[a].file # calls[b].file
                /\ calls[a].file \in Reach(calls[b].file)

\* The output: of every visited header the text inline has come past, once.
OutOK ==
  /\ \A i, j \in DOMAIN out : out[i] = out[j] => i = j
  /\ \A p \in DOMAIN out :
       /\ out[p].file \in visited
       /\ out[p].line # 0 => /\ out[p].line \in PassedLines(out[p].file)
                            /\ lines[out[p].file][out[p].line] = Text
  /\ \A h \in visited :
       /\ [file |-> h, line |-> 0] \in ToSet(out)
       /\ \A i \in PassedLines(h) :
            lines[h][i] = Text => [file |-> h, line |-> i] \in ToSet(out)

\* What a passed line includes is visited; and unless it reaches itself it is
\* complete, or it is being inlined for that very line.
PassedOK ==
  \A h \in visited : \A i \in PassedLines(h) :
    lines[h][i] # Text =>
      /\ lines[h][i] \in visited
      /\ lines[h][i] \notin Reach(lines[h][i]) =>
           \A a \in DOMAIN calls : calls[a].file = lines[h][i] =>
             \E b \in DOMAIN calls : a < b /\ calls[b].file = h /\ i = calls[b].line - 1

OrderOK ==
  \A p, q \in DOMAIN out :
    \A i \in 1..(out[p].line - 1) :
      lines[out[p].file][i] = out[q].file /\ out[q].file \notin Reach(out[q].file) => q < p

AmalgamInv == AmalgamType /\ CallsOK /\ OutOK /\ PassedOK /\ OrderOK

LEMMA InitAmalgam == Init => AmalgamInv
<1> SUFFICES ASSUME Init PROVE AmalgamInv
  OBVIOUS
<1>1. /\ lines \in Trees \/ lines = [h \in Headers |-> <<>>]
      /\ roots \in Roots \/ roots = <<>>
      /\ calls = <<>> /\ visited = {} /\ out = <<>>
  BY DEF Init, AmalgamateInit
<1>2. AmalgamType
  <2>1. \A S : <<>> \in Seq(S)
    BY EmptySeq
  <2>2. roots \in Seq(Headers)
    BY <1>1, <2>1, TreesAssumption
  <2>3. lines \in [Headers -> Seq(Headers \cup {Text})]
    BY <1>1, <2>1, TreesAssumption
  <2> QED
    BY <1>1, <2>1, <2>2, <2>3 DEF AmalgamType
<1>3. DOMAIN calls = {} /\ DOMAIN out = {}
  BY <1>1
<1> QED
  BY <1>1, <1>2, <1>3 DEF AmalgamInv, CallsOK, OutOK, PassedOK, OrderOK

\* Reach is closed under inclusion.
LEMMA ReachClosed ==
  ASSUME AmalgamType, NEW h \in Headers
  PROVE  /\ Includes(h) \subseteq Reach(h)
         /\ \A g \in Reach(h) : Includes(g) \subseteq Reach(h)
<1>1. \A g \in Headers : Includes(g) \subseteq Headers
  <2> SUFFICES ASSUME NEW g \in Headers, NEW x \in Includes(g) PROVE x \in Headers
    OBVIOUS
  <2>1. lines[g] \in Seq(Headers \cup {Text})
    BY DEF AmalgamType
  <2>2. PICK i \in DOMAIN lines[g] : x = lines[g][i]
    BY DEF Includes, ToSet
  <2>3. lines[g][i] \in Headers \cup {Text}
    BY <2>1, <2>2, ElementOfSeq, LenProperties
  <2> QED
    BY <2>2, <2>3 DEF Includes
<1>2. Includes(h) \subseteq Reach(h)
  BY <1>1 DEF Reach
<1>3. ASSUME NEW g \in Reach(h), NEW f \in Includes(g) PROVE f \in Reach(h)
  <2>1. g \in Headers /\ f \in Headers
    BY <1>1, <1>3 DEF Reach
  <2>2. ASSUME NEW S \in SUBSET Headers, Includes(h) \subseteq S,
               \A x \in S : Includes(x) \subseteq S
        PROVE  f \in S
    <3>1. g \in S
      BY <1>3, <2>2 DEF Reach
    <3> QED
      BY <1>3, <2>2, <3>1
  <2> QED
    BY <2>1, <2>2 DEF Reach
<1> QED
  BY <1>2, <1>3

LEMMA SameReach ==
  ASSUME UNCHANGED lines
  PROVE  \A h : Reach(h)' = Reach(h)
BY DEF Reach, Includes

\* The innermost call.
LEMMA HeadFacts ==
  ASSUME AmalgamType, calls # <<>>
  PROVE  /\ 1 \in DOMAIN calls /\ Head(calls) = calls[1] /\ calls[1] \in InlineCall
         /\ calls[1].file \in Headers /\ calls[1].line \in Nat \ {0}
         /\ Len(calls) \in Nat /\ DOMAIN calls = 1..Len(calls) /\ Len(calls) >= 1
         /\ Len(lines[calls[1].file]) \in Nat
         /\ DOMAIN lines[calls[1].file] = 1..Len(lines[calls[1].file])
<1>1. Len(calls) \in Nat /\ DOMAIN calls = 1..Len(calls) /\ Len(calls) >= 1
  BY DEF AmalgamType
<1>2. Head(calls) = calls[1] /\ calls[1] \in InlineCall
  BY <1>1 DEF AmalgamType
<1>3. calls[1].file \in Headers /\ calls[1].line \in Nat \ {0}
  BY <1>2 DEF InlineCall
<1>4. lines[calls[1].file] \in Seq(Headers \cup {Text})
  BY <1>3 DEF AmalgamType
<1>5. /\ Len(lines[calls[1].file]) \in Nat
      /\ DOMAIN lines[calls[1].file] = 1..Len(lines[calls[1].file])
  BY <1>4, LenProperties
<1> QED
  BY <1>1, <1>2, <1>3, <1>5

\* A header a line of the innermost call includes, found on the stack, reaches
\* itself.
LEMMA StackedReachesItself ==
  ASSUME AmalgamType, CallsOK, NEW a \in DOMAIN calls, calls # <<>>,
         NEW g \in Headers, calls[a].file = g,
         NEW i \in DOMAIN lines[calls[1].file], lines[calls[1].file][i] = g
  PROVE  g \in Reach(g)
<1>1. 1 \in DOMAIN calls /\ calls[1].file \in Headers /\ a \in Nat /\ a >= 1
  BY HeadFacts
<1>2. g \in Includes(calls[1].file)
  BY TextAssumption DEF Includes, ToSet
<1>3. CASE a = 1
  BY <1>1, <1>2, <1>3, ReachClosed
<1>4. CASE a # 1
  <2>1. calls[1].file \in Reach(g)
    BY <1>1, <1>4 DEF CallsOK
  <2> QED
    BY <1>2, <2>1, ReachClosed
<1> QED
  BY <1>3, <1>4

LEMMA AdvancedFacts ==
  ASSUME AmalgamType, calls # <<>>
  PROVE  /\ Advanced \in Seq(InlineCall) /\ Len(Advanced) = Len(calls)
         /\ DOMAIN Advanced = DOMAIN calls
         /\ \A a \in DOMAIN calls :
              /\ Advanced[a].file = calls[a].file
              /\ Advanced[a].line = IF a = 1 THEN calls[1].line + 1 ELSE calls[a].line
<1> DEFINE new == [calls[1] EXCEPT !.line = @ + 1]
<1>1. new \in InlineCall /\ new.file = calls[1].file /\ new.line = calls[1].line + 1
  BY HeadFacts DEF InlineCall
<1>2. Advanced = [calls EXCEPT ![1] = new]
  BY DEF Advanced
<1> HIDE DEF new
<1>3. /\ Advanced \in Seq(InlineCall) /\ Len(Advanced) = Len(calls)
      /\ DOMAIN Advanced = DOMAIN calls
      /\ Advanced[1] = new
      /\ \A a \in DOMAIN calls : a # 1 => Advanced[a] = calls[a]
  BY <1>1, <1>2, HeadFacts DEF AmalgamType
<1> QED
  BY <1>1, <1>3

\* What the innermost call has come past: only it has that file.
LEMMA HeadPassed ==
  ASSUME AmalgamType, CallsOK, calls # <<>>
  PROVE  /\ \A i : i \in PassedLines(calls[1].file) <=>
                     i \in DOMAIN lines[calls[1].file] /\ i < calls[1].line
         /\ \A a \in DOMAIN calls : calls[a].file = calls[1].file => a = 1
<1>1. \A a \in DOMAIN calls : calls[a].file = calls[1].file => a = 1
  <2> SUFFICES ASSUME NEW a \in DOMAIN calls, calls[a].file = calls[1].file, a # 1
               PROVE  FALSE
    OBVIOUS
  <2>1. 1 < a
    BY HeadFacts
  <2> QED
    BY <2>1, HeadFacts DEF CallsOK
<1> QED
  BY <1>1, HeadFacts DEF PassedLines

\* The innermost call goes on by a line: what that changes in what is passed.
LEMMA AdvancePassed ==
  ASSUME AmalgamType, CallsOK, calls # <<>>, UNCHANGED lines, calls' = Advanced,
         NEW f, f = calls[1].file, NEW l, l = calls[1].line, l <= Len(lines[f])
  PROVE  /\ \A h : h # f => PassedLines(h)' = PassedLines(h)
         /\ PassedLines(f)' = PassedLines(f) \cup {l}
         /\ l \notin PassedLines(f) /\ l \in DOMAIN lines[f]
<1>1. /\ DOMAIN calls' = DOMAIN calls
      /\ \A a \in DOMAIN calls :
           /\ calls'[a].file = calls[a].file
           /\ calls'[a].line = IF a = 1 THEN l + 1 ELSE calls[a].line
  BY AdvancedFacts
<1>2. ASSUME NEW h, h # f PROVE PassedLines(h)' = PassedLines(h)
  <2>1. \A a \in DOMAIN calls : calls[a].file = h => a # 1
    BY <1>2
  <2> QED
    BY <1>1, <2>1 DEF PassedLines
<1>3. l \in DOMAIN lines[f] /\ DOMAIN lines[f] \subseteq Nat /\ l \in Nat
  BY HeadFacts
<1>4. \A i : i \in PassedLines(f)' <=> i \in DOMAIN lines[f] /\ i < l + 1
  BY <1>1, HeadPassed, HeadFacts DEF PassedLines
<1>5. \A i \in DOMAIN lines[f] : i < l + 1 <=> i < l \/ i = l
  BY <1>3
<1>6. \A i : i \in PassedLines(f) <=> i \in DOMAIN lines[f] /\ i < l
  BY HeadPassed
<1>7. ~(l < l)
  BY <1>3
<1> QED
  BY <1>2, <1>3, <1>4, <1>5, <1>6, <1>7

\* The stack keeps its order when the innermost call goes on.
LEMMA AdvanceCalls ==
  ASSUME AmalgamType, CallsOK, calls # <<>>, UNCHANGED <<lines, visited>>,
         calls' = Advanced
  PROVE  CallsOK'
<1>1. /\ DOMAIN calls' = DOMAIN calls
      /\ \A a \in DOMAIN calls : calls'[a].file = calls[a].file
  BY AdvancedFacts
<1>2. \A h : Reach(h)' = Reach(h)
  BY SameReach
<1> QED
  BY <1>1, <1>2 DEF CallsOK

\* The innermost header itself has no include that is being inlined: passed
\* includes of headers that do not reach themselves are complete.
LEMMA HeadComplete ==
  ASSUME AmalgamInv, calls # <<>>, NEW i \in PassedLines(calls[1].file),
         lines[calls[1].file][i] # Text,
         lines[calls[1].file][i] \notin Reach(lines[calls[1].file][i]),
         NEW a \in DOMAIN calls
  PROVE  calls[a].file # lines[calls[1].file][i]
<1> USE DEF AmalgamInv
<1> SUFFICES ASSUME calls[a].file = lines[calls[1].file][i] PROVE FALSE
  OBVIOUS
<1>1. calls[1].file \in visited
  BY HeadFacts DEF CallsOK
<1>2. PICK b \in DOMAIN calls : a < b /\ calls[b].file = calls[1].file
  BY <1>1 DEF PassedOK
<1>3. b = 1 /\ a >= 1 /\ a \in Nat
  BY <1>2, HeadPassed, HeadFacts
<1> QED
  BY <1>2, <1>3

\* PassedOK after a line that is text, or includes what was visited before.
LEMMA AdvanceKeepsPassed ==
  ASSUME AmalgamInv, calls # <<>>, UNCHANGED <<lines, visited>>, calls' = Advanced,
         NEW f, f = calls[1].file, NEW l, l = calls[1].line, l <= Len(lines[f]),
         lines[f][l] \in visited \cup {Text}
  PROVE  PassedOK'
<1> USE DEF AmalgamInv
<1>1. /\ DOMAIN calls' = DOMAIN calls
      /\ \A a \in DOMAIN calls :
           /\ calls'[a].file = calls[a].file
           /\ calls'[a].line = IF a = 1 THEN l + 1 ELSE calls[a].line
  BY AdvancedFacts
<1>2. \A h : Reach(h)' = Reach(h)
  BY SameReach
<1>3. f \in Headers /\ l \in DOMAIN lines[f] /\ visited \subseteq Headers
  BY HeadFacts DEF AmalgamType
<1> SUFFICES ASSUME NEW h \in visited, NEW i \in PassedLines(h)', lines[h][i] # Text
             PROVE  /\ lines[h][i] \in visited
                    /\ lines[h][i] \notin Reach(lines[h][i]) =>
                         \A a \in DOMAIN calls : calls[a].file = lines[h][i] =>
                           \E b \in DOMAIN calls :
                             a < b /\ calls[b].file = h /\ i = calls'[b].line - 1
  BY <1>1, <1>2 DEF PassedOK
<1>4. CASE h # f
  <2>1. i \in PassedLines(h)
    BY <1>4, AdvancePassed
  <2>2. /\ lines[h][i] \in visited
        /\ lines[h][i] \notin Reach(lines[h][i]) =>
             \A a \in DOMAIN calls : calls[a].file = lines[h][i] =>
               \E b \in DOMAIN calls : a < b /\ calls[b].file = h /\ i = calls[b].line - 1
    BY <2>1 DEF PassedOK
  <2>3. \A b \in DOMAIN calls : calls[b].file = h => calls'[b].line = calls[b].line
    BY <1>1, <1>4
  <2> QED
    BY <2>2, <2>3
<1>5. CASE h = f /\ i \in PassedLines(f)
  BY <1>5, HeadComplete DEF PassedOK
<1>6. CASE h = f /\ i = l
  <2>1. lines[f][l] \in visited /\ lines[f][l] \in Headers
    BY <1>3, <1>6
  <2>2. ASSUME NEW a \in DOMAIN calls, calls[a].file = lines[f][l]
        PROVE  lines[f][l] \in Reach(lines[f][l])
    BY <1>3, <2>1, <2>2, StackedReachesItself
  <2> QED
    BY <1>6, <2>1, <2>2
<1> QED
  BY <1>4, <1>5, <1>6, AdvancePassed

Entry == [file : Headers, line : Nat]

LEMMA AppendFacts ==
  ASSUME NEW s \in Seq(Entry), NEW e \in Entry
  PROVE  /\ Append(s, e) \in Seq(Entry)
         /\ Len(s) \in Nat /\ DOMAIN s = 1..Len(s)
         /\ DOMAIN Append(s, e) = 1..(Len(s) + 1)
         /\ \A i \in DOMAIN s : Append(s, e)[i] = s[i] /\ s[i] \in Entry
         /\ Append(s, e)[Len(s) + 1] = e
         /\ ToSet(Append(s, e)) = ToSet(s) \cup {e}
<1>1. /\ Append(s, e) \in Seq(Entry)
      /\ Len(s) \in Nat /\ DOMAIN s = 1..Len(s)
      /\ DOMAIN Append(s, e) = 1..(Len(s) + 1)
      /\ \A i \in DOMAIN s : Append(s, e)[i] = s[i] /\ s[i] \in Entry
      /\ Append(s, e)[Len(s) + 1] = e
  OBVIOUS
<1> DEFINE n == Len(s)
           u == Append(s, e)
<1> HIDE DEF n, u
<1>2. \A i \in 1..(n + 1) : i \in 1..n \/ i = n + 1
  BY <1>1 DEF n
<1>3. n + 1 \in 1..(n + 1) /\ 1..n \subseteq 1..(n + 1)
  BY <1>1 DEF n
<1>4. ToSet(u) = ToSet(s) \cup {e}
  BY <1>1, <1>2, <1>3 DEF ToSet, n, u
<1> QED
  BY <1>1, <1>4 DEF u

\* An entry that is not in the output keeps it free of repetitions, and stands
\* after everything.
LEMMA AppendOrder ==
  ASSUME AmalgamType, OutOK, OrderOK, UNCHANGED lines,
         NEW e \in Entry, e \notin ToSet(out), out' = Append(out, e),
         \A p \in DOMAIN out : \A i \in 1..(out[p].line - 1) :
           lines[out[p].file][i] = e.file => e.file \in Reach(e.file),
         \A i \in 1..(e.line - 1) :
           lines[e.file][i] = e.file => e.file \in Reach(e.file)
  PROVE  /\ OrderOK'
         /\ \A i, j \in DOMAIN out' : out'[i] = out'[j] => i = j
<1> DEFINE n == Len(out)
<1>1. out \in Seq(Entry)
  BY DEF AmalgamType, Entry
<1>2. /\ n \in Nat /\ DOMAIN out = 1..n /\ DOMAIN out' = 1..(n + 1)
      /\ \A i \in 1..n : out'[i] = out[i]
      /\ out'[n + 1] = e
  BY <1>1, AppendFacts
<1> HIDE DEF n
<1>3. \A i \in DOMAIN out' : i \in DOMAIN out \/ i = n + 1
  BY <1>2
<1>4. \A i \in DOMAIN out : out[i] # e /\ i < n + 1 /\ n + 1 # i
  BY <1>2 DEF ToSet
<1>5. \A i, j \in DOMAIN out' : out'[i] = out'[j] => i = j
  BY <1>2, <1>3, <1>4 DEF OutOK
<1>6. \A h : Reach(h)' = Reach(h)
  BY SameReach
<1>7. OrderOK'
  <2> SUFFICES ASSUME NEW p \in DOMAIN out', NEW q \in DOMAIN out',
                      NEW i \in 1..(out'[p].line - 1),
                      lines[out'[p].file][i] = out'[q].file,
                      out'[q].file \notin Reach(out'[q].file)
               PROVE  q < p
    BY <1>6 DEF OrderOK
  <2>1. CASE p \in DOMAIN out /\ q \in DOMAIN out
    BY <1>2, <2>1 DEF OrderOK
  <2>2. CASE q = n + 1
    <3>1. out'[q] = e
      BY <1>2, <2>2
    <3>2. CASE p \in DOMAIN out
      BY <1>2, <3>1, <3>2
    <3>3. CASE p = n + 1
      BY <1>2, <3>1, <3>3
    <3> QED
      BY <1>3, <3>2, <3>3
  <2>3. CASE p = n + 1 /\ q \in DOMAIN out
    BY <1>4, <2>3
  <2> QED
    BY <1>3, <2>1, <2>2, <2>3
<1> QED
  BY <1>5, <1>7

\* An entry of the output, and the lines before it in its file.
LEMMA OutIs ==
  ASSUME OutOK, NEW p \in DOMAIN out, AmalgamType
  PROVE  /\ out[p].file \in visited /\ out[p].file \in Headers /\ out[p].line \in Nat
         /\ out[p] = [file |-> out[p].file, line |-> out[p].line]
         /\ \A i \in 1..(out[p].line - 1) : i \in PassedLines(out[p].file)
<1>1. out[p] \in Entry
  BY ElementOfSeq, LenProperties DEF AmalgamType, Entry
<1>2. /\ out[p].file \in visited /\ out[p].file \in Headers /\ out[p].line \in Nat
      /\ out[p] = [file |-> out[p].file, line |-> out[p].line]
  BY <1>1 DEF OutOK, Entry
<1>3. ASSUME NEW i \in 1..(out[p].line - 1) PROVE i \in PassedLines(out[p].file)
  <2> DEFINE h == out[p].file
             l == out[p].line
  <2>1. l \in PassedLines(h)
    BY <1>2, <1>3 DEF OutOK
  <2>2. i \in DOMAIN lines[h] /\ i < l
    <3>1. DOMAIN lines[h] = 1..Len(lines[h]) /\ Len(lines[h]) \in Nat
      BY <1>2, LenProperties DEF AmalgamType
    <3>2. l \in DOMAIN lines[h]
      BY <2>1 DEF PassedLines
    <3> QED
      BY <1>3, <3>1, <3>2
  <2>3. ASSUME NEW a \in DOMAIN calls, calls[a].file = h PROVE i < calls[a].line
    <3>1. l < calls[a].line
      BY <2>1, <2>3 DEF PassedLines
    <3>2. calls[a] \in InlineCall
      BY <2>3, ElementOfSeq, LenProperties DEF AmalgamType
    <3>3. calls[a].line \in Nat
      BY <3>2 DEF InlineCall
    <3> QED
      BY <1>2, <1>3, <2>2, <3>1, <3>3
  <2> QED
    BY <2>2, <2>3 DEF PassedLines
<1> QED
  BY <1>2, <1>3

\* A line of text goes to the output.
LEMMA TextKeeps ==
  ASSUME AmalgamInv, calls # <<>>, UNCHANGED <<lines, visited>>, roots' \in Seq(Headers),
         calls' = Advanced, out' = Append(out, calls[1]),
         NEW f, f = calls[1].file, NEW l, l = calls[1].line, l <= Len(lines[f]),
         lines[f][l] = Text
  PROVE  AmalgamInv'
<1> USE DEF AmalgamInv
<1> DEFINE e == [file |-> f, line |-> l]
<1>1. /\ f \in Headers /\ l \in Nat \ {0} /\ l \in DOMAIN lines[f] /\ f \in visited
      /\ 1 \in DOMAIN calls
  BY HeadFacts DEF CallsOK
<1>2. calls[1] = e /\ e \in Entry /\ e.file = f /\ e.line = l
  BY <1>1, HeadFacts DEF InlineCall, Entry
<1> HIDE DEF e
<1>3. out \in Seq(Entry)
  BY DEF AmalgamType, Entry
<1>4. /\ out' \in Seq(Entry) /\ ToSet(out') = ToSet(out) \cup {e}
      /\ DOMAIN out' = 1..(Len(out) + 1) /\ DOMAIN out = 1..Len(out) /\ Len(out) \in Nat
      /\ \A p \in DOMAIN out : out'[p] = out[p]
      /\ out'[Len(out) + 1] = e
  BY <1>2, <1>3, AppendFacts
<1>5. AmalgamType'
  BY <1>4, AdvancedFacts DEF AmalgamType, Entry
<1>6. CallsOK'
  BY AdvanceCalls
<1>7. PassedOK'
  BY AdvanceKeepsPassed
<1>8. /\ \A h : h # f => PassedLines(h)' = PassedLines(h)
      /\ PassedLines(f)' = PassedLines(f) \cup {l}
      /\ l \notin PassedLines(f)
  BY AdvancePassed
<1>9. e \notin ToSet(out)
  <2> SUFFICES ASSUME NEW p \in DOMAIN out, out[p] = e PROVE FALSE
    BY DEF ToSet
  <2> QED
    BY <1>1, <1>2, <1>8 DEF OutOK
<1>10. ASSUME NEW p \in DOMAIN out, NEW i \in 1..(out[p].line - 1),
              lines[out[p].file][i] = f, f \notin Reach(f)
       PROVE  FALSE
  <2> DEFINE h == out[p].file
             m == out[p].line
  <2>1. h \in visited /\ m \in Nat /\ i \in PassedLines(h)
    BY <1>10, OutIs
  <2>2. PICK b \in DOMAIN calls : 1 < b /\ calls[b].file = h /\ i = calls[b].line - 1
    <3>1. lines[h][i] = f /\ lines[h][i] # Text /\ calls[1].file = lines[h][i]
      BY <1>1, <1>10, TextAssumption
    <3>2. lines[h][i] \notin Reach(lines[h][i])
      BY <1>10, <3>1
    <3> HIDE DEF h, m
    <3>3. PassedOK
      OBVIOUS
    <3>4. \A a \in DOMAIN calls : calls[a].file = lines[h][i] =>
            \E b \in DOMAIN calls : a < b /\ calls[b].file = h /\ i = calls[b].line - 1
      BY <2>1, <3>1, <3>2, <3>3, Zenon DEF PassedOK
    <3> QED
      BY <1>1, <3>1, <3>4
  <2>3. m \in PassedLines(h)
    BY <1>10, <2>1 DEF OutOK
  <2>4. m < calls[b].line
    BY <2>2, <2>3 DEF PassedLines
  <2>5. calls[b] \in InlineCall
    BY <2>2, ElementOfSeq, LenProperties DEF AmalgamType
  <2>6. calls[b].line \in Nat
    BY <2>5 DEF InlineCall
  <2> QED
    BY <1>10, <2>1, <2>2, <2>4, <2>6
<1>11. ASSUME NEW i \in 1..(l - 1), lines[f][i] = f PROVE f \in Reach(f)
  <2>1. i \in DOMAIN lines[f]
    BY <1>1, HeadFacts
  <2> QED
    BY <1>1, <1>11, <2>1, StackedReachesItself
<1>12. /\ OrderOK'
       /\ \A i, j \in DOMAIN out' : out'[i] = out'[j] => i = j
  <2>1. out' = Append(out, e)
    BY <1>2
  <2>2. \A p \in DOMAIN out : \A i \in 1..(out[p].line - 1) :
          lines[out[p].file][i] = e.file => e.file \in Reach(e.file)
    BY <1>2, <1>10
  <2>3. \A i \in 1..(e.line - 1) : lines[e.file][i] = e.file => e.file \in Reach(e.file)
    BY <1>2, <1>11
  <2> QED
    BY <1>2, <1>9, <2>1, <2>2, <2>3, AppendOrder
<1>13. OutOK'
  <2>1. ASSUME NEW p \in DOMAIN out', NEW h, h = out'[p].file, NEW m, m = out'[p].line
        PROVE  h \in visited /\ (m # 0 => m \in PassedLines(h)' /\ lines[h][m] = Text)
    <3>1. CASE p \in DOMAIN out
      <4>1. h = out[p].file /\ m = out[p].line
        BY <1>4, <2>1, <3>1
      <4>2. PassedLines(h) \subseteq PassedLines(h)'
        BY <1>8
      <4> QED
        BY <3>1, <4>1, <4>2 DEF OutOK
    <3>2. CASE p = Len(out) + 1
      <4>1. h = f /\ m = l
        BY <1>2, <1>4, <2>1, <3>2
      <4> QED
        BY <1>1, <1>8, <4>1
    <3> QED
      BY <1>4, <2>1, <3>1, <3>2
  <2>2. ASSUME NEW h \in visited
        PROVE  /\ [file |-> h, line |-> 0] \in ToSet(out')
               /\ \A i \in PassedLines(h)' :
                    lines[h][i] = Text => [file |-> h, line |-> i] \in ToSet(out')
    <3>1. ToSet(out) \subseteq ToSet(out') /\ e \in ToSet(out')
      BY <1>4
    <3>2. CASE h # f
      BY <1>8, <2>2, <3>1, <3>2 DEF OutOK
    <3>3. CASE h = f
      BY <1>8, <2>2, <3>1, <3>3 DEF OutOK, e
    <3> QED
      BY <3>2, <3>3
  <2>3. \A p \in DOMAIN out' :
          /\ out'[p].file \in visited
          /\ out'[p].line # 0 =>
               /\ (out[p].line \in PassedLines(out[p].file))'
               /\ lines[out'[p].file][out'[p].line] = Text
    BY <2>1 DEF PassedLines
  <2> QED
    BY <1>12, <2>2, <2>3 DEF OutOK
<1> QED
  BY <1>5, <1>6, <1>7, <1>12, <1>13

\* A line that includes a header visited before is passed over.
LEMMA SkipKeeps ==
  ASSUME AmalgamInv, calls # <<>>, UNCHANGED <<lines, visited, out>>,
         roots' \in Seq(Headers), calls' = Advanced,
         NEW f, f = calls[1].file, NEW l, l = calls[1].line, l <= Len(lines[f]),
         lines[f][l] \in visited
  PROVE  AmalgamInv'
<1> USE DEF AmalgamInv
<1>1. AmalgamType'
  BY AdvancedFacts DEF AmalgamType
<1>2. CallsOK'
  BY AdvanceCalls
<1>3. PassedOK'
  BY AdvanceKeepsPassed
<1>4. /\ \A h : h # f => PassedLines(h)' = PassedLines(h)
      /\ PassedLines(f)' = PassedLines(f) \cup {l}
  BY AdvancePassed
<1>5. lines[f][l] # Text
  BY TextAssumption DEF AmalgamType
<1>6. OutOK'
  BY <1>4, <1>5 DEF OutOK
<1>7. OrderOK'
  BY SameReach DEF OrderOK
<1> QED
  BY <1>1, <1>2, <1>3, <1>6, <1>7

\* The stack with a call of inline(g) on top of it; the caller, if there is one,
\* has come past the line that includes g.
Entered(g) ==
  /\ g \in Headers \ visited
  /\ calls' \in Seq(InlineCall)
  /\ DOMAIN calls = 1..Len(calls) /\ Len(calls) \in Nat
  /\ DOMAIN calls' = 1..(Len(calls) + 1)
  /\ calls'[1].file = g /\ calls'[1].line = 1
  /\ \A a \in DOMAIN calls :
       /\ calls'[a + 1].file = calls[a].file
       /\ calls'[a + 1].line = IF a = 1 THEN calls[1].line + 1 ELSE calls[a].line
  /\ calls # <<>> => /\ calls[1].line \in DOMAIN lines[calls[1].file]
                     /\ lines[calls[1].file][calls[1].line] = g

LEMMA RootEntered ==
  ASSUME AmalgamType, NEW g \in Headers \ visited, calls = <<>>,
         calls' = <<[file |-> g, line |-> 1]>>
  PROVE  Entered(g)
<1> DEFINE new == [file |-> g, line |-> 1]
<1>1. new \in InlineCall /\ new.file = g /\ new.line = 1
  BY DEF InlineCall
<1> HIDE DEF new
<1>2. <<new>> \in Seq(InlineCall) /\ DOMAIN <<new>> = 1..1 /\ <<new>>[1] = new
  BY <1>1
<1>3. DOMAIN calls = 1..Len(calls) /\ Len(calls) = 0 /\ DOMAIN calls = {}
  OBVIOUS
<1> QED
  BY <1>1, <1>2, <1>3 DEF Entered, new

LEMMA IncludeEntered ==
  ASSUME AmalgamType, NEW g \in Headers \ visited, calls # <<>>,
         calls[1].line <= Len(lines[calls[1].file]),
         lines[calls[1].file][calls[1].line] = g,
         calls' = <<[file |-> g, line |-> 1]>> \o Advanced
  PROVE  Entered(g)
<1> DEFINE new == [file |-> g, line |-> 1]
           n == Len(calls)
           adv == Advanced
<1>1. new \in InlineCall /\ new.file = g /\ new.line = 1
  BY DEF InlineCall
<1> HIDE DEF new
<1>2. /\ n \in Nat /\ DOMAIN calls = 1..n
      /\ adv \in Seq(InlineCall) /\ Len(adv) = n
      /\ \A a \in DOMAIN calls :
           /\ adv[a].file = calls[a].file
           /\ adv[a].line = IF a = 1 THEN calls[1].line + 1 ELSE calls[a].line
  BY HeadFacts, AdvancedFacts
<1>3. calls[1].line \in DOMAIN lines[calls[1].file]
  BY HeadFacts
<1> HIDE DEF adv, n
<1>4. calls' = <<new>> \o adv
  BY DEF new, adv
<1>5. /\ calls' \in Seq(InlineCall) /\ DOMAIN calls' = 1..(n + 1) /\ calls'[1] = new
      /\ \A a \in 1..n : calls'[a + 1] = adv[a]
  <2>1. /\ <<new>> \in Seq(InlineCall) /\ Len(<<new>>) = 1 /\ <<new>>[1] = new
    BY <1>1
  <2>2. /\ <<new>> \o adv \in Seq(InlineCall) /\ Len(<<new>> \o adv) = n + 1
        /\ \A a \in 1..(n + 1) :
             (<<new>> \o adv)[a] = IF a <= 1 THEN <<new>>[a] ELSE adv[a - 1]
    BY <1>2, <2>1, ConcatProperties
  <2>3. \A a \in 1..n : a + 1 \in 1..(n + 1) /\ ~(a + 1 <= 1) /\ (a + 1) - 1 = a
    BY <1>2
  <2>4. DOMAIN (<<new>> \o adv) = 1..(n + 1)
    BY <2>2, LenProperties
  <2>5. 1 \in 1..(n + 1)
    BY <1>2
  <2> DEFINE s == <<new>> \o adv
  <2> HIDE DEF s
  <2>6. /\ s \in Seq(InlineCall) /\ DOMAIN s = 1..(n + 1)
        /\ \A a \in 1..(n + 1) : s[a] = IF a <= 1 THEN <<new>>[a] ELSE adv[a - 1]
    BY <2>2, <2>4 DEF s
  <2>7. s[1] = new
    BY <2>1, <2>5, <2>6
  <2>8. ASSUME NEW a \in 1..n PROVE s[a + 1] = adv[a]
    <3>1. s[a + 1] = adv[(a + 1) - 1]
      BY <2>3, <2>6
    <3> QED
      BY <2>3, <3>1
  <2> QED
    BY <1>4, <2>6, <2>7, <2>8 DEF s
<1> QED
  BY <1>1, <1>2, <1>3, <1>5 DEF Entered, n

LEMMA EnterPassed ==
  ASSUME AmalgamInv, NEW g, Entered(g), UNCHANGED lines
  PROVE  /\ PassedLines(g)' = {}
         /\ \A h : h # g => PassedLines(h) \subseteq PassedLines(h)'
         /\ \A h : h # g => \A i \in PassedLines(h)' :
              \/ i \in PassedLines(h)
              \/ /\ calls # <<>> /\ h = calls[1].file /\ i = calls[1].line
                 /\ lines[h][i] = g
<1> USE DEF AmalgamInv
<1> DEFINE n == Len(calls)
<1>1. /\ n \in Nat /\ DOMAIN calls = 1..n /\ DOMAIN calls' = 1..(n + 1)
      /\ calls'[1].file = g /\ calls'[1].line = 1
      /\ \A a \in DOMAIN calls :
           /\ calls'[a + 1].file = calls[a].file
           /\ calls'[a + 1].line = IF a = 1 THEN calls[1].line + 1 ELSE calls[a].line
      /\ g \in Headers
  BY DEF Entered
<1> HIDE DEF n
<1>2. PassedLines(g)' = {}
  <2> SUFFICES ASSUME NEW i \in PassedLines(g)' PROVE FALSE
    OBVIOUS
  <2>1. i \in DOMAIN lines[g] /\ i < 1
    BY <1>1 DEF PassedLines
  <2>2. DOMAIN lines[g] = 1..Len(lines[g])
    BY <1>1, LenProperties DEF AmalgamType
  <2> QED
    BY <2>1, <2>2
<1>3. \A a \in DOMAIN calls' : a = 1 \/ (a - 1 \in DOMAIN calls /\ a = (a - 1) + 1)
  BY <1>1
<1>4. \A a \in DOMAIN calls : a + 1 \in DOMAIN calls' /\ a \in Nat /\ a >= 1
  BY <1>1
<1>5. \A a \in DOMAIN calls : calls[a].line \in Nat
  <2> SUFFICES ASSUME NEW a \in DOMAIN calls PROVE calls[a].line \in Nat
    OBVIOUS
  <2>1. calls[a] \in InlineCall
    BY ElementOfSeq, LenProperties DEF AmalgamType
  <2> QED
    BY <2>1 DEF InlineCall
<1>6. ASSUME NEW h, h # g, NEW i \in PassedLines(h) PROVE i \in PassedLines(h)'
  <2>1. i \in DOMAIN lines[h]
    BY <1>6 DEF PassedLines
  <2>2. ASSUME NEW a \in DOMAIN calls', calls'[a].file = h PROVE i < calls'[a].line
    <3>1. PICK b \in DOMAIN calls : a = b + 1
      BY <1>1, <1>3, <1>6, <2>2
    <3>2. i < calls[b].line /\ calls[b].line \in Nat /\ i \in Int
      <4>1. h \in Headers
        <5>1. calls[b] \in InlineCall
          BY <3>1, ElementOfSeq, LenProperties DEF AmalgamType
        <5> QED
          BY <1>1, <2>2, <3>1, <5>1 DEF InlineCall
      <4>2. DOMAIN lines[h] = 1..Len(lines[h])
        BY <4>1, LenProperties DEF AmalgamType
      <4> QED
        BY <1>1, <1>5, <1>6, <2>1, <2>2, <3>1, <4>2 DEF PassedLines
    <3>3. calls'[a].line = calls[b].line \/ calls'[a].line = calls[b].line + 1
      BY <1>1, <3>1
    <3> QED
      BY <3>2, <3>3
  <2> QED
    BY <2>1, <2>2 DEF PassedLines
<1>7. ASSUME NEW h, h # g, NEW i \in PassedLines(h)', i \notin PassedLines(h)
      PROVE  /\ calls # <<>> /\ h = calls[1].file /\ i = calls[1].line
             /\ lines[h][i] = g
  <2>1. PICK b \in DOMAIN calls : calls[b].file = h /\ ~(i < calls[b].line)
    BY <1>7 DEF PassedLines
  <2>2. i < calls'[b + 1].line /\ i \in DOMAIN lines[h]
    BY <1>1, <1>4, <1>7, <2>1 DEF PassedLines
  <2>3. b = 1 /\ calls'[b + 1].line = calls[1].line + 1
    BY <1>1, <2>1, <2>2
  <2>4. calls # <<>> /\ h \in Headers
    <3>1. calls[b] \in InlineCall
      BY <2>1, ElementOfSeq, LenProperties DEF AmalgamType
    <3> QED
      BY <2>1, <3>1 DEF InlineCall
  <2>5. i \in Int /\ calls[1].line \in Nat
    <3>1. DOMAIN lines[h] = 1..Len(lines[h])
      BY <2>4, LenProperties DEF AmalgamType
    <3> QED
      BY <1>5, <2>1, <2>2, <2>3, <3>1
  <2>6. i = calls[1].line
    BY <2>1, <2>2, <2>3, <2>5
  <2> QED
    BY <2>1, <2>3, <2>4, <2>6 DEF Entered
<1> QED
  BY <1>2, <1>6, <1>7

\* A header is entered: its first line goes to the output.
LEMMA EnterKeeps ==
  ASSUME AmalgamInv, NEW g, Entered(g), UNCHANGED lines, roots' \in Seq(Headers),
         visited' = visited \cup {g}, out' = Append(out, [file |-> g, line |-> 0])
  PROVE  AmalgamInv'
<1> USE DEF AmalgamInv
<1> DEFINE n == Len(calls)
           e == [file |-> g, line |-> 0]
<1>1. /\ n \in Nat /\ DOMAIN calls = 1..n /\ DOMAIN calls' = 1..(n + 1)
      /\ calls' \in Seq(InlineCall)
      /\ calls'[1].file = g
      /\ \A a \in DOMAIN calls :
           /\ calls'[a + 1].file = calls[a].file
           /\ calls'[a + 1].line = IF a = 1 THEN calls[1].line + 1 ELSE calls[a].line
      /\ g \in Headers /\ g \notin visited /\ g # Text
  BY TextAssumption DEF Entered
<1> HIDE DEF n
<1>2. e \in Entry /\ e.file = g /\ e.line = 0
  BY <1>1 DEF Entry
<1> HIDE DEF e
<1>3. out \in Seq(Entry) /\ out' = Append(out, e)
  BY DEF AmalgamType, Entry, e
<1>4. /\ out' \in Seq(Entry) /\ ToSet(out') = ToSet(out) \cup {e}
      /\ DOMAIN out' = 1..(Len(out) + 1) /\ DOMAIN out = 1..Len(out) /\ Len(out) \in Nat
      /\ \A p \in DOMAIN out : out'[p] = out[p]
      /\ out'[Len(out) + 1] = e
  BY <1>2, <1>3, AppendFacts
<1>5. AmalgamType'
  BY <1>1, <1>4 DEF AmalgamType, Entry
<1>6. \A h : Reach(h)' = Reach(h)
  BY SameReach
<1>7. \A a \in DOMAIN calls' : a = 1 \/ \E b \in DOMAIN calls : a = b + 1
  <2> SUFFICES ASSUME NEW a \in DOMAIN calls', a # 1
               PROVE  a - 1 \in DOMAIN calls /\ a = (a - 1) + 1
    OBVIOUS
  <2> QED
    BY <1>1
<1>8. \A a \in DOMAIN calls : a + 1 \in DOMAIN calls' /\ a \in Nat /\ a >= 1
  BY <1>1
<1>9. \A a \in DOMAIN calls : calls[a].file # g /\ g \in Reach(calls[a].file)
  <2> SUFFICES ASSUME NEW a \in DOMAIN calls
               PROVE  calls[a].file # g /\ g \in Reach(calls[a].file)
    OBVIOUS
  <2>1. calls[a].file \in visited /\ calls[a].file \in Headers /\ calls # <<>>
    BY DEF CallsOK, AmalgamType
  <2>2. g \in Includes(calls[1].file)
    BY <1>1, <2>1 DEF Entered, Includes, ToSet
  <2>3. CASE a = 1
    BY <1>1, <2>1, <2>2, <2>3, ReachClosed
  <2>4. CASE a # 1
    <3>1. 1 < a /\ 1 \in DOMAIN calls
      BY <1>1, <1>8, <2>4
    <3>2. calls[1].file \in Reach(calls[a].file)
      BY <3>1 DEF CallsOK
    <3> QED
      BY <1>1, <2>1, <2>2, <3>2, ReachClosed
  <2> QED
    BY <2>3, <2>4
<1>10. CallsOK'
  <2>1. ASSUME NEW a \in DOMAIN calls' PROVE calls'[a].file \in visited'
    <3>1. CASE a = 1
      BY <1>1, <3>1
    <3>2. ASSUME NEW b \in DOMAIN calls, a = b + 1 PROVE calls'[a].file \in visited'
      BY <1>1, <3>2 DEF CallsOK
    <3> QED
      BY <1>7, <3>1, <3>2
  <2>2. ASSUME NEW a \in DOMAIN calls', NEW b \in DOMAIN calls', a < b
        PROVE  calls'[a].file # calls'[b].file /\ calls'[a].file \in Reach(calls'[b].file)
    <3>1. PICK d \in DOMAIN calls : b = d + 1
      BY <1>1, <1>7, <2>2
    <3>2. CASE a = 1
      BY <1>1, <1>9, <3>1, <3>2
    <3>3. CASE a # 1
      <4>1. PICK c \in DOMAIN calls : a = c + 1
        BY <1>7, <3>3
      <4>2. c < d
        BY <1>8, <2>2, <3>1, <4>1
      <4> QED
        BY <1>1, <3>1, <4>1, <4>2 DEF CallsOK
    <3> QED
      BY <3>2, <3>3
  <2> QED
    BY <1>6, <2>1, <2>2 DEF CallsOK
<1>11. /\ PassedLines(g)' = {}
       /\ \A h : h # g => PassedLines(h) \subseteq PassedLines(h)'
       /\ \A h : h # g => \A i \in PassedLines(h)' :
            \/ i \in PassedLines(h)
            \/ /\ calls # <<>> /\ h = calls[1].file /\ i = calls[1].line
               /\ lines[h][i] = g
  BY EnterPassed
<1>12. e \notin ToSet(out)
  <2> SUFFICES ASSUME NEW p \in DOMAIN out, out[p] = e PROVE FALSE
    BY DEF ToSet
  <2> QED
    BY <1>1, <1>2 DEF OutOK
<1>13. ASSUME NEW h \in visited, NEW i \in PassedLines(h) PROVE lines[h][i] # g
  BY <1>1, <1>13 DEF PassedOK
<1>14. /\ OrderOK'
       /\ \A i, j \in DOMAIN out' : out'[i] = out'[j] => i = j
  <2>1. \A p \in DOMAIN out : \A i \in 1..(out[p].line - 1) :
          lines[out[p].file][i] = e.file => e.file \in Reach(e.file)
    BY <1>2, <1>13, OutIs
  <2>2. \A i \in 1..(e.line - 1) : lines[e.file][i] = e.file => e.file \in Reach(e.file)
    BY <1>2
  <2> QED
    BY <1>2, <1>3, <1>12, <2>1, <2>2, AppendOrder
<1>15. OutOK'
  <2>1. ASSUME NEW p \in DOMAIN out', NEW h, h = out'[p].file, NEW m, m = out'[p].line
        PROVE  h \in visited' /\ (m # 0 => m \in PassedLines(h)' /\ lines[h][m] = Text)
    <3>1. CASE p \in DOMAIN out
      <4>1. h = out[p].file /\ m = out[p].line
        BY <1>4, <2>1, <3>1
      <4>2. h \in visited /\ (m # 0 => m \in PassedLines(h) /\ lines[h][m] = Text)
        BY <3>1, <4>1 DEF OutOK
      <4> QED
        BY <1>1, <1>11, <4>2
    <3>2. CASE p = Len(out) + 1
      BY <1>2, <1>4, <2>1, <3>2
    <3> QED
      BY <1>4, <2>1, <3>1, <3>2
  <2>2. ASSUME NEW h \in visited'
        PROVE  /\ [file |-> h, line |-> 0] \in ToSet(out')
               /\ \A i \in PassedLines(h)' :
                    lines[h][i] = Text => [file |-> h, line |-> i] \in ToSet(out')
    <3>1. ToSet(out) \subseteq ToSet(out') /\ e \in ToSet(out')
      BY <1>4
    <3>2. CASE h # g
      BY <1>1, <1>11, <2>2, <3>1, <3>2 DEF OutOK
    <3>3. CASE h = g
      BY <1>11, <3>1, <3>3 DEF e
    <3> QED
      BY <3>2, <3>3
  <2>3. \A p \in DOMAIN out' :
          /\ out'[p].file \in visited'
          /\ out'[p].line # 0 =>
               /\ (out[p].line \in PassedLines(out[p].file))'
               /\ lines[out'[p].file][out'[p].line] = Text
    BY <2>1 DEF PassedLines
  <2> QED
    BY <1>14, <2>2, <2>3 DEF OutOK
<1>16. PassedOK'
  <2> SUFFICES ASSUME NEW h \in visited', NEW i \in PassedLines(h)', lines[h][i] # Text
               PROVE  /\ lines[h][i] \in visited'
                      /\ lines[h][i] \notin Reach(lines[h][i]) =>
                           \A a \in DOMAIN calls' : calls'[a].file = lines[h][i] =>
                             \E b \in DOMAIN calls' :
                               a < b /\ calls'[b].file = h /\ i = calls'[b].line - 1
    BY <1>6 DEF PassedOK
  <2>1. h # g /\ h \in visited
    BY <1>11
  <2>2. CASE i \in PassedLines(h)
    <3>1. /\ lines[h][i] \in visited
          /\ lines[h][i] \notin Reach(lines[h][i]) =>
               \A a \in DOMAIN calls : calls[a].file = lines[h][i] =>
                 \E b \in DOMAIN calls : a < b /\ calls[b].file = h /\ i = calls[b].line - 1
      BY <2>1, <2>2 DEF PassedOK
    <3>2. ASSUME lines[h][i] \notin Reach(lines[h][i]),
                 NEW a \in DOMAIN calls', calls'[a].file = lines[h][i]
          PROVE  \E b \in DOMAIN calls' :
                   a < b /\ calls'[b].file = h /\ i = calls'[b].line - 1
      <4>1. PICK c \in DOMAIN calls : a = c + 1
        BY <1>1, <1>7, <3>1, <3>2
      <4>2. PICK d \in DOMAIN calls : c < d /\ calls[d].file = h /\ i = calls[d].line - 1
        BY <1>1, <3>1, <3>2, <4>1
      <4>3. d # 1 /\ d + 1 \in DOMAIN calls' /\ a < d + 1
        BY <1>8, <4>1, <4>2
      <4>4. calls'[d + 1].file = h /\ i = calls'[d + 1].line - 1
        BY <1>1, <4>2, <4>3
      <4> QED
        BY <4>3, <4>4
    <3> QED
      BY <3>1, <3>2
  <2>3. CASE /\ calls # <<>> /\ h = calls[1].file /\ i = calls[1].line
             /\ lines[h][i] = g
    <3>1. 1 \in DOMAIN calls /\ calls[1].line \in Nat
      BY <2>3, HeadFacts
    <3>2. 2 \in DOMAIN calls' /\ calls'[2].file = h /\ i = calls'[2].line - 1
      <4>1. calls'[1 + 1].file = calls[1].file /\ calls'[1 + 1].line = calls[1].line + 1
        BY <1>1, <3>1
      <4>2. 1 + 1 \in DOMAIN calls'
        BY <1>8, <3>1
      <4> QED
        BY <2>3, <3>1, <4>1, <4>2
    <3>3. \A a \in DOMAIN calls' : calls'[a].file = g => a = 1
      BY <1>1, <1>7, <1>9
    <3> QED
      BY <2>3, <3>2, <3>3
  <2> QED
    BY <1>11, <2>1, <2>2, <2>3
<1> QED
  BY <1>5, <1>10, <1>14, <1>15, <1>16

\* A header comes to its end.
LEMMA EndKeeps ==
  ASSUME AmalgamInv, calls # <<>>, calls' = Tail(calls),
         UNCHANGED <<lines, visited, out>>, roots' \in Seq(Headers),
         calls[1].line > Len(lines[calls[1].file])
  PROVE  AmalgamInv'
<1> USE DEF AmalgamInv
<1> DEFINE n == Len(calls)
<1>1. /\ n \in Nat /\ n >= 1 /\ DOMAIN calls = 1..n
      /\ calls' \in Seq(InlineCall) /\ DOMAIN calls' = 1..(n - 1)
      /\ \A a \in 1..(n - 1) : calls'[a] = calls[a + 1]
  <2>1. calls \in Seq(InlineCall)
    BY DEF AmalgamType
  <2>2. /\ Tail(calls) \in Seq(InlineCall) /\ Len(Tail(calls)) = Len(calls) - 1
        /\ \A a \in 1..(Len(calls) - 1) : Tail(calls)[a] = calls[a + 1]
    BY <2>1, HeadTailProperties
  <2> QED
    BY <2>2, HeadFacts, LenProperties
<1> HIDE DEF n
<1>2. \A a \in DOMAIN calls' : a + 1 \in DOMAIN calls /\ a + 1 # 1 /\ a \in Nat
  BY <1>1
<1>3. \A b \in DOMAIN calls : b = 1 \/ (b - 1 \in DOMAIN calls' /\ (b - 1) + 1 = b /\ b \in Nat)
  BY <1>1
<1>4. \A h : Reach(h)' = Reach(h)
  BY SameReach
<1>5. ASSUME NEW h PROVE PassedLines(h)' = PassedLines(h)
  <2>1. ASSUME NEW i \in PassedLines(h) PROVE i \in PassedLines(h)'
    BY <1>1, <1>2, <2>1 DEF PassedLines
  <2>2. ASSUME NEW i \in PassedLines(h)' PROVE i \in PassedLines(h)
    <3>1. i \in DOMAIN lines[h]
      BY <2>2 DEF PassedLines
    <3>2. ASSUME NEW b \in DOMAIN calls, calls[b].file = h PROVE i < calls[b].line
      <4>1. CASE b = 1
        <5>1. /\ DOMAIN lines[h] = 1..Len(lines[h]) /\ Len(lines[h]) \in Nat
              /\ calls[b].line \in Nat /\ calls[b].line > Len(lines[h])
          BY <3>2, <4>1, HeadFacts
        <5> QED
          BY <3>1, <5>1
      <4>2. CASE b # 1
        <5>1. b - 1 \in DOMAIN calls' /\ calls'[b - 1] = calls[b]
          BY <1>1, <1>3, <4>2
        <5> QED
          BY <2>2, <3>2, <5>1 DEF PassedLines
      <4> QED
        BY <4>1, <4>2
    <3> QED
      BY <3>1, <3>2 DEF PassedLines
  <2> QED
    BY <2>1, <2>2
<1>6. AmalgamType'
  BY <1>1 DEF AmalgamType
<1>7. CallsOK'
  <2>1. \A a, b \in DOMAIN calls' : a < b => a + 1 < b + 1
    BY <1>2
  <2> QED
    BY <1>1, <1>2, <1>4, <2>1 DEF CallsOK
<1>8. OutOK'
  <2>1. \A p \in DOMAIN out :
          out[p].line # 0 => (out[p].line \in PassedLines(out[p].file))'
    <3> SUFFICES ASSUME NEW p \in DOMAIN out, NEW h, h = out[p].file,
                        NEW m, m = out[p].line, m # 0
                 PROVE  m \in PassedLines(h)'
      BY DEF PassedLines
    <3> QED
      BY <1>5 DEF OutOK
  <2> QED
    BY <1>5, <2>1 DEF OutOK
<1>9. OrderOK'
  BY <1>4 DEF OrderOK
<1>10. PassedOK'
  <2> SUFFICES ASSUME NEW h \in visited, NEW i \in PassedLines(h), lines[h][i] # Text
               PROVE  /\ lines[h][i] \in visited
                      /\ lines[h][i] \notin Reach(lines[h][i]) =>
                           \A a \in DOMAIN calls' : calls'[a].file = lines[h][i] =>
                             \E b \in DOMAIN calls' :
                               a < b /\ calls'[b].file = h /\ i = calls'[b].line - 1
    BY <1>4, <1>5 DEF PassedOK
  <2>1. /\ lines[h][i] \in visited
        /\ lines[h][i] \notin Reach(lines[h][i]) =>
             \A a \in DOMAIN calls : calls[a].file = lines[h][i] =>
               \E b \in DOMAIN calls : a < b /\ calls[b].file = h /\ i = calls[b].line - 1
    BY DEF PassedOK
  <2>2. ASSUME lines[h][i] \notin Reach(lines[h][i]),
               NEW a \in DOMAIN calls', calls'[a].file = lines[h][i]
        PROVE  \E b \in DOMAIN calls' :
                 a < b /\ calls'[b].file = h /\ i = calls'[b].line - 1
    <3>1. a + 1 \in DOMAIN calls /\ calls[a + 1].file = lines[h][i] /\ a \in Nat
      BY <1>1, <1>2, <2>2
    <3>2. PICK b \in DOMAIN calls : a + 1 < b /\ calls[b].file = h /\ i = calls[b].line - 1
      BY <2>1, <2>2, <3>1
    <3>3. b # 1 /\ b \in Nat /\ b >= 1
      BY <1>1, <1>2, <2>2, <3>1, <3>2
    <3>4. b - 1 \in DOMAIN calls' /\ calls'[b - 1] = calls[b] /\ a < b - 1
      BY <1>1, <1>3, <3>1, <3>2, <3>3
    <3> QED
      BY <3>2, <3>4
  <2> QED
    BY <2>1, <2>2
<1> QED
  BY <1>6, <1>7, <1>8, <1>9, <1>10

LEMMA InlineLineKeeps ==
  ASSUME AmalgamInv, InlineLine
  PROVE  AmalgamInv'
<1> DEFINE f == calls[1].file
           l == calls[1].line
<1>1. AmalgamType /\ calls # <<>> /\ UNCHANGED <<lines, roots>>
  BY DEF InlineLine, AmalgamInv
<1>2. roots' \in Seq(Headers) /\ Head(calls) = calls[1]
  BY <1>1, HeadFacts DEF AmalgamType
<1>3. CASE l > Len(lines[f])
  BY <1>1, <1>2, <1>3, EndKeeps DEF InlineLine
<1>4. CASE ~(l > Len(lines[f]))
  <2>1. /\ l <= Len(lines[f]) /\ l \in DOMAIN lines[f]
        /\ lines[f][l] \in Headers \cup {Text}
    <3>1. l <= Len(lines[f]) /\ l \in 1..Len(lines[f]) /\ f \in Headers
      BY <1>1, <1>4, HeadFacts
    <3>2. lines[f] \in Seq(Headers \cup {Text})
      BY <1>1, <3>1 DEF AmalgamType
    <3> QED
      BY <3>1, <3>2, ElementOfSeq, LenProperties
  <2>2. CASE lines[f][l] = Text
    <3>1. out' = Append(out, calls[1]) /\ calls' = Advanced /\ UNCHANGED visited
      BY <1>2, <1>4, <2>2 DEF InlineLine
    <3> QED
      BY <1>1, <1>2, <2>1, <2>2, <3>1, TextKeeps
  <2>3. CASE lines[f][l] # Text /\ lines[f][l] \in visited
    <3>1. calls' = Advanced /\ UNCHANGED <<visited, out>>
      BY <1>2, <1>4, <2>3 DEF InlineLine
    <3> QED
      BY <1>1, <1>2, <2>1, <2>3, <3>1, SkipKeeps
  <2>4. CASE lines[f][l] # Text /\ lines[f][l] \notin visited
    <3>1. /\ Inline(lines[f][l])
          /\ calls' = <<[file |-> lines[f][l], line |-> 1]>> \o Advanced
      BY <1>2, <1>4, <2>4 DEF InlineLine
    <3>2. PICK g : g = lines[f][l]
      OBVIOUS
    <3>3. g \in Headers \ visited
      BY <2>1, <2>4, <3>2
    <3>4. /\ visited' = visited \cup {g} /\ out' = Append(out, [file |-> g, line |-> 0])
          /\ calls' = <<[file |-> g, line |-> 1]>> \o Advanced
      BY <3>1, <3>2 DEF Inline
    <3>5. Entered(g)
      BY <1>1, <2>1, <3>2, <3>3, <3>4, IncludeEntered
    <3> QED
      BY <1>1, <1>2, <3>4, <3>5, EnterKeeps
  <2> QED
    BY <2>2, <2>3, <2>4
<1> QED
  BY <1>3, <1>4

LEMMA NextRootKeeps ==
  ASSUME AmalgamInv, NextRoot
  PROVE  AmalgamInv'
<1>1. /\ calls = <<>> /\ roots # <<>> /\ roots' = Tail(roots) /\ UNCHANGED lines
      /\ AmalgamType
  BY DEF NextRoot, AmalgamInv
<1>2. Head(roots) \in Headers /\ roots' \in Seq(Headers)
  BY <1>1, HeadTailProperties DEF AmalgamType
<1>3. CASE Head(roots) \in visited
  <2>1. UNCHANGED <<lines, calls, visited, out>>
    BY <1>1, <1>3 DEF NextRoot
  <2>2. AmalgamType'
    BY <1>1, <1>2, <2>1 DEF AmalgamType
  <2>3. CallsOK' /\ OutOK' /\ PassedOK' /\ OrderOK'
    BY <2>1 DEF AmalgamInv, CallsOK, OutOK, PassedOK, OrderOK, Reach, Includes, PassedLines
  <2> QED
    BY <2>2, <2>3 DEF AmalgamInv
<1>4. CASE Head(roots) \notin visited
  <2>1. PICK g : g = Head(roots)
    OBVIOUS
  <2>2. g \in Headers \ visited
    BY <1>2, <1>4, <2>1
  <2>3. /\ visited' = visited \cup {g} /\ out' = Append(out, [file |-> g, line |-> 0])
        /\ calls' = <<[file |-> g, line |-> 1]>>
    BY <1>4, <2>1 DEF NextRoot, Inline
  <2>4. Entered(g)
    BY <1>1, <2>2, <2>3, RootEntered
  <2> QED
    BY <1>1, <1>2, <2>3, <2>4, EnterKeeps
<1> QED
  BY <1>3, <1>4

LEMMA AmalgamIsExact ==
  ASSUME AmalgamInv
  PROVE  AmalgamateExact
<1> USE DEF AmalgamInv
<1> SUFFICES ASSUME calls = <<>>
             PROVE  /\ \A i, j \in DOMAIN out : out[i] = out[j] => i = j
                    /\ ToSet(out) = UNION {{[file |-> h, line |-> i] : i \in TextOf(h) \cup {0}} :
                                             h \in visited}
                    /\ \A h \in visited : Includes(h) \subseteq visited
                    /\ \A p, q \in DOMAIN out :
                         (/\ out[q].file \notin Reach(out[q].file)
                          /\ \E i \in 1..(out[p].line - 1) : lines[out[p].file][i] = out[q].file)
                           => q < p
  BY DEF AmalgamateExact
<1>1. DOMAIN calls = {}
  OBVIOUS
<1>2. \A h : PassedLines(h) = DOMAIN lines[h]
  BY <1>1 DEF PassedLines
<1>3. \A i, j \in DOMAIN out : out[i] = out[j] => i = j
  BY DEF OutOK
<1>4. ASSUME NEW e \in ToSet(out)
      PROVE  \E h \in visited : \E i \in TextOf(h) \cup {0} : e = [file |-> h, line |-> i]
  <2>1. PICK p \in DOMAIN out : e = out[p]
    BY <1>4 DEF ToSet
  <2>2. /\ out[p].file \in visited
        /\ out[p] = [file |-> out[p].file, line |-> out[p].line]
    BY <2>1, OutIs
  <2>3. out[p].line \in TextOf(out[p].file) \cup {0}
    BY <1>2, <2>1 DEF OutOK, TextOf
  <2> QED
    BY <2>1, <2>2, <2>3
<1>5. ASSUME NEW h \in visited, NEW i \in TextOf(h) \cup {0}
      PROVE  [file |-> h, line |-> i] \in ToSet(out)
  <2>1. CASE i = 0
    BY <1>5, <2>1 DEF OutOK
  <2>2. CASE i \in TextOf(h)
    BY <1>2, <1>5, <2>2 DEF OutOK, TextOf
  <2> QED
    BY <1>5, <2>1, <2>2
<1>6. ToSet(out) = UNION {{[file |-> h, line |-> i] : i \in TextOf(h) \cup {0}} : h \in visited}
  <2> DEFINE V(h) == {[file |-> h, line |-> i] : i \in TextOf(h) \cup {0}}
             U == UNION {V(h) : h \in visited}
  <2>1. ASSUME NEW e \in ToSet(out) PROVE e \in U
    <3>1. PICK h \in visited : \E i \in TextOf(h) \cup {0} : e = [file |-> h, line |-> i]
      BY <1>4, <2>1
    <3>2. e \in V(h)
      BY <3>1
    <3> HIDE DEF V
    <3> QED
      BY <3>1, <3>2
  <2>2. ASSUME NEW e \in U PROVE e \in ToSet(out)
    <3> HIDE DEF V
    <3>1. PICK h \in visited : e \in V(h)
      BY <2>2
    <3>2. PICK i \in TextOf(h) \cup {0} : e = [file |-> h, line |-> i]
      BY <3>1 DEF V
    <3> QED
      BY <1>5, <3>1, <3>2
  <2>3. ToSet(out) = U
    <3> HIDE DEF U
    <3> QED
      BY <2>1, <2>2
  <2> QED
    BY <2>3
<1>7. ASSUME NEW h \in visited, NEW x \in Includes(h) PROVE x \in visited
  <2>1. PICK i \in DOMAIN lines[h] : x = lines[h][i] /\ lines[h][i] # Text
    BY <1>7 DEF Includes, ToSet
  <2> QED
    BY <1>2, <1>7, <2>1 DEF PassedOK
<1>8. \A p, q \in DOMAIN out :
        (/\ out[q].file \notin Reach(out[q].file)
         /\ \E i \in 1..(out[p].line - 1) : lines[out[p].file][i] = out[q].file)
          => q < p
  BY DEF OrderOK
<1> QED
  BY <1>3, <1>6, <1>7, <1>8

\* Every header reached is in the single header once and whole, its includes are
\* too, and the text of a header that does not reach itself stands before the
\* text that follows any include of it (amalgamate.py:13-18): for every tree of
\* headers, cyclic ones too, and every list of roots.
THEOREM SingleHeaderIsExact == Spec => []AmalgamateExact
<1>1. Init => AmalgamInv
  BY InitAmalgam
<1>2. AmalgamInv /\ [Next]_vars => AmalgamInv'
  <2> SUFFICES ASSUME AmalgamInv, [Next]_vars PROVE AmalgamInv'
    OBVIOUS
  <2>1. CASE Amalgamating
    BY <2>1, InlineLineKeeps, NextRootKeeps DEF Amalgamating, AmalgamateNext
  <2>2. CASE UNCHANGED amalgam
    <3>1. UNCHANGED <<lines, roots, calls, visited, out>>
      BY <2>2 DEF amalgam
    <3>2. AmalgamType'
      BY <3>1 DEF AmalgamInv, AmalgamType
    <3>3. CallsOK' /\ OutOK' /\ PassedOK' /\ OrderOK'
      BY <3>1 DEF AmalgamInv, CallsOK, OutOK, PassedOK, OrderOK, Reach, Includes, PassedLines
    <3> QED
      BY <3>2, <3>3 DEF AmalgamInv
  <2> QED
    BY <2>1, <2>2 DEF Next, vars, Sweeping, Linting, Bridging, Converting
<1>3. AmalgamInv => AmalgamateExact
  BY AmalgamIsExact
<1> QED
  BY <1>1, <1>2, <1>3, PTL DEF Spec

-----------------------------------------------------------------------------
\* The lint.

CheckNames == {"jmpxx-discarded-result", "jmpxx-manual-propagation", "jmpxx-unchecked-access"}
LintFinding == [unit : Nat, at : Nat, check : CheckNames]

\* The place Sorted gives finding i of A.
Place(A, i) ==
  {j \in DOMAIN A : Before(A[j], A[i]) \/ (~Before(A[i], A[j]) /\ j <= i)}

\* Before is a strict order in which two findings at different places compare.
LEMMA BeforeOrders ==
  ASSUME NEW f \in LintFinding, NEW g \in LintFinding, NEW h \in LintFinding
  PROVE  /\ ~Before(f, f)
         /\ Before(f, g) => ~Before(g, f)
         /\ Before(f, g) /\ Before(g, h) => Before(f, h)
         /\ ~Before(f, g) /\ ~Before(g, h) => ~Before(f, h)
         /\ Before(f, g) /\ ~Before(h, g) => Before(f, h)
         /\ ~Before(g, f) /\ Before(g, h) => Before(f, h)
BY DEF LintFinding, Before

\* The place of a finding holds the places of those that stand before it.
LEMMA PlacesNest ==
  ASSUME NEW A, DOMAIN A \subseteq Nat, \A i \in DOMAIN A : A[i] \in LintFinding,
         NEW i \in DOMAIN A, NEW k \in DOMAIN A,
         Before(A[i], A[k]) \/ (~Before(A[k], A[i]) /\ i < k)
  PROVE  /\ Place(A, i) \subseteq Place(A, k)
         /\ k \in Place(A, k) /\ k \notin Place(A, i)
<1>1. /\ ~Before(A[k], A[k]) /\ i \in Nat /\ k \in Nat
  BY BeforeOrders
<1>2. k \in Place(A, k)
  BY <1>1 DEF Place
<1>3. ~Before(A[k], A[i]) /\ (Before(A[i], A[k]) \/ i < k)
  BY BeforeOrders
<1>4. k \notin Place(A, i)
  BY <1>1, <1>3 DEF Place
<1>5. ASSUME NEW j \in Place(A, i) PROVE j \in Place(A, k)
  <2>1. j \in DOMAIN A /\ j \in Nat
    BY DEF Place
  <2>2. CASE Before(A[j], A[i])
    <3>1. Before(A[j], A[k])
      BY <1>3, <2>1, <2>2, BeforeOrders
    <3> QED
      BY <2>1, <3>1 DEF Place
  <2>3. CASE ~Before(A[i], A[j]) /\ j <= i /\ Before(A[i], A[k])
    <3>1. Before(A[j], A[k])
      BY <2>1, <2>3, BeforeOrders
    <3> QED
      BY <2>1, <3>1 DEF Place
  <2>4. CASE ~Before(A[i], A[j]) /\ j <= i /\ i < k
    <3>1. ~Before(A[k], A[j])
      BY <1>3, <2>1, <2>4, BeforeOrders
    <3>2. j <= k
      BY <1>1, <2>1, <2>4
    <3> QED
      BY <2>1, <3>1, <3>2 DEF Place
  <2> QED
    BY <1>3, <2>2, <2>3, <2>4 DEF Place
<1> QED
  BY <1>2, <1>4, <1>5

\* Sorted puts every finding in one place, none before one that precedes it.
LEMMA SortedIs ==
  ASSUME NEW A, DOMAIN A \subseteq Nat, IsFiniteSet(DOMAIN A),
         \A i \in DOMAIN A : A[i] \in LintFinding
  PROVE  \E c \in Bijection(1..Cardinality(DOMAIN A), DOMAIN A) :
           /\ Sorted(A) = [k \in 1..Cardinality(DOMAIN A) |-> A[c[k]]]
           /\ \A j, k \in 1..Cardinality(DOMAIN A) :
                j < k => ~Before(A[c[k]], A[c[j]])
<1> DEFINE D == DOMAIN A
           n == Cardinality(D)
           Rank(i) == Cardinality(Place(A, i))
           r == [i \in D |-> Rank(i)]
           c == [k \in 1..n |-> CHOOSE i \in D : Rank(i) = k]
<1>1. n \in Nat /\ IsFiniteSet(1..n) /\ Cardinality(1..n) = n
  <2>1. n \in Nat
    BY FS_CardinalityType
  <2>2. IsFiniteSet(1..n) /\ Cardinality(1..n) = IF 1 > n THEN 0 ELSE n - 1 + 1
    BY <2>1, FS_Interval
  <2> QED
    BY <2>1, <2>2
<1>2. ASSUME NEW i \in D
      PROVE  /\ Place(A, i) \subseteq D /\ i \in Place(A, i)
             /\ IsFiniteSet(Place(A, i)) /\ Rank(i) \in 1..n
  <2>1. Place(A, i) \subseteq D /\ i \in Place(A, i)
    BY <1>2, BeforeOrders DEF Place
  <2>2. IsFiniteSet(Place(A, i)) /\ Rank(i) \in Nat /\ Rank(i) <= n
    BY <2>1, FS_Subset, FS_CardinalityType
  <2>3. Rank(i) # 0
    BY <2>1, <2>2, FS_EmptySet
  <2> QED
    BY <1>1, <2>1, <2>2, <2>3
<1>3. ASSUME NEW i \in D, NEW k \in D,
             Before(A[i], A[k]) \/ (~Before(A[k], A[i]) /\ i < k)
      PROVE  Rank(i) < Rank(k)
  <2>1. Place(A, i) \subseteq Place(A, k) /\ Place(A, i) # Place(A, k)
    BY <1>3, PlacesNest
  <2>2. IsFiniteSet(Place(A, k))
    BY <1>2, <1>3
  <2>3. Rank(i) <= Rank(k) /\ Rank(i) # Rank(k)
    BY <2>1, <2>2, FS_Subset
  <2>4. Rank(i) \in Nat /\ Rank(k) \in Nat
    BY <1>1, <1>2, <1>3
  <2> QED
    BY <2>3, <2>4
<1>4. ASSUME NEW i \in D, NEW k \in D, Rank(i) = Rank(k) PROVE i = k
  <2>1. /\ i \in Nat /\ k \in Nat /\ Rank(i) \in Nat /\ Rank(k) \in Nat
    BY <1>1, <1>2, <1>4
  <2>2. CASE i < k
    BY <1>3, <1>4, <2>1, <2>2, BeforeOrders
  <2>3. CASE k < i
    BY <1>3, <1>4, <2>1, <2>3, BeforeOrders
  <2> QED
    BY <2>1, <2>2, <2>3
<1> HIDE DEF D, n, Rank
<1>5. r \in Injection(D, 1..n)
  BY <1>2, <1>4 DEF Injection, IsInjective
<1>6. r \in Surjection(D, 1..n)
  BY <1>1, <1>5, FS_Injection DEF n
<1>7. \A k \in 1..n : \E i \in D : Rank(i) = k
  BY <1>6 DEF Surjection
<1>8. \A k \in 1..n : c[k] \in D /\ Rank(c[k]) = k
  BY <1>7
<1>9. \A i \in D : c[Rank(i)] = i
  BY <1>2, <1>4, <1>8
<1> HIDE DEF c
<1>10. c \in [1..n -> D]
  BY <1>8 DEF c
<1>11. c \in Bijection(1..n, D)
  <2>1. \A j, k \in 1..n : c[j] = c[k] => j = k
    BY <1>8
  <2>2. \A i \in D : \E k \in 1..n : c[k] = i
    BY <1>2, <1>9
  <2> QED
    BY <1>10, <2>1, <2>2 DEF Bijection, Injection, Surjection, IsInjective
<1>12. Sorted(A) = [k \in 1..n |-> A[c[k]]]
  BY DEF Sorted, c, n, D, Rank, Place
<1>13. ASSUME NEW j \in 1..n, NEW k \in 1..n, j < k PROVE ~Before(A[c[k]], A[c[j]])
  <2>1. /\ c[j] \in D /\ c[k] \in D /\ Rank(c[j]) = j /\ Rank(c[k]) = k
    BY <1>8, <1>13
  <2>2. ASSUME Before(A[c[k]], A[c[j]]) PROVE FALSE
    <3>1. k < j
      BY <1>3, <2>1, <2>2
    <3> QED
      BY <1>1, <1>13, <3>1
  <2> QED
    BY <2>2
<1> QED
  BY <1>11, <1>12, <1>13 DEF n, D

\* The walk has come past node i of unit u.
Passed(u, i) ==
  /\ u \in 1..Len(units) /\ i \in 1..Len(units[u])
  /\ u < unit \/ (u = unit /\ i < at)

\* What the code flags: a test is what its collector is registered for.
Flagged(u, i) ==
  LET node == units[u][i]
  IN  /\ node.where = "file"
      /\ \/ node.kind \in {"discard", "forward"}
         \/ /\ node.kind = "access"
            /\ \A j \in DOMAIN units[u] :
                 units[u][j].var = node.var => units[u][j].kind \notin Collected

\* The reports are exactly what is flagged.
LintFlags ==
  /\ printed # <<>> =>
       /\ {printed[1][k].at : k \in DOMAIN printed[1]} =
            {i \in DOMAIN units[1] : Flagged(1, i)}
       /\ \A j, k \in DOMAIN printed[1] : j < k => printed[1][j].at < printed[1][k].at
  /\ \A k \in DOMAIN printed : \A f \in ToSet(printed[k]) : Flagged(f.unit, f.at)

LintType ==
  /\ units \in Seq(Seq(Node))
  /\ unit \in Nat \ {0} /\ at \in Nat \ {0}
  /\ findings_ \in Seq(LintFinding)
  /\ pending_ \in Seq([finding : LintFinding, var : Vars])
  /\ printed \in Seq(Seq(LintFinding))
  /\ Len(printed) = unit - 1
  /\ unit <= Len(units) => at <= Len(units[unit]) + 1

\* Every finding is flagged; every access that waits is one written in its
\* file; every guard the walk has come past is known.
FoundOK ==
  \A k \in 1..Len(findings_) :
    /\ Passed(findings_[k].unit, findings_[k].at)
    /\ Flagged(findings_[k].unit, findings_[k].at)
PendingOK ==
  \A k \in 1..Len(pending_) :
    LET f == pending_[k].finding IN
      /\ Passed(f.unit, f.at)
      /\ units[f.unit][f.at].kind = "access" /\ units[f.unit][f.at].where = "file"
      /\ units[f.unit][f.at].var = pending_[k].var
CheckedOK ==
  \A u, i : Passed(u, i) /\ units[u][i].kind \in Collected => units[u][i].var \in checked_

\* In the first unit nothing is carried over: what has been checked was checked
\* there, and every node that may be a mistake is in one of the two lists, once.
FirstOK ==
  unit = 1 =>
    /\ \A v \in checked_ : \E i : Passed(1, i) /\ units[1][i].kind \in Collected
                                    /\ units[1][i].var = v
    /\ \A k \in 1..Len(findings_) : units[1][findings_[k].at].kind \in {"discard", "forward"}
    /\ \A j, k \in 1..Len(findings_) : findings_[j].at = findings_[k].at => j = k
    /\ \A j, k \in 1..Len(pending_) : pending_[j].finding.at = pending_[k].finding.at => j = k
    /\ \A i : Passed(1, i) /\ units[1][i].where = "file" =>
         /\ units[1][i].kind \in {"discard", "forward"} =>
              \E k \in 1..Len(findings_) : findings_[k].at = i
         /\ units[1][i].kind = "access" =>
              \E k \in 1..Len(pending_) : pending_[k].finding.at = i

LintInv == LintType /\ FoundOK /\ PendingOK /\ CheckedOK /\ FirstOK /\ LintFlags

\* What a step of the walk over node i of unit u comes past.
LEMMA WalkPasses ==
  ASSUME LintType, Walking, at' = at + 1, UNCHANGED <<units, unit>>
  PROVE  /\ Here \in Node /\ Here = units[unit][at]
         /\ unit \in 1..Len(units) /\ at \in 1..Len(units[unit])
         /\ at' <= Len(units[unit]) + 1
         /\ ~Passed(unit, at)
         /\ \A u, i : Passed(u, i)' <=> (Passed(u, i) \/ (u = unit /\ i = at))
<1>1. /\ unit \in 1..Len(units) /\ at \in 1..Len(units[unit])
      /\ Len(units) \in Nat /\ Len(units[unit]) \in Nat
  <2>1. Len(units) \in Nat /\ unit \in 1..Len(units)
    BY DEF LintType, Walking
  <2>2. units[unit] \in Seq(Node)
    BY <2>1, ElementOfSeq DEF LintType
  <2> QED
    BY <2>1, <2>2 DEF LintType, Walking
<1>2. Here \in Node /\ Here = units[unit][at]
  BY <1>1 DEF LintType, Here
<1>3. ASSUME NEW u, NEW i
      PROVE  Passed(u, i)' <=> (Passed(u, i) \/ (u = unit /\ i = at))
  <2>1. Passed(u, i)' <=> /\ u \in 1..Len(units) /\ i \in 1..Len(units[u])
                          /\ u < unit \/ (u = unit /\ i < at + 1)
    BY DEF Passed
  <2>2. CASE u = unit
    BY <1>1, <2>1, <2>2 DEF Passed
  <2>3. CASE u # unit
    BY <2>1, <2>3 DEF Passed
  <2> QED
    BY <2>2, <2>3
<1>4. ~Passed(unit, at)
  BY <1>1 DEF Passed, LintType
<1> QED
  BY <1>1, <1>2, <1>3, <1>4

\* Mistakes are a matter of the sources alone, and so are the reports made.
LEMMA ReportsKeep ==
  ASSUME LintFlags, UNCHANGED <<units, printed>>
  PROVE  LintFlags'
BY DEF LintFlags, Flagged

\* What every step of the walk does, by the node it comes past: f is the finding
\* it may make of it.
Walked(f) ==
  /\ Walking /\ at' = at + 1 /\ UNCHANGED <<units, unit, printed>>
  /\ f \in LintFinding /\ f.unit = unit /\ f.at = at
  /\ checked_' = IF Here.kind \in Collected THEN checked_ \cup {Here.var} ELSE checked_
  /\ findings_' = IF Here.where = "file" /\ Here.kind \in {"discard", "forward"}
                  THEN Append(findings_, f) ELSE findings_
  /\ pending_' = IF Here.where = "file" /\ Here.kind = "access"
                 THEN Append(pending_, [finding |-> f, var |-> Here.var]) ELSE pending_

LEMMA WalkSteps ==
  ASSUME LintType, RunDiscard \/ RunCondition \/ RunAccess
  PROVE  \E f : Walked(f)
<1>1. Walking
  BY DEF RunDiscard, RunCondition, RunAccess
<1>2. CASE RunDiscard
  <2>1. PICK f : f = Finding("jmpxx-discarded-result")
    OBVIOUS
  <2>2. f \in LintFinding /\ f.unit = unit /\ f.at = at
    BY <2>1 DEF Finding, LintFinding, CheckNames, LintType
  <2>3. /\ at' = at + 1 /\ UNCHANGED <<units, unit, printed>>
        /\ checked_' = IF Here.kind \in Collected THEN checked_ \cup {Here.var} ELSE checked_
    BY <1>2 DEF RunDiscard, Collected
  <2>4. findings_' = IF Here.where = "file" /\ Here.kind \in {"discard", "forward"}
                     THEN Append(findings_, f) ELSE findings_
    BY <1>2, <2>1 DEF RunDiscard, record
  <2>5. pending_' = IF Here.where = "file" /\ Here.kind = "access"
                    THEN Append(pending_, [finding |-> f, var |-> Here.var]) ELSE pending_
    BY <1>2, <2>1 DEF RunDiscard
  <2> QED
    BY <1>1, <2>2, <2>3, <2>4, <2>5 DEF Walked
<1>3. CASE RunCondition
  <2>1. PICK f : f = Finding("jmpxx-manual-propagation")
    OBVIOUS
  <2>2. f \in LintFinding /\ f.unit = unit /\ f.at = at
    BY <2>1 DEF Finding, LintFinding, CheckNames, LintType
  <2>3. /\ at' = at + 1 /\ UNCHANGED <<units, unit, printed>>
        /\ checked_' = IF Here.kind \in Collected THEN checked_ \cup {Here.var} ELSE checked_
    BY <1>3 DEF RunCondition, Collected
  <2>4. findings_' = IF Here.where = "file" /\ Here.kind \in {"discard", "forward"}
                     THEN Append(findings_, f) ELSE findings_
    BY <1>3, <2>1 DEF RunCondition, record
  <2>5. pending_' = IF Here.where = "file" /\ Here.kind = "access"
                    THEN Append(pending_, [finding |-> f, var |-> Here.var]) ELSE pending_
    BY <1>3, <2>1 DEF RunCondition
  <2> QED
    BY <1>1, <2>2, <2>3, <2>4, <2>5 DEF Walked
<1>4. CASE RunAccess
  <2>1. PICK f : f = Finding("jmpxx-unchecked-access")
    OBVIOUS
  <2>2. f \in LintFinding /\ f.unit = unit /\ f.at = at
    BY <2>1 DEF Finding, LintFinding, CheckNames, LintType
  <2>3. /\ at' = at + 1 /\ UNCHANGED <<units, unit, printed>>
        /\ checked_' = IF Here.kind \in Collected THEN checked_ \cup {Here.var} ELSE checked_
    BY <1>4 DEF RunAccess, Collected
  <2>4. findings_' = IF Here.where = "file" /\ Here.kind \in {"discard", "forward"}
                     THEN Append(findings_, f) ELSE findings_
    BY <1>4, <2>1 DEF RunAccess
  <2>5. pending_' = IF Here.where = "file" /\ Here.kind = "access"
                    THEN Append(pending_, [finding |-> f, var |-> Here.var]) ELSE pending_
    BY <1>4, <2>1 DEF RunAccess
  <2> QED
    BY <1>1, <2>2, <2>3, <2>4, <2>5 DEF Walked
<1> QED
  BY <1>2, <1>3, <1>4

LEMMA WalkedKeepsType ==
  ASSUME LintType, NEW f, Walked(f)
  PROVE  LintType'
<1>1. /\ Here \in Node /\ at' <= Len(units[unit]) + 1
      /\ at' \in Nat \ {0} /\ UNCHANGED <<units, unit, printed>>
  BY WalkPasses DEF Walked, LintType
<1>2. findings_' \in Seq(LintFinding)
  BY AppendProperties DEF Walked, LintType
<1>3. pending_' \in Seq([finding : LintFinding, var : Vars])
  <2>1. CASE Here.kind = "access"
    <3>1. [finding |-> f, var |-> Here.var] \in [finding : LintFinding, var : Vars]
      BY <1>1, <2>1 DEF Node, Walked
    <3> QED
      BY <3>1, AppendProperties DEF Walked, LintType
  <2>2. CASE Here.kind # "access"
    BY <2>2 DEF Walked, LintType
  <2> QED
    BY <2>1, <2>2
<1> QED
  BY <1>1, <1>2, <1>3 DEF LintType

\* The lists before and after a step of the walk.
LEMMA WalkedLists ==
  ASSUME LintType, NEW f, Walked(f)
  PROVE  /\ \A k \in 1..Len(findings_) :
              k \in 1..Len(findings_') /\ findings_'[k] = findings_[k]
         /\ \A k \in 1..Len(findings_') :
              \/ k \in 1..Len(findings_) /\ findings_'[k] = findings_[k]
              \/ /\ k = Len(findings_) + 1 /\ findings_'[k] = f
                 /\ Here.where = "file" /\ Here.kind \in {"discard", "forward"}
         /\ \A k \in 1..Len(pending_) :
              k \in 1..Len(pending_') /\ pending_'[k] = pending_[k]
         /\ \A k \in 1..Len(pending_') :
              \/ k \in 1..Len(pending_) /\ pending_'[k] = pending_[k]
              \/ /\ k = Len(pending_) + 1
                 /\ pending_'[k] = [finding |-> f, var |-> Here.var]
                 /\ pending_'[k].finding = f
                 /\ Here.where = "file" /\ Here.kind = "access"
<1>1. Len(findings_) \in Nat /\ Len(pending_) \in Nat
  BY DEF LintType
<1>2. CASE Here.where = "file" /\ Here.kind \in {"discard", "forward"}
  <2>1. /\ Len(findings_') = Len(findings_) + 1
        /\ findings_'[Len(findings_) + 1] = f
        /\ \A k \in 1..Len(findings_) : findings_'[k] = findings_[k]
        /\ pending_' = pending_
    BY <1>2, AppendProperties DEF Walked, LintType
  <2> QED
    BY <1>1, <1>2, <2>1
<1>3. CASE Here.where = "file" /\ Here.kind = "access"
  <2>1. /\ Len(pending_') = Len(pending_) + 1
        /\ pending_'[Len(pending_) + 1] = [finding |-> f, var |-> Here.var]
        /\ \A k \in 1..Len(pending_) : pending_'[k] = pending_[k]
        /\ findings_' = findings_
    BY <1>3, AppendProperties DEF Walked, LintType
  <2> QED
    BY <1>1, <1>3, <2>1
<1>4. CASE ~(Here.where = "file" /\ Here.kind \in {"discard", "forward", "access"})
  <2>1. findings_' = findings_ /\ pending_' = pending_
    BY <1>4 DEF Walked
  <2> QED
    BY <2>1
<1> QED
  BY <1>2, <1>3, <1>4

\* Passed and Flagged after a step of the walk.
LEMMA WalkedPasses ==
  ASSUME LintType, NEW f, Walked(f)
  PROVE  /\ \A u, i : Passed(u, i)' <=> (Passed(u, i) \/ (u = unit /\ i = at))
         /\ \A u, i : Flagged(u, i)' <=> Flagged(u, i)
         /\ ~Passed(unit, at)
         /\ Here = units[unit][at]
         /\ UNCHANGED <<units, unit, printed>>
         /\ f \in LintFinding /\ f.unit = unit /\ f.at = at
<1>1. /\ \A u, i : Passed(u, i)' <=> (Passed(u, i) \/ (u = unit /\ i = at))
      /\ ~Passed(unit, at)
      /\ Here = units[unit][at]
      /\ UNCHANGED <<units, unit, printed>>
      /\ f \in LintFinding /\ f.unit = unit /\ f.at = at
  BY WalkPasses DEF Walked
<1>2. \A u, i : Flagged(u, i)' <=> Flagged(u, i)
  BY <1>1 DEF Flagged
<1> QED
  BY <1>1, <1>2

LEMMA WalkedKeepsFound ==
  ASSUME LintType, FoundOK, NEW f, Walked(f)
  PROVE  FoundOK'
<1>1. ASSUME NEW k \in 1..Len(findings_'), NEW g, g = findings_'[k]
      PROVE  Passed(g.unit, g.at)' /\ Flagged(g.unit, g.at)'
  <2>1. CASE k \in 1..Len(findings_) /\ g = findings_[k]
    BY <2>1, WalkedPasses DEF FoundOK
  <2>2. CASE g = f /\ Here.where = "file" /\ Here.kind \in {"discard", "forward"}
    <3>1. Flagged(unit, at)
      BY <2>2, WalkedPasses DEF Flagged
    <3> QED
      BY <2>2, <3>1, WalkedPasses
  <2> QED
    BY <1>1, <2>1, <2>2, WalkedLists
<1>2. \A k \in 1..Len(findings_') : \A g : g = findings_'[k] =>
        Passed(g.unit, g.at)' /\ Flagged(g.unit, g.at)'
  BY <1>1
<1> QED
  BY <1>2 DEF FoundOK, Passed, Flagged

LEMMA WalkedKeepsPending ==
  ASSUME LintType, PendingOK, NEW f, Walked(f)
  PROVE  PendingOK'
<1>1. ASSUME NEW k \in 1..Len(pending_'), NEW g, g = pending_'[k]
      PROVE  /\ Passed(g.finding.unit, g.finding.at)'
             /\ units[g.finding.unit][g.finding.at].kind = "access"
             /\ units[g.finding.unit][g.finding.at].where = "file"
             /\ units[g.finding.unit][g.finding.at].var = g.var
  <2>1. CASE k \in 1..Len(pending_) /\ g = pending_[k]
    BY <2>1, WalkedPasses DEF PendingOK
  <2>2. CASE /\ g = [finding |-> f, var |-> Here.var]
             /\ Here.where = "file" /\ Here.kind = "access"
    BY <2>2, WalkedPasses
  <2>3. \/ k \in 1..Len(pending_) /\ g = pending_[k]
        \/ /\ g = [finding |-> f, var |-> Here.var]
           /\ Here.where = "file" /\ Here.kind = "access"
    BY <1>1, WalkedLists
  <2> QED
    BY <2>1, <2>2, <2>3
<1>2. \A k \in 1..Len(pending_') : \A g : g = pending_'[k] =>
        /\ Passed(g.finding.unit, g.finding.at)'
        /\ units[g.finding.unit][g.finding.at].kind = "access"
        /\ units[g.finding.unit][g.finding.at].where = "file"
        /\ units[g.finding.unit][g.finding.at].var = g.var
  BY <1>1
<1>3. UNCHANGED units
  BY WalkedPasses
<1> QED
  BY <1>2, <1>3 DEF PendingOK, Passed

LEMMA WalkedKeepsChecked ==
  ASSUME LintType, CheckedOK, NEW f, Walked(f)
  PROVE  CheckedOK'
<1> SUFFICES ASSUME NEW u, NEW i, Passed(u, i)', units'[u][i].kind \in Collected
             PROVE  units'[u][i].var \in checked_'
  BY DEF CheckedOK, Collected
<1>1. UNCHANGED units
  BY WalkedPasses
<1>2. CASE Passed(u, i)
  BY <1>1, <1>2 DEF CheckedOK, Walked
<1>3. CASE u = unit /\ i = at
  BY <1>1, <1>3, WalkedPasses DEF Walked
<1> QED
  BY <1>2, <1>3, WalkedPasses

LEMMA WalkedKeepsFirst ==
  ASSUME LintType, FoundOK, PendingOK, FirstOK, NEW f, Walked(f)
  PROVE  FirstOK'
<1> SUFFICES ASSUME unit = 1 PROVE FirstOK'
  BY WalkedPasses DEF FirstOK
<1>1. /\ UNCHANGED <<units, unit>> /\ Here = units[1][at]
      /\ \A i : Passed(1, i)' <=> (Passed(1, i) \/ i = at)
      /\ ~Passed(1, at) /\ f.at = at /\ unit \in Nat
  BY WalkedPasses DEF LintType
<1>2. \A u, i : Passed(u, i) => u = 1
  BY DEF Passed, LintType
<1>3. \A k \in 1..Len(findings_) : Passed(1, findings_[k].at)
  BY <1>2 DEF FoundOK
<1>4. \A k \in 1..Len(pending_) : Passed(1, pending_[k].finding.at)
  BY <1>2 DEF PendingOK
<1>5. /\ \A k \in 1..Len(findings_) : units[1][findings_[k].at].kind \in {"discard", "forward"}
      /\ \A j, k \in 1..Len(findings_) : findings_[j].at = findings_[k].at => j = k
      /\ \A j, k \in 1..Len(pending_) : pending_[j].finding.at = pending_[k].finding.at => j = k
  BY DEF FirstOK
<1>6. \A v \in checked_' : \E i : Passed(1, i)' /\ units[1][i].kind \in Collected
                                    /\ units[1][i].var = v
  BY <1>1 DEF FirstOK, Walked
<1>7. ASSUME NEW k \in 1..Len(findings_')
      PROVE  units[1][findings_'[k].at].kind \in {"discard", "forward"}
  <2>1. CASE k \in 1..Len(findings_) /\ findings_'[k] = findings_[k]
    BY <1>5, <2>1
  <2>2. CASE findings_'[k] = f /\ Here.kind \in {"discard", "forward"}
    BY <1>1, <2>2
  <2> QED
    BY <2>1, <2>2, WalkedLists
<1>8. ASSUME NEW j \in 1..Len(findings_'), NEW k \in 1..Len(findings_'),
             findings_'[j].at = findings_'[k].at
      PROVE  j = k
  <2>1. /\ \/ j \in 1..Len(findings_) /\ findings_'[j] = findings_[j]
           \/ j = Len(findings_) + 1 /\ findings_'[j] = f
        /\ \/ k \in 1..Len(findings_) /\ findings_'[k] = findings_[k]
           \/ k = Len(findings_) + 1 /\ findings_'[k] = f
    BY WalkedLists
  <2>2. \A i \in 1..Len(findings_) : findings_[i].at # at
    BY <1>1, <1>3
  <2> QED
    BY <1>1, <1>5, <1>8, <2>1, <2>2
<1>9. ASSUME NEW j \in 1..Len(pending_'), NEW k \in 1..Len(pending_'),
             pending_'[j].finding.at = pending_'[k].finding.at
      PROVE  j = k
  <2>1. /\ \/ j \in 1..Len(pending_) /\ pending_'[j] = pending_[j]
           \/ j = Len(pending_) + 1 /\ pending_'[j].finding = f
        /\ \/ k \in 1..Len(pending_) /\ pending_'[k] = pending_[k]
           \/ k = Len(pending_) + 1 /\ pending_'[k].finding = f
    BY WalkedLists
  <2>2. \A i \in 1..Len(pending_) : pending_[i].finding.at # at
    BY <1>1, <1>4
  <2> QED
    BY <1>1, <1>5, <1>9, <2>1, <2>2
<1>10. ASSUME NEW i, Passed(1, i)', units[1][i].where = "file",
             units[1][i].kind \in {"discard", "forward"}
      PROVE  \E k \in 1..Len(findings_') : findings_'[k].at = i
  <2>1. CASE Passed(1, i)
    <3>1. PICK k \in 1..Len(findings_) : findings_[k].at = i
      BY <1>10, <2>1 DEF FirstOK
    <3> QED
      BY <3>1, WalkedLists
  <2>2. CASE i = at
    <3>1. findings_' = Append(findings_, f) /\ findings_ \in Seq(LintFinding) /\ f \in LintFinding
      BY <1>1, <1>10, <2>2 DEF Walked, LintType
    <3> QED
      BY <1>1, <2>2, <3>1, AppendProperties
  <2> QED
    BY <1>1, <1>10, <2>1, <2>2
<1>11. ASSUME NEW i, Passed(1, i)', units[1][i].where = "file", units[1][i].kind = "access"
      PROVE  \E k \in 1..Len(pending_') : pending_'[k].finding.at = i
  <2>1. CASE Passed(1, i)
    <3>1. PICK k \in 1..Len(pending_) : pending_[k].finding.at = i
      BY <1>11, <2>1 DEF FirstOK
    <3> QED
      BY <3>1, WalkedLists
  <2>2. CASE i = at
    <3>1. pending_' = Append(pending_, [finding |-> f, var |-> Here.var])
      BY <1>1, <1>11, <2>2 DEF Walked
    <3>2. /\ pending_' \in Seq([finding : LintFinding, var : Vars])
          /\ pending_ \in Seq([finding : LintFinding, var : Vars])
      BY WalkedKeepsType DEF LintType
    <3>3. /\ Len(pending_') = Len(pending_) + 1 /\ Len(pending_) \in Nat
          /\ pending_'[Len(pending_) + 1] = [finding |-> f, var |-> Here.var]
      BY <3>1, <3>2
    <3> QED
      BY <1>1, <2>2, <3>3
  <2> QED
    BY <1>1, <1>11, <2>1, <2>2
<1> QED
  BY <1>1, <1>6, <1>7, <1>8, <1>9, <1>10, <1>11 DEF FirstOK

LEMMA PushedIs ==
  ASSUME LintType
  PROVE  /\ DOMAIN Pushed \subseteq Nat /\ IsFiniteSet(DOMAIN Pushed)
         /\ \A k \in DOMAIN Pushed : Pushed[k] \in LintFinding
         /\ \A k \in DOMAIN Pushed :
              \/ k \in 1..Len(findings_) /\ Pushed[k] = findings_[k]
              \/ \E i \in 1..Len(pending_) :
                   /\ k = Len(findings_) + i /\ pending_[i].var \notin checked_
                   /\ Pushed[k] = pending_[i].finding
         /\ \A k \in 1..Len(findings_) : k \in DOMAIN Pushed /\ Pushed[k] = findings_[k]
         /\ \A i \in 1..Len(pending_) : pending_[i].var \notin checked_ =>
              /\ Len(findings_) + i \in DOMAIN Pushed
              /\ Pushed[Len(findings_) + i] = pending_[i].finding
<1> DEFINE n == Len(findings_)
           m == Len(pending_)
           D == 1..n \cup {n + i : i \in {i \in DOMAIN pending_ : pending_[i].var \notin checked_}}
<1>1. /\ n \in Nat /\ m \in Nat /\ DOMAIN pending_ = 1..m
      /\ \A k \in 1..n : findings_[k] \in LintFinding
      /\ \A i \in 1..m : pending_[i].finding \in LintFinding
  <2>1. n \in Nat /\ m \in Nat /\ DOMAIN pending_ = 1..m
    BY DEF LintType
  <2>2. \A k \in 1..n : findings_[k] \in LintFinding
    BY ElementOfSeq DEF LintType
  <2>3. \A i \in 1..m : pending_[i] \in [finding : LintFinding, var : Vars]
    BY ElementOfSeq DEF LintType
  <2> QED
    BY <2>1, <2>2, <2>3
<1>2. Pushed = [k \in D |-> IF k <= n THEN findings_[k] ELSE pending_[k - n].finding]
  BY DEF Pushed
<1>3. \A k \in D : \/ k \in 1..n
                   \/ \E i \in 1..m : k = n + i /\ pending_[i].var \notin checked_
  BY <1>1
<1>4. /\ \A k \in 1..n : k \in D
      /\ \A i \in 1..m : pending_[i].var \notin checked_ => n + i \in D
  BY <1>1
<1> HIDE DEF n, m, D
<1>5. DOMAIN Pushed = D
  BY <1>2
<1>6. \A k \in 1..n : k \in D /\ Pushed[k] = findings_[k]
  BY <1>1, <1>2, <1>4
<1>7. \A i \in 1..m : pending_[i].var \notin checked_ =>
        n + i \in D /\ Pushed[n + i] = pending_[i].finding
  <2> SUFFICES ASSUME NEW i \in 1..m, pending_[i].var \notin checked_
               PROVE  n + i \in D /\ Pushed[n + i] = pending_[i].finding
    OBVIOUS
  <2>1. n + i \in D /\ ~(n + i <= n) /\ (n + i) - n = i
    BY <1>1, <1>4
  <2> QED
    BY <1>2, <2>1
<1>8. \A k \in D : \/ k \in 1..n /\ Pushed[k] = findings_[k]
                   \/ \E i \in 1..m : /\ k = n + i /\ pending_[i].var \notin checked_
                                      /\ Pushed[k] = pending_[i].finding
  BY <1>3, <1>6, <1>7
<1>9. \A k \in D : Pushed[k] \in LintFinding
  BY <1>1, <1>8
<1>10. D \subseteq Nat /\ IsFiniteSet(D)
  <2>1. D \subseteq 1..(n + m)
    BY <1>1, <1>3
  <2>2. IsFiniteSet(1..(n + m))
    BY <1>1, FS_Interval
  <2>3. IsFiniteSet(D)
    BY <2>1, <2>2, FS_Subset
  <2> QED
    BY <1>1, <2>1, <2>3
<1> QED
  BY <1>5, <1>6, <1>7, <1>8, <1>9, <1>10 DEF n, m

\* At the end of a unit everything in it has been come past, and nothing more is.
LEMMA EndPasses ==
  ASSUME LintType, onEndOfTranslationUnit
  PROVE  /\ unit \in 1..Len(units)
         /\ \A u, i : Passed(u, i)' <=> Passed(u, i)
         /\ \A u, i : Flagged(u, i)' <=> Flagged(u, i)
         /\ \A u, i, j : Passed(u, i) /\ j \in DOMAIN units[u] => Passed(u, j)
         /\ \A i : i \in DOMAIN units[unit] => Passed(unit, i)
<1>1. /\ unit \in 1..Len(units) /\ UNCHANGED units /\ unit' = unit + 1 /\ at' = 1
      /\ unit \in Nat /\ at \in Nat /\ at > Len(units[unit])
  BY DEF LintType, onEndOfTranslationUnit
<1>2. \A u \in 1..Len(units) : DOMAIN units[u] = 1..Len(units[u]) /\ Len(units[u]) \in Nat
  BY ElementOfSeq DEF LintType
<1>3. ASSUME NEW u, NEW i
      PROVE  /\ Passed(u, i)' <=> u \in 1..Len(units) /\ i \in 1..Len(units[u]) /\ u <= unit
             /\ Passed(u, i) <=> u \in 1..Len(units) /\ i \in 1..Len(units[u]) /\ u <= unit
  <2>1. Passed(u, i)' <=> /\ u \in 1..Len(units) /\ i \in 1..Len(units[u])
                          /\ u < unit + 1 \/ (u = unit + 1 /\ i < 1)
    BY <1>1 DEF Passed
  <2>2. Passed(u, i)' <=> u \in 1..Len(units) /\ i \in 1..Len(units[u]) /\ u <= unit
    BY <1>1, <1>2, <2>1
  <2>3. CASE u = unit
    BY <1>1, <1>2, <2>2, <2>3 DEF Passed
  <2>4. CASE u # unit
    BY <1>1, <1>2, <2>2, <2>4 DEF Passed
  <2> QED
    BY <2>2, <2>3, <2>4
<1>4. \A u, i : Flagged(u, i)' <=> Flagged(u, i)
  BY <1>1 DEF Flagged
<1>5. \A u, i : Passed(u, i)' <=> Passed(u, i)
  BY <1>3
<1>6. \A u, i, j : Passed(u, i) /\ j \in DOMAIN units[u] => Passed(u, j)
  BY <1>2, <1>3
<1>7. \A i : i \in DOMAIN units[unit] => Passed(unit, i)
  BY <1>1, <1>2, <1>3
<1> QED
  BY <1>1, <1>4, <1>5, <1>6, <1>7

\* What is pushed is a mistake.
LEMMA PushedMistakes ==
  ASSUME LintInv, onEndOfTranslationUnit, NEW k \in DOMAIN Pushed, NEW g, g = Pushed[k]
  PROVE  Passed(g.unit, g.at) /\ Flagged(g.unit, g.at)
<1>1. LintType /\ FoundOK /\ PendingOK /\ CheckedOK
  BY DEF LintInv
<1>2. CASE k \in 1..Len(findings_) /\ g = findings_[k]
  BY <1>1, <1>2 DEF FoundOK
<1>3. ASSUME NEW i \in 1..Len(pending_), pending_[i].var \notin checked_, g = pending_[i].finding
      PROVE  Passed(g.unit, g.at) /\ Flagged(g.unit, g.at)
  <2>1. /\ Passed(g.unit, g.at)
        /\ units[g.unit][g.at].kind = "access" /\ units[g.unit][g.at].where = "file"
        /\ units[g.unit][g.at].var = pending_[i].var
    BY <1>1, <1>3 DEF PendingOK
  <2>2. ASSUME NEW j \in DOMAIN units[g.unit], units[g.unit][j].var = units[g.unit][g.at].var
        PROVE  units[g.unit][j].kind \notin Collected
    <3>1. Passed(g.unit, j)
      BY <1>1, <2>1, EndPasses
    <3> QED
      BY <1>1, <1>3, <2>1, <2>2, <3>1 DEF CheckedOK
  <2> QED
    BY <2>1, <2>2 DEF Flagged
<1> QED
  BY <1>1, <1>2, <1>3, PushedIs

\* In the first unit no two findings pushed are at the same node.
LEMMA PushedOnce ==
  ASSUME LintInv, unit = 1, NEW j \in DOMAIN Pushed, NEW k \in DOMAIN Pushed,
         Pushed[j].at = Pushed[k].at
  PROVE  j = k
<1> DEFINE n == Len(findings_)
           InFound(i) == /\ i \in 1..n /\ Pushed[i] = findings_[i]
                         /\ units[1][Pushed[i].at].kind \in {"discard", "forward"}
           InPending(i) == /\ units[1][Pushed[i].at].kind = "access"
                           /\ \E p \in 1..Len(pending_) :
                                i = n + p /\ Pushed[i] = pending_[p].finding
<1>1. LintType /\ PendingOK /\ FirstOK
  BY DEF LintInv
<1>2. \A u, i : Passed(u, i) => u = 1
  BY <1>1 DEF Passed, LintType
<1>3. /\ \A i \in 1..n : units[1][findings_[i].at].kind \in {"discard", "forward"}
      /\ \A h, i \in 1..n : findings_[h].at = findings_[i].at => h = i
      /\ \A h, i \in 1..Len(pending_) : pending_[h].finding.at = pending_[i].finding.at => h = i
  BY <1>1 DEF FirstOK
<1>4. \A i \in 1..Len(pending_) : units[1][pending_[i].finding.at].kind = "access"
  BY <1>1, <1>2 DEF PendingOK
<1>5. \A i \in DOMAIN Pushed : InFound(i) \/ InPending(i)
  BY <1>1, <1>3, <1>4, PushedIs
<1>6. CASE InFound(j) /\ InFound(k)
  BY <1>3, <1>6
<1>7. CASE InPending(j) /\ InPending(k)
  BY <1>3, <1>7
<1> QED
  BY <1>5, <1>6, <1>7

\* In the first unit every mistake is pushed.
LEMMA PushedAll ==
  ASSUME LintInv, onEndOfTranslationUnit, unit = 1,
         NEW i \in DOMAIN units[1], Flagged(1, i)
  PROVE  \E k \in DOMAIN Pushed : Pushed[k].at = i
<1>1. LintType /\ PendingOK /\ FirstOK
  BY DEF LintInv
<1>2. Passed(1, i) /\ units[1][i].where = "file"
  BY <1>1, EndPasses DEF Flagged
<1>3. CASE units[1][i].kind \in {"discard", "forward"}
  <2>1. PICK k \in 1..Len(findings_) : findings_[k].at = i
    BY <1>1, <1>2, <1>3 DEF FirstOK
  <2> QED
    BY <1>1, <2>1, PushedIs
<1>4. CASE units[1][i].kind = "access"
  <2>1. PICK k \in 1..Len(pending_) : pending_[k].finding.at = i
    BY <1>1, <1>2, <1>4 DEF FirstOK
  <2>2. pending_[k].var = units[1][i].var
    <3>1. \A u, h : Passed(u, h) => u = 1
      BY <1>1 DEF Passed, LintType
    <3> QED
      BY <1>1, <2>1, <3>1 DEF PendingOK
  <2>3. pending_[k].var \notin checked_
    <3> SUFFICES ASSUME pending_[k].var \in checked_ PROVE FALSE
      OBVIOUS
    <3>1. PICK h : /\ Passed(1, h) /\ units[1][h].kind \in Collected
                   /\ units[1][h].var = pending_[k].var
      BY <1>1 DEF FirstOK
    <3>2. h \in DOMAIN units[1]
      BY <1>1, <3>1, ElementOfSeq DEF Passed, LintType
    <3> QED
      BY <1>4, <2>2, <3>1, <3>2 DEF Flagged
  <2> QED
    BY <1>1, <2>1, <2>3, PushedIs
<1> QED
  BY <1>3, <1>4 DEF Flagged

\* The report at the end of a unit.
LEMMA EndReports ==
  ASSUME LintInv, onEndOfTranslationUnit
  PROVE  /\ findings_' \in Seq(LintFinding) /\ DOMAIN findings_' = 1..Len(findings_')
         /\ \A k \in 1..Len(findings_') : \A g : g = findings_'[k] =>
              Passed(g.unit, g.at) /\ Flagged(g.unit, g.at)
         /\ unit = 1 =>
              /\ {findings_'[k].at : k \in DOMAIN findings_'} =
                   {i \in DOMAIN units[1] : Flagged(1, i)}
              /\ \A j, k \in DOMAIN findings_' : j < k => findings_'[j].at < findings_'[k].at
<1> DEFINE n == Cardinality(DOMAIN Pushed)
<1>1. LintType
  BY DEF LintInv
<1>2. /\ DOMAIN Pushed \subseteq Nat /\ IsFiniteSet(DOMAIN Pushed) /\ n \in Nat
      /\ \A k \in DOMAIN Pushed : Pushed[k] \in LintFinding
  BY <1>1, PushedIs, FS_CardinalityType
<1>3. PICK c \in Bijection(1..n, DOMAIN Pushed) :
        /\ Sorted(Pushed) = [k \in 1..n |-> Pushed[c[k]]]
        /\ \A j, k \in 1..n : j < k => ~Before(Pushed[c[k]], Pushed[c[j]])
  BY <1>2, SortedIs
<1>4. PICK P : P = Pushed
  OBVIOUS
<1>5. /\ c \in [1..n -> DOMAIN P] /\ \A j, k \in 1..n : c[j] = c[k] => j = k
      /\ \A i \in DOMAIN P : \E k \in 1..n : c[k] = i
  BY <1>3, <1>4 DEF Bijection, Injection, Surjection, IsInjective
<1>6. findings_' = [k \in 1..n |-> P[c[k]]]
  BY <1>3, <1>4 DEF onEndOfTranslationUnit
<1>7. \A j, k \in 1..n : j < k => ~Before(P[c[k]], P[c[j]])
  BY <1>3, <1>4
<1>8. \A k \in DOMAIN P : P[k] \in LintFinding
  BY <1>2, <1>4
<1>9. \A k \in DOMAIN P : \A g : g = P[k] => Passed(g.unit, g.at) /\ Flagged(g.unit, g.at)
  BY <1>4, PushedMistakes
<1>10. unit = 1 => /\ \A j, k \in DOMAIN P : P[j].at = P[k].at => j = k
                   /\ \A i \in DOMAIN units[1] :
                        Flagged(1, i) => \E k \in DOMAIN P : P[k].at = i
  BY <1>4, PushedOnce, PushedAll
<1> HIDE DEF n
<1>11. /\ findings_' \in Seq(LintFinding) /\ DOMAIN findings_' = 1..n /\ Len(findings_') = n
       /\ \A k \in 1..n : findings_'[k] = P[c[k]] /\ c[k] \in DOMAIN P
  BY <1>2, <1>5, <1>6, <1>8, SeqDef
<1>12. \A k \in 1..n : \A g : g = findings_'[k] =>
         Passed(g.unit, g.at) /\ Flagged(g.unit, g.at)
  BY <1>9, <1>11
<1>13. ASSUME unit = 1
       PROVE  /\ {findings_'[k].at : k \in 1..n} = {i \in DOMAIN units[1] : Flagged(1, i)}
              /\ \A j, k \in 1..n : j < k => findings_'[j].at < findings_'[k].at
  <2>1. ASSUME NEW k \in 1..n
        PROVE  /\ findings_'[k].unit = 1 /\ findings_'[k].at \in DOMAIN units[1]
               /\ Flagged(1, findings_'[k].at) /\ findings_'[k].at \in Nat
    <3>1. PICK g : g = findings_'[k]
      OBVIOUS
    <3>2. Passed(g.unit, g.at) /\ Flagged(g.unit, g.at) /\ g \in LintFinding
      BY <1>8, <1>11, <1>12, <2>1, <3>1
    <3>3. g.unit = 1
      BY <1>1, <1>13, <3>2 DEF Passed, LintType
    <3>4. g.at \in DOMAIN units[1]
      BY <1>1, <3>2, <3>3, ElementOfSeq DEF Passed, LintType
    <3> QED
      BY <3>1, <3>2, <3>3, <3>4 DEF LintFinding
  <2>2. ASSUME NEW i \in DOMAIN units[1], Flagged(1, i)
        PROVE  \E k \in 1..n : findings_'[k].at = i
    <3>1. PICK h \in DOMAIN P : P[h].at = i
      BY <1>10, <1>13, <2>2
    <3>2. PICK k \in 1..n : c[k] = h
      BY <1>5
    <3> QED
      BY <1>11, <3>1, <3>2
  <2>3. ASSUME NEW j \in 1..n, NEW k \in 1..n, j < k
        PROVE  findings_'[j].at < findings_'[k].at
    <3>1. ~Before(findings_'[k], findings_'[j])
      BY <1>7, <1>11, <2>3
    <3>2. findings_'[j].at # findings_'[k].at
      <4>1. c[j] # c[k] /\ c[j] \in DOMAIN P /\ c[k] \in DOMAIN P
        BY <1>2, <1>5, <2>3
      <4> QED
        BY <1>10, <1>11, <1>13, <4>1
    <3> QED
      BY <2>1, <3>1, <3>2 DEF Before
  <2> QED
    BY <2>1, <2>2, <2>3
<1> QED
  BY <1>11, <1>12, <1>13

LEMMA WalkKeeps ==
  ASSUME LintInv, RunDiscard \/ RunCondition \/ RunAccess
  PROVE  LintInv'
<1>1. LintType /\ FoundOK /\ PendingOK /\ CheckedOK /\ FirstOK /\ LintFlags
  BY DEF LintInv
<1>2. PICK f : Walked(f)
  BY <1>1, WalkSteps
<1>3. LintType' /\ FoundOK' /\ PendingOK' /\ CheckedOK' /\ FirstOK'
  BY <1>1, <1>2, WalkedKeepsType, WalkedKeepsFound, WalkedKeepsPending, WalkedKeepsChecked,
     WalkedKeepsFirst
<1>4. LintFlags'
  BY <1>1, <1>2, ReportsKeep DEF Walked
<1> QED
  BY <1>3, <1>4 DEF LintInv

LEMMA EndOfUnitKeeps ==
  ASSUME LintInv, onEndOfTranslationUnit
  PROVE  LintInv'
<1>1. /\ LintType /\ FoundOK /\ PendingOK /\ CheckedOK /\ LintFlags
      /\ UNCHANGED <<units, checked_, pending_>>
      /\ printed' = Append(printed, findings_') /\ unit' = unit + 1 /\ at' = 1
  BY DEF LintInv, onEndOfTranslationUnit
<1>2. /\ unit \in Nat \ {0} /\ unit \in 1..Len(units)
      /\ printed \in Seq(Seq(LintFinding)) /\ Len(printed) = unit - 1
  BY <1>1, EndPasses DEF LintType
<1>3. /\ printed' \in Seq(Seq(LintFinding)) /\ Len(printed') = unit
      /\ DOMAIN printed' = 1..unit /\ DOMAIN printed = 1..(unit - 1)
      /\ printed'[unit] = findings_'
      /\ \A k \in 1..(unit - 1) : printed'[k] = printed[k]
  BY <1>1, <1>2, EndReports, AppendProperties
<1>4. LintType'
  <2>1. unit' <= Len(units) => Len(units[unit']) \in Nat
    BY <1>1, <1>2, ElementOfSeq DEF LintType
  <2> QED
    BY <1>1, <1>2, <1>3, <2>1, EndReports DEF LintType
<1>5. FoundOK'
  <2>1. \A k \in 1..Len(findings_') : \A g : g = findings_'[k] =>
          Passed(g.unit, g.at)' /\ Flagged(g.unit, g.at)'
    BY <1>1, EndReports, EndPasses
  <2> QED
    BY <2>1 DEF FoundOK, Passed, Flagged
<1>6. PendingOK'
  <2>1. \A k \in 1..Len(pending_) : \A g : g = pending_[k] =>
          /\ Passed(g.finding.unit, g.finding.at)'
          /\ units[g.finding.unit][g.finding.at].kind = "access"
          /\ units[g.finding.unit][g.finding.at].where = "file"
          /\ units[g.finding.unit][g.finding.at].var = g.var
    BY <1>1, EndPasses DEF PendingOK
  <2> QED
    BY <1>1, <2>1 DEF PendingOK, Passed
<1>7. CheckedOK'
  <2> SUFFICES ASSUME NEW u, NEW i, Passed(u, i)', units'[u][i].kind \in Collected
               PROVE  units'[u][i].var \in checked_'
    BY DEF CheckedOK, Collected
  <2> QED
    BY <1>1, EndPasses DEF CheckedOK
<1>8. FirstOK'
  BY <1>1, <1>2 DEF FirstOK
<1>9. LintFlags'
  <2>1. /\ {printed'[1][k].at : k \in DOMAIN printed'[1]} =
             {i \in DOMAIN units[1] : Flagged(1, i)}
        /\ \A j, k \in DOMAIN printed'[1] : j < k => printed'[1][j].at < printed'[1][k].at
    <3>1. CASE unit = 1
      <4>1. printed'[1] = findings_'
        BY <1>3, <3>1
      <4> QED
        BY <3>1, <4>1, EndReports
    <3>2. CASE unit # 1
      <4>1. printed # <<>> /\ printed'[1] = printed[1]
        BY <1>2, <1>3, <3>2
      <4> QED
        BY <1>1, <4>1 DEF LintFlags
    <3> QED
      BY <3>1, <3>2
  <2>2. ASSUME NEW k \in DOMAIN printed', NEW g \in ToSet(printed'[k])
        PROVE  Flagged(g.unit, g.at)
    <3>1. CASE k = unit
      <4>1. PICK i \in DOMAIN findings_' : g = findings_'[i]
        BY <1>3, <2>2, <3>1 DEF ToSet
      <4> QED
        BY <4>1, EndReports
    <3>2. CASE k \in 1..(unit - 1)
      BY <1>1, <1>3, <2>2, <3>2 DEF LintFlags
    <3> QED
      BY <1>2, <1>3, <3>1, <3>2
  <2>3. /\ \A u, i : Flagged(u, i)' <=> Flagged(u, i)
        /\ units' = units
    BY <1>1, EndPasses
  <2>4. {i \in DOMAIN units'[1] : Flagged(1, i)'} = {i \in DOMAIN units[1] : Flagged(1, i)}
    BY <2>3
  <2>5. \A k \in DOMAIN printed' : \A g \in ToSet(printed'[k]) : Flagged(g.unit, g.at)'
    BY <2>2, <2>3
  <2> QED
    BY <2>1, <2>4, <2>5 DEF LintFlags
<1> QED
  BY <1>4, <1>5, <1>6, <1>7, <1>8, <1>9 DEF LintInv

LEMMA InitLint == Init => LintInv
<1> SUFFICES ASSUME Init PROVE LintInv
  OBVIOUS
<1>1. /\ units \in Sources \/ units = <<>>
      /\ unit = 1 /\ at = 1 /\ checked_ = {} /\ pending_ = <<>> /\ findings_ = <<>>
      /\ printed = <<>>
  BY DEF Init, LintInit
<1>2. LintType
  <2>1. units \in Seq(Seq(Node))
    <3>1. <<>> \in Seq(Seq(Node))
      BY EmptySeq
    <3> QED
      BY <1>1, <3>1, SourcesAssumption, Zenon
  <2>2. unit <= Len(units) => Len(units[unit]) \in Nat
    BY <1>1, <2>1, ElementOfSeq
  <2> QED
    BY <1>1, <2>1, <2>2 DEF LintType
<1>3. \A u, i : ~Passed(u, i)
  BY <1>1 DEF Passed
<1>4. FoundOK /\ PendingOK /\ CheckedOK /\ FirstOK
  BY <1>1, <1>3 DEF FoundOK, PendingOK, CheckedOK, FirstOK
<1>5. LintFlags
  BY <1>1 DEF LintFlags
<1> QED
  BY <1>2, <1>4, <1>5 DEF LintInv

\* What the code flags is a mistake, or an access that for conditions alone
\* test: the collector has no matcher for them.
LEMMA FlaggedIs ==
  ASSUME NEW u, NEW i
  PROVE  Flagged(u, i) <=> Mistake(u, i) \/ (Access(u, i) /\ TestedBy(u, i) = {"for"})
<1> DEFINE Same == {k \in DOMAIN units[u] : units[u][k].var = units[u][i].var}
           Missed == \A j \in DOMAIN units[u] :
                       units[u][j].var = units[u][i].var => units[u][j].kind \notin Collected
<1>1. \A x : x \in TestedBy(u, i) <=>
        x \in {"if", "while", "for", "forward"} /\ \E j \in Same : units[u][j].kind = x
  BY DEF TestedBy
<1>2. Missed <=> \A x \in TestedBy(u, i) : x = "for"
  BY <1>1 DEF Collected
<1>3. Missed <=> TestedBy(u, i) = {} \/ TestedBy(u, i) = {"for"}
  BY <1>2
<1> QED
  BY <1>3 DEF Flagged, Mistake, Access

\* The first unit's report names every mistake of that unit once, in source
\* order, and no report names anything but a mistake or an access that for
\* conditions alone test, whatever is carried over from earlier units and
\* whatever addresses come back (jmpxx_lint.cpp:105-115): for any sources.
THEOREM ReportsAreExact == Spec => []LintExact
<1>1. Init => LintInv
  BY InitLint
<1>2. LintInv /\ [Next]_vars => LintInv'
  <2> SUFFICES ASSUME LintInv, [Next]_vars PROVE LintInv'
    OBVIOUS
  <2>1. CASE Linting
    BY <2>1, WalkKeeps, EndOfUnitKeeps DEF Linting, LintNext
  <2>2. CASE UNCHANGED lint
    <3>1. UNCHANGED <<units, unit, at, checked_, pending_, findings_, printed>>
      BY <2>2 DEF lint
    <3>2. LintType'
      BY <3>1 DEF LintInv, LintType
    <3>3. FoundOK' /\ PendingOK' /\ CheckedOK' /\ FirstOK'
      <4>1. FoundOK'
        BY <3>1 DEF LintInv, FoundOK, Passed, Flagged
      <4>2. PendingOK'
        BY <3>1 DEF LintInv, PendingOK, Passed, Flagged
      <4>3. CheckedOK'
        BY <3>1 DEF LintInv, CheckedOK, Passed, Flagged
      <4>4. FirstOK'
        BY <3>1 DEF LintInv, FirstOK, Passed, Flagged
      <4> QED
        BY <4>1, <4>2, <4>3, <4>4
    <3>4. LintFlags'
      BY <3>1, ReportsKeep DEF LintInv
    <3> QED
      BY <3>2, <3>3, <3>4 DEF LintInv
  <2> QED
    BY <2>1, <2>2 DEF Next, vars, Sweeping, Amalgamating, Bridging, Converting
<1>3. LintInv => LintExact
  BY FlaggedIs DEF LintInv, LintFlags, LintExact
<1> QED
  BY <1>1, <1>2, <1>3, PTL DEF Spec

-----------------------------------------------------------------------------
\* Induction.

\* Every non-empty set of natural numbers has a least member.
LEMMA LeastNat ==
  ASSUME NEW S, S \subseteq Nat, S # {}
  PROVE  \E n \in S : \A m \in S : n <= m
<1> DEFINE R == OpToRel(<, Nat)
<1>1. IsWellFoundedOn(R, Nat)
  BY NatLessThanWellFounded
<1>2. \A x, y \in Nat : x < y => <<x, y>> \in R
  BY DEF OpToRel
<1> HIDE DEF R
<1>3. PICK x \in S : \A y \in S : ~ (<<y, x>> \in R)
  BY <1>1, WFMin
<1>4. ASSUME NEW y \in S PROVE x <= y
  <2>1. x \in Nat /\ y \in Nat
    OBVIOUS
  <2>2. ~(y < x)
    BY <1>2, <1>3, <2>1
  <2> QED BY <2>1, <2>2
<1> QED BY <1>4

-----------------------------------------------------------------------------
\* The labels of a function.

\* The labels seen after a line with that argument.
SeenNext(seen, label) ==
  IF label = 0 \/ label \in ToSet(seen) THEN seen ELSE Append(seen, label)

\* The labels seen are what their definition says.
LEMMA SeenIs ==
  ASSUME NEW body, Len(body) \in Nat
  PROVE  LET seen == SeenUpTo(body)
         IN  /\ seen[0] = <<>>
             /\ \A i \in 1..Len(body) : seen[i] = SeenNext(seen[i - 1], body[i].arg)
<1> DEFINE Arg(i) == body[i].arg
           Is(f, k) == f = [i \in 0..k |-> IF i = 0 THEN <<>>
                                           ELSE SeenNext(f[i - 1], Arg(i))]
           Bad == {k \in Nat : ~\E f : Is(f, k)}
<1> HIDE DEF Arg
<1>1. Bad = {}
  <2> SUFFICES ASSUME Bad # {} PROVE FALSE
    OBVIOUS
  <2>1. PICK k \in Bad : \A j \in Bad : k <= j
    <3> HIDE DEF Bad
    <3>1. Bad \subseteq Nat
      BY DEF Bad
    <3> QED BY <3>1, LeastNat
  <2>2. k \in Nat /\ ~\E f : Is(f, k)
    BY <2>1
  <2>3. k # 0
    <3> DEFINE f == [i \in 0..0 |-> <<>>]
    <3>1. Is(f, 0)
      OBVIOUS
    <3> QED BY <2>2, <3>1
  <2>4. k - 1 \in Nat /\ k - 1 \notin Bad
    <3> HIDE DEF Bad
    <3> QED BY <2>1, <2>2, <2>3
  <2>5. PICK g : Is(g, k - 1)
    BY <2>4
  <2> DEFINE f == [i \in 0..k |-> IF i = 0 THEN <<>> ELSE SeenNext(g[i - 1], Arg(i))]
  <2>6. ASSUME NEW i \in 0..k, i # 0 PROVE f[i - 1] = g[i - 1]
    <3>1. i - 1 \in 0..(k - 1) /\ i - 1 \in 0..k
      BY <2>2, <2>6
    <3>2. g[i - 1] = IF i - 1 = 0 THEN <<>> ELSE SeenNext(g[(i - 1) - 1], Arg(i - 1))
      BY <2>5, <3>1
    <3> QED BY <3>1, <3>2
  <2>7. Is(f, k)
    <3> HIDE DEF f
    <3>1. \A i \in 0..k : f[i] = IF i = 0 THEN <<>> ELSE SeenNext(f[i - 1], Arg(i))
      BY <2>6 DEF f
    <3>2. f = [i \in 0..k |-> f[i]]
      BY DEF f
    <3> QED BY <3>1, <3>2
  <2> QED BY <2>2, <2>7
<1> DEFINE seen == SeenUpTo(body)
<1>3. \E f : Is(f, Len(body))
  BY <1>1
<1>4. Is(seen, Len(body))
  BY <1>3 DEF SeenUpTo, SeenNext, Arg
<1> HIDE DEF seen
<1>5. seen[0] = <<>>
  BY <1>4
<1>6. \A i \in 1..Len(body) : seen[i] = SeenNext(seen[i - 1], Arg(i))
  BY <1>4
<1> QED BY <1>5, <1>6 DEF seen, Arg

\* A list of labels without repetition, and the labels it holds.
ListsAll(s, S) ==
  /\ s \in Seq(S)
  /\ \A l \in S : \E k \in DOMAIN s : s[k] = l
  /\ \A j, k \in DOMAIN s : s[j] = s[k] => j = k

\* One label more.
LEMMA ListedNext ==
  ASSUME NEW s, NEW S, ListsAll(s, S), NEW label, 0 \notin S
  PROVE  ListsAll(SeenNext(s, label), (S \cup {label}) \ {0})
<1> DEFINE T == (S \cup {label}) \ {0}
<1>1. ToSet(s) = S
  BY DEF ListsAll, ToSet
<1>2. CASE label = 0 \/ label \in ToSet(s)
  <2>1. T = S
    BY <1>1, <1>2
  <2> QED BY <1>2, <2>1 DEF SeenNext
<1>3. CASE label # 0 /\ label \notin S
  <2>1. T = S \cup {label}
    BY <1>3
  <2> HIDE DEF T
  <2> DEFINE t == Append(s, label)
  <2>2. s \in Seq(T) /\ label \in T
    BY <2>1 DEF ListsAll
  <2>3. /\ t \in Seq(T) /\ Len(t) = Len(s) + 1 /\ t[Len(s) + 1] = label
        /\ \A k \in 1..Len(s) : t[k] = s[k]
    BY <2>2
  <2>4. DOMAIN s = 1..Len(s) /\ DOMAIN t = 1..(Len(s) + 1) /\ Len(s) \in Nat
    BY <2>2, <2>3
  <2> HIDE DEF t
  <2>5. \A l \in T : \E k \in DOMAIN t : t[k] = l
    BY <2>1, <2>3, <2>4 DEF ListsAll
  <2>6. \A k \in DOMAIN s : s[k] \in S
    BY DEF ListsAll
  <2>7. \A j, k \in DOMAIN t : t[j] = t[k] => j = k
    BY <1>3, <2>3, <2>4, <2>6 DEF ListsAll
  <2> QED BY <1>1, <1>3, <2>3, <2>5, <2>7 DEF ListsAll, SeenNext, t, T
<1> QED BY <1>1, <1>2, <1>3

\* The labels on the first i lines.
LabelsTo(body, i) == {body[j].arg : j \in 1..i} \ {0}

LEMMA SeenListed ==
  ASSUME NEW body, Len(body) \in Nat
  PROVE  \A i \in 0..Len(body) : ListsAll(SeenUpTo(body)[i], LabelsTo(body, i))
<1> DEFINE seen == SeenUpTo(body)
           Bad == {i \in 0..Len(body) : ~ListsAll(seen[i], LabelsTo(body, i))}
<1>1. /\ seen[0] = <<>>
      /\ \A i \in 1..Len(body) : seen[i] = SeenNext(seen[i - 1], body[i].arg)
  BY SeenIs
<1> HIDE DEF seen
<1>2. Bad = {}
  <2> SUFFICES ASSUME Bad # {} PROVE FALSE
    OBVIOUS
  <2>1. Bad \subseteq Nat
    OBVIOUS
  <2>2. PICK i \in Bad : \A j \in Bad : i <= j
    BY <2>1, LeastNat
  <2>3. i # 0
    <3>1. LabelsTo(body, 0) = {}
      BY DEF LabelsTo
    <3>2. ListsAll(<<>>, {})
      BY DEF ListsAll
    <3> QED BY <1>1, <3>1, <3>2
  <2>4. i \in 1..Len(body) /\ i - 1 \in 0..Len(body) /\ i - 1 \notin Bad
    BY <2>2, <2>3
  <2>5. ListsAll(seen[i - 1], LabelsTo(body, i - 1))
    BY <2>4
  <2>6. LabelsTo(body, i) = (LabelsTo(body, i - 1) \cup {body[i].arg}) \ {0}
    <3>1. \A j : j \in 1..i <=> j \in 1..(i - 1) \/ j = i
      BY <2>4
    <3> QED BY <3>1 DEF LabelsTo
  <2>7. 0 \notin LabelsTo(body, i - 1)
    BY DEF LabelsTo
  <2>8. ListsAll(seen[i], LabelsTo(body, i))
    BY <1>1, <2>4, <2>5, <2>6, <2>7, ListedNext
  <2> QED BY <2>8
<1> QED BY <1>2 DEF seen

LabelsOf(body) == {body[i].arg : i \in DOMAIN body} \ {0}

\* c is body with every label replaced by its place in the list s.
Numbered(c, body, s) ==
  /\ ListsAll(s, LabelsOf(body))
  /\ DOMAIN c = DOMAIN body
  /\ \A i \in DOMAIN body :
       /\ c[i].op = body[i].op
       /\ body[i].arg = 0 => c[i].arg = 0
       /\ body[i].arg # 0 => c[i].arg \in DOMAIN s /\ s[c[i].arg] = body[i].arg

LEMMA CanonIs ==
  ASSUME NEW body \in Seq(Line)
  PROVE  /\ Numbered(canon_labels(body), body, FirstSeen(body))
         /\ canon_labels(body) = [i \in DOMAIN body |->
              L(canon_labels(body)[i].op, canon_labels(body)[i].arg)]
<1> DEFINE s == FirstSeen(body)
           Number(label) == IF label = 0 THEN 0 ELSE CHOOSE k \in DOMAIN s : s[k] = label
           c == canon_labels(body)
<1>0. Len(body) \in Nat /\ DOMAIN body = 1..Len(body)
  OBVIOUS
<1>1. ListsAll(s, LabelsOf(body))
  <2>1. Len(body) \in 0..Len(body)
    BY <1>0
  <2>2. ListsAll(s, LabelsTo(body, Len(body)))
    BY <1>0, <2>1, SeenListed DEF FirstSeen
  <2>3. LabelsTo(body, Len(body)) = LabelsOf(body)
    BY <1>0 DEF LabelsTo, LabelsOf
  <2> QED BY <2>2, <2>3
<1>2. c = [i \in DOMAIN body |-> L(body[i].op, Number(body[i].arg))]
  BY DEF canon_labels
<1> HIDE DEF s, c
<1>3. \A i \in DOMAIN body : body[i].arg # 0 => \E k \in DOMAIN s : s[k] = body[i].arg
  BY <1>1 DEF ListsAll, LabelsOf
<1>4. \A i \in DOMAIN body : body[i].arg # 0 =>
        Number(body[i].arg) \in DOMAIN s /\ s[Number(body[i].arg)] = body[i].arg
  <2> SUFFICES ASSUME NEW i \in DOMAIN body, body[i].arg # 0
               PROVE  Number(body[i].arg) \in DOMAIN s /\ s[Number(body[i].arg)] = body[i].arg
    OBVIOUS
  <2>1. \E k \in DOMAIN s : s[k] = body[i].arg
    BY <1>3
  <2> QED BY <2>1, Zenon
<1>5. \A i \in DOMAIN body : body[i].arg = 0 => Number(body[i].arg) = 0
  OBVIOUS
<1> HIDE DEF Number
<1>6. \A i \in DOMAIN body : c[i].op = body[i].op /\ c[i].arg = Number(body[i].arg)
  BY <1>2 DEF L
<1>7. Numbered(c, body, s)
  BY <1>1, <1>2, <1>4, <1>5, <1>6 DEF Numbered
<1>8. c = [i \in DOMAIN body |-> L(c[i].op, c[i].arg)]
  BY <1>2, <1>6
<1> QED BY <1>7, <1>8 DEF s, c

\* b is a with its labels renamed by f.
RenamedBy(f, a, b) ==
  \A i \in DOMAIN a :
    /\ a[i].op = b[i].op
    /\ b[i].arg = IF a[i].arg = 0 THEN 0 ELSE f[a[i].arg]

\* The number of a label is a place on the other list too.
LEMMA SameNumbers ==
  ASSUME NEW a, NEW b, NEW c, NEW s, NEW t, Numbered(c, a, s), Numbered(c, b, t),
         NEW k \in DOMAIN s
  PROVE  \E i \in DOMAIN a : /\ c[i].arg = k /\ a[i].arg = s[k] /\ a[i].arg # 0
                             /\ k \in DOMAIN t /\ t[k] = b[i].arg /\ b[i].arg # 0
<1>1. s[k] \in LabelsOf(a)
  BY DEF Numbered, ListsAll
<1>2. PICK i \in DOMAIN a : a[i].arg = s[k] /\ a[i].arg # 0
  BY <1>1 DEF LabelsOf
<1>3. c[i].arg \in DOMAIN s /\ s[c[i].arg] = s[k]
  BY <1>2 DEF Numbered
<1>4. c[i].arg = k
  BY <1>3 DEF Numbered, ListsAll
<1>5. DOMAIN s \subseteq Nat \ {0}
  BY DEF Numbered, ListsAll
<1>6. i \in DOMAIN b /\ b[i].arg # 0
  BY <1>4, <1>5 DEF Numbered
<1> QED BY <1>2, <1>4, <1>6 DEF Numbered

LEMMA SameCanonRenames ==
  ASSUME NEW a, NEW b, NEW c, NEW s, NEW t, Numbered(c, a, s), Numbered(c, b, t)
  PROVE  \E f \in Bijection(LabelsOf(a), LabelsOf(b)) : RenamedBy(f, a, b)
<1> DEFINE A == LabelsOf(a)
           B == LabelsOf(b)
<1>1. /\ DOMAIN a = DOMAIN b /\ DOMAIN s = DOMAIN t
  <2>1. \A k \in DOMAIN s : k \in DOMAIN t
    BY SameNumbers
  <2>2. \A k \in DOMAIN t : k \in DOMAIN s
    BY SameNumbers
  <2> QED BY <2>1, <2>2 DEF Numbered
<1>2. /\ \A l \in A : \E k \in DOMAIN s : s[k] = l
      /\ \A j, k \in DOMAIN s : s[j] = s[k] => j = k
      /\ \A l \in B : \E k \in DOMAIN t : t[k] = l
      /\ \A j, k \in DOMAIN t : t[j] = t[k] => j = k
      /\ \A k \in DOMAIN s : s[k] \in A
      /\ \A k \in DOMAIN t : t[k] \in B
  BY DEF Numbered, ListsAll
<1> HIDE DEF A, B
<1> DEFINE f == [l \in A |-> t[CHOOSE k \in DOMAIN s : s[k] = l]]
<1>3. \A k \in DOMAIN s : s[k] \in A /\ f[s[k]] = t[k]
  <2> SUFFICES ASSUME NEW k \in DOMAIN s PROVE s[k] \in A /\ f[s[k]] = t[k]
    OBVIOUS
  <2>1. (CHOOSE j \in DOMAIN s : s[j] = s[k]) = k
    BY <1>2, Zenon
  <2> QED BY <1>2, <2>1
<1>4. \A l \in A : \E k \in DOMAIN s : s[k] = l /\ f[l] = t[k]
  BY <1>2, <1>3
<1>5. f \in [A -> B]
  <2>1. f = [l \in A |-> f[l]]
    OBVIOUS
  <2> HIDE DEF f
  <2>2. \A l \in A : f[l] \in B
    BY <1>1, <1>2, <1>4
  <2> QED BY <2>1, <2>2
<1> HIDE DEF f
<1>6. \A x, y \in A : f[x] = f[y] => x = y
  BY <1>1, <1>2, <1>4
<1>7. \A y \in B : \E x \in A : f[x] = y
  BY <1>1, <1>2, <1>3
<1>8. f \in Bijection(A, B)
  <2>1. f \in Injection(A, B)
    BY <1>5, <1>6 DEF Injection, IsInjective
  <2>2. f \in Surjection(A, B)
    BY <1>5, <1>7 DEF Surjection
  <2> QED BY <2>1, <2>2 DEF Bijection
<1>9. RenamedBy(f, a, b)
  <2> SUFFICES ASSUME NEW i \in DOMAIN a
               PROVE  a[i].op = b[i].op /\ b[i].arg = IF a[i].arg = 0 THEN 0 ELSE f[a[i].arg]
    BY DEF RenamedBy
  <2>1. a[i].op = b[i].op
    BY <1>1 DEF Numbered
  <2>2. CASE a[i].arg = 0
    <3>1. 0 \notin DOMAIN t
      BY DEF Numbered, ListsAll
    <3> QED BY <1>1, <2>1, <2>2, <3>1 DEF Numbered
  <2>3. CASE a[i].arg # 0
    <3>1. c[i].arg \in DOMAIN s /\ s[c[i].arg] = a[i].arg
      BY <2>3 DEF Numbered
    <3>2. 0 \notin DOMAIN s
      BY DEF Numbered, ListsAll
    <3>3. b[i].arg # 0
      BY <1>1, <3>1, <3>2 DEF Numbered
    <3>4. t[c[i].arg] = b[i].arg
      BY <1>1, <3>3 DEF Numbered
    <3> QED BY <1>3, <2>1, <2>3, <3>1, <3>4
  <2> QED BY <2>2, <2>3
<1> QED BY <1>8, <1>9 DEF A, B

LEMMA SameInterval ==
  ASSUME NEW m \in Nat, NEW n \in Nat, 1..m = 1..n
  PROVE  m = n
<1>1. ASSUME NEW i \in Nat, NEW j \in Nat, 1..i = 1..j PROVE i <= j
  <2>1. CASE i = 0
    BY <2>1
  <2>2. CASE i # 0
    <3>1. i \in 1..i
      BY <2>2
    <3>2. i \in 1..j
      BY <1>1, <3>1
    <3> QED BY <3>2
  <2> QED BY <2>1, <2>2
<1> QED BY <1>1

\* The labels of a renamed function are seen in the same order.
LEMMA RenamedSeen ==
  ASSUME NEW a \in Seq(Line), NEW b \in Seq(Line), Len(a) = Len(b), NEW f,
         f \in Bijection(LabelsOf(a), LabelsOf(b)), RenamedBy(f, a, b)
  PROVE  /\ DOMAIN FirstSeen(a) = DOMAIN FirstSeen(b)
         /\ \A k \in DOMAIN FirstSeen(a) : FirstSeen(b)[k] = f[FirstSeen(a)[k]]
<1> DEFINE s == SeenUpTo(a)
           t == SeenUpTo(b)
           n == Len(a)
           Same(i) == /\ DOMAIN s[i] = DOMAIN t[i]
                      /\ \A k \in DOMAIN s[i] : t[i][k] = f[s[i][k]]
           Bad == {i \in 0..n : ~Same(i)}
<1>0. n \in Nat /\ DOMAIN a = 1..n /\ Len(b) = n
  OBVIOUS
<1>1. /\ s[0] = <<>> /\ t[0] = <<>>
      /\ \A i \in 1..n : s[i] = SeenNext(s[i - 1], a[i].arg)
      /\ \A i \in 1..n : t[i] = SeenNext(t[i - 1], b[i].arg)
  BY <1>0, SeenIs
<1>2. \A i \in 0..n : ListsAll(s[i], LabelsTo(a, i)) /\ ListsAll(t[i], LabelsTo(b, i))
  BY <1>0, SeenListed
<1>3. \A x, y \in LabelsOf(a) : f[x] = f[y] => x = y
  BY DEF Bijection, Injection, IsInjective
<1>4. \A x \in LabelsOf(a) : f[x] # 0
  BY DEF Bijection, Injection, LabelsOf
<1>5. \A i \in 1..n : b[i].arg = IF a[i].arg = 0 THEN 0 ELSE f[a[i].arg]
  BY <1>0 DEF RenamedBy
<1>6. \A i \in 1..n : a[i].arg # 0 => a[i].arg \in LabelsOf(a)
  BY <1>0 DEF LabelsOf
<1>7. \A i \in 0..n : LabelsTo(a, i) \subseteq LabelsOf(a)
  BY <1>0 DEF LabelsTo, LabelsOf
<1> HIDE DEF s, t, n
<1>8. Bad = {}
  <2> SUFFICES ASSUME Bad # {} PROVE FALSE
    OBVIOUS
  <2>1. Bad \subseteq Nat
    BY <1>0
  <2>2. PICK i \in Bad : \A j \in Bad : i <= j
    BY <2>1, LeastNat
  <2>3. i # 0
    BY <1>1
  <2>4. i \in 1..n /\ i - 1 \in 0..n /\ i - 1 \notin Bad
    BY <1>0, <2>2, <2>3
  <2>5. Same(i - 1)
    BY <2>4
  <2> DEFINE u == s[i - 1]
             v == t[i - 1]
             l == a[i].arg
             m == b[i].arg
  <2>6. /\ ListsAll(u, LabelsTo(a, i - 1)) /\ ListsAll(v, LabelsTo(b, i - 1))
        /\ s[i] = SeenNext(u, l) /\ t[i] = SeenNext(v, m)
        /\ m = (IF l = 0 THEN 0 ELSE f[l])
        /\ l # 0 => l \in LabelsOf(a)
        /\ DOMAIN u = DOMAIN v /\ \A k \in DOMAIN u : v[k] = f[u[k]]
    BY <1>1, <1>2, <1>5, <1>6, <2>4, <2>5
  <2>7. \A k \in DOMAIN u : u[k] \in LabelsOf(a)
    BY <1>7, <2>4, <2>6 DEF ListsAll
  <2> HIDE DEF u, v, l, m
  <2>8. CASE l = 0 \/ l \in ToSet(u)
    <3>1. m = 0 \/ m \in ToSet(v)
      BY <2>6, <2>8 DEF ToSet
    <3>2. s[i] = u /\ t[i] = v
      BY <2>6, <2>8, <3>1 DEF SeenNext
    <3>3. Same(i)
      BY <2>6, <3>2
    <3> QED BY <3>3
  <2>9. CASE ~(l = 0 \/ l \in ToSet(u))
    <3>1. l \in LabelsOf(a) /\ m = f[l] /\ m # 0
      BY <1>4, <2>6, <2>9
    <3>2. m \notin ToSet(v)
      <4> SUFFICES ASSUME NEW k \in DOMAIN v, v[k] = m PROVE FALSE
        BY DEF ToSet
      <4>1. f[u[k]] = f[l] /\ u[k] \in LabelsOf(a)
        BY <2>6, <2>7, <3>1
      <4>2. u[k] = l
        BY <1>3, <3>1, <4>1
      <4> QED BY <2>6, <2>9, <4>2 DEF ToSet
    <3>3. s[i] = Append(u, l) /\ t[i] = Append(v, m)
      BY <2>6, <2>9, <3>1, <3>2 DEF SeenNext
    <3>4. u \in Seq(LabelsTo(a, i - 1)) /\ v \in Seq(LabelsTo(b, i - 1))
      BY <2>6 DEF ListsAll
    <3>5. /\ DOMAIN u = 1..Len(u) /\ DOMAIN v = 1..Len(v) /\ Len(u) \in Nat /\ Len(v) \in Nat
      BY <3>4
    <3>6. Len(u) = Len(v)
      <4>1. 1..Len(u) = 1..Len(v)
        BY <2>6, <3>5
      <4> QED BY <3>5, <4>1, SameInterval
    <3>7. /\ DOMAIN s[i] = 1..(Len(u) + 1) /\ DOMAIN t[i] = 1..(Len(u) + 1)
          /\ s[i][Len(u) + 1] = l /\ t[i][Len(u) + 1] = m
          /\ \A k \in 1..Len(u) : s[i][k] = u[k] /\ t[i][k] = v[k]
      BY <3>3, <3>4, <3>6
    <3>8. ASSUME NEW k \in DOMAIN s[i] PROVE t[i][k] = f[s[i][k]]
      <4>1. CASE k = Len(u) + 1
        BY <3>1, <3>7, <4>1
      <4>2. CASE k # Len(u) + 1
        <5>1. k \in 1..Len(u)
          BY <3>5, <3>7, <4>2
        <5> QED BY <2>6, <3>5, <3>7, <5>1
      <4> QED BY <4>1, <4>2
    <3>9. Same(i)
      BY <3>7, <3>8
    <3> QED BY <3>9
  <2> QED BY <2>8, <2>9
<1>9. n \in 0..n
  BY <1>0
<1>10. Same(n)
  BY <1>8, <1>9
<1> QED BY <1>0, <1>10 DEF FirstSeen, s, t, n

LEMMA RenamedCanon ==
  ASSUME NEW a \in Seq(Line), NEW b \in Seq(Line), Len(a) = Len(b), NEW f,
         f \in Bijection(LabelsOf(a), LabelsOf(b)), RenamedBy(f, a, b)
  PROVE  canon_labels(a) = canon_labels(b)
<1> DEFINE s == FirstSeen(a)
           t == FirstSeen(b)
           c == canon_labels(a)
           d == canon_labels(b)
<1>1. /\ Numbered(c, a, s) /\ Numbered(d, b, t)
      /\ c = [i \in DOMAIN a |-> L(c[i].op, c[i].arg)]
      /\ d = [i \in DOMAIN b |-> L(d[i].op, d[i].arg)]
  BY CanonIs
<1>2. DOMAIN s = DOMAIN t /\ \A k \in DOMAIN s : t[k] = f[s[k]]
  BY RenamedSeen
<1>3. DOMAIN a = DOMAIN b
  OBVIOUS
<1>4. \A x \in LabelsOf(a) : f[x] # 0
  BY DEF Bijection, Injection, LabelsOf
<1> HIDE DEF s, t, c, d
<1>5. ASSUME NEW i \in DOMAIN a PROVE c[i].op = d[i].op /\ c[i].arg = d[i].arg
  <2>1. a[i].op = b[i].op /\ b[i].arg = IF a[i].arg = 0 THEN 0 ELSE f[a[i].arg]
    BY DEF RenamedBy
  <2>2. c[i].op = d[i].op
    BY <1>1, <1>3, <2>1 DEF Numbered
  <2>3. CASE a[i].arg = 0
    BY <1>1, <1>3, <2>1, <2>2, <2>3 DEF Numbered
  <2>4. CASE a[i].arg # 0
    <3>1. a[i].arg \in LabelsOf(a)
      BY <2>4 DEF LabelsOf
    <3>2. b[i].arg # 0 /\ b[i].arg = f[a[i].arg]
      BY <1>4, <2>1, <2>4, <3>1
    <3>3. /\ c[i].arg \in DOMAIN s /\ s[c[i].arg] = a[i].arg
          /\ d[i].arg \in DOMAIN t /\ t[d[i].arg] = b[i].arg
      BY <1>1, <1>3, <2>4, <3>2 DEF Numbered
    <3>4. t[c[i].arg] = t[d[i].arg] /\ c[i].arg \in DOMAIN t
      BY <1>2, <3>2, <3>3
    <3>5. c[i].arg = d[i].arg
      BY <1>1, <3>3, <3>4 DEF Numbered, ListsAll
    <3> QED BY <2>2, <3>5
  <2> QED BY <2>3, <2>4
<1> QED BY <1>1, <1>3, <1>5 DEF c, d

\* Two functions are canonically equal exactly when some renaming of local labels
\* makes one the other (main.cpp:522-528), whatever their length and however many
\* labels they use: diffing canonical text neither hides a difference of control
\* flow nor reports a mere difference of numbering.
THEOREM LabelsAreCanonical == Spec => []LabelsCanonical
<1> DEFINE Asked == subject = "labels" => query \in Bodies
<1>1. Init => Asked
  BY DEF Init, Inputs
<1>2. Asked /\ [Next]_vars => Asked'
  BY DEF Next, vars, Sweeping, Linting, Amalgamating, Bridging, Converting
<1>3. Asked => LabelsCanonical
  <2> SUFFICES ASSUME subject = "labels", query \in Bodies PROVE LabelsCanonical
    BY DEF LabelsCanonical
  <2> DEFINE a == query.a
             b == query.b
  <2>1. a \in Seq(Line) /\ b \in Seq(Line)
    BY BodiesAssumption
  <2> HIDE DEF a, b
  <2>2. ASSUME canon_labels(a) = canon_labels(b)
        PROVE  Len(a) = Len(b) /\ \E f \in Bijection(LabelsOf(a), LabelsOf(b)) : RenamedBy(f, a, b)
    <3>1. /\ Numbered(canon_labels(a), a, FirstSeen(a))
          /\ Numbered(canon_labels(b), b, FirstSeen(b))
      BY <2>1, CanonIs
    <3>2. DOMAIN a = DOMAIN b
      BY <2>2, <3>1 DEF Numbered
    <3>3. Len(a) = Len(b)
      BY <2>1, <3>2
    <3> QED BY <2>2, <3>1, <3>3, SameCanonRenames
  <2>3. ASSUME Len(a) = Len(b), NEW f \in Bijection(LabelsOf(a), LabelsOf(b)), RenamedBy(f, a, b)
        PROVE  canon_labels(a) = canon_labels(b)
    BY <2>1, <2>3, RenamedCanon
  <2> QED BY <2>2, <2>3 DEF LabelsCanonical, LabelsOf, RenamedBy, a, b
<1> QED
  BY <1>1, <1>2, <1>3, PTL DEF Spec

-----------------------------------------------------------------------------
\* The words of erased.hpp.

LEMMA WidthIs == /\ HalfBits \in Nat /\ HalfBits >= 1 /\ Width \in Nat
                 /\ Width = HalfBits + HalfBits
BY WordAssumption DEF Width

LEMMA Halves ==
  ASSUME NEW n \in Int
  PROVE  n \div 2 \in Int /\ n % 2 \in 0..1 /\ n = 2 * (n \div 2) + (n % 2)
OBVIOUS

LEMMA HalvedIs ==
  ASSUME NEW n
  PROVE  Halved(n)[0] = n /\ \A i \in 1..Width : Halved(n)[i] = Halved(n)[i - 1] \div 2
<1> DEFINE Is(f, k) == f = [i \in 0..k |-> IF i = 0 THEN n ELSE f[i - 1] \div 2]
           Bad == {k \in Nat : ~\E f : Is(f, k)}
<1>1. Bad = {}
  <2> SUFFICES ASSUME Bad # {} PROVE FALSE
    OBVIOUS
  <2>1. PICK k \in Bad : \A j \in Bad : k <= j
    <3> HIDE DEF Bad
    <3>1. Bad \subseteq Nat
      BY DEF Bad
    <3> QED BY <3>1, LeastNat
  <2>2. k \in Nat /\ ~\E f : Is(f, k)
    BY <2>1
  <2>3. k # 0
    <3> DEFINE f == [i \in 0..0 |-> n]
    <3>1. Is(f, 0)
      OBVIOUS
    <3> QED BY <2>2, <3>1
  <2>4. k - 1 \in Nat /\ k - 1 \notin Bad
    <3> HIDE DEF Bad
    <3> QED BY <2>1, <2>2, <2>3
  <2>5. PICK g : Is(g, k - 1)
    BY <2>4
  <2> DEFINE f == [i \in 0..k |-> IF i = 0 THEN n ELSE g[i - 1] \div 2]
  <2>6. ASSUME NEW i \in 0..k, i # 0 PROVE f[i - 1] = g[i - 1]
    <3>1. i - 1 \in 0..(k - 1) /\ i - 1 \in 0..k
      BY <2>2, <2>6
    <3>2. g[i - 1] = IF i - 1 = 0 THEN n ELSE g[(i - 1) - 1] \div 2
      BY <2>5, <3>1
    <3> QED BY <3>1, <3>2
  <2>7. Is(f, k)
    <3> HIDE DEF f
    <3>1. \A i \in 0..k : f[i] = IF i = 0 THEN n ELSE f[i - 1] \div 2
      BY <2>6 DEF f
    <3>2. f = [i \in 0..k |-> f[i]]
      BY DEF f
    <3> QED BY <3>1, <3>2
  <2> QED BY <2>2, <2>7
<1> DEFINE half == Halved(n)
<1>w. Width \in Nat
  BY WidthIs
<1>2. \E f : Is(f, Width)
  BY <1>1, <1>w
<1>3. Is(half, Width)
  BY <1>2 DEF Halved
<1> HIDE DEF half
<1>4. half[0] = n /\ \A i \in 1..Width : half[i] = half[i - 1] \div 2
  BY <1>3, WidthIs
<1> QED BY <1>4 DEF half

LEMMA DoubledIs ==
  ASSUME NEW n
  PROVE  Doubled(n)[0] = n /\ \A i \in 1..Width : Doubled(n)[i] = 2 * Doubled(n)[i - 1]
<1> DEFINE Is(f, k) == f = [i \in 0..k |-> IF i = 0 THEN n ELSE 2 * f[i - 1]]
           Bad == {k \in Nat : ~\E f : Is(f, k)}
<1>1. Bad = {}
  <2> SUFFICES ASSUME Bad # {} PROVE FALSE
    OBVIOUS
  <2>1. PICK k \in Bad : \A j \in Bad : k <= j
    <3> HIDE DEF Bad
    <3>1. Bad \subseteq Nat
      BY DEF Bad
    <3> QED BY <3>1, LeastNat
  <2>2. k \in Nat /\ ~\E f : Is(f, k)
    BY <2>1
  <2>3. k # 0
    <3> DEFINE f == [i \in 0..0 |-> n]
    <3>1. Is(f, 0)
      OBVIOUS
    <3> QED BY <2>2, <3>1
  <2>4. k - 1 \in Nat /\ k - 1 \notin Bad
    <3> HIDE DEF Bad
    <3> QED BY <2>1, <2>2, <2>3
  <2>5. PICK g : Is(g, k - 1)
    BY <2>4
  <2> DEFINE f == [i \in 0..k |-> IF i = 0 THEN n ELSE 2 * g[i - 1]]
  <2>6. ASSUME NEW i \in 0..k, i # 0 PROVE f[i - 1] = g[i - 1]
    <3>1. i - 1 \in 0..(k - 1) /\ i - 1 \in 0..k
      BY <2>2, <2>6
    <3>2. g[i - 1] = IF i - 1 = 0 THEN n ELSE 2 * g[(i - 1) - 1]
      BY <2>5, <3>1
    <3> QED BY <3>1, <3>2
  <2>7. Is(f, k)
    <3> HIDE DEF f
    <3>1. \A i \in 0..k : f[i] = IF i = 0 THEN n ELSE 2 * f[i - 1]
      BY <2>6 DEF f
    <3>2. f = [i \in 0..k |-> f[i]]
      BY DEF f
    <3> QED BY <3>1, <3>2
  <2> QED BY <2>2, <2>7
<1> DEFINE twice == Doubled(n)
<1>w. Width \in Nat
  BY WidthIs
<1>2. \E f : Is(f, Width)
  BY <1>1, <1>w
<1>3. Is(twice, Width)
  BY <1>2 DEF Doubled
<1> HIDE DEF twice
<1>4. twice[0] = n /\ \A i \in 1..Width : twice[i] = 2 * twice[i - 1]
  BY <1>3, WidthIs
<1> QED BY <1>4 DEF twice

\* What holds at 0 and goes on from one position to the next holds up to k.
LEMMA UpTo ==
  ASSUME NEW k \in Nat, NEW S, 0 \in S, \A i \in 1..k : i - 1 \in S => i \in S
  PROVE  \A i \in 0..k : i \in S
<1> DEFINE Bad == {i \in 0..k : i \notin S}
<1>1. Bad = {}
  <2> SUFFICES ASSUME Bad # {} PROVE FALSE
    OBVIOUS
  <2>1. Bad \subseteq Nat
    OBVIOUS
  <2>2. PICK i \in Bad : \A j \in Bad : i <= j
    BY <2>1, LeastNat
  <2>3. i \in 1..k /\ i - 1 \in 0..k /\ i - 1 \notin Bad
    BY <2>2
  <2> QED BY <2>2, <2>3
<1> QED BY <1>1

LEMMA HalvedInt ==
  ASSUME NEW n \in Int
  PROVE  \A i \in 0..Width : Halved(n)[i] \in Int
<1> DEFINE S == {i \in 0..Width : Halved(n)[i] \in Int}
<1>1. 0 \in S
  BY HalvedIs, WidthIs
<1>2. ASSUME NEW i \in 1..Width, i - 1 \in S PROVE i \in S
  <2>1. Halved(n)[i] = Halved(n)[i - 1] \div 2 /\ Halved(n)[i - 1] \in Int
    BY <1>2, HalvedIs
  <2>2. i \in 0..Width
    BY WidthIs
  <2> QED BY <2>1, <2>2, Halves
<1> HIDE DEF S
<1>3. \A i \in 0..Width : i \in S
  BY <1>1, <1>2, UpTo, WidthIs
<1> QED BY <1>3 DEF S

LEMMA DoubledInt ==
  ASSUME NEW n \in Int
  PROVE  \A i \in 0..Width : Doubled(n)[i] \in Int /\ (n >= 1 => Doubled(n)[i] >= 1)
<1> DEFINE S == {i \in 0..Width : Doubled(n)[i] \in Int /\ (n >= 1 => Doubled(n)[i] >= 1)}
<1>1. 0 \in S
  BY DoubledIs, WidthIs
<1>2. ASSUME NEW i \in 1..Width, i - 1 \in S PROVE i \in S
  <2>1. /\ Doubled(n)[i] = 2 * Doubled(n)[i - 1]
        /\ Doubled(n)[i - 1] \in Int /\ (n >= 1 => Doubled(n)[i - 1] >= 1)
    BY <1>2, DoubledIs
  <2>2. i \in 0..Width
    BY WidthIs
  <2> QED BY <2>1, <2>2
<1> HIDE DEF S
<1>3. \A i \in 0..Width : i \in S
  BY <1>1, <1>2, UpTo, WidthIs
<1> QED BY <1>3 DEF S

\* Shifted right by its width, a number is 0.
LEMMA HalvedEnds ==
  ASSUME NEW k \in 0..Width, NEW n \in 0..(Doubled(1)[k] - 1), NEW i \in k..Width
  PROVE  Halved(n)[i] = 0
<1>0. Width \in Nat /\ k \in Nat
  BY WidthIs
<1>a. \A j \in 0..Width : Doubled(1)[j] \in Int /\ Doubled(1)[j] >= 1
  BY DoubledInt
<1>b. n \in Int
  BY <1>a
<1> DEFINE S == {j \in 0..k : Halved(n)[j] \in 0..(Doubled(1)[k - j] - 1)}
<1>1. 0 \in S
  BY <1>0, HalvedIs
<1>2. ASSUME NEW j \in 1..k, j - 1 \in S PROVE j \in S
  <2> DEFINE x == Halved(n)[j - 1]
             y == Halved(n)[j]
             p == Doubled(1)[k - j]
             q == Doubled(1)[k - (j - 1)]
  <2>1. j \in 1..Width /\ k - j \in 0..Width /\ k - (j - 1) \in 1..Width
        /\ (k - (j - 1)) - 1 = k - j
    BY <1>0
  <2>2. y = x \div 2 /\ q = 2 * p
    BY <2>1, HalvedIs, DoubledIs
  <2>3. x \in 0..(q - 1) /\ p \in Int /\ q \in Int
    BY <1>a, <1>2, <2>1
  <2> HIDE DEF x, y, p, q
  <2>4. y \in 0..(p - 1)
    BY <2>2, <2>3
  <2> QED BY <2>4 DEF y, p
<1> HIDE DEF S
<1>3. \A j \in 0..k : j \in S
  BY <1>0, <1>1, <1>2, UpTo
<1>4. Halved(n)[k] = 0
  <2>1. k \in S
    BY <1>0, <1>3
  <2>2. Halved(n)[k] \in 0..(Doubled(1)[0] - 1)
    BY <1>0, <2>1 DEF S
  <2>3. Doubled(1)[0] = 1
    BY DoubledIs
  <2> QED BY <2>2, <2>3
<1> DEFINE T == {j \in 0..(Width - k) : Halved(n)[k + j] = 0}
<1>5. 0 \in T
  BY <1>0, <1>4
<1>6. ASSUME NEW j \in 1..(Width - k), j - 1 \in T PROVE j \in T
  <2>1. k + j \in 1..Width /\ (k + j) - 1 = k + (j - 1)
    BY <1>0
  <2>2. Halved(n)[k + j] = Halved(n)[k + (j - 1)] \div 2
    BY <2>1, HalvedIs
  <2>3. Halved(n)[k + j] = 0
    BY <1>6, <2>2
  <2> QED BY <2>3
<1> HIDE DEF T
<1>7. \A j \in 0..(Width - k) : j \in T
  BY <1>0, <1>5, <1>6, UpTo
<1>8. i - k \in 0..(Width - k) /\ k + (i - k) = i
  BY <1>0
<1> QED BY <1>7, <1>8 DEF T

\* Numbers with the same bits, and nothing above them, are the same.
LEMMA SameBits ==
  ASSUME NEW k \in 0..Width, NEW m \in Int, NEW n \in Int,
         Halved(m)[k] = Halved(n)[k],
         \A i \in 0..(k - 1) : Halved(m)[i] % 2 = Halved(n)[i] % 2
  PROVE  m = n
<1>0. Width \in Nat /\ k \in Nat
  BY WidthIs
<1> DEFINE S == {j \in 0..k : Halved(m)[k - j] = Halved(n)[k - j]}
<1>1. 0 \in S
  BY <1>0
<1>2. ASSUME NEW j \in 1..k, j - 1 \in S PROVE j \in S
  <2> DEFINE x == Halved(m)[k - j]
             y == Halved(n)[k - j]
  <2>1. /\ k - j \in 0..(k - 1) /\ k - j \in 0..Width
        /\ k - (j - 1) \in 1..Width /\ (k - (j - 1)) - 1 = k - j
    BY <1>0
  <2>2. Halved(m)[k - (j - 1)] = x \div 2 /\ Halved(n)[k - (j - 1)] = y \div 2
    BY <2>1, HalvedIs
  <2>3. x % 2 = y % 2 /\ x \in Int /\ y \in Int
    BY <2>1, HalvedInt
  <2>4. x \div 2 = y \div 2
    BY <1>2, <2>2
  <2> HIDE DEF x, y
  <2>5. x = y
    BY <2>3, <2>4, Halves
  <2> QED BY <2>5 DEF x, y
<1> HIDE DEF S
<1>3. \A j \in 0..k : j \in S
  BY <1>0, <1>1, <1>2, UpTo
<1>4. Halved(m)[0] = Halved(n)[0]
  <2>1. k \in S /\ k - k = 0
    BY <1>0, <1>3
  <2> QED BY <2>1 DEF S
<1> QED BY <1>4, HalvedIs

\* Shifted left and then right again: first the shift is undone.
LEMMA HalvedDoubled ==
  ASSUME NEW n \in Int
  PROVE  /\ \A i \in 0..HalfBits : Halved(Doubled(n)[HalfBits])[i] = Doubled(n)[HalfBits - i]
         /\ \A i \in 0..HalfBits : Halved(Doubled(n)[HalfBits])[HalfBits + i] = Halved(n)[i]
<1>0. HalfBits \in Nat /\ Width \in Nat /\ Width = HalfBits + HalfBits
  BY WidthIs
<1> DEFINE h == HalfBits
           d == Doubled(n)[HalfBits]
           S == {i \in 0..h : Halved(d)[i] = Doubled(n)[h - i]}
           T == {i \in 0..h : Halved(d)[h + i] = Halved(n)[i]}
<1> HIDE DEF d
<1>1. \A i \in 0..h : i \in S
  <2>1. 0 \in S
    BY <1>0, HalvedIs DEF d
  <2>2. ASSUME NEW i \in 1..h, i - 1 \in S PROVE i \in S
    <3>1. /\ i \in 1..Width /\ h - (i - 1) \in 1..Width /\ (h - (i - 1)) - 1 = h - i
          /\ h - i \in 0..Width
      BY <1>0
    <3> DEFINE x == Doubled(n)[h - i]
               y == Doubled(n)[h - (i - 1)]
    <3>2. Halved(d)[i] = Halved(d)[i - 1] \div 2
      BY <3>1, HalvedIs
    <3>3. y = 2 * x
      BY <3>1, DoubledIs
    <3>4. x \in Int
      BY <3>1, DoubledInt
    <3>5. Halved(d)[i - 1] = y
      BY <2>2
    <3> HIDE DEF x, y
    <3>6. y \div 2 = x
      BY <3>3, <3>4
    <3>7. Halved(d)[i] = x
      BY <3>2, <3>5, <3>6
    <3> QED BY <3>7 DEF x
  <2> HIDE DEF S
  <2> QED BY <1>0, <2>1, <2>2, UpTo
<1>2. Halved(d)[h] = n
  <2>1. h \in S /\ h - h = 0
    BY <1>0, <1>1
  <2> QED BY <2>1, DoubledIs
<1>3. \A i \in 0..h : i \in T
  <2>1. 0 \in T
    BY <1>0, <1>2, HalvedIs
  <2>2. ASSUME NEW i \in 1..h, i - 1 \in T PROVE i \in T
    <3>1. i \in 1..Width /\ h + i \in 1..Width /\ (h + i) - 1 = h + (i - 1)
      BY <1>0
    <3>2. Halved(d)[h + i] = Halved(d)[h + (i - 1)] \div 2
      BY <3>1, HalvedIs
    <3>3. Halved(n)[i] = Halved(n)[i - 1] \div 2
      BY <3>1, HalvedIs
    <3>4. Halved(d)[h + (i - 1)] = Halved(n)[i - 1]
      BY <2>2
    <3>5. Halved(d)[h + i] = Halved(n)[i]
      BY <3>2, <3>3, <3>4
    <3> QED BY <3>5
  <2> HIDE DEF T
  <2> QED BY <1>0, <2>1, <2>2, UpTo
<1> QED BY <1>1, <1>3 DEF d

\* A bit put below a number shifts it left.
LEMMA HalvedPushed ==
  ASSUME NEW n \in Int, NEW b \in 0..1
  PROVE  \A i \in 1..Width : Halved(2 * n + b)[i] = Halved(n)[i - 1]
<1>0. Width \in Nat /\ Width >= 1
  BY WidthIs
<1> DEFINE m == 2 * n + b
<1>1. m \div 2 = n
  OBVIOUS
<1> HIDE DEF m
<1> DEFINE S == {i \in 0..(Width - 1) : Halved(m)[i + 1] = Halved(n)[i]}
<1>2. 0 \in S
  <2>1. 1 \in 1..Width /\ 1 - 1 = 0
    BY <1>0
  <2>2. Halved(m)[1] = Halved(m)[0] \div 2 /\ Halved(m)[0] = m /\ Halved(n)[0] = n
    BY <2>1, HalvedIs
  <2> QED BY <1>0, <1>1, <2>2
<1>3. ASSUME NEW i \in 1..(Width - 1), i - 1 \in S PROVE i \in S
  <2>1. i \in 1..Width /\ i + 1 \in 1..Width /\ (i + 1) - 1 = (i - 1) + 1
    BY <1>0
  <2>2. Halved(m)[i + 1] = Halved(m)[(i - 1) + 1] \div 2
    BY <2>1, HalvedIs
  <2>3. Halved(n)[i] = Halved(n)[i - 1] \div 2
    BY <2>1, HalvedIs
  <2>4. Halved(m)[(i - 1) + 1] = Halved(n)[i - 1]
    BY <1>3
  <2>5. Halved(m)[i + 1] = Halved(n)[i]
    BY <2>2, <2>3, <2>4
  <2>6. i \in 0..(Width - 1)
    BY <1>0
  <2> QED BY <2>5, <2>6
<1> HIDE DEF S
<1>4. \A i \in 0..(Width - 1) : i \in S
  BY <1>0, <1>2, <1>3, UpTo
<1>5. ASSUME NEW i \in 1..Width PROVE Halved(m)[i] = Halved(n)[i - 1]
  <2>1. i - 1 \in 0..(Width - 1) /\ (i - 1) + 1 = i
    BY <1>0
  <2>2. i - 1 \in S
    BY <1>4, <2>1
  <2>3. Halved(m)[(i - 1) + 1] = Halved(n)[i - 1]
    BY <2>2 DEF S
  <2> QED BY <2>1, <2>3
<1> QED BY <1>5 DEF m

\* Some int of k + 1 bits has the highest k + 1 of the bits.
HasTop(bits, k, n) ==
  /\ n \in (-Doubled(1)[k])..(Doubled(1)[k] - 1)
  /\ \A i \in 0..k : Halved(n)[i] % 2 = 1 <=> Width - 1 - k + i \in bits

\* Every set of positions is the bits of an int.
LEMMA SomeInt ==
  ASSUME NEW bits \in SUBSET (0..(Width - 1))
  PROVE  \E n \in Ints : Bits(n) = bits
<1>0. Width \in Nat /\ Width >= 1
  BY WidthIs
<1>a. \A j \in 0..Width : Doubled(1)[j] \in Int /\ Doubled(1)[j] >= 1
  BY DoubledInt
<1> DEFINE S == {k \in 0..(Width - 1) : \E n : HasTop(bits, k, n)}
<1>1. 0 \in S
  <2>0. PICK n \in Int : IF Width - 1 \in bits THEN n + 1 = 0 ELSE n = 0
    <3>1. (0 - 1) \in Int /\ (0 - 1) + 1 = 0
      OBVIOUS
    <3> QED BY <3>1
  <2>1. Doubled(1)[0] = 1 /\ Halved(n)[0] = n
    BY DoubledIs, HalvedIs
  <2>2. n \in (-1)..0 /\ (n % 2 = 1 <=> Width - 1 \in bits)
    <3>1. \A z \in Int : (z + 1 = 0 => z % 2 = 1) /\ (z = 0 => z % 2 = 0)
      BY Halves
    <3> QED BY <2>0, <3>1
  <2>3. (Width - 1 - 0) + 0 = Width - 1
    BY <1>0
  <2>4. HasTop(bits, 0, n)
    BY <2>1, <2>2, <2>3 DEF HasTop
  <2> QED BY <1>0, <2>4
<1>2. ASSUME NEW k \in 1..(Width - 1), k - 1 \in S PROVE k \in S
  <2>1. k \in 1..Width /\ k - 1 \in 0..Width /\ k \in 0..Width /\ k \in 0..(Width - 1)
    BY <1>0
  <2>2. PICK n : HasTop(bits, k - 1, n)
    BY <1>2
  <2> DEFINE b == IF Width - 1 - k \in bits THEN 1 ELSE 0
             m == 2 * n + b
             p == Doubled(1)[k - 1]
             q == Doubled(1)[k]
  <2>3. q = 2 * p /\ p \in Int /\ q \in Int
    BY <1>a, <2>1, DoubledIs
  <2>4. n \in (-p)..(p - 1)
    BY <2>2 DEF HasTop
  <2>5. b \in 0..1 /\ n \in Int
    BY <2>3, <2>4
  <2>6. m \in (-q)..(q - 1) /\ m \in Int
    <3> HIDE DEF p, q, b
    <3> QED BY <2>3, <2>4, <2>5
  <2>7. Halved(m)[0] = m /\ \A i \in 1..Width : Halved(m)[i] = Halved(n)[i - 1]
    BY <2>5, HalvedIs, HalvedPushed
  <2>8. m % 2 = b
    <3> HIDE DEF b
    <3> QED BY <2>5
  <2> HIDE DEF m
  <2>9. ASSUME NEW i \in 0..k PROVE Halved(m)[i] % 2 = 1 <=> Width - 1 - k + i \in bits
    <3>1. CASE i = 0
      <4>1. Width - 1 - k + i = Width - 1 - k
        BY <1>0, <3>1
      <4> QED BY <2>7, <2>8, <3>1, <4>1
    <3>2. CASE i # 0
      <4>1. /\ i \in 1..Width /\ i - 1 \in 0..(k - 1)
            /\ Width - 1 - (k - 1) + (i - 1) = Width - 1 - k + i
        BY <1>0, <3>2
      <4>2. Halved(n)[i - 1] % 2 = 1 <=> Width - 1 - (k - 1) + (i - 1) \in bits
        BY <2>2, <4>1 DEF HasTop
      <4>3. Halved(m)[i] = Halved(n)[i - 1]
        BY <2>7, <4>1
      <4> QED BY <4>1, <4>2, <4>3
    <3> QED BY <3>1, <3>2
  <2>10. HasTop(bits, k, m)
    BY <2>6, <2>9 DEF HasTop
  <2> QED BY <2>1, <2>10
<1> HIDE DEF S
<1>3. \A k \in 0..(Width - 1) : k \in S
  BY <1>0, <1>1, <1>2, UpTo
<1>4. Width - 1 \in S
  BY <1>0, <1>3
<1>5. PICK n : HasTop(bits, Width - 1, n)
  BY <1>4 DEF S
<1>6. n \in Ints
  BY <1>5 DEF HasTop, Ints
<1>7. \A i \in 0..(Width - 1) : Width - 1 - (Width - 1) + i = i
  BY <1>0
<1>8. \A i \in 0..(Width - 1) : Halved(n)[i] % 2 = 1 <=> i \in bits
  BY <1>5, <1>7 DEF HasTop
<1>9. Bits(n) = bits
  BY <1>8 DEF Bits
<1> QED BY <1>6, <1>9

LEMMA ToIntOneToOne ==
  ASSUME NEW S \in SUBSET (0..(Width - 1)), NEW T \in SUBSET (0..(Width - 1)),
         ToInt(S) = ToInt(T)
  PROVE  S = T
<1>1. Bits(ToInt(S)) = S
  <2>1. \E n \in Ints : Bits(n) = S
    BY SomeInt
  <2> QED BY <2>1, Zenon DEF ToInt
<1>2. Bits(ToInt(T)) = T
  <2>1. \E n \in Ints : Bits(n) = T
    BY SomeInt
  <2> QED BY <2>1, Zenon DEF ToInt
<1> QED BY <1>1, <1>2

-----------------------------------------------------------------------------
\* The erased error.

FitsHalf(n) == n \in 0..(Doubled(1)[HalfBits] - 1)

LEMMA FitsInt ==
  ASSUME NEW n, FitsHalf(n)
  PROVE  n \in Int /\ \A i \in HalfBits..Width : Halved(n)[i] = 0
<1>1. HalfBits \in 0..Width
  BY WidthIs
<1>2. Doubled(1)[HalfBits] \in Int
  BY <1>1, DoubledInt
<1> QED BY <1>1, <1>2, HalvedEnds DEF FitsHalf

\* What fits half a word has its bits in the lower half, and is known by them.
LEMMA LowBits ==
  ASSUME NEW n, FitsHalf(n)
  PROVE  Bits(n) \subseteq 0..(HalfBits - 1)
<1>1. \A i \in HalfBits..Width : Halved(n)[i] = 0
  BY FitsInt
<1>2. ASSUME NEW i \in Bits(n) PROVE i \in 0..(HalfBits - 1)
  <2>1. i \in 0..(Width - 1) /\ Halved(n)[i] % 2 = 1
    BY DEF Bits
  <2>2. i \notin HalfBits..Width
    BY <1>1, <2>1
  <2> QED BY <2>1, <2>2, WidthIs
<1> QED BY <1>2

LEMMA HalfKnown ==
  ASSUME NEW m, NEW n, FitsHalf(m), FitsHalf(n), Bits(m) = Bits(n)
  PROVE  m = n
<1>0. HalfBits \in 0..Width /\ HalfBits \in HalfBits..Width
  BY WidthIs
<1>1. m \in Int /\ n \in Int /\ Halved(m)[HalfBits] = 0 /\ Halved(n)[HalfBits] = 0
  BY <1>0, FitsInt
<1>2. ASSUME NEW i \in 0..(HalfBits - 1) PROVE Halved(m)[i] % 2 = Halved(n)[i] % 2
  <2>1. i \in 0..(Width - 1) /\ i \in 0..Width
    BY WidthIs
  <2>2. Halved(m)[i] % 2 = 1 <=> Halved(n)[i] % 2 = 1
    BY <2>1 DEF Bits
  <2>3. Halved(m)[i] % 2 \in 0..1 /\ Halved(n)[i] % 2 \in 0..1
    BY <1>1, <2>1, HalvedInt, Halves
  <2> QED BY <2>2, <2>3
<1> QED BY <1>0, <1>1, <1>2, SameBits

\* A tag shifted by half a word has its bits in the upper half.
LEMMA HighBits ==
  ASSUME NEW n, FitsHalf(n)
  PROVE  Bits(Doubled(n)[HalfBits]) = {i \in HalfBits..(Width - 1) : i - HalfBits \in Bits(n)}
<1>0. HalfBits \in Nat /\ HalfBits >= 1 /\ Width = HalfBits + HalfBits /\ Width \in Nat
  BY WidthIs
<1> DEFINE d == Doubled(n)[HalfBits]
<1>a. n \in Int
  BY FitsInt
<1>1. /\ \A i \in 0..HalfBits : Halved(d)[i] = Doubled(n)[HalfBits - i]
      /\ \A i \in 0..HalfBits : Halved(d)[HalfBits + i] = Halved(n)[i]
  BY <1>a, HalvedDoubled
<1> HIDE DEF d
<1>2. ASSUME NEW i \in 0..(HalfBits - 1) PROVE Halved(d)[i] % 2 = 0
  <2>1. i \in 0..HalfBits /\ HalfBits - i \in 1..Width /\ (HalfBits - i) - 1 \in 0..Width
    BY <1>0
  <2>2. Halved(d)[i] = 2 * Doubled(n)[(HalfBits - i) - 1]
    BY <1>1, <2>1, DoubledIs
  <2>3. Doubled(n)[(HalfBits - i) - 1] \in Int
    BY <1>a, <2>1, DoubledInt
  <2> QED BY <2>2, <2>3
<1>3. ASSUME NEW i \in 0..(Width - 1)
      PROVE  i \in Bits(d) <=> i \in HalfBits..(Width - 1) /\ i - HalfBits \in Bits(n)
  <2>1. CASE i \in 0..(HalfBits - 1)
    <3>1. i \notin Bits(d)
      BY <1>2, <2>1 DEF Bits
    <3> QED BY <1>0, <2>1, <3>1
  <2>2. CASE i \in HalfBits..(Width - 1)
    <3>1. i - HalfBits \in 0..HalfBits /\ i - HalfBits \in 0..(Width - 1)
          /\ HalfBits + (i - HalfBits) = i
      BY <1>0, <2>2
    <3>2. Halved(d)[i] = Halved(n)[i - HalfBits]
      BY <1>1, <3>1
    <3> QED BY <2>2, <3>1, <3>2 DEF Bits
  <2> QED BY <1>0, <2>1, <2>2
<1>4. Bits(d) \subseteq 0..(Width - 1) /\ HalfBits..(Width - 1) \subseteq 0..(Width - 1)
  BY <1>0 DEF Bits
<1> QED BY <1>3, <1>4 DEF d

\* The tag can be read back from the upper half.
LEMMA TagKnown ==
  ASSUME NEW s, NEW t, FitsHalf(s), FitsHalf(t),
         Bits(Doubled(s)[HalfBits]) = Bits(Doubled(t)[HalfBits])
  PROVE  s = t
<1>0. HalfBits \in Nat /\ HalfBits >= 1 /\ Width = HalfBits + HalfBits /\ Width \in Nat
  BY WidthIs
<1>1. {i \in HalfBits..(Width - 1) : i - HalfBits \in Bits(s)} =
      {i \in HalfBits..(Width - 1) : i - HalfBits \in Bits(t)}
  BY HighBits
<1>2. Bits(s) \subseteq 0..(HalfBits - 1) /\ Bits(t) \subseteq 0..(HalfBits - 1)
  BY LowBits
<1>3. ASSUME NEW i \in 0..(HalfBits - 1) PROVE i \in Bits(s) <=> i \in Bits(t)
  <2>1. i + HalfBits \in HalfBits..(Width - 1) /\ (i + HalfBits) - HalfBits = i
    BY <1>0
  <2> QED BY <1>1, <2>1
<1>4. Bits(s) = Bits(t)
  BY <1>2, <1>3
<1> QED BY <1>4, HalfKnown

LEMMA BitsOf == \A n : Bits(n) \in SUBSET (0..(Width - 1))
BY DEF Bits

LEMMA FoldKnown ==
  ASSUME NEW c, NEW d, NEW s, NEW t, fold_generic_error(c, s) = fold_generic_error(d, t)
  PROVE  SymDiff(Bits(c), Bits(Doubled(s)[HalfBits])) =
         SymDiff(Bits(d), Bits(Doubled(t)[HalfBits]))
<1> DEFINE S == SymDiff(Bits(c), Bits(Doubled(s)[HalfBits]))
           T == SymDiff(Bits(d), Bits(Doubled(t)[HalfBits]))
<1>1. S \in SUBSET (0..(Width - 1)) /\ T \in SUBSET (0..(Width - 1))
  BY BitsOf DEF SymDiff
<1>2. ToInt(S) = ToInt(T)
  BY DEF fold_generic_error
<1> HIDE DEF S, T
<1>3. S = T
  BY <1>1, <1>2, ToIntOneToOne
<1> QED BY <1>3 DEF S, T

\* While code and tag fit half a word, the fold loses neither.
LEMMA FoldFaithful ==
  ASSUME NEW c, NEW d, NEW s, NEW t, FitsHalf(c), FitsHalf(d), FitsHalf(s), FitsHalf(t),
         fold_generic_error(c, s) = fold_generic_error(d, t)
  PROVE  c = d /\ s = t
<1> DEFINE C == Bits(c)
           D == Bits(d)
           S == Bits(Doubled(s)[HalfBits])
           T == Bits(Doubled(t)[HalfBits])
           Low == 0..(HalfBits - 1)
           High == HalfBits..(Width - 1)
<1>1. SymDiff(C, S) = SymDiff(D, T)
  BY FoldKnown
<1>2. C \subseteq Low /\ D \subseteq Low
  BY LowBits
<1>3. S \subseteq High /\ T \subseteq High
  BY HighBits
<1>4. Low \cap High = {}
  BY WidthIs
<1> HIDE DEF C, D, S, T, Low, High
<1>5. C = D /\ S = T
  BY <1>1, <1>2, <1>3, <1>4 DEF SymDiff
<1> QED BY <1>5, HalfKnown, TagKnown DEF C, D, S, T

\* Whatever the code, two tags that fit are told apart.
LEMMA FoldTells ==
  ASSUME NEW c, NEW s, NEW t, FitsHalf(s), FitsHalf(t),
         fold_generic_error(c, s) = fold_generic_error(c, t)
  PROVE  s = t
<1> DEFINE C == Bits(c)
           S == Bits(Doubled(s)[HalfBits])
           T == Bits(Doubled(t)[HalfBits])
<1>1. SymDiff(C, S) = SymDiff(C, T)
  BY FoldKnown
<1> HIDE DEF C, S, T
<1>2. S = T
  BY <1>1 DEF SymDiff
<1> QED BY <1>2, TagKnown DEF S, T

\* Two bare errors are equal once erased exactly when code and tag are, while both
\* fit half a word, and two tags are told apart whatever the code; a bare error is
\* never one of another domain (erased.hpp:44-57, 140-144): for words of any width.
THEOREM ErasedIsFaithful == Spec => []ErasedFaithful
<1> DEFINE Asked == subject = "erased" => query \in Pairs
<1>1. Init => Asked
  BY DEF Init, Inputs
<1>2. Asked /\ [Next]_vars => Asked'
  BY DEF Next, vars, Sweeping, Linting, Amalgamating, Bridging, Converting
<1>3. Asked => ErasedFaithful
  <2> SUFFICES ASSUME subject = "erased", query \in Pairs PROVE ErasedFaithful
    BY DEF ErasedFaithful
  <2> DEFINE p == query.a
             q == query.b
             a == ErasedGeneric(p.code, p.tag)
             b == ErasedGeneric(q.code, q.tag)
  <2>1. p \in [code : Int, tag : Int] /\ q \in [code : Int, tag : Int]
    BY PairsAssumption
  <2>2. ErasedEqual(a, b) <=>
          fold_generic_error(p.code, p.tag) = fold_generic_error(q.code, q.tag)
    BY DEF ErasedEqual, ErasedGeneric
  <2>3. ~ErasedEqual(a, ErasedIn(a.value, Unknown))
    BY WordAssumption DEF ErasedEqual, ErasedGeneric, ErasedIn
  <2> HIDE DEF p, q, a, b
  <2>4. ASSUME FitsHalf(p.code), FitsHalf(p.tag), FitsHalf(q.code), FitsHalf(q.tag)
        PROVE  ErasedEqual(a, b) <=> p = q
    <3>1. ErasedEqual(a, b) => p.code = q.code /\ p.tag = q.tag
      BY <2>2, <2>4, FoldFaithful
    <3> QED BY <2>1, <2>2, <3>1
  <2>5. ASSUME FitsHalf(p.tag), FitsHalf(q.tag), p.code = q.code
        PROVE  ErasedEqual(a, b) <=> p.tag = q.tag
    BY <2>2, <2>5, FoldTells
  <2> QED BY <2>3, <2>4, <2>5 DEF ErasedFaithful, FitsHalf, p, q, a, b
<1> QED
  BY <1>1, <1>2, <1>3, PTL DEF Spec

-----------------------------------------------------------------------------
\* The metadata of an enum.

\* An enum without aliases whose values the fallback scans.
Plain(e) == WellFormed(e) /\ InRange(e) /\ Distinct(e)

LEMMA PlainIs ==
  ASSUME NEW e, Plain(e)
  PROVE  /\ Len(e.decls) \in Nat /\ DOMAIN e.decls = 1..Len(e.decls)
         /\ e.lo \in Int /\ e.hi \in Int /\ Span(e) \in Nat /\ e.modulus \in Nat
         /\ \A i \in DOMAIN e.decls :
              /\ e.decls[i] \in [name : STRING, value : Int]
              /\ e.decls[i].name # NoName /\ e.decls[i].value \in Int
              /\ e.decls[i].value \in Values(e) /\ e.decls[i].name \in Names(e)
         /\ Values(e) \subseteq Window(e)
<1>1. /\ e.decls \in Seq([name : STRING, value : Int]) /\ e.lo \in Int /\ e.hi \in Int
      /\ Span(e) \in Nat /\ e.modulus \in Nat
      /\ \A i \in DOMAIN e.decls : e.decls[i].name # NoName
      /\ Values(e) \subseteq Window(e)
  BY DEF Plain, WellFormed, InRange
<1>2. Len(e.decls) \in Nat /\ DOMAIN e.decls = 1..Len(e.decls)
  BY <1>1
<1>3. \A i \in DOMAIN e.decls :
        e.decls[i] \in [name : STRING, value : Int] /\ e.decls[i].value \in Int
  <2> DEFINE R == [name : STRING, value : Int]
  <2>1. \A d \in R : d.value \in Int
    OBVIOUS
  <2>2. e.decls \in Seq(R)
    BY <1>1
  <2> HIDE DEF R
  <2>3. \A i \in DOMAIN e.decls : e.decls[i] \in R
    BY <1>2, <2>2
  <2> QED BY <2>1, <2>3 DEF R
<1>4. \A i \in DOMAIN e.decls : e.decls[i].value \in Values(e) /\ e.decls[i].name \in Names(e)
  BY DEF Values, Names
<1> QED BY <1>1, <1>2, <1>3, <1>4

\* Two numbers less than m apart with one remainder are the same.
LEMMA OneRemainder ==
  ASSUME NEW m \in Nat \ {0}, NEW v \in Int, NEW w \in 0..(m - 1),
         v % m = w, v - w < m, w - v < m
  PROVE  v = w
<1> DEFINE q == v \div m
<1>1. q \in Int /\ v = m * q + (v % m)
  OBVIOUS
<1>2. v - w = m * q
  BY <1>1
<1> HIDE DEF q
<1>3. ~(q >= 1)
  BY <1>1, <1>2
<1>4. ~(q <= -1)
  BY <1>1, <1>2
<1>5. q = 0
  BY <1>1, <1>3, <1>4
<1> QED BY <1>2, <1>5

\* Within the window a value is named exactly if it is declared, and the casts
\* leave it as it is.
LEMMA WindowIs ==
  ASSUME NEW e, Plain(e), NEW v \in Window(e)
  PROVE  /\ is_enumerator(e, v) <=> v \in Values(e)
         /\ v \in Values(e) => CastTo(e, v) = v
<1>1. v \in Int /\ e.lo \in Int /\ e.hi \in Int /\ v >= e.lo /\ v <= e.hi
  BY PlainIs DEF Window
<1>2. \A w : Spelled(e, w) <=> w \in Values(e)
  BY DEF Spelled, ToSet, Values
<1>3. CASE e.modulus = 0
  BY <1>2, <1>3 DEF is_enumerator, CastTo
<1>4. CASE e.modulus # 0
  <2> DEFINE m == e.modulus
  <2>1. m \in Nat \ {0} /\ e.hi - e.lo + 1 <= m
    BY <1>4, PlainIs DEF Plain, InRange, Span
  <2>2. \A w \in Values(e) : w \in 0..(m - 1) /\ w \in Int /\ w >= e.lo /\ w <= e.hi
    <3>1. \A w \in Values(e) : w \in 0..(m - 1)
      BY <1>4 DEF Plain, WellFormed, Values
    <3>2. \A w \in Values(e) : w \in Window(e)
      BY PlainIs
    <3> QED BY <1>1, <3>1, <3>2 DEF Window
  <2>3. CastTo(e, v) = v % m
    BY <1>4 DEF CastTo
  <2> HIDE DEF m
  <2>4. ASSUME v \in Values(e) PROVE v % m = v
    <3>1. v \in 0..(m - 1)
      BY <2>2, <2>4
    <3> QED BY <2>1, <3>1
  <2>5. ASSUME v % m \in Values(e) PROVE v = v % m
    <3> DEFINE w == v % m
    <3>1. w \in 0..(m - 1) /\ w \in Int /\ w >= e.lo /\ w <= e.hi
      BY <2>2, <2>5
    <3>2. v % m = w
      OBVIOUS
    <3> HIDE DEF w
    <3>3. v - w < m /\ w - v < m
      BY <1>1, <2>1, <3>1
    <3>4. v = w
      BY <1>1, <2>1, <3>1, <3>2, <3>3, OneRemainder
    <3> QED BY <3>4 DEF w
  <2> QED BY <1>2, <2>3, <2>4, <2>5 DEF is_enumerator
<1> QED BY <1>3, <1>4

\* What is declared once is found where it is declared.
LEMMA OnlyOne ==
  ASSUME NEW e, NEW i \in Int
  PROVE  FirstOf(e, {i}) = e.decls[i] /\ LastOf(e, {i}) = e.decls[i]
<1>1. (CHOOSE k \in {i} : \A j \in {i} : k <= j) = i
  <2>1. \E k \in {i} : \A j \in {i} : k <= j
    OBVIOUS
  <2> QED BY <2>1, Zenon
<1>2. (CHOOSE k \in {i} : \A j \in {i} : k >= j) = i
  <2>1. \E k \in {i} : \A j \in {i} : k >= j
    OBVIOUS
  <2> QED BY <2>1, Zenon
<1> QED BY <1>1, <1>2 DEF FirstOf, LastOf

LEMMA DeclIs ==
  ASSUME NEW e, Plain(e), NEW i \in DOMAIN e.decls
  PROVE  /\ FirstOf(e, OfValue(e, e.decls[i].value)) = e.decls[i]
         /\ LastOf(e, OfValue(e, e.decls[i].value)) = e.decls[i]
         /\ FirstOf(e, OfName(e, e.decls[i].name)) = e.decls[i]
         /\ (CHOOSE d \in ToSet(e.decls) : d.value = e.decls[i].value) = e.decls[i]
         /\ (CHOOSE d \in ToSet(e.decls) : d.name = e.decls[i].name) = e.decls[i]
<1>1. i \in Int
  BY PlainIs
<1>2. OfValue(e, e.decls[i].value) = {i}
  BY DEF Plain, Distinct, OfValue
<1>3. OfName(e, e.decls[i].name) = {i}
  BY DEF Plain, WellFormed, OfName
<1>4. e.decls[i] \in ToSet(e.decls)
  BY DEF ToSet
<1>5. \A d \in ToSet(e.decls) : d.value = e.decls[i].value => d = e.decls[i]
  BY DEF Plain, Distinct, ToSet
<1>6. \A d \in ToSet(e.decls) : d.name = e.decls[i].name => d = e.decls[i]
  BY DEF Plain, WellFormed, ToSet
<1>7. (CHOOSE d \in ToSet(e.decls) : d.value = e.decls[i].value) = e.decls[i]
  BY <1>4, <1>5, Zenon
<1>8. (CHOOSE d \in ToSet(e.decls) : d.name = e.decls[i].name) = e.decls[i]
  BY <1>4, <1>6, Zenon
<1> QED BY <1>1, <1>2, <1>3, <1>7, <1>8, OnlyOne

\* The spelling of a value is the name it is declared with.
LEMMA SpellingIs ==
  ASSUME NEW e, Plain(e)
  PROVE  /\ \A i \in DOMAIN e.decls :
              enumerator_spelling(e, e.decls[i].value) = e.decls[i].name
         /\ \A v \in Window(e) \ Values(e) : enumerator_spelling(e, v) = NoName
<1>1. ASSUME NEW i \in DOMAIN e.decls
      PROVE  enumerator_spelling(e, e.decls[i].value) = e.decls[i].name
  <2> DEFINE v == e.decls[i].value
  <2>1. v \in Values(e) /\ v \in Window(e)
    BY PlainIs
  <2>2. is_enumerator(e, v) /\ CastTo(e, v) = v
    BY <2>1, WindowIs
  <2>3. FirstOf(e, OfValue(e, v)) = e.decls[i]
    BY DeclIs
  <2> QED BY <2>2, <2>3 DEF enumerator_spelling
<1>2. ASSUME NEW v \in Window(e) \ Values(e) PROVE enumerator_spelling(e, v) = NoName
  BY WindowIs DEF enumerator_spelling
<1> QED BY <1>1, <1>2

\* The name and the value of the declaration.
Named(e, v) == IF v \in Values(e) THEN (CHOOSE d \in ToSet(e.decls) : d.value = v).name ELSE NoName
Valued(e, n) == IF n = NoName THEN NoName ELSE (CHOOSE d \in ToSet(e.decls) : d.name = n).value
Told(e, v) == IF v \in Values(e) THEN (CHOOSE d \in ToSet(e.decls) : d.value = v).name ELSE Unknown

LEMMA NamesDerived ==
  ASSUME NEW e, Plain(e), NEW v \in Window(e)
  PROVE  /\ reflected_name(e, v) = Named(e, v) /\ scan_name(e, v) = Named(e, v)
         /\ reflected_message(e, v) = Told(e, v) /\ scan_message(e, v) = Told(e, v)
<1>0. v - e.lo \in 0..(Span(e) - 1) /\ e.lo + (v - e.lo) = v
  BY PlainIs DEF Window, Span
<1>1. name_table(e)[v - e.lo] = enumerator_spelling(e, v)
  BY <1>0 DEF name_table
<1>2. CASE v \in Values(e)
  <2>1. PICK i \in DOMAIN e.decls : e.decls[i].value = v
    BY <1>2 DEF Values
  <2>2. /\ FirstOf(e, OfValue(e, v)) = e.decls[i] /\ LastOf(e, OfValue(e, v)) = e.decls[i]
        /\ (CHOOSE d \in ToSet(e.decls) : d.value = v) = e.decls[i]
    BY <2>1, DeclIs
  <2>3. enumerator_spelling(e, v) = e.decls[i].name /\ e.decls[i].name # NoName
    BY <2>1, SpellingIs, PlainIs
  <2>4. Named(e, v) = e.decls[i].name /\ Told(e, v) = e.decls[i].name
    BY <1>2, <2>2 DEF Named, Told
  <2>5. reflected_name(e, v) = e.decls[i].name /\ reflected_message(e, v) = e.decls[i].name
    BY <1>2, <2>2 DEF reflected_name, reflected_message
  <2>6. scan_name(e, v) = e.decls[i].name /\ scan_message(e, v) = e.decls[i].name
    BY <1>1, <2>3 DEF scan_name, scan_message
  <2> QED BY <2>4, <2>5, <2>6
<1>3. CASE v \notin Values(e)
  <2>1. enumerator_spelling(e, v) = NoName
    BY <1>3, SpellingIs
  <2>2. scan_name(e, v) = NoName /\ scan_message(e, v) = Unknown
    BY <1>1, <2>1 DEF scan_name, scan_message
  <2> QED BY <1>3, <2>2 DEF Named, Told, reflected_name, reflected_message
<1> QED BY <1>2, <1>3

LEMMA CastsDerived ==
  ASSUME NEW e, Plain(e), NEW n \in Names(e)
  PROVE  reflected_cast(e, n) = Valued(e, n) /\ scan_value(e, n) = Valued(e, n)
<1>1. PICK i \in DOMAIN e.decls : e.decls[i].name = n
  BY DEF Names
<1> DEFINE v == e.decls[i].value
<1>2. v \in Values(e) /\ v \in Window(e) /\ v \in Int /\ n # NoName
  BY <1>1, PlainIs
<1>3. Valued(e, n) = v
  <2>1. (CHOOSE d \in ToSet(e.decls) : d.name = n) = e.decls[i]
    BY <1>1, DeclIs
  <2> QED BY <1>2, <2>1 DEF Valued
<1>4. reflected_cast(e, n) = v
  BY <1>1, DeclIs DEF reflected_cast
<1> DEFINE here == {w \in Window(e) : is_enumerator(e, w) /\ enumerator_spelling(e, w) = n}
<1>5. here = {v}
  <2>1. v \in here
    BY <1>1, <1>2, WindowIs, SpellingIs
  <2>2. ASSUME NEW w \in here PROVE w = v
    <3>1. w \in Values(e) /\ enumerator_spelling(e, w) = n
      BY WindowIs
    <3>2. PICK j \in DOMAIN e.decls : e.decls[j].value = w
      BY <3>1 DEF Values
    <3>3. e.decls[j].name = n
      BY <3>1, <3>2, SpellingIs
    <3>4. j = i
      BY <1>1, <3>3 DEF Plain, WellFormed
    <3> QED BY <3>2, <3>4
  <2> QED BY <2>1, <2>2
<1>6. (CHOOSE k \in {v} : \A w \in {v} : k <= w) = v
  <2> HIDE DEF v
  <2>1. \E k \in {v} : \A j \in {v} : k <= j
    BY <1>2
  <2> QED BY <2>1, Zenon
<1>7. CastTo(e, v) = v
  BY <1>2, WindowIs
<1>8. scan_value(e, n) = v
  <2>1. scan_value(e, n) = IF here = {} THEN NoName
                           ELSE CastTo(e, CHOOSE k \in here : \A w \in here : k <= w)
    BY DEF scan_value
  <2> HIDE DEF here, v
  <2> QED BY <1>5, <1>6, <1>7, <2>1
<1> QED BY <1>3, <1>4, <1>8

-----------------------------------------------------------------------------
\* The failures in the order of their values.

\* The scan up to a value of the window.
ScanNext(found, e, v) == IF is_enumerator(e, v) THEN Append(found, v) ELSE found

LEMMA ScanIs ==
  ASSUME NEW e, Span(e) \in Nat
  PROVE  /\ ScanTo(e)[0] = <<>>
         /\ \A n \in 1..Span(e) : ScanTo(e)[n] = ScanNext(ScanTo(e)[n - 1], e, e.lo + n - 1)
<1> DEFINE Shown(n) == e.lo + n - 1
           Is(f, k) == f = [i \in 0..k |-> IF i = 0 THEN <<>>
                                           ELSE ScanNext(f[i - 1], e, Shown(i))]
           Bad == {k \in Nat : ~\E f : Is(f, k)}
<1> HIDE DEF Shown
<1>1. Bad = {}
  <2> SUFFICES ASSUME Bad # {} PROVE FALSE
    OBVIOUS
  <2>1. PICK k \in Bad : \A j \in Bad : k <= j
    <3> HIDE DEF Bad
    <3>1. Bad \subseteq Nat
      BY DEF Bad
    <3> QED BY <3>1, LeastNat
  <2>2. k \in Nat /\ ~\E f : Is(f, k)
    BY <2>1
  <2>3. k # 0
    <3> DEFINE f == [i \in 0..0 |-> <<>>]
    <3>1. Is(f, 0)
      OBVIOUS
    <3> QED BY <2>2, <3>1
  <2>4. k - 1 \in Nat /\ k - 1 \notin Bad
    <3> HIDE DEF Bad
    <3> QED BY <2>1, <2>2, <2>3
  <2>5. PICK g : Is(g, k - 1)
    BY <2>4
  <2> DEFINE f == [i \in 0..k |-> IF i = 0 THEN <<>> ELSE ScanNext(g[i - 1], e, Shown(i))]
  <2>6. ASSUME NEW i \in 0..k, i # 0 PROVE f[i - 1] = g[i - 1]
    <3>1. i - 1 \in 0..(k - 1) /\ i - 1 \in 0..k
      BY <2>2, <2>6
    <3>2. g[i - 1] = IF i - 1 = 0 THEN <<>> ELSE ScanNext(g[(i - 1) - 1], e, Shown(i - 1))
      BY <2>5, <3>1
    <3> QED BY <3>1, <3>2
  <2>7. Is(f, k)
    <3> HIDE DEF f
    <3>1. \A i \in 0..k : f[i] = IF i = 0 THEN <<>> ELSE ScanNext(f[i - 1], e, Shown(i))
      BY <2>6 DEF f
    <3>2. f = [i \in 0..k |-> f[i]]
      BY DEF f
    <3> QED BY <3>1, <3>2
  <2> QED BY <2>2, <2>7
<1> DEFINE found == ScanTo(e)
<1>3. \E f : Is(f, Span(e))
  BY <1>1
<1>4. Is(found, Span(e))
  BY <1>3 DEF ScanTo, ScanNext, Shown
<1> HIDE DEF found
<1>5. found[0] = <<>> /\ \A i \in 1..Span(e) : found[i] = ScanNext(found[i - 1], e, Shown(i))
  BY <1>4
<1> QED BY <1>5 DEF found, Shown

LEMMA InsertedIs ==
  ASSUME NEW e, Len(e.decls) \in Nat
  PROVE  /\ InsertedTo(e)[0] = <<>>
         /\ \A n \in 1..Len(e.decls) :
              InsertedTo(e)[n] = Inserted(InsertedTo(e)[n - 1], e.decls[n])
<1> DEFINE Is(f, k) == f = [i \in 0..k |-> IF i = 0 THEN <<>>
                                           ELSE Inserted(f[i - 1], e.decls[i])]
           Bad == {k \in Nat : ~\E f : Is(f, k)}
<1>1. Bad = {}
  <2> SUFFICES ASSUME Bad # {} PROVE FALSE
    OBVIOUS
  <2>1. PICK k \in Bad : \A j \in Bad : k <= j
    <3> HIDE DEF Bad
    <3>1. Bad \subseteq Nat
      BY DEF Bad
    <3> QED BY <3>1, LeastNat
  <2>2. k \in Nat /\ ~\E f : Is(f, k)
    BY <2>1
  <2>3. k # 0
    <3> DEFINE f == [i \in 0..0 |-> <<>>]
    <3>1. Is(f, 0)
      OBVIOUS
    <3> QED BY <2>2, <3>1
  <2>4. k - 1 \in Nat /\ k - 1 \notin Bad
    <3> HIDE DEF Bad
    <3> QED BY <2>1, <2>2, <2>3
  <2>5. PICK g : Is(g, k - 1)
    BY <2>4
  <2> DEFINE f == [i \in 0..k |-> IF i = 0 THEN <<>> ELSE Inserted(g[i - 1], e.decls[i])]
  <2>6. ASSUME NEW i \in 0..k, i # 0 PROVE f[i - 1] = g[i - 1]
    <3>1. i - 1 \in 0..(k - 1) /\ i - 1 \in 0..k
      BY <2>2, <2>6
    <3>2. g[i - 1] = IF i - 1 = 0 THEN <<>> ELSE Inserted(g[(i - 1) - 1], e.decls[i - 1])
      BY <2>5, <3>1
    <3> QED BY <3>1, <3>2
  <2>7. Is(f, k)
    <3> HIDE DEF f
    <3>1. \A i \in 0..k : f[i] = IF i = 0 THEN <<>> ELSE Inserted(f[i - 1], e.decls[i])
      BY <2>6 DEF f
    <3>2. f = [i \in 0..k |-> f[i]]
      BY DEF f
    <3> QED BY <3>1, <3>2
  <2> QED BY <2>2, <2>7
<1> DEFINE sorted == InsertedTo(e)
<1>3. \E f : Is(f, Len(e.decls))
  BY <1>1
<1>4. Is(sorted, Len(e.decls))
  BY <1>3 DEF InsertedTo
<1> HIDE DEF sorted
<1>5. /\ sorted[0] = <<>>
      /\ \A i \in 1..Len(e.decls) : sorted[i] = Inserted(sorted[i - 1], e.decls[i])
  <2>1. Len(e.decls) \in Nat
    OBVIOUS
  <2>2. \A i \in 0..Len(e.decls) :
          sorted[i] = IF i = 0 THEN <<>> ELSE Inserted(sorted[i - 1], e.decls[i])
    BY <1>4
  <2>3. 0 \in 0..Len(e.decls)
    BY <2>1
  <2>4. \A i \in 1..Len(e.decls) : i \in 0..Len(e.decls) /\ i # 0
    BY <2>1
  <2> QED BY <2>2, <2>3, <2>4
<1> QED BY <1>5 DEF sorted

\* The values of S, and the declarations of S, in ascending order.
Rising(s, S) ==
  /\ s \in Seq(S)
  /\ \A v \in S : \E k \in 1..Len(s) : s[k] = v
  /\ \A j, k \in 1..Len(s) : j < k => s[j] < s[k]
Ascends(s, S) ==
  /\ s \in Seq(S)
  /\ \A d \in S : \E k \in 1..Len(s) : s[k] = d
  /\ \A j, k \in 1..Len(s) : j < k => s[j].value < s[k].value

LEMMA RisingNext ==
  ASSUME NEW S, S \subseteq Int, NEW s, Rising(s, S), NEW v \in Int, \A w \in S : w < v
  PROVE  Rising(Append(s, v), S \cup {v})
<1> DEFINE t == Append(s, v)
           T == S \cup {v}
           n == Len(s)
<1>1. s \in Seq(T) /\ v \in T /\ n \in Nat
  BY DEF Rising
<1>2. t \in Seq(T) /\ Len(t) = n + 1 /\ t[n + 1] = v /\ \A k \in 1..n : t[k] = s[k]
  BY <1>1
<1>3. \A k \in 1..n : s[k] \in S
  BY DEF Rising
<1> HIDE DEF t, T, n
<1>4. \A w \in T : \E k \in 1..(n + 1) : t[k] = w
  <2>1. \A w \in S : \E k \in 1..n : s[k] = w
    BY DEF Rising, n
  <2>2. \A k \in 1..n : k \in 1..(n + 1)
    BY <1>1
  <2>3. n + 1 \in 1..(n + 1)
    BY <1>1
  <2> QED BY <1>2, <2>1, <2>2, <2>3 DEF T
<1>5. ASSUME NEW j \in 1..(n + 1), NEW k \in 1..(n + 1), j < k PROVE t[j] < t[k]
  <2>1. j \in 1..n
    BY <1>1, <1>5
  <2>2. CASE k = n + 1
    BY <1>2, <1>3, <2>1, <2>2
  <2>3. CASE k # n + 1
    <3>1. k \in 1..n
      BY <1>1, <2>3
    <3>2. s[j] < s[k]
      BY <1>5, <2>1, <3>1 DEF Rising, n
    <3> QED BY <1>2, <2>1, <3>1, <3>2
  <2> QED BY <2>2, <2>3
<1> QED BY <1>2, <1>4, <1>5 DEF Rising, t, T

\* The values below a point of the window.
ValuesTo(e, n) == {v \in Values(e) : v < e.lo + n}

LEMMA ScanRises ==
  ASSUME NEW e, Plain(e)
  PROVE  Rising(Scan(e), Values(e))
<1> DEFINE found == ScanTo(e)
           S == {n \in 0..Span(e) : Rising(found[n], ValuesTo(e, n))}
<1>0. /\ Span(e) \in Nat /\ e.lo \in Int /\ e.hi \in Int /\ Values(e) \subseteq Window(e)
      /\ Window(e) \subseteq Int /\ Span(e) = e.hi - e.lo + 1
  BY PlainIs DEF Window, Span
<1>a. \A v \in Values(e) : v \in Int /\ e.lo <= v /\ v <= e.hi
  BY <1>0 DEF Window
<1>1. /\ found[0] = <<>>
      /\ \A n \in 1..Span(e) : found[n] = ScanNext(found[n - 1], e, e.lo + n - 1)
  BY <1>0, ScanIs
<1> HIDE DEF found
<1>2. 0 \in S
  <2>1. ValuesTo(e, 0) = {}
    BY <1>0, <1>a DEF ValuesTo
  <2>2. Rising(<<>>, {})
    BY DEF Rising
  <2>3. Rising(found[0], ValuesTo(e, 0))
    BY <1>1, <2>1, <2>2, Zenon
  <2>4. 0 \in 0..Span(e)
    BY <1>0
  <2> QED BY <2>3, <2>4
<1>3. ASSUME NEW n \in 1..Span(e), n - 1 \in S PROVE n \in S
  <2> DEFINE v == e.lo + n - 1
  <2>1. Rising(found[n - 1], ValuesTo(e, n - 1))
    BY <1>3
  <2>2. v \in Int /\ v \in Window(e)
    BY <1>0 DEF Window
  <2>3. found[n] = ScanNext(found[n - 1], e, v)
    BY <1>1
  <2>4. is_enumerator(e, v) <=> v \in Values(e)
    BY <2>2, WindowIs
  <2>5. ValuesTo(e, n - 1) \subseteq Int /\ \A w \in ValuesTo(e, n - 1) : w < v
    <3>1. e.lo + (n - 1) = v
      BY <1>0
    <3> QED BY <1>a, <3>1 DEF ValuesTo
  <2>6. \A w \in Values(e) : w < e.lo + n <=> (w < e.lo + (n - 1) \/ w = v)
    BY <1>0, <1>a
  <2> HIDE DEF v
  <2>7. CASE v \in Values(e)
    <3>1. ValuesTo(e, n) = ValuesTo(e, n - 1) \cup {v}
      BY <2>6, <2>7 DEF ValuesTo
    <3>2. Rising(Append(found[n - 1], v), ValuesTo(e, n))
      BY <2>1, <2>2, <2>5, <3>1, RisingNext
    <3>3. found[n] = Append(found[n - 1], v)
      BY <2>3, <2>4, <2>7 DEF ScanNext
    <3>4. n \in 0..Span(e)
      BY <1>0
    <3> QED BY <3>2, <3>3, <3>4
  <2>8. CASE v \notin Values(e)
    <3>1. ValuesTo(e, n) = ValuesTo(e, n - 1)
      BY <2>6, <2>8 DEF ValuesTo
    <3>2. found[n] = found[n - 1]
      BY <2>3, <2>4, <2>8 DEF ScanNext
    <3>3. n \in 0..Span(e)
      BY <1>0
    <3> QED BY <2>1, <3>1, <3>2, <3>3
  <2> QED BY <2>7, <2>8
<1> HIDE DEF S
<1>4. \A n \in 0..Span(e) : n \in S
  BY <1>0, <1>2, <1>3, UpTo
<1>5. Rising(found[Span(e)], ValuesTo(e, Span(e)))
  <2>1. Span(e) \in S
    BY <1>0, <1>4
  <2> QED BY <2>1 DEF S
<1>6. ValuesTo(e, Span(e)) = Values(e)
  BY <1>0, <1>a DEF ValuesTo
<1> QED BY <1>5, <1>6 DEF Scan, found

\* The fallback lists every declaration, in the order of their values.
LEMMA ScannedFailures ==
  ASSUME NEW e, Plain(e)
  PROVE  Ascends(build_failures(e), ToSet(e.decls)) /\ Len(build_failures(e)) = Len(Scan(e))
<1> DEFINE s == Scan(e)
           n == Len(s)
           f == build_failures(e)
           D == ToSet(e.decls)
<1>1. Rising(s, Values(e))
  BY ScanRises
<1>2. f = [k \in 1..n |-> [value |-> s[k], name |-> enumerator_spelling(e, s[k])]]
  BY DEF build_failures
<1>3. n \in Nat /\ \A k \in 1..n : s[k] \in Values(e)
  BY <1>1 DEF Rising
<1>4. \A i \in DOMAIN e.decls :
        /\ e.decls[i] = [value |-> e.decls[i].value, name |-> e.decls[i].name]
        /\ enumerator_spelling(e, e.decls[i].value) = e.decls[i].name
        /\ e.decls[i] \in D /\ e.decls[i].value \in Values(e)
  BY PlainIs, SpellingIs DEF ToSet
<1> HIDE DEF s, f, D, n
<1>5. \A k \in 1..n : \A i \in DOMAIN e.decls : e.decls[i].value = s[k] => f[k] = e.decls[i]
  BY <1>2, <1>4
<1>6. \A k \in 1..n : f[k] \in D /\ f[k].value = s[k]
  <2> SUFFICES ASSUME NEW k \in 1..n PROVE f[k] \in D /\ f[k].value = s[k]
    OBVIOUS
  <2>1. PICK i \in DOMAIN e.decls : e.decls[i].value = s[k]
    BY <1>3 DEF Values
  <2> QED BY <1>4, <1>5, <2>1
<1>7. f \in Seq(D) /\ Len(f) = n
  <2>1. f = [k \in 1..n |-> f[k]]
    BY <1>2
  <2> QED BY <1>3, <1>6, <2>1
<1>8. \A d \in D : \E k \in 1..n : f[k] = d
  <2> SUFFICES ASSUME NEW d \in D PROVE \E k \in 1..n : f[k] = d
    OBVIOUS
  <2>1. PICK i \in DOMAIN e.decls : e.decls[i] = d
    BY DEF D, ToSet
  <2>2. PICK k \in 1..n : s[k] = e.decls[i].value
    BY <1>1, <1>4 DEF Rising, n
  <2> QED BY <1>5, <2>1, <2>2
<1>9. \A j, k \in 1..n : j < k => f[j].value < f[k].value
  BY <1>1, <1>6 DEF Rising, n
<1> QED BY <1>7, <1>8, <1>9 DEF Ascends, f, D, n, s

\* Where a declaration goes among those in ascending order.
Fitting(s, d, j) ==
  /\ j \in 0..Len(s)
  /\ j = 0 \/ s[j].value <= d.value
  /\ \A i \in (j + 1)..Len(s) : s[i].value > d.value

LEMMA PlaceExists ==
  ASSUME NEW s, Len(s) \in Nat, NEW d, d.value \in Int,
         \A i \in 1..Len(s) : s[i].value \in Int
  PROVE  \E j : Fitting(s, d, j)
<1> DEFINE n == Len(s)
           B == {j \in 0..n : \A i \in (j + 1)..n : s[i].value > d.value}
<1>1. n \in B
  OBVIOUS
<1>2. B \subseteq Nat /\ B # {}
  BY <1>1
<1>3. PICK j \in B : \A k \in B : j <= k
  BY <1>2, LeastNat
<1>4. ASSUME j # 0, ~(s[j].value <= d.value) PROVE FALSE
  <2>1. j \in 1..n /\ j - 1 \in 0..n
    BY <1>3, <1>4
  <2>2. s[j].value > d.value
    BY <1>4, <2>1
  <2>3. ASSUME NEW i \in ((j - 1) + 1)..n PROVE s[i].value > d.value
    <3>1. i = j \/ i \in (j + 1)..n
      BY <2>1
    <3> QED BY <1>3, <2>2, <3>1
  <2>4. j - 1 \in B
    BY <2>1, <2>3
  <2> HIDE DEF B
  <2>5. j <= j - 1
    BY <1>3, <2>4
  <2> QED BY <2>1, <2>5
<1>5. Fitting(s, d, j)
  BY <1>3, <1>4 DEF Fitting
<1> QED BY <1>5

LEMMA AscendsNext ==
  ASSUME NEW S, S \subseteq [name : STRING, value : Int], NEW s, Ascends(s, S),
         NEW d \in [name : STRING, value : Int], \A x \in S : x.value # d.value
  PROVE  Ascends(Inserted(s, d), S \cup {d})
<1> DEFINE n == Len(s)
           T == S \cup {d}
           R == [name : STRING, value : Int]
<1>1. s \in Seq(S) /\ n \in Nat /\ \A k \in 1..n : s[k] \in S
  BY DEF Ascends
<1>2. \A x \in R : x.value \in Int
  OBVIOUS
<1>3. [value |-> d.value, name |-> d.name] = d
  OBVIOUS
<1>4. \A k \in 1..n : s[k].value \in Int /\ s[k].value # d.value
  BY <1>1, <1>2
<1>5. d.value \in Int
  BY <1>2
<1>6. \E j : Fitting(s, d, j)
  BY <1>1, <1>4, <1>5, PlaceExists
<1> DEFINE p == CHOOSE j \in 0..Len(s) :
                  /\ j = 0 \/ s[j].value <= d.value
                  /\ \A i \in (j + 1)..Len(s) : s[i].value > d.value
           t == Inserted(s, d)
<1>7. Fitting(s, d, p)
  BY <1>6, Zenon DEF Fitting
<1>8. t = [k \in 1..(n + 1) |-> IF k <= p THEN s[k] ELSE IF k = p + 1 THEN d ELSE s[k - 1]]
  BY <1>3 DEF Inserted
<1>9. /\ p \in 0..n /\ (p = 0 \/ s[p].value <= d.value)
      /\ \A i \in (p + 1)..n : s[i].value > d.value
  BY <1>7 DEF Fitting
<1>10. \A j, k \in 1..n : j < k => s[j].value < s[k].value
  BY DEF Ascends
<1> HIDE DEF p, t, n, R, T
<1>11. \A k \in 1..p : k \in 1..n /\ s[k].value < d.value
  <2> SUFFICES ASSUME NEW k \in 1..p PROVE k \in 1..n /\ s[k].value < d.value
    OBVIOUS
  <2>1. p \in 1..n /\ k \in 1..n /\ (k = p \/ k < p) /\ s[p].value <= d.value
    BY <1>1, <1>9
  <2>2. s[k].value <= s[p].value
    BY <1>4, <1>10, <2>1
  <2>3. s[k].value \in Int /\ s[p].value \in Int /\ s[k].value # d.value
    BY <1>4, <2>1
  <2> QED BY <1>5, <2>1, <2>2, <2>3
<1>12. /\ \A k \in 1..p : k \in 1..(n + 1) /\ t[k] = s[k]
       /\ p + 1 \in 1..(n + 1) /\ t[p + 1] = d
       /\ \A k \in (p + 1)..n : k + 1 \in 1..(n + 1) /\ t[k + 1] = s[k]
  <2>1. \A k \in 1..p : k \in 1..(n + 1) /\ t[k] = s[k]
    BY <1>1, <1>8, <1>9
  <2>2. p + 1 \in 1..(n + 1) /\ t[p + 1] = d
    BY <1>1, <1>8, <1>9
  <2>3. ASSUME NEW k \in (p + 1)..n PROVE k + 1 \in 1..(n + 1) /\ t[k + 1] = s[k]
    <3>1. k + 1 \in 1..(n + 1) /\ ~(k + 1 <= p) /\ k + 1 # p + 1 /\ (k + 1) - 1 = k
      BY <1>1, <1>9
    <3> QED BY <1>8, <3>1
  <2> QED BY <2>1, <2>2, <2>3
<1>13. ASSUME NEW k \in 1..(n + 1)
       PROVE  \/ k \in 1..p
              \/ k = p + 1
              \/ k - 1 \in (p + 1)..n /\ t[k] = s[k - 1]
  <2>1. k \in 1..p \/ k = p + 1 \/ k - 1 \in (p + 1)..n
    BY <1>1, <1>9
  <2>2. k - 1 \in (p + 1)..n => t[k] = s[k - 1]
    <3>1. (k - 1) + 1 = k
      BY <1>1
    <3> QED BY <1>12, <3>1
  <2> QED BY <2>1, <2>2
<1>14. \A k \in (p + 1)..n : k \in 1..n
  BY <1>1, <1>9
<1>15. t \in Seq(T) /\ Len(t) = n + 1
  <2>1. \A k \in 1..(n + 1) : t[k] \in T
    <3> SUFFICES ASSUME NEW k \in 1..(n + 1) PROVE t[k] \in T
      OBVIOUS
    <3>1. CASE k \in 1..p
      BY <1>1, <1>11, <1>12, <3>1 DEF T
    <3>2. CASE k = p + 1
      BY <1>12, <3>2 DEF T
    <3>3. CASE k - 1 \in (p + 1)..n /\ t[k] = s[k - 1]
      BY <1>1, <1>14, <3>3 DEF T
    <3> QED BY <1>13, <3>1, <3>2, <3>3
  <2>2. t = [k \in 1..(n + 1) |-> t[k]]
    BY <1>8
  <2>3. n + 1 \in Nat
    BY <1>1
  <2> QED BY <2>1, <2>2, <2>3
<1>16. \A x \in T : \E k \in 1..(n + 1) : t[k] = x
  <2>1. \A x \in S : \E k \in 1..n : s[k] = x
    BY DEF Ascends, n
  <2>2. ASSUME NEW k \in 1..n PROVE \E j \in 1..(n + 1) : t[j] = s[k]
    <3>1. k \in 1..p \/ k \in (p + 1)..n
      BY <1>1, <1>9
    <3> QED BY <1>12, <3>1
  <2> QED BY <1>12, <2>1, <2>2 DEF T
<1>17. ASSUME NEW j \in 1..(n + 1), NEW k \in 1..(n + 1), j < k
       PROVE  t[j].value < t[k].value
  <2>1. CASE j \in 1..p /\ k \in 1..p
    BY <1>10, <1>11, <1>12, <1>17, <2>1
  <2>2. CASE j \in 1..p /\ k = p + 1
    BY <1>11, <1>12, <2>2
  <2>3. CASE j \in 1..p /\ k - 1 \in (p + 1)..n /\ t[k] = s[k - 1]
    <3>1. s[j].value < d.value /\ d.value < s[k - 1].value
      BY <1>4, <1>5, <1>9, <1>11, <1>14, <2>3
    <3>2. s[j].value \in Int /\ s[k - 1].value \in Int
      BY <1>4, <1>11, <1>14, <2>3
    <3>3. s[j].value < s[k - 1].value
      BY <1>5, <3>1, <3>2
    <3> QED BY <1>12, <2>3, <3>3
  <2>4. CASE j = p + 1 /\ k - 1 \in (p + 1)..n /\ t[k] = s[k - 1]
    <3>1. d.value < s[k - 1].value
      BY <1>4, <1>5, <1>9, <1>14, <2>4
    <3> QED BY <1>12, <2>4, <3>1
  <2>5. CASE j - 1 \in (p + 1)..n /\ t[j] = s[j - 1] /\ k - 1 \in (p + 1)..n /\ t[k] = s[k - 1]
    <3>1. j - 1 < k - 1 /\ j - 1 \in 1..n /\ k - 1 \in 1..n
      BY <1>14, <1>17, <2>5
    <3>2. s[j - 1].value < s[k - 1].value
      BY <1>10, <3>1
    <3> QED BY <2>5, <3>2
  <2>6. ~(j = p + 1 /\ k \in 1..p) /\ ~(j = p + 1 /\ k = p + 1)
    BY <1>9, <1>17
  <2>7. ~(j - 1 \in (p + 1)..n /\ (k \in 1..p \/ k = p + 1))
    BY <1>1, <1>9, <1>17
  <2> QED BY <1>13, <2>1, <2>2, <2>3, <2>4, <2>5, <2>6, <2>7
<1> QED BY <1>15, <1>16, <1>17 DEF Ascends, t, T

\* The insertion lists every declaration, in the order of their values.
LEMMA InsertedFailures ==
  ASSUME NEW e, Plain(e)
  PROVE  Ascends(reflected_failures(e), ToSet(e.decls))
<1> DEFINE sorted == InsertedTo(e)
           n == Len(e.decls)
           D(k) == {e.decls[i] : i \in 1..k}
           S == {k \in 0..n : Ascends(sorted[k], D(k))}
<1>0. /\ n \in Nat /\ DOMAIN e.decls = 1..n
      /\ \A i \in 1..n : e.decls[i] \in [name : STRING, value : Int]
  BY PlainIs
<1>1. sorted[0] = <<>> /\ \A k \in 1..n : sorted[k] = Inserted(sorted[k - 1], e.decls[k])
  BY <1>0, InsertedIs
<1> HIDE DEF sorted
<1>2. 0 \in S
  <2>1. D(0) = {}
    OBVIOUS
  <2> HIDE DEF D
  <2>2. Ascends(<<>>, {})
    BY DEF Ascends
  <2>3. Ascends(sorted[0], D(0))
    BY <1>1, <2>1, <2>2, Zenon
  <2>4. 0 \in 0..n
    BY <1>0
  <2> QED BY <2>3, <2>4
<1>3. ASSUME NEW k \in 1..n, k - 1 \in S PROVE k \in S
  <2>1. Ascends(sorted[k - 1], D(k - 1))
    BY <1>3
  <2>2. \A i \in 1..(k - 1) : i \in 1..n /\ i # k
    BY <1>0
  <2>3. D(k - 1) \subseteq [name : STRING, value : Int]
    BY <1>0, <2>2
  <2>4. \A x \in D(k - 1) : x.value # e.decls[k].value
    BY <1>0, <2>2 DEF Plain, Distinct
  <2>5. D(k) = D(k - 1) \cup {e.decls[k]}
    <3>1. \A i : i \in 1..k <=> i \in 1..(k - 1) \/ i = k
      BY <1>0
    <3> QED BY <3>1
  <2>6. e.decls[k] \in [name : STRING, value : Int]
    BY <1>0
  <2> HIDE DEF D
  <2>7. Ascends(Inserted(sorted[k - 1], e.decls[k]), D(k - 1) \cup {e.decls[k]})
    BY <2>1, <2>3, <2>4, <2>6, AscendsNext
  <2>8. Ascends(sorted[k], D(k))
    BY <1>1, <2>5, <2>7
  <2>9. k \in 0..n
    BY <1>0
  <2> QED BY <2>8, <2>9
<1>4. D(n) = ToSet(e.decls)
  BY <1>0 DEF ToSet
<1> HIDE DEF S
<1>5. \A k \in 0..n : k \in S
  BY <1>0, <1>2, <1>3, UpTo
<1>6. Ascends(sorted[n], D(n))
  <2>1. n \in S
    BY <1>0, <1>5
  <2> QED BY <2>1 DEF S
<1> QED BY <1>4, <1>6 DEF reflected_failures, sorted

\* A list without repetition is as long as the set of what it lists is large.
LEMMA ListLength ==
  ASSUME NEW n \in Nat, NEW f, NEW T, \A k \in 1..n : f[k] \in T,
         \A x \in T : \E k \in 1..n : f[k] = x,
         \A j, k \in 1..n : f[j] = f[k] => j = k
  PROVE  IsFiniteSet(T) /\ Cardinality(T) = n
<1> DEFINE S == 1..n
           g == [k \in S |-> f[k]]
<1>1. IsFiniteSet(S) /\ Cardinality(S) = n
  BY FS_Interval
<1>2. g \in [S -> T] /\ \A k \in S : g[k] = f[k]
  OBVIOUS
<1> HIDE DEF g
<1>3. g \in Injection(S, T)
  BY <1>2 DEF Injection, IsInjective
<1>4. g \in Surjection(S, T)
  BY <1>2 DEF Surjection
<1> HIDE DEF S
<1>5. IsFiniteSet(T) /\ Cardinality(T) = Cardinality(S)
  BY <1>1, <1>3, <1>4, FS_Surjection
<1> QED BY <1>1, <1>5

\* The declarations in ascending order are what the enum declares.
LEMMA AscendsIs ==
  ASSUME NEW e, Plain(e), NEW s, Ascends(s, ToSet(e.decls))
  PROVE  /\ Len(s) = Len(e.decls)
         /\ s = [k \in DOMAIN e.decls |->
                   CHOOSE d \in ToSet(e.decls) :
                     Cardinality({v \in Values(e) : v < d.value}) = k - 1]
<1> DEFINE D == ToSet(e.decls)
           n == Len(s)
           m == Len(e.decls)
           Below(x) == {v \in Values(e) : v < x}
<1>0. /\ m \in Nat /\ DOMAIN e.decls = 1..m /\ \A i \in 1..m : e.decls[i].value \in Int
  BY PlainIs
<1>1. s \in Seq(D) /\ n \in Nat /\ (\A k \in 1..n : s[k] \in D)
      /\ s = [k \in 1..n |-> s[k]]
  BY DEF Ascends
<1>2. \A d \in D : \E k \in 1..n : s[k] = d
  BY DEF Ascends
<1>3. \A j, k \in 1..n : j < k => s[j].value < s[k].value
  BY DEF Ascends
<1>4. \A d \in D : d.value \in Int /\ d.value \in Values(e)
  BY <1>0 DEF ToSet, Values
<1>5. \A j, k \in 1..n : s[j].value = s[k].value => j = k
  <2> SUFFICES ASSUME NEW j \in 1..n, NEW k \in 1..n, s[j].value = s[k].value, j # k
               PROVE  FALSE
    OBVIOUS
  <2>1. s[j].value \in Int /\ s[k].value \in Int
    BY <1>1, <1>4
  <2>2. j < k \/ k < j
    OBVIOUS
  <2> QED BY <1>3, <2>1, <2>2
<1>6. n = m
  <2>1. Cardinality(D) = n
    <3>1. \A j, k \in 1..n : s[j] = s[k] => j = k
      BY <1>5
    <3> HIDE DEF D, n
    <3> QED BY <1>1, <1>2, <3>1, ListLength
  <2>2. Cardinality(D) = m
    <3>1. \A i \in 1..m : e.decls[i] \in D
      BY <1>0 DEF ToSet
    <3>2. \A d \in D : \E i \in 1..m : e.decls[i] = d
      BY <1>0 DEF ToSet
    <3>3. \A i, j \in 1..m : e.decls[i] = e.decls[j] => i = j
      BY <1>0 DEF Plain, Distinct
    <3> HIDE DEF D, m
    <3> QED BY <1>0, <3>1, <3>2, <3>3, ListLength
  <2> QED BY <2>1, <2>2
<1>7. ASSUME NEW k \in 1..n PROVE Cardinality(Below(s[k].value)) = k - 1
  <2> DEFINE T == Below(s[k].value)
             f == [j \in 1..(k - 1) |-> s[j].value]
  <2>1. \A j \in 1..(k - 1) : j \in 1..n /\ j < k
    BY <1>1
  <2>2. k - 1 \in Nat
    OBVIOUS
  <2>3. \A j \in 1..(k - 1) : f[j] \in T
    <3> SUFFICES ASSUME NEW j \in 1..(k - 1) PROVE s[j].value \in T
      OBVIOUS
    <3>1. j \in 1..n /\ j < k
      BY <2>1
    <3> QED BY <1>1, <1>3, <1>4, <3>1
  <2>4. \A x \in T : \E j \in 1..(k - 1) : f[j] = x
    <3> SUFFICES ASSUME NEW x \in T PROVE \E j \in 1..(k - 1) : s[j].value = x
      OBVIOUS
    <3>1. x \in Values(e) /\ x < s[k].value
      OBVIOUS
    <3>2. PICK i \in DOMAIN e.decls : e.decls[i].value = x
      BY <3>1 DEF Values
    <3>3. e.decls[i] \in D
      BY DEF ToSet
    <3>4. PICK j \in 1..n : s[j] = e.decls[i]
      BY <1>2, <3>3
    <3>5. s[j].value = x /\ x \in Int /\ s[k].value \in Int
      BY <1>0, <1>1, <1>4, <3>2, <3>4
    <3>6. j # k /\ ~(k < j)
      <4>1. j # k
        BY <3>1, <3>5
      <4>2. ASSUME k < j PROVE FALSE
        <5>1. s[k].value < x
          BY <1>3, <3>5, <4>2
        <5> QED BY <3>1, <3>5, <5>1
      <4> QED BY <4>1, <4>2
    <3>7. j \in 1..(k - 1)
      BY <1>1, <3>6
    <3> QED BY <3>5, <3>7
  <2>5. \A i, j \in 1..(k - 1) : f[i] = f[j] => i = j
    BY <1>5, <2>1
  <2> HIDE DEF T, f
  <2>6. Cardinality(T) = k - 1
    BY <2>2, <2>3, <2>4, <2>5, ListLength
  <2> QED BY <2>6 DEF T
<1> HIDE DEF D, n, m, Below
<1>8. ASSUME NEW k \in 1..n
      PROVE  (CHOOSE d \in D : Cardinality(Below(d.value)) = k - 1) = s[k]
  <2>1. s[k] \in D /\ Cardinality(Below(s[k].value)) = k - 1
    BY <1>1, <1>7
  <2>2. \A d \in D : Cardinality(Below(d.value)) = k - 1 => d = s[k]
    <3> SUFFICES ASSUME NEW d \in D, Cardinality(Below(d.value)) = k - 1 PROVE d = s[k]
      OBVIOUS
    <3>1. PICK j \in 1..n : s[j] = d
      BY <1>2
    <3>2. Cardinality(Below(d.value)) = j - 1
      BY <1>7, <3>1
    <3>3. j = k
      BY <1>1, <3>2
    <3> QED BY <3>1, <3>3
  <2> QED BY <2>1, <2>2, Zenon
<1>9. s = [k \in 1..n |-> CHOOSE d \in D : Cardinality(Below(d.value)) = k - 1]
  BY <1>1, <1>8
<1> QED BY <1>0, <1>6, <1>9 DEF D, n, m, Below

\* Both paths of reflect.hpp derive what the enum declares - names, values, their
\* number, the failures in the order of their values, and the messages - for enums of
\* any size, window and underlying type without aliases whose values are scanned.
THEOREM MetadataIsExact == Spec => []MetadataExact
<1> DEFINE Asked == subject = "enum" => query \in Enums
<1>1. Init => Asked
  BY DEF Init, Inputs
<1>2. Asked /\ [Next]_vars => Asked'
  BY DEF Next, vars, Sweeping, Linting, Amalgamating, Bridging, Converting
<1>3. Asked => MetadataExact
  <2> SUFFICES ASSUME subject = "enum", query \in Enums, InRange(query), Distinct(query),
                      NEW reflection \in BOOLEAN
               PROVE  Derived(query, reflection) = Declared(query)
    BY DEF MetadataExact
  <2> DEFINE e == query
  <2>0. Plain(e)
    BY EnumsAssumption DEF Plain
  <2> HIDE DEF e
  <2>a. Objects(e) \subseteq Window(e)
    BY <2>0, PlainIs DEF Objects
  <2>1. [v \in Objects(e) |-> IF reflection THEN reflected_name(e, v) ELSE scan_name(e, v)]
          = [v \in Objects(e) |-> Named(e, v)]
    BY <2>0, <2>a, NamesDerived
  <2>2. [v \in Objects(e) |->
           IF reflection THEN reflected_message(e, v) ELSE scan_message(e, v)]
          = [v \in Objects(e) |-> Told(e, v)]
    BY <2>0, <2>a, NamesDerived
  <2>3. [n \in Names(e) \cup {NoName} |->
           IF n = NoName THEN NoName
           ELSE IF reflection THEN reflected_cast(e, n) ELSE scan_value(e, n)]
          = [n \in Names(e) \cup {NoName} |-> Valued(e, n)]
    <3>1. Valued(e, NoName) = NoName
      BY DEF Valued
    <3>2. \A n \in Names(e) : reflected_cast(e, n) = Valued(e, n) /\ scan_value(e, n) = Valued(e, n)
      BY <2>0, CastsDerived
    <3> QED BY <3>1, <3>2
  <2>4. Ascends(reflected_failures(e), ToSet(e.decls)) /\ Ascends(build_failures(e), ToSet(e.decls))
    BY <2>0, InsertedFailures, ScannedFailures
  <2> DEFINE failures == [k \in DOMAIN e.decls |->
                            CHOOSE d \in ToSet(e.decls) :
                              Cardinality({v \in Values(e) : v < d.value}) = k - 1]
  <2>5. reflected_failures(e) = failures /\ build_failures(e) = failures
    BY <2>0, <2>4, AscendsIs
  <2>6. (IF reflection THEN reflected_failures(e) ELSE build_failures(e)) = failures
    <3> HIDE DEF failures
    <3> QED BY <2>5
  <2>7. reflected_count(e) = Len(e.decls) /\ count_enumerators(e) = Len(e.decls)
    <3>1. Len(build_failures(e)) = Len(Scan(e)) /\ Len(build_failures(e)) = Len(e.decls)
      BY <2>0, <2>4, ScannedFailures, AscendsIs
    <3> QED BY <3>1 DEF reflected_count, count_enumerators
  <2>8. (IF reflection THEN reflected_count(e) ELSE count_enumerators(e)) = Len(e.decls)
    BY <2>7
  <2>9. Derived(e, reflection) =
          [enum_name |-> [v \in Objects(e) |-> Named(e, v)],
           enum_cast |-> [n \in Names(e) \cup {NoName} |-> Valued(e, n)],
           enum_count |-> Len(e.decls),
           failures |-> failures,
           message |-> [v \in Objects(e) |-> Told(e, v)]]
    <3> HIDE DEF failures
    <3> QED BY <2>1, <2>2, <2>3, <2>6, <2>8, Zenon DEF Derived
  <2>10. Declared(e) =
          [enum_name |-> [v \in Objects(e) |-> Named(e, v)],
           enum_cast |-> [n \in Names(e) \cup {NoName} |-> Valued(e, n)],
           enum_count |-> Len(e.decls),
           failures |-> failures,
           message |-> [v \in Objects(e) |-> Told(e, v)]]
    BY Zenon DEF Declared, Named, Valued, Told
  <2>11. Derived(e, reflection) = Declared(e)
    BY <2>9, <2>10, Zenon
  <2> QED BY <2>11 DEF e
<1> QED
  BY <1>1, <1>2, <1>3, PTL DEF Spec

=============================================================================
