------------------------------- MODULE Sweep --------------------------------
(***************************************************************************)
(* The acceptance sweep (verify/acceptance.py): ctest runs the registered  *)
(* tests, several at a time, and the sweep reduces what came back to one   *)
(* verdict.  The tests that run jmpxx-verify on fixtures do so through     *)
(* files of fixed names under /tmp, one command after another.             *)
(*                                                                         *)
(* A cell is what one sweep meets: the tests as the build registers them   *)
(* (Registry), the values --jobs may have, the build that is measured, and *)
(* what a reader of the sources expects: the tests that must not pass, the *)
(* gates whose accounting must object and the gates without a negative     *)
(* check.  A command that writes a file writes it whole, in one step.      *)
(***************************************************************************)
EXTENDS Harness, TLC

CONSTANT
  Cells  \* a function: name of the cell -> the cell

\* The matrix fixture lists names, ctest has finitely many tests and runs at
\* least one at a time; the cell "idle" is what an unused sweep rests in.
ASSUME CellsAssumption ==
  /\ "idle" \in DOMAIN Cells
  /\ \A c \in DOMAIN Cells :
       /\ IsFiniteSet(DOMAIN Cells[c].tests)
       /\ Cells[c].world.listed \in Seq(STRING)
       /\ Cells[c].jobs \subseteq Nat \ {0}

VARIABLES
  cell, jobs,  \* the sweep: its cell and --jobs
  pc,          \* test -> 0 waiting, k about to run command k, Done
  got,         \* test -> what each of its commands read
  disk,        \* file -> what was last written to it
  goldens,     \* golden file -> its text
  passed, cases, \* what ctest reports
  verdict      \* "" until there is one

sweep == <<cell, jobs, pc, got, disk, goldens, passed, cases, verdict>>

Registered == cell.tests
World == cell.world
Suite == DOMAIN Registered
Done == -1
Running(t) == pc[t] > 0

SweepInit(cells) ==
  /\ cell \in {Cells[c] : c \in cells}
  /\ jobs \in cell.jobs
  /\ pc = [t \in Suite |-> 0]
  /\ got = [t \in Suite |-> <<>>]
  /\ disk = <<>>
  /\ goldens = World.goldens
  /\ passed = {} /\ cases = <<>> /\ verdict = ""

-----------------------------------------------------------------------------
\* The commands of a test, in the order of its probe.

\* Compile src into a file; the probe gives up when that fails.
Compile(src, file) == [op |-> "compile", of |-> src, file |-> file]
\* Compile src for its trace; on a failure the probe goes on without one.
Trace(src, file) == [op |-> "trace", of |-> src, file |-> file]
\* Run a program on, or from, what is in the file from.
Exec(from, file) == [op |-> "exec", of |-> from, file |-> file]
\* Put a question to the matrix fixture.
Ask(question, file) == [op |-> "ask", of |-> question, file |-> file]
\* Read a file back.
Read(file) == [op |-> "read", of |-> "", file |-> file]

\* The lines a question of run_query brought back: another question's answer
\* is a line of its own.
Listed(c) == IF c.of = "--list" THEN World.listed
             ELSE IF c.of = "--runtime" THEN <<World.runtime>> ELSE <<"?">>

\* run_case: no outcome in the output is a termination.
Outcome(c) ==
  IF c.of \notin DOMAIN World.outcome THEN "terminated"
  ELSE IF Registered[c.by].inject /\ World.lib.available THEN "silent_loss"
  ELSE World.outcome[c.of]

MatrixFile == "unwind_matrix.out"
\* run_query, for one question after another.
Queries(questions) ==
  [k \in 1..(2 * Len(questions)) |->
     IF k % 2 = 1 THEN Ask(questions[(k + 1) \div 2], MatrixFile) ELSE Read(MatrixFile)]

Commands(t) ==
  LET r == Registered[t]
      names == IF 4 \in DOMAIN got[t] THEN Listed(got[t][4]) ELSE <<>>
  IN  CASE r.probe = "codegen" -> <<Compile(r.fixture, "cg.s"), Read("cg.s")>>
        [] r.probe = "release-diff" ->
             <<Compile(r.fixture, "rd.s"), Read("rd.s")>>
               \o (IF r.baseline = NoName THEN <<>>
                   ELSE <<Compile(r.baseline, "rd_b.s"), Read("rd_b.s")>>)
        [] r.probe = "size-delta" ->
             <<Compile(r.fixture, "sd_fixture.o"), Compile(r.baseline, "sd_baseline.o"),
               Exec("sd_fixture.o", "size.txt"), Read("size.txt"),
               Exec("sd_baseline.o", "size.txt"), Read("size.txt")>>
        [] r.probe = "compile-cost" ->
             <<Trace(r.fixture, "cc_fixture.json"), Read("cc_fixture.json"),
               Trace(r.baseline, "cc_baseline.json"), Read("cc_baseline.json"),
               Compile(r.baseline, "cc_baseline.o"), Compile(r.fixture, "cc_fixture.o")>>
        [] r.probe = "abi-layout" ->
             <<Compile(r.fixture, "abi_descriptor"),
               Exec("abi_descriptor", "abi_layout.txt"), Read("abi_layout.txt")>>
        [] r.probe = "unwind-matrix" ->
             Queries(<<"--runtime", "--list">> \o names)
        [] OTHER -> <<>>

-----------------------------------------------------------------------------
\* ctest.

\* (Mutant) The resource lock is not looked at.
MayStartUnlocked(t) ==
  LET running == {u \in Suite : Running(u)} IN
  /\ Cardinality(running) < jobs
  /\ running # {} => ~Registered[t].serial
  /\ \A u \in running : ~Registered[u].serial

\* -j, RUN_SERIAL and RESOURCE_LOCK.
MayStart(t) ==
  LET running == {u \in Suite : Running(u)} IN
  /\ Cardinality(running) < jobs
  /\ running # {} => ~Registered[t].serial
  /\ \A u \in running : ~Registered[u].serial
  /\ Registered[t].lock # NoName =>
       \A u \in running : Registered[u].lock # Registered[t].lock

Start(t) ==
  /\ pc[t] = 0 /\ MayStart(t)
  /\ pc' = [pc EXCEPT ![t] = 1]
  /\ UNCHANGED <<cell, jobs, got, disk, goldens, passed, cases, verdict>>

\* What a command leaves in its file, and whether it ran without error.
Written(t, c) ==
  [by |-> t, of |-> IF c.op = "exec" THEN disk[c.of].of ELSE c.of]
Succeeds(c) ==
  CASE c.op = "compile" -> c.of \in World.compiles
    [] c.op = "trace" -> c.of \in World.compiles /\ World.time_trace
    [] c.op = "exec" -> c.of = "abi_descriptor" => disk[c.of].of \in World.runs
    [] OTHER -> TRUE

\* f with v at x, whether or not it had something there.
Put(f, x, v) == [y \in DOMAIN f \cup {x} |-> IF y = x THEN v ELSE f[y]]

\* The next command of a running test.
Step(t) ==
  /\ Running(t) /\ pc[t] <= Len(Commands(t))
  /\ LET c == Commands(t)[pc[t]] IN
       \/ /\ c.op = "read"
          /\ got' = [got EXCEPT ![t] = Put(@, pc[t], disk[c.file])]
          /\ pc' = [pc EXCEPT ![t] = @ + 1]
          /\ UNCHANGED disk
       \/ /\ c.op # "read" /\ Succeeds(c)
          /\ disk' = Put(disk, c.file, Written(t, c))
          /\ pc' = [pc EXCEPT ![t] = @ + 1]
          /\ UNCHANGED got
       \/ /\ c.op # "read" /\ ~Succeeds(c)
          /\ pc' = [pc EXCEPT ![t] = IF c.op = "trace" THEN @ + 2 ELSE Len(Commands(t)) + 2]
          /\ UNCHANGED <<got, disk>>
  /\ UNCHANGED <<cell, jobs, goldens, passed, cases, verdict>>

\* The fixture behind the reading of command k.
Seen(t, k) == IF k \in DOMAIN got[t] THEN got[t][k].of ELSE NoName

\* The counts recorded for the gates, exact or a floor.
Exactly(n) == [count |-> n, floor |-> FALSE]
AtLeast(n) == [count |-> n, floor |-> TRUE]
GATE_CASES ==
  [abi_layout |-> Exactly(8), adversarial_coverage |-> Exactly(8),
   adversarial_fuzz |-> Exactly(512), asm_golden |-> Exactly(7),
   compile_cost |-> Exactly(2), config_matrix |-> Exactly(8),
   differential |-> Exactly(4096), doc_claim |-> Exactly(26),
   exception_safety |-> Exactly(7), foreign_headers |-> Exactly(4),
   gate_accounting |-> Exactly(30), hardening |-> Exactly(10),
   memory_sanitizer |-> Exactly(1), model_lifecycle |-> Exactly(4),
   mutation_testing |-> Exactly(21), no_alloc |-> Exactly(3), perf |-> Exactly(12),
   size |-> Exactly(7), static_analysis |-> Exactly(1),
   unwind_body_frame |-> Exactly(8), unwind_concurrency |-> Exactly(16),
   unwind_link_time |-> Exactly(5), unwind_metadata |-> Exactly(2),
   unwind_reentrancy |-> Exactly(7), unwind_runtime_matrix |-> Exactly(10),
   unwind_scaling |-> Exactly(4), unwind_stress |-> Exactly(12),
   claim_backing |-> AtLeast(850), claim_provenance |-> AtLeast(850),
   claim_home |-> AtLeast(850)]
\* GATES, the gates with a line of their own; a cell may have more than are
\* recorded.
GATES == DOMAIN GATE_CASES \cup World.unrecorded

\* serial_tests and check_accounting: the static half of the accounting.
SERIAL_GATES == {"unwind.scale", "unwind.scale.teeth", "unwind.benchmark",
                 "unwind.benchmark.teeth", "bench.gate", "bench.gate.teeth"}
check_accounting(inject) ==
  LET recorded == DOMAIN GATE_CASES \ (IF inject THEN {"abi_layout"} ELSE {})
      covered == Cardinality(GATES \cap recorded)
  IN  Report(Fails(GATES \ recorded # {}, "no recorded case count")
               \cup Fails(covered < Cardinality(GATES), "floor")
               \cup Fails(\E t \in SERIAL_GATES \cap Suite : ~Registered[t].serial, "not alone"),
             <<covered, Cardinality(GATES)>>)

\* The probe of a test, once its commands are done.
Probed(t) ==
  LET r == Registered[t]
      w == World
  IN  CASE r.probe = "codegen" -> probe_codegen(w, r, goldens, Seen(t, 2))
        [] r.probe = "release-diff" ->
             probe_release_diff(w, r, Seen(t, 2), Seen(t, IF r.baseline = NoName THEN 2 ELSE 4))
        [] r.probe = "size-delta" -> probe_size_delta(w, Seen(t, 4), Seen(t, 6))
        [] r.probe = "compile-cost" -> probe_compile_cost(w, r, Seen(t, 2))
        [] r.probe = "abi-layout" -> probe_abi_layout(w, r, goldens, Seen(t, 3))
        [] r.probe = "unwind-matrix" ->
             LET names == Listed(got[t][4]) IN
             probe_unwind_matrix(Head(Listed(got[t][2])), names,
                                 [i \in DOMAIN names |-> Outcome(got[t][4 + 2 * i])])
        [] r.probe = "size" -> probe_size(w, r)
        [] r.probe = "alloc" -> probe_alloc(w, r)
        [] r.probe = "destructors" -> probe_destructors(w)
        [] r.probe = "semantics" -> probe_semantics(w)
        [] r.probe = "levels" -> probe_levels
        [] r.probe = "platform" -> probe_platform
        [] r.probe = "policies" -> probe_policies(w)
        [] r.probe = "diagnostics" -> probe_diagnostics(w)
        [] r.probe = "interop" -> probe_interop(w)
        [] r.probe = "reflect" -> probe_reflect(w)
        [] r.probe = "unwind-stress" -> probe_unwind_stress(w, r)
        [] r.probe = "unwind-scale" -> probe_unwind_scale(w, r)
        [] r.probe = "unwind" -> probe_unwind(w, r)
        [] r.probe = "accounting" -> check_accounting(r.inject)
        [] r.probe = "script" -> Report(Fails(r.inject, "injected"), r.counts)

\* read_cases: CASE_LINE matches every name that starts with cases.known.
read_cases(printed) == <<Head(printed), FoldLeft(+, 0, Tail(printed))>>

\* The test ends: --update has written its golden, and ctest inverts the exit
\* status of a WILL_FAIL test.
Finish(t) ==
  /\ Running(t) /\ pc[t] > Len(Commands(t))
  /\ LET r == Registered[t]
         probed == Probed(t)
         ok == probed.ok /\ pc[t] = Len(Commands(t)) + 1
         n == normalize(World.asm[Seen(t, 2)], r.symbol)
     IN  /\ passed' = IF ok # r.willFail THEN passed \cup {t} ELSE passed
         /\ cases' = IF probed.cases = <<>> THEN cases
                     ELSE Put(cases, t, read_cases(probed.cases))
         /\ goldens' = IF r.update /\ Seen(t, 2) # NoName /\ n.found
                       THEN [goldens EXCEPT ![r.golden] = n.text] ELSE goldens
  /\ pc' = [pc EXCEPT ![t] = Done]
  /\ UNCHANGED <<cell, jobs, got, disk, verdict>>

-----------------------------------------------------------------------------
\* The report.

UNFALSIFIABLE_DEFENCES == {"unwind_body_frame"}

Members(gate) == {t \in Suite : Registered[t].gate = gate}
Real(gate) == {t \in Members(gate) : ~Registered[t].willFail}
Teeth(gate) == {t \in Members(gate) : Registered[t].willFail}
\* The gates the report knows: those with a member.
Gates == {g \in GATES : Members(g) # {}}

\* classify.
GateStatus(gate) ==
  LET real_ok == Real(gate) \subseteq passed
      teeth_ok == Teeth(gate) # {} /\ Teeth(gate) \subseteq passed
  IN  IF real_ok /\ teeth_ok THEN "green_with_teeth"
      ELSE IF real_ok /\ Teeth(gate) = {}
      THEN (IF gate \in UNFALSIFIABLE_DEFENCES THEN "unfalsifiable_defence" ELSE "unteethed")
      ELSE "fail"

\* The sum over the tests of a gate that reported; 1 is asked, 2 is known.
Reported(gate, k) == MapThenSumSet(LAMBDA t : cases[t][k], Real(gate) \cap DOMAIN cases)

\* account: the gates with a finding.  The share of reporting gates is below
\* its floor of 1 exactly when one of them reports nothing.
account ==
  {g \in Gates :
     \/ g \notin DOMAIN GATE_CASES
     \/ Real(g) \cap DOMAIN cases = {}
     \/ Reported(g, 1) # Reported(g, 2)
     \/ IF GATE_CASES[g].floor THEN Reported(g, 2) < GATE_CASES[g].count
        ELSE Reported(g, 2) # GATE_CASES[g].count}

\* build_report; ctest exits with 0 when every test passed.
Aggregate ==
  /\ verdict = "" /\ \A t \in Suite : pc[t] = Done
  /\ verdict' = IF /\ passed = Suite
                   /\ \A g \in Gates :
                        GateStatus(g) \in {"green_with_teeth", "unfalsifiable_defence"}
                   /\ account = {}
                THEN "pass" ELSE "fail"
  /\ UNCHANGED <<cell, jobs, pc, got, disk, goldens, passed, cases>>

SweepNext == (\E t \in Suite : Start(t) \/ Step(t) \/ Finish(t)) \/ Aggregate

-----------------------------------------------------------------------------

\* However the tests interleave, the sweep's verdict is the cell's: exactly the
\* tests fail whose subject is off, in the direction each of them asks for,
\* exactly the gates that went quiet are named, and the verdict is a pass only
\* when there is neither and every gate has its negative check
\* (acceptance.py:6-13, 71-76).
SweepVerdict ==
  verdict # "" =>
    /\ passed = Suite \ cell.bad
    /\ account = cell.quiet
    /\ {g \in Gates : GateStatus(g) = "unteethed"} = cell.unteethed
    /\ (verdict = "pass") <=>
         (cell.bad = {} /\ cell.quiet = {} /\ cell.unteethed = {})

\* The probes that go through files of fixed names; no two of them use the same.
FileProbes ==
  {"codegen", "release-diff", "size-delta", "compile-cost", "abi-layout", "unwind-matrix"}

\* What the registration has to arrange (tests/CMakeLists.txt:686-690): with more
\* than one job, two tests of one such probe hold a common lock, or one of them
\* runs alone.
Disciplined(tests, n) ==
  \/ n = 1
  \/ \A t, u \in DOMAIN tests :
       t # u /\ tests[t].probe = tests[u].probe /\ tests[t].probe \in FileProbes =>
         \/ tests[t].serial \/ tests[u].serial
         \/ tests[t].lock # NoName /\ tests[t].lock = tests[u].lock

\* What a test reads back from a file under /tmp is what its own command has
\* put there, whatever else ctest runs at the same time
\* (tests/CMakeLists.txt:686-690: "keeps the suite correct under `ctest -j`").
ReadsOwn == \A t \in Suite : \A k \in DOMAIN got[t] : got[t][k].by = t
=============================================================================
