------------------------------ MODULE Registry ------------------------------
(***************************************************************************)
(* The tests of the acceptance sweep as tests/CMakeLists.txt and           *)
(* tests/unwind/CMakeLists.txt register them: the probe and its arguments, *)
(* the gate that acceptance.py finds by the prefix of the name, and the    *)
(* properties ctest goes by.  A test of a script or of another program     *)
(* than jmpxx-verify is its outcome and the counts it prints.              *)
(***************************************************************************)
EXTENDS Integers, Sequences, TLC

CONSTANT None  \* no argument

Plain ==
  [probe |-> "script", gate |-> "", fixture |-> None, baseline |-> None,
   symbol |-> None, symbol_b |-> None, golden |-> None, update |-> FALSE,
   forbid_spill |-> FALSE, max_insns |-> -1, forbid |-> -1, max_inst |-> 320,
   inject |-> FALSE, counts |-> <<>>,
   willFail |-> FALSE, lock |-> None, serial |-> FALSE]

\* The probes under the shared lock.
Locked(probe, gate) ==
  [Plain EXCEPT !.probe = probe, !.gate = gate, !.lock = "jmpxx_verify_tmp"]
Simple(probe, gate) == [Plain EXCEPT !.probe = probe, !.gate = gate]
Script(gate, n) == [Plain EXCEPT !.gate = gate, !.counts = <<n, n>>]

\* The inverted self-tests: of another subject, or of an injected defect.
Inverted(test) == [test EXCEPT !.willFail = TRUE]
Injected(test) == [test EXCEPT !.willFail = TRUE, !.inject = TRUE]
Alone(test) == [test EXCEPT !.serial = TRUE]

Codegen(fixture, symbol, golden) ==
  [Locked("codegen", "asm_golden") EXCEPT
     !.fixture = fixture, !.symbol = symbol, !.golden = golden]
ReleaseDiff(fixture, fixture_b, symbol, symbol_b, mark) ==
  [Locked("release-diff", "asm_golden") EXCEPT
     !.fixture = fixture, !.baseline = fixture_b, !.symbol = symbol,
     !.symbol_b = symbol_b, !.forbid = mark]
Against(probe, gate, fixture) ==
  [Locked(probe, gate) EXCEPT !.fixture = fixture, !.baseline = "ship_handwritten"]
AbiLayout(golden) ==
  [Locked("abi-layout", "abi_layout") EXCEPT !.fixture = "layout_descriptor", !.golden = golden]

\* The strings --forbid-string names.
MarkPolicy == 1
MarkLeaky == 2

Tests ==
     "codegen.value_return" :>
       [Codegen("value_return", "jx_value_return", "jx_value_return.s") EXCEPT
          !.forbid_spill = TRUE, !.max_insns = 8]
  @@ "codegen.propagate_eight" :>
       [Codegen("propagate_eight", "jx_propagate_eight", "jx_propagate_eight.s") EXCEPT
          !.forbid_spill = TRUE, !.max_insns = 12]
  @@ "codegen.try_branch" :>
       [Codegen("try_branch", "jx_try_branch", "jx_try_branch.s") EXCEPT !.max_insns = 24]
  @@ "codegen.teeth.golden" :>
       Inverted(Codegen("value_return", "jx_value_return", "jx_value_return.bad.s"))
  @@ "codegen.teeth.spill" :>
       Inverted([Codegen("spilly", "jx_spilly", "spilly.s") EXCEPT
                 !.update = TRUE, !.forbid_spill = TRUE])
  @@ "codegen.identity" :>
       ReleaseDiff("ship_jmpxx", "ship_handwritten", "sized_chain", "sized_chain", -1)
  @@ "codegen.identity.teeth" :>
       Inverted(ReleaseDiff("ship_bloated", "ship_handwritten", "sized_chain", "sized_chain", -1))
  @@ "release_diff" :>
       ReleaseDiff("policy_release", None, "jx_min_op", "jx_rich_op", MarkPolicy)
  @@ "release_diff.teeth" :>
       Inverted(ReleaseDiff("rich_leaky", None, "jx_min_op", "jx_rich_leaky", MarkLeaky))
  @@ "size_delta" :> Against("size-delta", "size", "ship_jmpxx")
  @@ "size_delta.teeth" :> Inverted(Against("size-delta", "size", "ship_bloated"))
  @@ "probe.size" :> Simple("size", "size")
  @@ "probe.size.teeth" :> Injected(Simple("size", "size"))
  @@ "probe.alloc" :> Simple("alloc", "no_alloc")
  @@ "probe.alloc.teeth" :> Injected(Simple("alloc", "no_alloc"))
  @@ "abi_layout" :> AbiLayout("layout_lp64.txt")
  @@ "abi_layout.teeth" :> Inverted(AbiLayout("layout_lp64.bad.txt"))
  @@ "compile_cost" :> Against("compile-cost", "compile_cost", "ship_jmpxx")
  @@ "compile_cost.teeth" :> Inverted(Against("compile-cost", "compile_cost", "instantiation_heavy"))
  @@ "probe.destructors" :> Simple("destructors", "")
  @@ "probe.semantics" :> Simple("semantics", "")
  @@ "probe.levels" :> Simple("levels", "")
  @@ "probe.platform" :> Simple("platform", "")
  @@ "probe.policies" :> Simple("policies", "")
  @@ "probe.diagnostics" :> Simple("diagnostics", "")
  @@ "probe.interop" :> Simple("interop", "")
  @@ "probe.reflect" :> Simple("reflect", "")
  @@ "unwind.stress" :> Simple("unwind-stress", "unwind_stress")
  @@ "unwind.stress.teeth" :> Injected(Simple("unwind-stress", "unwind_stress"))
  @@ "unwind.scale" :> Alone(Simple("unwind-scale", "unwind_scaling"))
  @@ "unwind.scale.teeth" :> Alone(Injected(Simple("unwind-scale", "unwind_scaling")))
  @@ "unwind.benchmark" :> Alone(Simple("unwind", "perf"))
  @@ "unwind.benchmark.teeth" :> Alone(Injected(Simple("unwind", "perf")))
  @@ "unwind.matrix" :> Simple("unwind-matrix", "unwind_runtime_matrix")
  @@ "unwind.matrix.teeth" :> Injected(Simple("unwind-matrix", "unwind_runtime_matrix"))
  @@ "gate.accounting" :> Simple("accounting", "gate_accounting")
  @@ "gate.accounting.teeth" :> Injected(Simple("accounting", "gate_accounting"))
  @@ "bench.gate" :> Alone(Script("perf", 2))
  @@ "bench.gate.teeth" :> Alone(Injected(Script("perf", 2)))
  @@ "bench.callgrind_ir" :> Script("perf", 8)
  @@ "unwind.body_frame" :> Script("unwind_body_frame", 8)
  @@ "claim.audit" :> Script("claim_backing", 851)
  @@ "claim.audit.teeth" :> Injected(Script("claim_backing", 851))
=============================================================================
