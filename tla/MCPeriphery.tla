---------------------------- MODULE MCPeriphery -----------------------------
EXTENDS Periphery, Registry

-----------------------------------------------------------------------------
\* The sweep: a build in which nothing is off, and one change at a time to it.

\* A function in an assembly file.
Fn(symbol, ops) ==
  <<L(".text", 0), L(symbol, 0), L("#", 0)>> \o ops \o <<L(".size", 0)>>
Ops(n) == [i \in 1..n |-> L("mov", 0)] \o <<L("ret", 0)>>
\* A conditional branch over one instruction, with the label the compiler chose.
Branchy(label, n) ==
  <<L("je", label)>> \o Ops(n) \o <<L("label:", label), L("ret", 0)>>

Layout == <<64, 8, 8, 16, 12, 12, 24, 12>>

Sound ==
  [asm |-> "value_return" :> Fn("jx_value_return", Ops(7))
        @@ "propagate_eight" :> Fn("jx_propagate_eight", Branchy(1, 8))
        @@ "try_branch" :> Fn("jx_try_branch", <<L("push", 0)>> \o Branchy(2, 4))
        @@ "spilly" :> Fn("jx_spilly", <<L("mov (%rsp)", 0)>> \o Ops(1))
        @@ "ship_jmpxx" :> Fn("sized_chain", Branchy(3, 2))
        @@ "ship_handwritten" :> Fn("sized_chain", Branchy(5, 2))
        @@ "ship_bloated" :> Fn("sized_chain", Branchy(3, 5))
        @@ "policy_release" :> Fn("jx_min_op", Ops(1)) \o Fn("jx_rich_op", Ops(1))
        @@ "rich_leaky" :> Fn("jx_min_op", Ops(1)) \o Fn("jx_rich_leaky", Ops(2))
                             \o <<L(".string", MarkLeaky)>>
        @@ NoName :> <<>>,
   size |-> [f \in {"ship_jmpxx", "ship_handwritten"} |-> [text |-> 10, total |-> 20]]
        @@ "ship_bloated" :> [text |-> 14, total |-> 24],
   size_tool |-> TRUE, time_trace |-> TRUE,
   instantiations |-> "ship_jmpxx" :> 320 @@ "ship_handwritten" :> 5
        @@ "instantiation_heavy" :> 900,
   layout |-> "layout_descriptor" :> Layout,
   compiles |-> {"value_return", "propagate_eight", "try_branch", "spilly", "ship_jmpxx",
                 "ship_handwritten", "ship_bloated", "policy_release", "rich_leaky",
                 "instantiation_heavy", "layout_descriptor"},
   runs |-> {"layout_descriptor"},
   goldens |-> "jx_value_return.s" :> Ops(7) @@ "jx_propagate_eight.s" :> Branchy(1, 8)
        @@ "jx_try_branch.s" :> <<L("push", 0)>> \o Branchy(2, 4)
        @@ "jx_value_return.bad.s" :> Ops(6) @@ "spilly.s" :> <<>>
        @@ "layout_lp64.txt" :> Layout @@ "layout_lp64.bad.txt" :> [Layout EXCEPT ![4] = 24],
   cores |-> 8,
   unrecorded |-> {},
   runtime |-> "libstdcxx",
   listed |-> <<"no_handler", "typed_catch", "catch_all_rethrow", "catch_all_swallow",
               "forced_unwind_idiom", "noexcept_barrier", "noexcept_landing",
               "cleanup_throws_and_catches", "nested_escape_in_cleanup", "reeject_in_cleanup">>,
   outcome |-> [n \in DOMAIN expectations |-> CHOOSE o \in expectations[n] : TRUE],
   lib |-> [excess |-> 0, trivial |-> TRUE, allocs |-> 0, leaks |-> 0, delivers |-> TRUE,
            wrong |-> {}, policies |-> {"minimal", "rich", "erased"}, diagnostics |-> TRUE,
            hops |-> 7, bridges |-> {"expected", "error_code", "exception"}, lossy |-> {},
            reflection |-> FALSE, arm |-> "sound", available |-> TRUE, inflation |-> 2,
            tail |-> 3]]

\* A suite: tests, as registered, by name.
Only(names) == [t \in names |-> Tests[t]]
AsmSuite ==
  Only({"codegen.value_return", "codegen.propagate_eight", "codegen.try_branch",
          "codegen.teeth.golden", "codegen.teeth.spill", "codegen.identity",
          "codegen.identity.teeth", "release_diff", "release_diff.teeth"})
\* Parts of it, which the accounting must miss the rest of.
GoldenSuite ==
  Only({"codegen.value_return", "codegen.propagate_eight", "codegen.teeth.golden",
        "codegen.teeth.spill"})
DiffSuite ==
  Only({"codegen.identity", "codegen.identity.teeth", "release_diff", "release_diff.teeth"})
SizeSuite ==
  Only({"size_delta", "size_delta.teeth", "probe.size", "probe.size.teeth",
          "probe.alloc", "probe.alloc.teeth"})
CostSuite == Only({"compile_cost", "compile_cost.teeth", "abi_layout", "abi_layout.teeth"})
ArmSuite ==
  Only({"unwind.stress", "unwind.stress.teeth", "unwind.scale", "unwind.scale.teeth",
          "unwind.benchmark", "unwind.benchmark.teeth", "bench.gate", "bench.gate.teeth",
          "bench.callgrind_ir"})
PlainArmSuite ==
  Only({"unwind.stress", "unwind.stress.teeth", "unwind.scale", "unwind.scale.teeth",
        "unwind.benchmark", "unwind.benchmark.teeth"})
MatrixSuite == Only({"unwind.matrix", "unwind.matrix.teeth"})
TierSuite ==
  Only({"probe.destructors", "probe.semantics", "probe.policies", "probe.diagnostics"})
TierSuite2 == Only({"probe.levels", "probe.platform", "probe.interop", "probe.reflect"})
GateSuite ==
  Only({"gate.accounting", "gate.accounting.teeth", "unwind.body_frame", "claim.audit",
          "claim.audit.teeth", "unwind.scale", "unwind.scale.teeth"})

Expect(tests, world, bad, quiet, unteethed) ==
  [tests |-> tests, jobs |-> {2}, world |-> world, bad |-> bad, quiet |-> quiet,
   unteethed |-> unteethed]
Good(tests) == Expect(tests, Sound, {}, {}, {})
Bad(tests, world, bad) == Expect(tests, world, bad, {}, {})
Quiet(tests, world, bad, quiet) == Expect(tests, world, bad, quiet, {})
Serially(c) == [c EXCEPT !.jobs = {1}]
Without(tests, names) == [t \in DOMAIN tests \ names |-> tests[t]]

Short(tests, world, bad) == Quiet(tests, world, bad, {"asm_golden"})
AsmCells ==
     "asm" :> Good(AsmSuite)
  @@ "asm: a spill" :>
       Bad(AsmSuite, [Sound EXCEPT !.asm["value_return"] = Fn("jx_value_return", <<L("push", 0)>>)],
           {"codegen.value_return"})
  @@ "asm: nine instructions, golden updated with them" :>
       Short(GoldenSuite, [Sound EXCEPT !.asm["value_return"] = Fn("jx_value_return", Ops(8)),
                                   !.goldens["jx_value_return.s"] = Ops(8)],
           {"codegen.value_return"})
  @@ "asm: a fixture that does not compile" :>
       Short(GoldenSuite, [Sound EXCEPT !.compiles = @ \ {"value_return"}], {"codegen.value_return"})
  @@ "asm: the known-bad golden is the code" :>
       Short(GoldenSuite, [Sound EXCEPT !.goldens["jx_value_return.bad.s"] = Ops(7)],
           {"codegen.teeth.golden"})
  @@ "asm: the spilly fixture does not spill" :>
       Short(GoldenSuite, [Sound EXCEPT !.asm["spilly"] = Fn("jx_spilly", Ops(1))],
           {"codegen.teeth.spill"})
  @@ "asm: renamed symbol" :>
       Short(GoldenSuite, [Sound EXCEPT !.asm["propagate_eight"] = Fn("jx_other", Branchy(1, 8))],
           {"codegen.propagate_eight"})
  @@ "asm: the library adds an instruction" :>
       Short(DiffSuite, [Sound EXCEPT !.asm["ship_jmpxx"] = Fn("sized_chain", Branchy(3, 3))],
           {"codegen.identity"})
  @@ "asm: a string leaks" :>
       Short(DiffSuite, [Sound EXCEPT !.asm["policy_release"] = @ \o <<L(".string", MarkPolicy)>>],
           {"release_diff"})
  @@ "asm: the leaky fixture is clean" :>
       Short(DiffSuite, [Sound EXCEPT !.asm["rich_leaky"] =
                        Fn("jx_min_op", Ops(1)) \o Fn("jx_rich_leaky", Ops(1))],
           {"release_diff.teeth"})
  @@ "asm: the identity pair is gone" :>
       Quiet(Without(AsmSuite, {"codegen.identity", "codegen.identity.teeth"}), Sound,
             {}, {"asm_golden"})
  @@ "asm: no negative check" :>
       Expect(Without(AsmSuite, {t \in DOMAIN AsmSuite : AsmSuite[t].willFail}), Sound,
              {}, {}, {"asm_golden"})

SizeCells ==
     "size" :> Good(SizeSuite)
  @@ "size: the object grows" :>
       Bad(SizeSuite, [Sound EXCEPT !.size["ship_jmpxx"].total = 21], {"size_delta"})
  @@ "size: the bloated fixture does not grow" :>
       Bad(SizeSuite, [Sound EXCEPT !.size["ship_bloated"] = [text |-> 10, total |-> 20]],
           {"size_delta.teeth"})
  @@ "size: no tool" :> Bad(SizeSuite, [Sound EXCEPT !.size_tool = FALSE], {"size_delta"})
  @@ "size: no baseline" :>
       Bad(SizeSuite, [Sound EXCEPT !.compiles = @ \ {"ship_handwritten"}], {"size_delta"})
  @@ "size: a result is larger" :> Bad(SizeSuite, [Sound EXCEPT !.lib.excess = 4], {"probe.size"})
  @@ "size: an allocation" :> Bad(SizeSuite, [Sound EXCEPT !.lib.allocs = 1], {"probe.alloc"})
  @@ "size: probe.size dropped" :>
       Quiet(Without(SizeSuite, {"probe.size"}), Sound, {}, {"size"})

CostCells ==
     "cost" :> Good(CostSuite)
  @@ "cost: one template more" :>
       Bad(CostSuite, [Sound EXCEPT !.instantiations["ship_jmpxx"] = 321], {"compile_cost"})
  @@ "cost: the compiler leaves no trace" :>
       Bad(CostSuite, [Sound EXCEPT !.time_trace = FALSE], {"compile_cost"})
  @@ "cost: the heavy fixture is light" :>
       Bad(CostSuite, [Sound EXCEPT !.instantiations["instantiation_heavy"] = 7],
           {"compile_cost.teeth"})
  @@ "cost: no baseline" :>
       Bad(CostSuite, [Sound EXCEPT !.compiles = @ \ {"ship_handwritten"}], {"compile_cost"})
  @@ "abi: a type changes" :>
       Bad(CostSuite, [Sound EXCEPT !.layout["layout_descriptor"] = [Layout EXCEPT ![2] = 12]],
           {"abi_layout"})
  @@ "abi: a type is dropped, from the golden too" :>
       Quiet(CostSuite, [Sound EXCEPT !.layout["layout_descriptor"] = Tail(Layout),
                                      !.goldens["layout_lp64.txt"] = Tail(Layout)],
             {}, {"abi_layout"})
  @@ "abi: the known-bad golden is the layout" :>
       Bad(CostSuite, [Sound EXCEPT !.goldens["layout_lp64.bad.txt"] = Layout],
           {"abi_layout.teeth"})
  @@ "abi: the descriptor does not run" :>
       Quiet(CostSuite, [Sound EXCEPT !.runs = {}], {"abi_layout"}, {"abi_layout"})

ArmTeeth == {"unwind.stress.teeth", "unwind.scale.teeth", "unwind.benchmark.teeth"}
Partly(world, bad) == Quiet(PlainArmSuite, world, bad, {"perf"})
ArmCells ==
     "arm" :> Good(ArmSuite)
  @@ "arm: a destructor is skipped" :>
       Partly([Sound EXCEPT !.lib.arm = "skips"], {"unwind.stress", "unwind.benchmark"})
  @@ "arm: another payload" :>
       Partly([Sound EXCEPT !.lib.arm = "misroutes"], {"unwind.stress", "unwind.benchmark"})
  @@ "arm: lands at the outermost scope" :>
       Partly([Sound EXCEPT !.lib.arm = "outermost"], {"unwind.stress"})
  @@ "arm: a contended lock" :>
       Partly([Sound EXCEPT !.lib.inflation = 3], {"unwind.scale"})
  @@ "arm: a long tail" :> Partly([Sound EXCEPT !.lib.tail = 4], {"unwind.benchmark"})
  @@ "arm: four cores" :>
       Quiet(PlainArmSuite, [Sound EXCEPT !.cores = 4], {}, {"unwind_scaling", "perf"})
  @@ "arm: no backend" :>
       Quiet(PlainArmSuite, [Sound EXCEPT !.lib.available = FALSE], ArmTeeth,
             {"unwind_stress", "unwind_scaling", "perf"})

MatrixCells ==
     "matrix" :> Serially(Good(MatrixSuite))
  @@ "matrix: an escape is swallowed" :>
       Serially(Bad(MatrixSuite, [Sound EXCEPT !.outcome["catch_all_swallow"] = "value"],
                    {"unwind.matrix"}))
  @@ "matrix: a known-unsafe outcome on another runtime" :>
       Serially(Bad(MatrixSuite, [Sound EXCEPT !.outcome["noexcept_barrier"] = "imbalance"],
                    {"unwind.matrix"}))
  @@ "matrix: a case less" :>
       Serially(Quiet(MatrixSuite, [Sound EXCEPT !.listed = Tail(@)],
                      {"unwind.matrix"}, {"unwind_runtime_matrix"}))
  @@ "matrix: a case more" :>
       Serially(Quiet(MatrixSuite, [Sound EXCEPT !.listed = Append(@, "new_case")],
                      {"unwind.matrix"}, {"unwind_runtime_matrix"}))
  @@ "matrix: no backend" :>
       Serially(Bad(MatrixSuite,
                    [Sound EXCEPT !.lib.available = FALSE,
                                  !.outcome = [n \in DOMAIN @ |-> "unavailable"]],
                    {"unwind.matrix"}))

\* The matrix where every case does what libcxxrt is recorded to do, and where
\* one does better: all ten cases are asked, and none is missed.
Freebsd ==
  [Sound EXCEPT !.runtime = "libcxxrt", !.outcome = known_unsafe("libcxxrt") @@ @]
FreebsdCells ==
     "matrix: libcxxrt as recorded" :> Serially(Expect(MatrixSuite, Freebsd, {}, {}, {}))
  @@ "matrix: libcxxrt improves" :>
       Serially(Bad(MatrixSuite, [Freebsd EXCEPT !.outcome["catch_all_swallow"] = "terminated"],
                    {"unwind.matrix"}))
  @@ "idle" :> Good(<<>>)

TierCells ==
     "tiers" :> Good(TierSuite) @@ "tiers 2" :> Good(TierSuite2)
  @@ "tiers: a leak" :> Bad(TierSuite, [Sound EXCEPT !.lib.leaks = 1], {"probe.destructors"})
  @@ "tiers: a check" :> Bad(TierSuite, [Sound EXCEPT !.lib.wrong = {12}], {"probe.semantics"})
  @@ "tiers: not trivially copyable" :>
       Bad(TierSuite, [Sound EXCEPT !.lib.trivial = FALSE], {"probe.policies"})
  @@ "tiers: a hop is lost" :> Bad(TierSuite, [Sound EXCEPT !.lib.hops = 6], {"probe.diagnostics"})
  @@ "tiers: no diagnostics" :>
       Bad(TierSuite, [Sound EXCEPT !.lib.diagnostics = FALSE, !.lib.hops = 0], {})
  @@ "tiers: a lossy bridge" :>
       Bad(TierSuite2, [Sound EXCEPT !.lib.lossy = {"expected"}], {"probe.interop"})
  @@ "tiers: reflection" :>
       Bad(TierSuite2, [Sound EXCEPT !.lib.reflection = TRUE], {})
  @@ "gates" :> Good(GateSuite)
  @@ "gates: a timing gate beside others" :>
       Bad([GateSuite EXCEPT !["unwind.scale"].serial = FALSE], Sound, {"gate.accounting"})
  @@ "gates: a gate without a count" :>
       Quiet([GateSuite EXCEPT !["claim.audit"].gate = "new_gate",
                               !["claim.audit.teeth"].gate = "new_gate"],
             [Sound EXCEPT !.unrecorded = {"new_gate"}], {"gate.accounting"},
             {"gate_accounting", "new_gate"})
  @@ "gates: the surface shrinks" :>
       Quiet([GateSuite EXCEPT !["claim.audit"].counts = <<849, 849>>], Sound, {},
             {"claim_backing"})
  @@ "gates: the surface is not read" :>
       Quiet([GateSuite EXCEPT !["claim.audit"].counts = <<850, 851>>], Sound, {},
             {"claim_backing"})

Idle == "idle" :> Good(<<>>)
MCCells ==
  AsmCells @@ SizeCells @@ CostCells @@ ArmCells @@ MatrixCells @@ TierCells @@ Idle
ParallelCells == "matrix" :> Good(MatrixSuite) @@ Idle
IdleCells == Idle

\* The cells are disciplined at each value of --jobs they may have, and so is
\* everything the build registers but the matrix and its inverted test.
ASSUME RegistryDisciplined ==
  /\ \A cells \in {MCCells, FreebsdCells} : \A c \in DOMAIN cells :
       \A n \in cells[c].jobs : Disciplined(cells[c].tests, n)
  /\ Disciplined(Without(Tests, {"unwind.matrix", "unwind.matrix.teeth"}), 2)

-----------------------------------------------------------------------------
\* The other subjects.

SmallNodes == {n \in Node : n.where = "file" /\ n.kind \in {"if", "for", "access"}}
MCSources ==
  {<<u>> : u \in SeqOf(Node, 2) \cup [1..3 -> SmallNodes]}
    \cup {<<u, v>> : u, v \in SeqOf(Node, 1) \cup [1..2 -> SmallNodes]}

MCTrees ==
  [Headers -> {<<Text>>} \cup {<<h, Text>> : h \in Headers}
                \cup {<<h, Text, g>> : h, g \in Headers}]
\* Which header is which makes no difference: the roots are the first ones.
MCRoots == {<<"h1">>, <<"h1", "h2">>}

EnumNames == <<"A", "B", "C">>
MCEnums ==
  UNION {[decls : {[i \in 1..n |-> [name |-> EnumNames[i], value |-> vs[i]]] : vs \in [1..n -> -3..3]},
          lo : {-2}, hi : {1}, modulus : {0}]
         \cup [decls : {[i \in 1..n |-> [name |-> EnumNames[i], value |-> vs[i]]] : vs \in [1..n -> 0..3]},
               lo : {-2, 0}, hi : {1, 3}, modulus : {4}] : n \in 0..3}

MCPairs ==
  [a : [code : 0..3, tag : 0..3], b : [code : -8..7, tag : -2..4]]

MCStacks == [depth : 0..12, skip : -1..6]

BodyLines == [op : {"je"}, arg : 1..3] \cup {L("label:", 1), L("label:", 2), L("ret", 0)}
MCBodies ==
  [a : [1..3 -> {L("je", 1), L("je", 2), L("label:", 1), L("ret", 0)}], b : [1..3 -> BodyLines]]
=============================================================================
