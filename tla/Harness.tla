------------------------------ MODULE Harness -------------------------------
(***************************************************************************)
(* jmpxx-verify: the probes of verify/main.cpp and verify/unwind_probes.cpp *)
(* as functions of what they measure.                                      *)
(*                                                                         *)
(* w is the build under test: what the compiler makes of each fixture, and *)
(* in w.lib how the library behaves in the harness's own process.  t is a  *)
(* test as tests/CMakeLists.txt registers it: the probe and its arguments. *)
(* A probe gives the reasons it fails for and the case counts it prints:    *)
(* cases.asked, cases.known and what other cases.* it has, <<>> for none.  *)
(***************************************************************************)
EXTENDS Normalize, Reflect

Fails(cond, why) == IF cond THEN {why} ELSE {}

\* Report: a failure is never taken back, and finish() returns whether there
\* was none.
Report(fails, cases) == [ok |-> fails = {}, cases |-> cases]

-----------------------------------------------------------------------------
\* Probes of the harness's own process.

\* Five pairs of types against the hand-written union, a sixth one injected.
probe_size(w, t) ==
  LET asked == IF t.inject THEN 6 ELSE 5 IN
  Report(Fails(w.lib.excess > 0 \/ t.inject, "budget")
           \cup Fails(~w.lib.trivial, "not trivially copyable"), <<asked, asked>>)

\* The allocations the replaced operator new counts on the measured path.
probe_alloc(w, t) ==
  LET g_allocs == w.lib.allocs + (IF t.inject THEN 1 ELSE 0) IN
  Report(Fails(g_allocs # 0, "allocated"), <<3, 3>>)

\* A failure through eight frames, then a success; leaks counts the destructors
\* the failing path skips.
probe_destructors(w) ==
  LET ctor == 8
      dtor == [failure |-> 8 - w.lib.leaks, success |-> 8]
  IN  Report({path \in DOMAIN dtor : dtor[path] # ctor}
               \cup Fails(~w.lib.delivers, "failure not delivered"), <<2, 2>>)

\* Twelve checks of the transport, of which w.lib.wrong do not hold.
probe_semantics(w) ==
  LET checks == 1..12 IN
  Report(checks \cap w.lib.wrong, <<Cardinality(checks), 12>>)

probe_levels == Report({}, <<4, 4>>)
probe_platform == Report({}, <<>>)

\* The same source under each policy.
probe_policies(w) ==
  Report(({"minimal", "rich", "erased"} \ w.lib.policies)
           \cup Fails(~w.lib.trivial, "not trivially copyable"), <<3, 3>>)

\* Seven propagation hops of one failure, where diagnostics are compiled in.
probe_diagnostics(w) ==
  Report(IF ~w.lib.diagnostics THEN {}
         ELSE IF ~w.lib.delivers THEN {"did not propagate"}
         ELSE IF w.lib.hops = 0 THEN {"no context"}
         ELSE Fails(w.lib.hops # 7, "hops"), <<>>)

\* The bridges this configuration has.
probe_interop(w) == Report(w.lib.bridges \cap w.lib.lossy, <<>>)

\* enum class status of probe_reflect; the window of 256 values around 0 is
\* scaled down to the 16 around it.
Status ==
  [decls |-> <<[name |-> "ok", value |-> 0], [name |-> "denied", value |-> 7],
               [name |-> "not_found", value |-> 2], [name |-> "timeout", value |-> 5]>>,
   lo |-> -8, hi |-> 7, modulus |-> 0]
probe_reflect(w) ==
  LET d(op, arg) ==
        CASE op = "name" -> (IF w.lib.reflection THEN reflected_name(Status, arg)
                             ELSE scan_name(Status, arg))
          [] op = "cast" -> (IF w.lib.reflection THEN reflected_cast(Status, arg)
                             ELSE scan_value(Status, arg))
      fs == IF w.lib.reflection THEN reflected_failures(Status) ELSE build_failures(Status)
      e == as_erased(Status, 2)
  IN  Report(Fails(~(/\ d("name", 5) = "timeout"
                     /\ Len(fs) = 4
                     /\ fs[1] = [value |-> 0, name |-> "ok"]
                     /\ fs[4] = [value |-> 7, name |-> "denied"]
                     /\ Message(e, w.lib.reflection) = "not_found"
                     /\ d("cast", "denied") = 7), "metadata"), <<>>)

-----------------------------------------------------------------------------
\* Probes that compile fixtures; a and b are the fixtures whose output they read
\* back, NoName for one that could not be built.
Built(a, b, fails) == IF NoName \in {a, b} THEN {"did not compile"} ELSE fails

\* Slice one function, hold it to its budgets and to the golden.
probe_codegen(w, t, golden, a) ==
  LET n == normalize(w.asm[a], t.symbol) IN
  Report(Built(a, a,
           IF ~n.found THEN {"symbol not found"}
           ELSE Fails(t.forbid_spill /\ n.spilled, "spill")
                  \cup Fails(t.max_insns >= 0 /\ n.instructions > t.max_insns, "instructions")
                  \cup Fails(~t.update /\ golden[t.golden] # n.text, "golden")),
         <<1, 1>>)

\* Two functions, of one fixture or of two, must be the same code up to the
\* numbering of labels, and no forbidden string may be in either file.
probe_release_diff(w, t, a, b) ==
  LET na == normalize(w.asm[a], t.symbol)
      nb == normalize(w.asm[b], t.symbol_b)
  IN  Report(Built(a, b,
               IF ~na.found \/ ~nb.found THEN {"symbol not found"}
               ELSE Fails(canon_labels(na.text) # canon_labels(nb.text), "diverged")
                      \cup Fails(\E l \in ToSet(w.asm[a]) \cup ToSet(w.asm[b]) :
                                   l.op \in {".string", ".ascii"} /\ l.arg = t.forbid,
                                 "leaked")),
             <<2, 2>>)

\* measure_obj: no sizes without the tool.
measure_obj(w, obj) == IF w.size_tool THEN w.size[obj] ELSE NoName

\* The object's growth over the hand-written baseline, against budgets of 0.
probe_size_delta(w, a, b) ==
  LET f == measure_obj(w, a)
      h == measure_obj(w, b)
  IN  Report(Built(a, b,
               IF NoName \in {f, h} THEN {"not measured"}
               ELSE Fails(f.text - h.text > 0, "text") \cup Fails(f.total - h.total > 0, "total")),
             <<2, 2>>)

\* count_instantiations: -1 when there is no trace to read.
count_instantiations(w, a) == IF a = NoName THEN -1 ELSE w.instantiations[a]

probe_compile_cost(w, t, a) ==
  LET finst == count_instantiations(w, a) IN
  Report(Fails(finst < 0, "not measured") \cup Fails(finst > t.max_inst, "budget"), <<2, 2>>)

\* The layout the descriptor prints, one line for each frozen type.
probe_abi_layout(w, t, golden, a) ==
  LET want == golden[t.golden] IN
  IF a = NoName THEN Report({"did not compile"}, <<>>)
  ELSE Report(Fails(Len(w.layout[a]) # Len(want), "types")
                \cup Fails(w.layout[a] # want, "layout"), <<Len(w.layout[a]), Len(want)>>)

-----------------------------------------------------------------------------
\* Probes of the unwind arm.

\* The results of an escape at the given depth inside the given number of
\* nested scopes beyond the first, under an arm that is sound, skips a
\* destructor, delivers another payload, or lands at the outermost scope.
\* The inner scopes hand the code of an error on as a value.
Landing(arm, escaping, nesting, payload) ==
  LET p == IF arm = "misroutes" THEN [code |-> -1, domain |-> -1] ELSE payload IN
  IF ~escaping THEN [good |-> TRUE, code |-> payload.domain, domain |-> 0]
  ELSE IF nesting = 0 \/ arm = "outermost"
  THEN [good |-> FALSE, code |-> p.code, domain |-> p.domain]
  ELSE [good |-> TRUE, code |-> p.code, domain |-> 0]

\* descend: one guard a level; the injected defect is the guard with id 3.
Destructed(arm, inject, depth, escaping) ==
  depth + 1 - (IF arm = "skips" /\ escaping THEN 1 ELSE 0)
            - (IF inject /\ depth >= 3 THEN 1 ELSE 0)

\* one_iteration: what it counts against the arm.
one_iteration(w, inject, depth, escaping, nesting) ==
  LET payload == [code |-> 100000, domain |-> depth]
      r == Landing(w.lib.arm, escaping, nesting, payload)
  IN  [imbalance |-> depth + 1 # Destructed(w.lib.arm, inject, depth, escaping),
       wrong_payload |->
         IF ~escaping THEN ~r.good
         ELSE IF nesting = 0 THEN r.good \/ r.code # payload.code \/ r.domain # depth
         ELSE ~r.good \/ r.code # payload.code]

\* The campaign is long enough to meet every depth, outcome and nesting.
probe_unwind_stress(w, t) ==
  LET counted == {one_iteration(w, t.inject, d, e, n) :
                    d \in 0..15, e \in BOOLEAN, n \in 0..2}
  IN  IF ~w.lib.available THEN Report({}, <<>>)
      ELSE Report(Fails(\E c \in counted : c.wrong_payload, "payload")
                    \cup Fails(\E c \in counted : c.imbalance, "imbalance"), <<12, 12>>)

\* The measured run asks for no more threads than there are cores.
MaxThreads(w, t) == Max({2, IF t.inject THEN 8 ELSE Min({8, w.cores})})

\* The escape's latency against a throw's, both relative to one thread; a lock
\* contended by n threads inflates it n-fold.  One step for each power of two.
probe_unwind_scale(w, t) ==
  LET steps == Cardinality({n \in 0..3 : 2^n <= MaxThreads(w, t)})
      ratio == IF t.inject THEN MaxThreads(w, t) ELSE w.lib.inflation
  IN  IF ~w.lib.available THEN Report({}, <<>>)
      ELSE Report(Fails(ratio > 2, "inflated"), <<steps, steps>>)

\* A deep escape, then the tail of its latency against a throw's.
probe_unwind(w, t) ==
  LET ratio == IF t.inject THEN 4 ELSE w.lib.tail IN
  IF ~w.lib.available THEN Report({}, <<>>)
  ELSE Report(Fails(w.lib.arm = "misroutes", "payload")
                \cup Fails(w.lib.arm = "skips", "imbalance")
                \cup Fails(ratio > 3, "tail"), <<2, 2>>)

\* The outcomes the arm treats as safe on any runtime.
expectations ==
  [no_handler |-> {"landed"}, typed_catch |-> {"landed"},
   catch_all_rethrow |-> {"landed", "terminated"},
   catch_all_swallow |-> {"landed", "terminated"},
   forced_unwind_idiom |-> {"landed", "terminated", "unavailable"},
   noexcept_barrier |-> {"terminated"}, noexcept_landing |-> {"landed"},
   cleanup_throws_and_catches |-> {"landed", "terminated"},
   nested_escape_in_cleanup |-> {"terminated"}, reeject_in_cleanup |-> {"terminated"}]

\* The cells a runtime is recorded as leaving outside of them.
known_unsafe(runtime) ==
  IF runtime = "libcxxrt"
  THEN [n \in {"catch_all_rethrow", "catch_all_swallow", "noexcept_barrier"} |-> "imbalance"]
  ELSE <<>>

\* (Mutant) A case the fixture no longer lists is not missed.
ProbeUnwindMatrixUncounted(runtime, names, outcomes) ==
  LET asked == DOMAIN names
      unsafe == known_unsafe(runtime)
      Safe(i) == outcomes[i] \in expectations[names[i]]
      Recorded(i) == names[i] \in DOMAIN unsafe /\ outcomes[i] = unsafe[names[i]]
      seen == {i \in asked : names[i] \in DOMAIN expectations /\ ~Safe(i) /\ Recorded(i)}
  IN  Report(Fails(\E i \in asked : names[i] \notin DOMAIN expectations, "unknown")
               \cup Fails(\E i \in asked : /\ names[i] \in DOMAIN expectations
                                           /\ ~Safe(i) /\ ~Recorded(i), "outcome")
               \cup Fails(Cardinality(seen) # Cardinality(DOMAIN unsafe), "record"),
             <<Len(names), Cardinality(DOMAIN expectations),
               Cardinality(seen), Cardinality(DOMAIN unsafe)>>)

\* Every case asked must be safe or exactly what is recorded, and as many
\* cells unsafe as the record holds.
probe_unwind_matrix(runtime, names, outcomes) ==
  LET asked == DOMAIN names
      unsafe == known_unsafe(runtime)
      Safe(i) == outcomes[i] \in expectations[names[i]]
      Recorded(i) == names[i] \in DOMAIN unsafe /\ outcomes[i] = unsafe[names[i]]
      seen == {i \in asked : names[i] \in DOMAIN expectations /\ ~Safe(i) /\ Recorded(i)}
  IN  Report(Fails(Len(names) # Cardinality(DOMAIN expectations), "cases")
               \cup Fails(\E i \in asked : names[i] \notin DOMAIN expectations, "unknown")
               \cup Fails(\E i \in asked : /\ names[i] \in DOMAIN expectations
                                           /\ ~Safe(i) /\ ~Recorded(i), "outcome")
               \cup Fails(Cardinality(seen) # Cardinality(DOMAIN unsafe), "record"),
             <<Len(names), Cardinality(DOMAIN expectations),
               Cardinality(seen), Cardinality(DOMAIN unsafe)>>)
=============================================================================
