# A TLA+ model of jmpxx

jmpxx is a header-only C++20 library for propagating failures without ordinary
exceptions. This directory models the library, the applications it is tried in and
the tools around it, checks them with TLC on small instances, and proves with TLAPS,
for every instance, the invariants of the diagnostic store, the result transport, the
`error_code` bridge, the unwind arm with its refinement, the applications' guards and
verdicts, and eight of the tools and bridges.

## The system

| component | state it keeps | operations | modelled by |
| --- | --- | --- | --- |
| `result<T, E>` (`core/transport.hpp`) | a union of a value and an error, `has_` | construct, copy, move, assign, destroy, access, compare, `and_then`, `transform`, `or_else`, `transform_error` | `Transport` |
| propagation macros (`core/propagation.hpp`) | none | `JMPXX_TRY`, `TRYV`, `TRYX` | `Transport` (`Try`), `DiagnosticStore` (`Propagate`), `Descent` (`TryReturns`) |
| diagnostic store (`diagnostic/store.hpp`) | per thread: 16 records, a depth, a handle counter | `open`, `find`, `add_hop`, `mark`, `truncate` | `DiagnosticStore` |
| `rich_error`, `landing` (`diagnostics.hpp`) | a handle; a mark | create, copy, move to another thread, propagate, inspect, enter and leave a landing | `DiagnosticStore` |
| unwind arm (`unwind/escape.hpp`, `unwind/backend.hpp`) | per thread: the stack of carriers (`active`), `escape_in_flight`; per scope: `ejected`, the error, a jump buffer | `escape_scope`, `eject`, `stop_function`, `drive_unwind`, `escape_cleanup` | `UnwindArm`, `EscapeContract` |
| `error_code` bridge (`interop/error_code.hpp`) | a process-wide table under a mutex | `get`, `domain_of`, conversions | `ErrorCodeBridge` |
| exception, expected, adapt bridges (`interop/`) | none | `to_expected`, `from_expected`, `value_or_throw`, `catch_into_result`, `from_optional`, `from_condition` | `Boundary` |
| type-erased error (`erased.hpp`), enum reflection (`reflect.hpp`) | none | fold, compare; scan, sort, look up on two paths | `Reflect` |
| platform layer (`platform/`) | none | detection, trap, trace capture | `Platform` (capture) |
| reference application (`reference_app/src`) | the set of keys being resolved, `error_key_`; the records of rich errors | `resolve_key` by escape from any depth; load, validate, check limits and policy | `Resolver`, `ConfigValidate` |
| embedded, trusted and engine applications | visit path in a fixed array, open files, hash contexts, the fault's name | `check_image`, `verify_manifest`, `audit` | `StoreCheck`, `ManifestTA`, `SceneAudit` |
| lint (`lint/jmpxx_lint.cpp`) | `checked_`, `pending_`, `findings_` over all translation units | callbacks, report | `Lint` |
| verification harness (`verify/`) | files of fixed names under /tmp, goldens | 19 probes; the acceptance sweep over `ctest -j` | `Harness`, `Normalize`, `Sweep`, `Registry` |
| `packaging/amalgamate.py` | the set of visited headers | inline recursively | `Amalgamate` |
| benchmarks, `single_include` | - | timing; a generated copy | not modelled |

How they interact: a `result` carries a `rich_error` by value; a propagation macro
moves the error to the caller's result and appends a hop to the error's record in
the calling thread's store; a landing releases the records opened since it began;
an escape leaves frames without their cooperation, running their destructors -
landings and `scope_pop` guards included - and lands in a `result`. The applications
sit on top: three of them put one `escape_scope` around a recursive descent whose
frames own marks and handles, the other two thread `result`s back with `JMPXX_TRY`.
The harness runs all of it through child processes and shared files, and the sweep
turns what the tests printed into one verdict.

What is hard here: results are reassigned while user code throws; a source may die
in the middle of the assignment that reads it; handles outlive their records and
cross threads; arenas and chains overflow; scopes are left in four ways and opened
by destructors that an unwind is running; handlers on the path do different things
on every C++ runtime; an application is called again after a fault deep inside it; tests
that run at the same time meet in one file. `PROJECT.json` lists each of these at its line under
"hazards", with the property that covers it.

## Modules

**DiagnosticStore.** `records`, `depth` and `next_id` are `store`'s members, one set
per thread; `err[e]` is a `rich_error` object: the thread it is `at`, and the handle.
Two fields the code does not have tell properties what is right: `home` and `origin`
(which failure the error stands for; the creation number stands for the source
location), and a record's `trail` (its whole history, which the bounded `hops` is
compared with). `Fail` is the two constructors that call `open`; `Copy` the defaulted
copies; `HandOff` the program moving an error to another thread; `Propagate` is
`note_propagation` with `add_hop` and `find`; `EnterLanding` and `LeaveLanding` are
`landing`'s constructor and destructor; `SkipLanding` is a frame left without its
destructors. `find` gives the set of slots found, empty for `nullptr`. Which `program`
uses the store is chosen in the initial state: its threads and propagation sites, whether
its landings nest and its errors migrate, and `max_inflight`, which the code fixes at 16.

**UnwindArm.** One thread, since all of the arm's state is `thread_local` or in a
frame. `stack` is the call stack: a frame has a handler, a number of automatic
objects, and the addresses `low..cfa-1`; a scope frame holds the carrier at an
address inside it, the lowest one included. `Eject` is `eject` with its three
refusals in order; then the unwind goes frame by frame: `Land` is the `longjmp` of
`stop_function` (or the WebAssembly `catch`) and the rest of `escape_scope`;
`ForcedDtor` calls a destructor, which is ordinary code that may call, throw, open
scopes and eject; `ForcedFrame` applies `HandlerDoes`, the table of
docs/design/unwind-arm.md, which is external to the library. Two more kinds of frame are
not in that table: a "bare" one was compiled with exceptions disabled, so it has unwind
information and no cleanups, and the unwinder steps over it (`SkipFrame`); an "opaque" one
has no unwind tables, where the walk ends at what the stop function takes for the end of
the stack, or `_Unwind_ForcedUnwind` gives up and returns into the `fail_fast` behind it
(`UnwindFails`). `ThrowFrame` is an
ordinary exception leaving frames, `scope_pop` included. The runtime is chosen in
the initial state. The fourth runtime of that table, MinGW, has no backend. The
native MSVC backend is one `longjmp` whose unwinding happens in the system and is
not modelled.

**EscapeContract.** What callers of `escape_scope` and `eject` may rely on: scopes
nest; an eject lands at the nearest scope, whose result holds that error, or the
process ends; a scope with an escape aimed at it does not return normally; one
escape at a time. On WebAssembly, and only there (`replaceable`), a handler may put
another exception in the escape's place (`Overtake`). `UnwindArm!ImplementsContract` is
the refinement: the open scopes are the scope frames, the pending escape is the
carrier's.

**Transport.** Storage `res[r]` holds a result: whether it is alive, `has_`, and the
member of the union that is actually constructed. Cross-state assignment is four
steps (`BuildIncoming`, `DestroyOutgoing`, `PlaceIncoming`, `CommitState`), one per
statement of `assign_from`; everything else is one action with its possible throws as
outcomes. Data are numbered when made. Values may own results (`Nested`): these die
with the value, and may be the source of an assignment to its holder. `fault` becomes
TRUE when the code touches a union member that is not the live one. `value_or` and
`error_or` are `AccessOr`, reading or moving the element or the fallback. A datum leaves
the results by being taken by the program, by its holder's destruction, or in one more
way: a propagated error is moved into a `failure` and from there into the result of the
enclosing function, and if the second move throws, it dies with the `failure`
(`LoseInFailure`); `used` counts it, since the exception that reports it is the program's.
What the element
types can do (copy, throw) and whether narrow access is hardened is chosen in the
initial state from `Types`; `can_assign` is the constraint the code puts on them.

**ErrorCodeBridge.** Threads call `to_error_code`, `from_error_code` and `is_jmpxx` and
exchange the codes they get. `by_domain` and `by_address` are sets of entries, one pair
per image (a binary with its own copy of the table); a call goes through the statements
of `get` (`Lock`, `Find`, `Emplace`, `Index`, `Return`) or `domain_of` (`Lock`,
`LookUp`) one step at a time. `emplace` keeps an entry there is, as `std::map` does.
`OutOfMemory` is either insertion throwing under `noexcept`. A code's `maker` and
`domain` fields record what it was made from. Allocation that succeeds gives an address
not used before: categories live until the process ends. `Periphery` runs it as one of its
subjects, and `bridge_negative` on its own (`CodesSpec`).

**Descent, Resolver, StoreCheck, ManifestTA, SceneAudit, ConfigValidate, Applications.**
`Descent` is what the five applications share: the frames of a recursive descent, each
with a program point, a position, and which of its guard objects (a mark on the path, an
owned file or hash context) have been constructed; an error under way, raised by
`eject` ("escape") or returned ("fail"), which leaves one frame a step and runs the
destructors of what was constructed; the verdict at the boundary. The name of a fault is
a variable beside the error, as in the code. Each application's module has one action
per stretch of its function between two calls. The inputs are what the parser below
delivers: a document is a function from keys to texts made of plain text, references
and an unclosed `${`; an image says which records exist, what is wrong with each and
what it refers to; a manifest is a sequence of entries of several units cut off at any
unit, with a pool of hash contexts that may be exhausted and a client's buffer with or
without room for the answer (`room`: one for the path length, one for a name); a scene is a tree of named
nodes; a file says of each field whether it is good, absent or out of range.
The resolver is asked for any key, whether or not the document has it. The trusted
application answers success and failure alike through `Reply`: without room for the name
and the path the call is answered "short_buffer".
`Applications` starts one of them and calls it for ever. `ApplicationsReference` says
independently what each call must come to, from the input and the name asked for alone:
chains of records and entries are walked as sequences, a configuration is a list of
checks, and the text of a key and the names of a scene are functions of the levels left
below them.

**Boundary.** An outcome crosses bridges in any order; moves may throw, and what the
program set out with is kept in `origin`.

**Reflect.** Both paths of `reflect.hpp` over an enumeration given by its declarations
and its underlying type: the window scanned with the wrap-around of a narrow type, and
the walk over declarations with its insertion sort. `fold_generic_error` is the xor and
shift of bits at a scaled width (`HalfBits` for 16).

**Platform, Normalize.** `capture`, and the harness's `normalize` and `canon_labels`, as
operators.

**Lint, Amalgamate.** The callbacks over one translation unit after another, where the
address of a variable may come back in the next unit; the recursion of `inline()` as a
stack of calls. `Collected` are the conditions the registered matchers deliver; `Mistake`,
the reference, counts a test in any form of condition the lint's comments and
docs/reference/lint.md name, `for` included. `LintExact` demands a report of every mistake
and no report of a guarded access, and says nothing of accesses that only a `for` tests;
those are the subject of `GuardedNeverFlagged`, which is violated (finding 6).

**Harness, Registry, Sweep.** `Harness` has every probe as a function of what it
measures. `Registry` is the list of tests with their gates, locks and inversions.
`Sweep` runs them: ctest starts tests as far as jobs, RUN_SERIAL and RESOURCE_LOCK
allow, a test goes through its commands one at a time, writing and reading files by the
names the code has, and `Aggregate` is `build_report` with `classify`, `account` and the
recorded counts. A cell of `MCPeriphery` is a build with one thing wrong (a slack
budget, a leaked string, a runtime that changed, a gate that went quiet, a missing
inverted test...) and what a reader of the sources expects the sweep to say of it.
A file is written in one step; of several timed repetitions one is kept.

**Periphery** puts these, and `ErrorCodeBridge`, side by side: they share no state, so a behaviour exercises
one of them and the others rest.

`MC*` modules give TLC the constants and symmetry. Definitions marked `(Mutant)` are
plausible bugs; replacing the definition that follows by one of them makes TLC report
the property `PROJECT.json` names.

## Runs

| run | checks | shows |
| --- | --- | --- |
| `store` | `TypeOK`, `ContextExact`, `LandingOwnsExactly`, `ChainFaithful`, `LandingKeepsOlder`, `NoResurrection` | two kinds of program. One thread, nested landings, some skipped: arena of 2, chain of 2, 3 failures, 3 hops, so both bounds overflow and slots are reused. Two threads exchanging errors, landings ended in any order by any thread's program: arena of 1, 2 failures per thread, so that every slot is reused |
| `store_foreign` | `ForeignResolvesNothing` (violated) | a migrated error resolves to a stranger's record |
| `unwind` | `TypeOK`, `ActiveIsInnermost`, `InFlightExact`, `NoWildLanding`, `NothingLost`, `ImplementsContract`, `NoSilentSuccess`, `EscapeResolves` | libstdc++, libc++abi, libcxxrt and WebAssembly with all handlers, frames compiled with exceptions disabled and frames without tables; 6 frames, 5 operations of the program: two nested scopes with a destructor that opens or ejects, every carrier offset |
| `unwind_wasm_translate` | `SwallowReported` (violated) | a replaced escape is not reported |
| `transport` | `NeverValueless`, `NoFault`, `Conserved`, `AssignDelivers` | three results and one nested, 6 operations, 3 data; copyable, move-only and throwing-move types |
| `bridge_negative` | `RoundTrip` (violated) | a negative domain is lost |
| `applications` | `TypeOK`, `GuardsExact`, `PathFits`, `VerdictExact`, `ScriptsPass`, `CallReturns` | calls without bound on all documents, images, manifests, scenes and files of the bounds below; the repository's own expectations (`store_check.cpp` main, `verify_client.c` main) hold whatever was called before |
| `periphery` | `SweepVerdict`, `ReadsOwn`, `LintExact`, `AmalgamateExact`, `BoundaryFaithful`, `MapsGuarded`, `CodesFaithful`, `RoundTrip`, `MetadataExact`, `ErasedFaithful`, `CaptureExact`, `LabelsCanonical`, `AmalgamationEnds` | the sweep says of every cell what it should, in every interleaving; the tools, bridges and functions agree with their reference definitions; the bridge of error codes with two threads, two images and two domains, calls without bound |
| `lint_for` | `GuardedNeverFlagged` (violated) | an access tested only by a `for` condition is flagged |
| `sweep_freebsd` | `SweepVerdict` (violated) | libcxxrt exactly as recorded is called a gate gone quiet |
| `sweep_parallel` | `ReadsOwn` (violated) | the matrix and its inverted test in one file |
| `reflect_paths` | `PathsAgree` (violated) | aliases split the two paths |

The runs with `CHECK_DEADLOCK FALSE` model programs that perform a bounded number
of operations (`MaxOpens`, `MaxTrail`, `MaxOps`, `MaxData`, `MaxFrames`, `MaxObjs`,
`MaxLegs`, `MaxCalls`) or tools that end, and then really stop; a terminated process has no next
step. `applications` checks for deadlock. That threads in the bridge of error codes never all
wait is part of `MapsGuarded`: who holds a mutex is in the maps, where nothing waits.

Why the bounds are enough to be interesting: a slot is reused after 2 opens with one
in between released; a chain overflows at its third hop; the shortest double escape
needs open, construct, eject, open, eject (5 operations); the shortest use of a dead
source needs two constructions and one assignment. The applications' limits are scaled
down (`MaxDepth` 2 for the resolver's, `MaxPath` 3 for 8 records, `MaxNesting` 2 for the
manifest's, `MaxLimit` 2 for 64, `MaxChain` 2 for the hops of a record) so that three or
four names make chains that just fit, chains that are one too long, and cycles that
begin at, and after, the entry; a text of two parts makes a name come up twice without
being a cycle; a manifest is cut at every unit, and the client's buffer takes nothing, a
path length, or a name as well. Enumerations have up to three
declarations with values inside, at the ends of and outside the window, of a signed or a
narrow unsigned type.
Lint sees one unit of up to three nodes or two of up to two, the amalgamation three
headers with up to two includes each, cycles included, and one or two roots (`MaxCalls`
bounds its call stack: at most one call a header, so the code never comes to it). The
enumeration of `probe_reflect` is scanned over -8..7, for -128..127. A sweep has the few tests that
can meet: those of one lock, one file or one gate. Each property is violated by
its mutant within these bounds.

Fairness: `UnwindArm!FairSpec` adds weak fairness of `Next`, which says only that a
thread keeps executing. `Applications!Spec` has weak fairness of a call's own steps: a
call that has begun is a sequential program, and nothing says that another call comes.
`Periphery!Spec` has it of the amalgamation (`Amalgamating`), for the same reason. No
step waits for another thread in any of them. Nothing is assumed of ctest.

## Findings

1. `store.hpp:55` (`store_foreign`): handles are numbered from 1 on every thread, so an
   error moved to another thread can resolve to that thread's record, and propagation
   appends hops to it; `diagnostics.hpp:41` and docs/reference/diagnostics.md say it
   resolves to no context.
2. `escape.hpp:176` (`unwind_wasm_translate`): on WebAssembly a catch-all that throws
   another exception carries the escape past its scope; the backstop looks only at a
   normal return, and `escape_in_flight()` stays set. docs/reference/unwind.md lists a
   swallowed escape among the defined terminations.
3. `interop/error_code.hpp:122` (`bridge_negative`): errors with a negative domain are
   entered in the table and then taken for foreign; docs/reference/interop.md promises
   an exact round trip.
4. `unwind_probes.cpp:363` (`sweep_parallel`): `unwind.matrix` and
   `unwind.matrix.teeth` use one file under /tmp and are in no resource lock, although
   `tests/CMakeLists.txt:686` says that the probes which drive a fixture through a fixed
   file are serialized against each other.
5. `reflect.hpp:300` (`reflect_paths`): an alias is counted and listed by the reflected
   path and not by the fallback; `reflect.hpp:20` and 358 say the two agree.
6. `jmpxx_lint.cpp:191` (`lint_for`): the comment at 184 says that a `for` condition
   counts as a check, and docs/reference/lint.md that guarded code is never flagged; no
   matcher is registered for `for`, so an access it guards is flagged.
7. `acceptance.py:154` (`sweep_freebsd`): `CASE_LINE` also matches
   `cases.known_unsafe_seen` and `cases.known_unsafe_recorded` (`unwind_probes.cpp:414`),
   so on libcxxrt, whose three unsafe cells are as recorded, the accounting reads 16 known
   cases against 10 asked and reports a sound gate as one that went quiet.

## Remarks

Met while modelling, and not given a run of their own:

- `store.hpp:61-66`: after 2^32 - 1 opens a handle may equal that of a record still
  live; the comment takes for granted that reused values were retired. The theorems
  hold until the counter wraps.
- `backend.hpp:244`: at the end of the stack the stop function lands, so a frame without
  unwind tables produces a landing with destructors skipped and not the termination
  docs/reference/unwind.md:61 and 72 list; if the unwinder gives up instead, the process
  ends as documented (`UnwindFails`). A frame compiled with exceptions disabled has its
  destructors skipped, as docs/reference/unwind.md:47 says. `NothingLost` allows exactly
  these.
- `error_code.hpp:121`: `from_error_code` knows only the categories of its own image, so
  the comparison of recovered pairs that `error_code.hpp:18` recommends across images
  is right only if each code is converted in the image that made it.
- `acceptance.py:273`: a gate none of whose tests is registered is left out of the
  report and of the accounting, without a finding.
- An inverted test also passes when its fixture does not compile: it fails, whatever
  for.
- `unwind_scaling` is recorded with 4 steps, which needs 8 cores; on a smaller machine
  the accounting objects.
- `jmpxx_lint.cpp`: nothing is cleared between translation units: findings of
  earlier units are printed again, and a recurring address may hide one.
- `reflect.hpp`: with an 8-bit unsigned underlying type and the default window -128..127
  the fallback's casts wrap and reach every value of the type once, so an enumerator such
  as 200 is counted and listed, under the wrapped value -56 (`build_failures` stores
  `range_lo + I`), while its name is not found when a message asks for it (the value 200
  lies outside the window). `MetadataExact` speaks of enums whose values lie in the
  window, and of windows no wider than the type.
- `trace.hpp:57`: with `skip` above 8 a trace has fewer than 24 frames though the stack
  has more.
- `resolve.hpp:100`: a malformed text is reported by its text and not by its key.
- `store_check.cpp:285`: after an escape the image stays mounted; the next call mounts
  it again.
- `verify_client.c:110-118` tells of a TEE whose thread-local storage is not set up for
  every thread; that is external, and one thread is modelled.

## Proofs

`DiagnosticStoreProofs` proves, for any number of threads, errors, landings, any
capacity and any handle range: `TypeCorrect`, `ContextIsExact`, `LandingsKeepOlder`,
`NothingComesBack`, `LandingsOwnExactly` (for programs whose landings nest, `Scoped`) and
`ChainsAreFaithful` (for programs whose errors stay on their threads, `~Migrates`), from
`StoreAssumption`. The argument is the
inductive invariant `IInv`: until the counter wraps, a handle is the creation number of
its failure (`CounterInv`, `ErrorInv`); live records are stacked in creation order
(`StackInv`); marks lie in the past and cover only newer records (`MarkInv`), and while
landings nest, marks grow with time and never exceed the depth (`NestInv`).
`ContextExact` alone is not inductive: that a reused slot is not found under an old
handle follows only from the order of creation numbers in the stack. The constants are
assumed to be what `StoreAssumption` says: capacities of at least 1, at least two
non-zero handles, and programs with threads, sites and a capacity among these.

`TransportProofs` proves `ResultsAreWhole` (`NeverValueless`), `MembersAreLive`
(`NoFault`) and `AssignmentsDeliver` (`AssignDelivers`) for any sets of results and
nested results and every element type `Types` admits, from `TransportAssumption` alone.
`NeverValueless` is not inductive: it excepts the target of the assignment under way, so
it cannot tell that the assignment will repair it. `JobInv` says at each of the steps
built, empty and placed what the local variable and the target's storage hold and that
the move of the incoming element cannot throw (the constraint on the operator); with it
the last step restores the target. Every other operation starts and ends `Settled`: all
results whole, no assignment under way.

`ErrorCodeBridgeProofs` proves `TablesAreGuarded` (`MapsGuarded`), `CodesAreFaithful`
(`CodesFaithful`) and, if no domain is negative, `RoundTripsIfNonNegative` (`RoundTrip`),
for any threads, images, values and domains, from `BridgeAssumption`. A code found in
`by_domain` round-trips only if its category is in `by_address` too: `IndexInv` says that
an entry lacks its counterpart only while the thread that makes it is still at `Index`,
and `MutexInv` that nobody else can look at that moment. `TableInv` says that by_domain
is one-to-one and by_address part of its inverse; `CodesInv` that every code in the
program names an indexed category.

`UnwindArmProofs` proves all safety properties of the arm, for every program, stack
depth, frame layout and runtime: `ArmTypeOK`, `ActiveIsTheInnermost`, `InFlightIsExact`,
`LandingsAreOnTheStack` (`NoWildLanding`), `NothingIsLost`, `NoScopeSucceedsSilently` and
the refinement `ArmImplementsContract`. None of them is inductive. `ActiveIsInnermost`
says nothing of what `active()` will be once a scope is left, which is the carrier's
`prev`; `StackInv` says of every scope frame that its `prev` is the innermost scope below
it, that addresses descend from frame to frame without overlap, and that every carrier lies in
its own frame. `EscapeIn` says that an escape is aimed at a scope still on the stack, and
that while it unwinds, or one of its cleanups runs, no scope lies between; `FlightIn` ties
`escape_in_flight()` to it. A cleanup may open and leave scopes of its own, so all of
these are stated of any stack, and lemmas say what pushing and popping a frame keeps. That the
walk stops at the right frame follows from the addresses alone: the first frame whose
range ends above the carrier is the carrier's (`NoWildLanding`, `NothingLost`). For
`NoSilentSuccess` and the refinement, every step is classified by what the contract can
see of it: it keeps the scopes and the escape (`Keeps`), opens a scope (`Opens`), aims an
escape (`Starts`), leaves the innermost scope (`Closes`) or ends the process (`Die`).

`TransportConservedProofs` adds `DataAreConserved` (`Conserved`). `Conserved` counts the
places of each datum; the proof works with `Holding`, which says that the data in the
results, the one in the local variable of an assignment and the ones used up are disjoint
and are all there are. `Kept` adds where the local variable can hold a datum at all, and
that the target's storage is empty when it is placed. That no exception falls between the
two is `JobInv` of `TransportProofs`: what can throw from a move cannot come to that step.

`ApplicationsProofs` proves `ApplicationsTypeOK`, `PathsFit` and `GuardsAreExact` for every
document, image, manifest, scene and file, and any limits, without using what
`InputAssumption` says of the inputs. `GuardsExact` is not inductive because it does not
say which guards a frame will have constructed when it goes on: `Guarded` reads that off
the frame's program point, and `Stack` says that every frame but the innermost stands at its recursive call, hence has its
mark and its resource. A step changes, pushes or pops the innermost frame, and there is
one lemma for each; the depth of the configuration checker needs `Sections` besides.

`ApplicationsVerdictProofs` proves `VerdictsExact` (`VerdictExact`) for all five
applications: whatever was called before, a call ends with exactly the verdict
`ApplicationsReference` gives. `VerdictExact` speaks of finished calls only; the inductive
invariant `VInv` has a part for each application (`ResolverInv`, `StoreInv`,
`ManifestInv`, `SceneInv`, `ConfigInv`) that says of a call under way that what its frames
have left behind had no fault and produced what the counts and texts so far hold, that
every frame but the innermost waits for exactly the next frame's result, and that an error
already raised is the verdict of the reference. For the resolver this is the text
interpolated up to the piece each frame stands at, as a value by levels left; for the
record checker and the manifest, that the frames are an initial piece of the reference's
walk; for the scene, that the names put out before a frame's node, and below its children
so far, are those the reference puts out (`SceneDescent`, with what each frame had before
and has of its own as existential witnesses). The step from the innermost frame to the
reference uses that its definitions unfold: a recursive function is a `CHOOSE`, so each
is first shown to exist, by taking the least argument up to which it does not
(`LeastNat`, from the library's theorem that `<` on `Nat` is well founded), and unfolds
then. `InputAssumption` is what the parsers below deliver: texts are sequences of pieces,
children are nodes of the scene, no record is called by the empty name, the pool of hash
contexts and the client's buffer have a size. What the trusted application finds
(`Verification`) and what the client learns of it (`Answer`) are told apart: `ManifestInv`
speaks of the first, and `ReplyIs` says that the code's `Reply` to it is the second.

`PeripheryProofs` proves eight properties. `OutcomesAreFaithful` (`BoundaryFaithful`):
`OriginOK` and `FormOK` say which outcomes each representation can hold.
`TracesAreExact` (`CaptureExact`), for any room and slack (`RoomAssumption`) and any
finite stack (`StacksAssumption`). `FilesAreOwn` (`ReadsOwn`), for every suite, number of
jobs and build whose registration is `Disciplined`: of two tests that drive one probe
through a file of fixed name, one runs alone or both hold one lock. `Apart` says that
such tests never run at the same time, `Fresh` that a test about to read has itself
written the file; both rest on the order of each probe's commands, which is read off the
probe (`Shape`); `CellsAssumption` says only that a cell is well formed and has at least
one job. That the registration of the repository is disciplined, but for
`unwind.matrix` and its inverted test (finding 4), is the assumption `RegistryDisciplined` of
`MCPeriphery`, which TLC evaluates; without the condition the theorem would be false.
`SingleHeaderIsExact` (`AmalgamateExact`), for every tree of headers, cyclic ones too
(`TreesAssumption`, `TextAssumption`): `PassedLines` are the lines `inline` has come past,
`OutOK` says that the output is their text, `CallsOK` that the headers on the stack reach
one another, and `PassedOK` that what a passed line includes is complete, is being inlined
for that very line, or reaches itself. The order of the output follows from the last.
`ReportsAreExact` (`LintExact`), for any translation units and any reuse of declaration addresses
(`SourcesAssumption`): `FoundOK`, `PendingOK` and `CheckedOK` say what the three lists
hold of the nodes the walk has come past, so that a pending access nobody checked is one
its own unit's matchers found no check for (`LintFlags`), however late it is reported;
`FlaggedIs` relates that to the reference: it is a mistake, or only a `for` tests it; `FirstOK` adds that in the first unit
the lists hold nothing else and nothing twice. That sorting neither loses nor repeats a
finding is `SortedIs`: ranks are one-to-one, hence a permutation.
The other three are about functions, so only what they compute is at stake.
`LabelsAreCanonical` (`LabelsCanonical`), for any two bodies (`BodiesAssumption`): the list of
labels seen holds each label of the body once, so that a label's number is well defined; two
bodies of equal canonical text are related by the map from the k-th label seen in one to the
k-th in the other, and conversely a renaming takes the k-th label seen to the k-th.
`ErasedIsFaithful` (`ErasedFaithful`), for words of any even width (`WordAssumption`) and
any two integers a part (`PairsAssumption`): bits come from halving, every set of positions is
the bits of exactly one `int`, and shifting by half a word moves the bits of the tag above
those of a code that fits, so the exclusive or can be taken apart again.
`MetadataIsExact` (`MetadataExact`), for enums of any size, window and type
(`EnumsAssumption`: names differ and values fit the type, as the language guarantees): the
scan and the insertion both give the declarations in ascending order of value, and there is
only one such sequence.

On the instances of the runs TLC finds the inductive invariants of `UnwindArmProofs`,
`TransportConservedProofs`, `ApplicationsProofs` and `PeripheryProofs` to hold as well
(`LintInv` with its quantifiers bounded by the nodes there are).
Some definitions have the form they have because of the proofs: the actions of `UnwindArm`
choose with `IF` where a `CASE` had overlapping guards; `Resolver!Erase` and `GuardsExact`
speak of positions, `Reach` is the least closed set, and `Lint!Sorted` places each finding
by its rank, in place of operators that recurse; what must be found by going through a
sequence or by counting down (`SeenUpTo`, `ScanTo`, `InsertedTo`, `Halved`, the functions
of `ApplicationsReference`) is a recursive function of a bounded index, whose value at each
index a lemma can state; `ManifestTA` says of any manifest, and not only of `input`, what is
wrong with an entry, so that the reference can use the same conditions; `Sweep!Put` stands
for the `@@` and `:>` of the TLC module, which the provers do not know.

Only model-checked:
- liveness (`EscapeResolves`, `CallReturns`, `AmalgamationEnds`): fairness is beyond the prover;
- `ScriptsPass`: what the repository's scripts expect of their own few inputs. Given
  `VerdictExact` it is the evaluation of the reference on these inputs at the limits of the
  run, and no statement about others;
- `SweepVerdict`: what a cell is expected to come to is a table of data, so there is no
  statement for every instance.

## Not modelled

- The native MSVC backend of the unwind arm: one `longjmp` whose unwinding is all inside
  the system; no source or document of the repository says what it does with handlers on
  the path.
- `core/error.hpp`, `core/config.hpp`, hooks and utilities: plain data and preprocessor
  configuration. Target detection and the trap of `platform/`, for the same reason.
- Benchmarks: timing loops. `single_include/`: generated by `amalgamate.py` from the
  headers modelled here.
- Message texts, JSON and human-readable rendering of reports, and the parsers below the
  applications (TOML, glaze, littlefs).
- Commands of the trusted application that are refused, or report the layout: they change
  no state.

## What is left, in order

1. `ScriptsPass` as a theorem, for the limits the code has and not the scaled ones: an
   evaluation of `StoreVerdict` and `ManifestVerdict` on concrete data, step by step.
2. `PathsAgree` for the enums `MetadataExact` speaks of follows from `MetadataIsExact`;
   what the two paths share for an enum with aliases (names and casts by the first
   declaration) could be stated and proved on its own.
