-------------------------------- MODULE Lint --------------------------------
(***************************************************************************)
(* jmpxx-lint (lint/jmpxx_lint.cpp): the callbacks the AST matchers make   *)
(* while one translation unit after another is walked, and the report at   *)
(* the end of each.                                                        *)
(*                                                                         *)
(* A translation unit is the sequence of the nodes the matchers know, in   *)
(* source order.  A variable is the address of its declaration: the AST of *)
(* a unit is gone when the next one is built, so an address may come back. *)
(***************************************************************************)
EXTENDS Integers, Sequences, FiniteSets, SequencesExt

CONSTANTS
  Vars,   \* addresses of result variables
  NoVar

\* forward is if (!r) return fail(r.error()); where says how the node was
\* written: in the file, by a macro, or nowhere in a file.
Node ==
  [kind : {"if", "while", "for", "access", "forward"}, var : Vars,
   where : {"file", "macro", "nowhere"}]
    \cup [kind : {"discard"}, var : {NoVar}, where : {"file", "macro", "nowhere"}]

VARIABLES
  units,     \* the sources on the command line
  unit, at,  \* where the walk is
  checked_, pending_, findings_,
  printed    \* the reports, one sequence for each unit ended

lint == <<units, unit, at, checked_, pending_, findings_, printed>>

LintInit(sources) ==
  /\ units \in sources
  /\ unit = 1 /\ at = 1
  /\ checked_ = {} /\ pending_ = <<>> /\ findings_ = <<>> /\ printed = <<>>

Walking == unit <= Len(units) /\ at <= Len(units[unit])
Here == units[unit][at]
Finding(check) == [unit |-> unit, at |-> at, check |-> check]

\* record: nothing without a location in a file.
record(check) ==
  findings_' = IF Here.where = "file" THEN Append(findings_, Finding(check)) ELSE findings_

\* run() for a discarded result.
RunDiscard ==
  /\ Walking /\ Here.kind = "discard"
  /\ record("jmpxx-discarded-result")
  /\ at' = at + 1
  /\ UNCHANGED <<units, unit, checked_, pending_, printed>>

\* The conditions the collector is registered for.
Collected == {"if", "while", "forward"}

\* run() for a condition: the manual-propagation matcher and the collector of
\* checked variables.  No matcher is registered for a for statement.
RunCondition ==
  /\ Walking /\ Here.kind \in {"if", "while", "for", "forward"}
  /\ IF Here.kind = "forward" THEN record("jmpxx-manual-propagation")
     ELSE UNCHANGED findings_
  /\ checked_' = IF Here.kind \in Collected THEN checked_ \cup {Here.var} ELSE checked_
  /\ at' = at + 1
  /\ UNCHANGED <<units, unit, pending_, printed>>

\* (Mutant) The verdict is given when the access is met.
RunAccessEager ==
  /\ Walking /\ Here.kind = "access"
  /\ IF Here.where = "file" /\ Here.var \notin checked_
     THEN findings_' = Append(findings_, Finding("jmpxx-unchecked-access"))
     ELSE UNCHANGED findings_
  /\ at' = at + 1
  /\ UNCHANGED <<units, unit, checked_, pending_, printed>>

\* run() for a narrow access: the verdict waits for the end of the unit.
RunAccess ==
  /\ Walking /\ Here.kind = "access"
  /\ pending_' =
       IF Here.where = "file"
       THEN Append(pending_, [finding |-> Finding("jmpxx-unchecked-access"),
                              var |-> Here.var])
       ELSE pending_
  /\ at' = at + 1
  /\ UNCHANGED <<units, unit, checked_, findings_, printed>>

\* Finding::operator<; the sources are in the order of their names.
Before(f, g) == f.unit < g.unit \/ (f.unit = g.unit /\ f.at < g.at)

\* std::sort over the findings all: each takes the place its rank gives it.
Sorted(all) ==
  LET Rank(i) == Cardinality({j \in DOMAIN all :
                    Before(all[j], all[i]) \/ (~Before(all[i], all[j]) /\ j <= i)})
  IN  [k \in 1..Cardinality(DOMAIN all) |-> all[CHOOSE i \in DOMAIN all : Rank(i) = k]]

\* The findings so far, and behind them the pending ones that are not suppressed.
Pushed ==
  LET n == Len(findings_)
      unchecked == {i \in DOMAIN pending_ : pending_[i].var \notin checked_}
  IN  [k \in 1..n \cup {n + i : i \in unchecked} |->
         IF k <= n THEN findings_[k] ELSE pending_[k - n].finding]

\* onEndOfTranslationUnit.  Nothing is cleared for the next unit.
onEndOfTranslationUnit ==
  /\ unit <= Len(units) /\ at > Len(units[unit])
  /\ findings_' = Sorted(Pushed)
  /\ printed' = Append(printed, findings_')
  /\ unit' = unit + 1 /\ at' = 1
  /\ UNCHANGED <<units, checked_, pending_>>

LintNext == RunDiscard \/ RunCondition \/ RunAccess \/ onEndOfTranslationUnit

-----------------------------------------------------------------------------

\* The conditions that test the result of node i of unit u, wherever they stand
\* in the unit, before the node or after it.  Every form of condition counts
\* (jmpxx_lint.cpp:184-186: "for and while are included so a loop guard counts
\* too").
TestedBy(u, i) ==
  {units[u][j].kind : j \in {k \in DOMAIN units[u] : units[u][k].var = units[u][i].var}}
    \cap {"if", "while", "for", "forward"}

Access(u, i) == units[u][i].kind = "access" /\ units[u][i].where = "file"

\* Node i of unit u is a mistake of the consumer.
Mistake(u, i) ==
  \/ units[u][i].kind \in {"discard", "forward"} /\ units[u][i].where = "file"
  \/ Access(u, i) /\ TestedBy(u, i) = {}

\* The first unit's report names every mistake of that unit, each once and in
\* source order; and no report, whatever was carried over from earlier units,
\* names anything but a mistake or an access that for conditions alone test.
\* Of those accesses this says nothing: what the repository says of them is
\* GuardedNeverFlagged.
LintExact ==
  /\ printed # <<>> =>
       /\ \A i \in DOMAIN units[1] :
            Mistake(1, i) => \E k \in DOMAIN printed[1] : printed[1][k].at = i
       /\ \A j, k \in DOMAIN printed[1] : j < k => printed[1][j].at < printed[1][k].at
  /\ \A k \in DOMAIN printed : \A f \in ToSet(printed[k]) :
       Mistake(f.unit, f.at) \/ (Access(f.unit, f.at) /\ TestedBy(f.unit, f.at) = {"for"})

\* No report names an access whose result some condition of its unit tests
\* (jmpxx_lint.cpp:16-19: "It suppresses an access whenever the result is checked
\* anywhere in the function [...] but never flags guarded code").
GuardedNeverFlagged ==
  \A k \in DOMAIN printed : \A f \in ToSet(printed[k]) :
    Access(f.unit, f.at) => TestedBy(f.unit, f.at) = {}
=============================================================================
