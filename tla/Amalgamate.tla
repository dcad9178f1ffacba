----------------------------- MODULE Amalgamate -----------------------------
(***************************************************************************)
(* packaging/amalgamate.py: the single header made of the modular ones.    *)
(*                                                                         *)
(* A header is the sequence of its lines; a line is the local header it    *)
(* includes, or Text.  The recursion of inline() is the stack calls.       *)
(***************************************************************************)
EXTENDS Integers, Sequences, FiniteSets, SequencesExt

CONSTANTS
  Headers, Text,
  MaxCalls  \* bound: Python's recursion limit; one call more raises and the tool stops

ASSUME TextAssumption == Text \notin Headers
\* Each header needs at most one call on the stack.
ASSUME MaxCallsAssumption == MaxCalls \in Nat /\ MaxCalls > Cardinality(Headers)

VARIABLES
  lines,    \* the header files
  roots,    \* the umbrella headers still to do
  calls,    \* the calls of inline() on the stack, innermost first: [file, line]
  visited,
  out       \* the body: [file, line], line 0 the line "// from file"

amalgam == <<lines, roots, calls, visited, out>>

AmalgamateInit(trees, rootLists) ==
  /\ lines \in trees
  /\ roots \in rootLists
  /\ calls = <<>> /\ visited = {} /\ out = <<>>

\* A call of inline(h).
Inline(h) ==
  /\ visited' = visited \cup {h}
  /\ out' = Append(out, [file |-> h, line |-> 0])

\* (Mutant) Each root starts with no header visited.
NextRootFresh ==
  /\ calls = <<>> /\ roots # <<>>
  /\ roots' = Tail(roots)
  /\ visited' = {Head(roots)}
  /\ out' = Append(out, [file |-> Head(roots), line |-> 0])
  /\ calls' = <<[file |-> Head(roots), line |-> 1]>>
  /\ UNCHANGED lines

\* amalgamate: the next root.
NextRoot ==
  /\ calls = <<>> /\ roots # <<>>
  /\ roots' = Tail(roots)
  /\ IF Head(roots) \in visited
     THEN UNCHANGED <<calls, visited, out>>
     ELSE /\ Inline(Head(roots))
          /\ calls' = <<[file |-> Head(roots), line |-> 1]>>
  /\ UNCHANGED lines

Advanced == [calls EXCEPT ![1].line = @ + 1]

\* (Mutant) A header counts as visited only once it is complete.
InlineLineLate ==
  /\ calls # <<>>
  /\ LET call == Head(calls) IN
       IF call.line > Len(lines[call.file])
       THEN calls' = Tail(calls) /\ UNCHANGED out /\ visited' = visited \cup {call.file}
       ELSE LET line == lines[call.file][call.line] IN
            IF line = Text
            THEN /\ out' = Append(out, call)
                 /\ calls' = Advanced
                 /\ UNCHANGED visited
            ELSE IF line \in visited
            THEN calls' = Advanced /\ UNCHANGED <<visited, out>>
            ELSE /\ Len(calls) < MaxCalls
                 /\ out' = Append(out, [file |-> line, line |-> 0])
                 /\ calls' = <<[file |-> line, line |-> 1]>> \o Advanced
                 /\ UNCHANGED visited
  /\ UNCHANGED <<lines, roots>>

\* inline: the next line of the innermost header, or its end.
InlineLine ==
  /\ calls # <<>>
  /\ LET call == Head(calls) IN
       IF call.line > Len(lines[call.file])
       THEN calls' = Tail(calls) /\ UNCHANGED <<visited, out>>
       ELSE LET line == lines[call.file][call.line] IN
            IF line = Text
            THEN /\ out' = Append(out, call)
                 /\ calls' = Advanced
                 /\ UNCHANGED visited
            ELSE IF line \in visited
            THEN calls' = Advanced /\ UNCHANGED <<visited, out>>
            ELSE /\ Len(calls) < MaxCalls
                 /\ Inline(line)
                 /\ calls' = <<[file |-> line, line |-> 1]>> \o Advanced
  /\ UNCHANGED <<lines, roots>>

AmalgamateNext == NextRoot \/ InlineLine

-----------------------------------------------------------------------------

Includes(h) == ToSet(lines[h]) \ {Text}
\* The headers h reaches through one include or more: what is in every set
\* that has what h includes and what its own members include.
Reach(h) ==
  {g \in Headers :
     \A S \in SUBSET Headers :
       Includes(h) \subseteq S /\ (\A f \in S : Includes(f) \subseteq S) => g \in S}
TextOf(h) == {i \in DOMAIN lines[h] : lines[h][i] = Text}

\* Every header reached is in the output once and whole, whatever the order of
\* the roots and even where headers include each other; and the text of a header
\* that does not reach itself stands before the text that follows any include of
\* it (amalgamate.py:13-18).
AmalgamateExact ==
  roots = <<>> /\ calls = <<>> =>
    /\ \A i, j \in DOMAIN out : out[i] = out[j] => i = j
    /\ ToSet(out) = UNION {{[file |-> h, line |-> i] : i \in TextOf(h) \cup {0}} : h \in visited}
    /\ \A h \in visited : Includes(h) \subseteq visited
    /\ \A p, q \in DOMAIN out :
         LET g == out[q].file IN
           (/\ g \notin Reach(g)
            /\ \E i \in 1..(out[p].line - 1) : lines[out[p].file][i] = g)
             => q < p
=============================================================================
