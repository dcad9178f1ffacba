----------------------------- MODULE Normalize ------------------------------
(***************************************************************************)
(* How jmpxx-verify reads compiler output (verify/main.cpp): one function  *)
(* sliced out of an assembly file, and its local labels renamed.           *)
(*                                                                         *)
(* A line is an operation and the label or string it mentions, 0 for none. *)
(***************************************************************************)
EXTENDS Integers, Sequences, FiniteSets, SequencesExt

Line == [op : STRING, arg : Nat]
L(op, arg) == [op |-> op, arg |-> arg]

\* What normalize drops: directives, comments and blank lines.
Directives == {".text", ".p2align", ".string", ".ascii", ".size", ".cfi_endproc"}
Dropped == Directives \cup {"#", ""}
Ends == {".size", ".cfi_endproc"}
\* Stack traffic: a spill or a frame.
StackTraffic == {"push", "pop", "mov (%rsp)"}

\* normalize: the lines after the symbol, up to the end of its function.
normalize(text, symbol) ==
  LET start == SelectInSeq(text, LAMBDA l : l.op = symbol)
      rest == SubSeq(text, start + 1, Len(text))
      end == SelectInSeq(rest, LAMBDA l : l.op \in Ends)
      body == SelectSeq(SubSeq(rest, 1, IF end = 0 THEN Len(rest) ELSE end - 1),
                        LAMBDA l : l.op \notin Dropped)
  IN  [found |-> start # 0,
       text |-> body,
       instructions |-> Len(SelectSeq(body, LAMBDA l : l.op # "label:")),
       spilled |-> \E l \in ToSet(body) : l.op \in StackTraffic]

\* seen: the labels in the order of their first appearance, line after line.
SeenUpTo(body) ==
  LET seen[i \in 0..Len(body)] ==
        IF i = 0 THEN <<>>
        ELSE IF body[i].arg = 0 \/ body[i].arg \in ToSet(seen[i - 1]) THEN seen[i - 1]
        ELSE Append(seen[i - 1], body[i].arg)
  IN  seen
FirstSeen(body) == SeenUpTo(body)[Len(body)]

\* (Mutant) Every label gets the same name.
CanonLabelsOne(body) ==
  [i \in DOMAIN body |-> L(body[i].op, IF body[i].arg = 0 THEN 0 ELSE 1)]

\* canon_labels: a label becomes the number of its first appearance.
canon_labels(body) ==
  LET seen == FirstSeen(body)
      Number(label) == IF label = 0 THEN 0
                       ELSE CHOOSE k \in DOMAIN seen : seen[k] = label
  IN  [i \in DOMAIN body |-> L(body[i].op, Number(body[i].arg))]
=============================================================================
