---------------------------- MODULE MCTransport ----------------------------
EXTENDS Transport, TLC

\* The results that lie in no value are interchangeable.
Symmetry == Permutations(Results \ Nested)

Both == {"V", "E"}

\* Copyable types whose copies and assignments throw, move-only types, and types
\* whose move constructor throws.
MCTypes ==
  {[hows |-> {"copy", "move"}, copy |-> Both, move |-> {}, assign |-> Both,
    hardened |-> TRUE],
   [hows |-> {"move"}, copy |-> {}, move |-> {}, assign |-> Both,
    hardened |-> FALSE],
   [hows |-> {"move"}, copy |-> {}, move |-> Both, assign |-> {},
    hardened |-> TRUE]}
=============================================================================
