------------------------------ MODULE Reflect -------------------------------
(***************************************************************************)
(* The metadata reflect.hpp derives from an enum, on its two paths: C++26  *)
(* static reflection, and the C++20 fallback that asks the compiler to     *)
(* spell every value of a window.                                          *)
(*                                                                         *)
(* An enum is what the program declared: its enumerators in order, each a  *)
(* name and a value; the window enum_range gives the fallback; and the     *)
(* number of values of an unsigned underlying type, 0 for a signed one     *)
(* that holds the whole window.                                            *)
(***************************************************************************)
EXTENDS Integers, Sequences, FiniteSets, SequencesExt

CONSTANTS
  NoName,  \* an empty view, or no enumerator
  Unknown  \* "unknown error"

\* The names, and the values, an enum declares.
Names(e) == {e.decls[i].name : i \in DOMAIN e.decls}
Values(e) == {e.decls[i].value : i \in DOMAIN e.decls}

\* Where a value, and where a name, is declared; the first and the last of
\* several declarations.
OfValue(e, v) == {i \in DOMAIN e.decls : e.decls[i].value = v}
OfName(e, n) == {i \in DOMAIN e.decls : e.decls[i].name = n}
FirstOf(e, I) == e.decls[CHOOSE i \in I : \A j \in I : i <= j]
LastOf(e, I) == e.decls[CHOOSE i \in I : \A j \in I : i >= j]

-----------------------------------------------------------------------------
\* The fallback.

\* enum_range, range_lo, range_span.
Window(e) == e.lo .. e.hi
Span(e) == e.hi - e.lo + 1

\* static_cast<E>(v): a value outside an unsigned underlying type wraps.
CastTo(e, v) == IF e.modulus = 0 THEN v ELSE v % e.modulus

\* The compiler prints a constant as the first enumerator of that value, and
\* as a cast or a number when there is none.
Spelled(e, v) == \E d \in ToSet(e.decls) : d.value = v

\* is_enumerator<static_cast<E>(v)>: the spelling is a bare identifier.
is_enumerator(e, v) == Spelled(e, CastTo(e, v))

enumerator_spelling(e, v) ==
  IF is_enumerator(e, v) THEN FirstOf(e, OfValue(e, CastTo(e, v))).name ELSE NoName

\* The values that name an enumerator, in the order of the scan.
ScanTo(e) ==
  LET found[n \in 0..Span(e)] ==
        IF n = 0 THEN <<>>
        ELSE IF is_enumerator(e, e.lo + n - 1) THEN Append(found[n - 1], e.lo + n - 1)
        ELSE found[n - 1]
  IN  found
Scan(e) == ScanTo(e)[Span(e)]

count_enumerators(e) == Len(Scan(e))

\* (Mutant) The scan stops before the end of the window.
ScanNameShort(e, v) ==
  IF v \in Window(e) \ {e.hi} THEN enumerator_spelling(e, v) ELSE NoName

scan_name(e, v) == IF v \in Window(e) THEN enumerator_spelling(e, v) ELSE NoName

\* The first value of the scan with that spelling.
scan_value(e, name) ==
  LET at == {v \in Window(e) : is_enumerator(e, v) /\ enumerator_spelling(e, v) = name}
  IN  IF at = {} THEN NoName
      ELSE CastTo(e, CHOOSE v \in at : \A w \in at : v <= w)

build_failures(e) ==
  LET scan == Scan(e)
  IN  [k \in 1..Len(scan) |->
         [value |-> scan[k], name |-> enumerator_spelling(e, scan[k])]]

\* name_table, a slot for each value of the window, null where none is named.
name_table(e) == [slot \in 0..(Span(e) - 1) |-> enumerator_spelling(e, e.lo + slot)]

scan_message(e, v) ==
  IF v \in Window(e) /\ name_table(e)[v - e.lo] # NoName
  THEN name_table(e)[v - e.lo]
  ELSE Unknown

-----------------------------------------------------------------------------
\* The reflection path walks the declarations.

reflected_name(e, v) ==
  IF v \in Values(e) THEN FirstOf(e, OfValue(e, v)).name ELSE NoName

reflected_cast(e, name) ==
  IF name \in Names(e) THEN FirstOf(e, OfName(e, name)).value ELSE NoName

reflected_count(e) == Len(e.decls)

\* One step of the insertion that keeps the failures in the order of values:
\* those of greater value move up by one.
Inserted(sorted, d) ==
  LET at == CHOOSE j \in 0..Len(sorted) :
              /\ j = 0 \/ sorted[j].value <= d.value
              /\ \A i \in (j + 1)..Len(sorted) : sorted[i].value > d.value
  IN  [k \in 1..(Len(sorted) + 1) |->
         IF k <= at THEN sorted[k]
         ELSE IF k = at + 1 THEN [value |-> d.value, name |-> d.name]
         ELSE sorted[k - 1]]

InsertedTo(e) ==
  LET sorted[n \in 0..Len(e.decls)] ==
        IF n = 0 THEN <<>> ELSE Inserted(sorted[n - 1], e.decls[n])
  IN  sorted
reflected_failures(e) == InsertedTo(e)[Len(e.decls)]

\* The loop has no break: the last declaration of the value stays.
reflected_message(e, v) ==
  IF v \in Values(e) THEN LastOf(e, OfValue(e, v)).name ELSE Unknown

-----------------------------------------------------------------------------
\* What a program can ask of an enum, on either path.

\* The values an object of the enum's type may have, as far as an instance goes.
Objects(e) == Values(e) \cup {v \in Window(e) : CastTo(e, v) = v}

Derived(e, reflection) ==
  [enum_name |-> [v \in Objects(e) |->
     IF reflection THEN reflected_name(e, v) ELSE scan_name(e, v)],
   enum_cast |-> [n \in Names(e) \cup {NoName} |->
     IF n = NoName THEN NoName
     ELSE IF reflection THEN reflected_cast(e, n) ELSE scan_value(e, n)],
   enum_count |-> IF reflection THEN reflected_count(e) ELSE count_enumerators(e),
   failures |-> IF reflection THEN reflected_failures(e) ELSE build_failures(e),
   message |-> [v \in Objects(e) |->
     IF reflection THEN reflected_message(e, v) ELSE scan_message(e, v)]]

-----------------------------------------------------------------------------
\* erased.hpp, with words of two halves.

CONSTANTS
  HalfBits,  \* 16
  Generic    \* generic_domain(), the domain of a bare code

ASSUME WordAssumption == HalfBits \in Nat \ {0} /\ Generic # Unknown

Width == 2 * HalfBits

\* n >> i and n << i.
Halved(n) ==
  LET half[i \in 0..Width] == IF i = 0 THEN n ELSE half[i - 1] \div 2 IN half
Doubled(n) ==
  LET twice[i \in 0..Width] == IF i = 0 THEN n ELSE 2 * twice[i - 1] IN twice

\* The bits of an integer, two's complement, as a set of positions, and the int
\* that has them.
Bits(n) == {i \in 0..(Width - 1) : Halved(n)[i] % 2 = 1}
Ints == (-Doubled(1)[Width - 1])..(Doubled(1)[Width - 1] - 1)
ToInt(bits) == CHOOSE n \in Ints : Bits(n) = bits

\* (Mutant) The tag is shifted a bit too little.
FoldOverlapping(code, tag) ==
  ToInt(SymDiff(Bits(code), Bits(Doubled(tag)[HalfBits - 1])))

\* The code, exclusive-or the tag shifted into the upper half.
fold_generic_error(code, tag) ==
  ToInt(SymDiff(Bits(code), Bits(Doubled(tag)[HalfBits])))

\* The constructors of erased_error: from a bare code and a tag, and from a
\* value and the descriptor of a domain.
ErasedGeneric(code, tag) ==
  [value |-> fold_generic_error(code, tag), domain |-> Generic]
ErasedIn(value, domain) == [value |-> value, domain |-> domain]

\* operator==, and in_domain.
ErasedEqual(a, b) == a.domain = b.domain /\ a.value = b.value

\* reflect::as_erased, and the message the boundary reads.
as_erased(e, v) == ErasedIn(v, e)
Message(er, reflection) ==
  IF er.domain = Generic THEN "unspecified error"
  ELSE IF reflection THEN reflected_message(er.domain, er.value)
  ELSE scan_message(er.domain, er.value)
=============================================================================
