--------------------- MODULE ApplicationsVerdictProofs ---------------------
(***************************************************************************)
(* The verdict of every call is the one its input alone determines, for    *)
(* every document, image, manifest, scene and file and for every bound.    *)
(*                                                                         *)
(* The reference says what a call must come to in terms of the input: the  *)
(* first fault along a walk, or the value of a node by the levels left     *)
(* below it.  For each application an invariant relates the stack of       *)
(* frames to that: what lies behind the frames had no fault, every frame   *)
(* but the innermost waits for the next one, and an error under way is     *)
(* already the verdict the reference gives.  A fault raised at any depth   *)
(* is carried to the outermost frame by induction on the frames, since the *)
(* value of a waiting frame is the value of the one it waits for.          *)
(*                                                                         *)
(* The induction is the existence of a least element: the set of the       *)
(* indices where a fact fails is a set of naturals, and its least member   *)
(* is refuted (LeastNat).  The same argument shows that the recursive      *)
(* functions of the reference exist, so that they can be unfolded.         *)
(***************************************************************************)
EXTENDS ApplicationsReference, ApplicationsProofs, WellFoundedInduction

\* Every non-empty set of natural numbers has a least member.
LEMMA LeastNat ==
  ASSUME NEW S, S \subseteq Nat, S # {}
  PROVE  \E n \in S : \A m \in S : n <= m
<1> DEFINE R == OpToRel(<, Nat)
<1>1. IsWellFoundedOn(R, Nat)
  BY NatLessThanWellFounded
<1>2. \A x, y \in Nat : x < y => <<x, y>> \in R
  BY DEF OpToRel
<1> HIDE DEF R
<1>3. PICK x \in S : \A y \in S : ~ (<<y, x>> \in R)
  BY <1>1, WFMin
<1>4. ASSUME NEW y \in S PROVE x <= y
  <2>1. x \in Nat /\ y \in Nat
    OBVIOUS
  <2>2. ~(y < x)
    BY <1>2, <1>3, <2>1
  <2> QED BY <2>1, <2>2
<1> QED BY <1>4

LEMMA LeastIs ==
  ASSUME NEW S, S \subseteq Int, NEW n \in S, \A m \in S : n <= m
  PROVE  Least(S) = n
<1>1. Least(S) \in S /\ \A m \in S : Least(S) <= m
  BY Zenon DEF Least
<1> HIDE DEF Least
<1>2. Least(S) \in Int /\ n \in Int
  BY <1>1
<1>3. Least(S) <= n /\ n <= Least(S)
  BY <1>1
<1> QED BY <1>2, <1>3

LEMMA GreatestIs ==
  ASSUME NEW S, S \subseteq Int, NEW n \in S, \A m \in S : n >= m
  PROVE  Greatest(S) = n
<1>1. Greatest(S) \in S /\ \A m \in S : Greatest(S) >= m
  BY Zenon DEF Greatest
<1> HIDE DEF Greatest
<1>2. Greatest(S) \in Int /\ n \in Int
  BY <1>1
<1>3. Greatest(S) >= n /\ n >= Greatest(S)
  BY <1>1
<1> QED BY <1>2, <1>3

LEMMA FirstFaultIs ==
  ASSUME NEW checks, Len(checks) \in Nat, NEW i \in 1..Len(checks), checks[i][1],
         \A j \in 1..(i - 1) : ~checks[j][1]
  PROVE  FirstFault(checks) = checks[i][2]
<1> DEFINE taken == {j \in 1..Len(checks) : checks[j][1]}
<1>1. i \in taken /\ \A j \in taken : i <= j
  OBVIOUS
<1>2. taken \subseteq Int
  OBVIOUS
<1> HIDE DEF taken
<1>3. (CHOOSE k \in taken : \A j \in taken : k <= j) = i
  BY <1>1, <1>2, LeastIs DEF Least
<1> QED BY <1>1, <1>3 DEF FirstFault, taken

LEMMA FirstFaultNone ==
  ASSUME NEW checks, \A j \in 1..Len(checks) : ~checks[j][1]
  PROVE  FirstFault(checks) = "none"
BY DEF FirstFault

\* A list of early returns is its first one, and then the rest.
LEMMA FirstFaultRest ==
  ASSUME NEW s, NEW t, Len(t) \in Nat, Len(s) = Len(t) + 1,
         \A i \in 1..Len(t) : t[i] = s[i + 1]
  PROVE  FirstFault(s) = IF s[1][1] THEN s[1][2] ELSE FirstFault(t)
<1>0. Len(s) \in Nat
  OBVIOUS
<1>1. CASE s[1][1]
  <2>1. 1 \in 1..Len(s) /\ \A j \in 1..(1 - 1) : ~s[j][1]
    OBVIOUS
  <2>2. FirstFault(s) = s[1][2]
    BY <1>0, <1>1, <2>1, FirstFaultIs, Zenon
  <2> QED BY <1>1, <2>2
<1>2. CASE ~s[1][1] /\ \E i \in 1..Len(t) : t[i][1]
  <2> DEFINE taken == {i \in 1..Len(t) : t[i][1]}
  <2>1. taken # {} /\ taken \subseteq Nat
    BY <1>2
  <2> HIDE DEF taken
  <2>2. PICK i \in taken : \A j \in taken : i <= j
    BY <2>1, LeastNat
  <2>3. i \in 1..Len(t) /\ t[i][1] /\ \A j \in 1..(i - 1) : ~t[j][1]
    BY <2>2 DEF taken
  <2>4. FirstFault(t) = t[i][2]
    BY <2>3, FirstFaultIs, Zenon
  <2>5. i + 1 \in 1..Len(s) /\ s[i + 1] = t[i]
    BY <2>3
  <2>6. ASSUME NEW j \in 1..((i + 1) - 1) PROVE ~s[j][1]
    <3>1. CASE j = 1 BY <3>1, <1>2
    <3>2. CASE j # 1
      <4>1. j - 1 \in 1..(i - 1) /\ j - 1 \in 1..Len(t) /\ (j - 1) + 1 = j
        BY <3>2, <2>3
      <4>2. t[j - 1] = s[j] /\ ~t[j - 1][1]
        BY <4>1, <2>3
      <4> QED BY <4>2
    <3> QED BY <3>1, <3>2
  <2>7. s[i + 1][1]
    BY <2>3, <2>5
  <2>8. FirstFault(s) = s[i + 1][2]
    BY <1>0, <2>5, <2>6, <2>7, FirstFaultIs, Zenon
  <2> QED BY <1>2, <2>4, <2>5, <2>8
<1>3. CASE ~s[1][1] /\ \A i \in 1..Len(t) : ~t[i][1]
  <2>1. ASSUME NEW j \in 1..Len(s) PROVE ~s[j][1]
    <3>1. CASE j = 1 BY <3>1, <1>3
    <3>2. CASE j # 1
      <4>1. j - 1 \in 1..Len(t) /\ (j - 1) + 1 = j
        BY <3>2
      <4>2. t[j - 1] = s[j] /\ ~t[j - 1][1]
        BY <4>1, <1>3
      <4> QED BY <4>2
    <3> QED BY <3>1, <3>2
  <2>2. FirstFault(s) = "none" /\ FirstFault(t) = "none"
    BY <2>1, <1>3, FirstFaultNone, Zenon
  <2> QED BY <2>2, <1>3
<1> QED BY <1>1, <1>2, <1>3

LEMMA FirstFault1 ==
  ASSUME NEW c1, NEW f1
  PROVE  FirstFault(<<<<c1, f1>>>>) = IF c1 THEN f1 ELSE "none"
<1> DEFINE s == <<<<c1, f1>>>>
           t == <<>>
<1>1. /\ Len(t) = 0 /\ Len(s) = 1 /\ (s[1][1] <=> c1) /\ s[1][2] = f1
      /\ \A i \in 1..Len(t) : t[i] = s[i + 1]
  OBVIOUS
<1>2. \A j \in 1..Len(t) : ~t[j][1]
  BY <1>1
<1> HIDE DEF s, t
<1>3. FirstFault(t) = "none"
  BY <1>2, FirstFaultNone, Zenon
<1>4. FirstFault(s) = IF s[1][1] THEN s[1][2] ELSE FirstFault(t)
  <2>1. /\ Len(t) \in Nat /\ Len(s) = Len(t) + 1
        /\ \A i \in 1..Len(t) : t[i] = s[i + 1]
    BY <1>1
  <2> QED BY <2>1, FirstFaultRest, Zenon
<1>5. FirstFault(s) = IF c1 THEN f1 ELSE FirstFault(t)
  BY <1>1, <1>4
<1> QED BY <1>3, <1>5 DEF s

LEMMA FirstFault2 ==
  ASSUME NEW c1, NEW c2, NEW f1, NEW f2
  PROVE  FirstFault(<<<<c1, f1>>, <<c2, f2>>>>) =
           IF c1 THEN f1 ELSE IF c2 THEN f2 ELSE "none"
<1> DEFINE s == <<<<c1, f1>>, <<c2, f2>>>>
           t == <<<<c2, f2>>>>
<1>1. /\ Len(t) = 1 /\ Len(s) = 2 /\ (s[1][1] <=> c1) /\ s[1][2] = f1
      /\ \A i \in 1..Len(t) : t[i] = s[i + 1]
  OBVIOUS
<1>2. FirstFault(t) = IF c2 THEN f2 ELSE "none"
  BY FirstFault1
<1> HIDE DEF s, t
<1>3. FirstFault(s) = IF s[1][1] THEN s[1][2] ELSE FirstFault(t)
  <2>1. /\ Len(t) \in Nat /\ Len(s) = Len(t) + 1
        /\ \A i \in 1..Len(t) : t[i] = s[i + 1]
    BY <1>1
  <2> QED BY <2>1, FirstFaultRest, Zenon
<1>4. FirstFault(s) = IF c1 THEN f1 ELSE FirstFault(t)
  BY <1>1, <1>3
<1> QED BY <1>2, <1>4 DEF s

LEMMA FirstFault3 ==
  ASSUME NEW c1, NEW c2, NEW c3, NEW f1, NEW f2, NEW f3
  PROVE  FirstFault(<<<<c1, f1>>, <<c2, f2>>, <<c3, f3>>>>) =
           IF c1 THEN f1 ELSE IF c2 THEN f2 ELSE IF c3 THEN f3 ELSE "none"
<1> DEFINE s == <<<<c1, f1>>, <<c2, f2>>, <<c3, f3>>>>
           t == <<<<c2, f2>>, <<c3, f3>>>>
<1>1. /\ Len(t) = 2 /\ Len(s) = 3 /\ (s[1][1] <=> c1) /\ s[1][2] = f1
      /\ \A i \in 1..Len(t) : t[i] = s[i + 1]
  OBVIOUS
<1>2. FirstFault(t) = IF c2 THEN f2 ELSE IF c3 THEN f3 ELSE "none"
  BY FirstFault2
<1> HIDE DEF s, t
<1>3. FirstFault(s) = IF s[1][1] THEN s[1][2] ELSE FirstFault(t)
  <2>1. /\ Len(t) \in Nat /\ Len(s) = Len(t) + 1
        /\ \A i \in 1..Len(t) : t[i] = s[i + 1]
    BY <1>1
  <2> QED BY <2>1, FirstFaultRest, Zenon
<1>4. FirstFault(s) = IF c1 THEN f1 ELSE FirstFault(t)
  BY <1>1, <1>3
<1> QED BY <1>2, <1>4 DEF s

LEMMA FirstFault4 ==
  ASSUME NEW c1, NEW c2, NEW c3, NEW c4, NEW f1, NEW f2, NEW f3, NEW f4
  PROVE  FirstFault(<<<<c1, f1>>, <<c2, f2>>, <<c3, f3>>, <<c4, f4>>>>) =
           IF c1 THEN f1 ELSE IF c2 THEN f2 ELSE IF c3 THEN f3 ELSE
           IF c4 THEN f4 ELSE "none"
<1> DEFINE s == <<<<c1, f1>>, <<c2, f2>>, <<c3, f3>>, <<c4, f4>>>>
           t == <<<<c2, f2>>, <<c3, f3>>, <<c4, f4>>>>
<1>1. /\ Len(t) = 3 /\ Len(s) = 4 /\ (s[1][1] <=> c1) /\ s[1][2] = f1
      /\ \A i \in 1..Len(t) : t[i] = s[i + 1]
  OBVIOUS
<1>2. FirstFault(t) = IF c2 THEN f2 ELSE IF c3 THEN f3 ELSE
           IF c4 THEN f4 ELSE "none"
  BY FirstFault3
<1> HIDE DEF s, t
<1>3. FirstFault(s) = IF s[1][1] THEN s[1][2] ELSE FirstFault(t)
  <2>1. /\ Len(t) \in Nat /\ Len(s) = Len(t) + 1
        /\ \A i \in 1..Len(t) : t[i] = s[i + 1]
    BY <1>1
  <2> QED BY <2>1, FirstFaultRest, Zenon
<1>4. FirstFault(s) = IF c1 THEN f1 ELSE FirstFault(t)
  BY <1>1, <1>3
<1> QED BY <1>2, <1>4 DEF s

LEMMA FirstFault5 ==
  ASSUME NEW c1, NEW c2, NEW c3, NEW c4, NEW c5, NEW f1, NEW f2, NEW f3, NEW f4, NEW f5
  PROVE  FirstFault(<<<<c1, f1>>, <<c2, f2>>, <<c3, f3>>, <<c4, f4>>, <<c5, f5>>>>) =
           IF c1 THEN f1 ELSE IF c2 THEN f2 ELSE IF c3 THEN f3 ELSE
           IF c4 THEN f4 ELSE IF c5 THEN f5 ELSE "none"
<1> DEFINE s == <<<<c1, f1>>, <<c2, f2>>, <<c3, f3>>, <<c4, f4>>, <<c5, f5>>>>
           t == <<<<c2, f2>>, <<c3, f3>>, <<c4, f4>>, <<c5, f5>>>>
<1>1. /\ Len(t) = 4 /\ Len(s) = 5 /\ (s[1][1] <=> c1) /\ s[1][2] = f1
      /\ \A i \in 1..Len(t) : t[i] = s[i + 1]
  OBVIOUS
<1>2. FirstFault(t) = IF c2 THEN f2 ELSE IF c3 THEN f3 ELSE
           IF c4 THEN f4 ELSE IF c5 THEN f5 ELSE "none"
  BY FirstFault4
<1> HIDE DEF s, t
<1>3. FirstFault(s) = IF s[1][1] THEN s[1][2] ELSE FirstFault(t)
  <2>1. /\ Len(t) \in Nat /\ Len(s) = Len(t) + 1
        /\ \A i \in 1..Len(t) : t[i] = s[i + 1]
    BY <1>1
  <2> QED BY <2>1, FirstFaultRest, Zenon
<1>4. FirstFault(s) = IF c1 THEN f1 ELSE FirstFault(t)
  BY <1>1, <1>3
<1> QED BY <1>2, <1>4 DEF s

-----------------------------------------------------------------------------
(* Verdicts.                                                               *)

VerdictFields == {"ok", "fault", "depth", "hops", "name", "count", "out"}
IsVerdict(v) == v = [x \in VerdictFields |-> v[x]]

LEMMA SameVerdict ==
  ASSUME NEW u, NEW v, IsVerdict(u), IsVerdict(v), u.ok = v.ok, u.fault = v.fault,
         u.depth = v.depth, u.hops = v.hops, u.name = v.name, u.count = v.count,
         u.out = v.out
  PROVE  u = v
<1>1. \A x \in VerdictFields : u[x] = v[x]
  BY DEF VerdictFields
<1> QED BY <1>1 DEF IsVerdict

LEMMA NoVerdictIs ==
  /\ IsVerdict(NoVerdict) /\ ~NoVerdict.ok
  /\ NoVerdict.fault = "none" /\ NoVerdict.depth = 0 /\ NoVerdict.hops = 0
  /\ NoVerdict.name = NoName /\ NoVerdict.count = 0 /\ NoVerdict.out = <<>>
BY DEF NoVerdict, IsVerdict, VerdictFields

LEMMA FailedIs ==
  ASSUME NEW f, NEW d, NEW n
  PROVE  LET v == Failed(f, d, n)
         IN  /\ IsVerdict(v) /\ ~v.ok /\ v.ok = NoVerdict.ok /\ v.fault = f /\ v.depth = d
             /\ v.hops = 0 /\ v.name = n /\ v.count = 0 /\ v.out = <<>>
BY NoVerdictIs DEF Failed, IsVerdict, VerdictFields

LEMMA CompletedIs ==
  ASSUME NEW n, NEW o
  PROVE  LET v == Completed(n, o)
         IN  /\ IsVerdict(v) /\ v.ok /\ v.fault = "none" /\ v.depth = 0
             /\ v.hops = 0 /\ v.name = NoName /\ v.count = n /\ v.out = o
BY NoVerdictIs DEF Completed, IsVerdict, VerdictFields

\* The verdict a landing makes of an error that recorded no hops.
LEMMA LandedIs ==
  ASSUME NEW f, NEW d, NEW n
  PROVE  [NoVerdict EXCEPT !.fault = f, !.depth = d, !.hops = 0, !.name = n] =
           Failed(f, d, n)
<1> DEFINE landed == [NoVerdict EXCEPT !.fault = f, !.depth = d, !.hops = 0, !.name = n]
           failed == Failed(f, d, n)
<1>1. /\ IsVerdict(landed) /\ landed.ok = NoVerdict.ok /\ landed.fault = f /\ landed.depth = d
      /\ landed.hops = 0 /\ landed.name = n /\ landed.count = 0 /\ landed.out = <<>>
  BY NoVerdictIs DEF IsVerdict, VerdictFields
<1>2. /\ IsVerdict(failed) /\ failed.ok = NoVerdict.ok /\ failed.fault = f /\ failed.depth = d
      /\ failed.hops = 0 /\ failed.name = n /\ failed.count = 0 /\ failed.out = <<>>
  BY FailedIs
<1> HIDE DEF landed, failed
<1>3. landed = failed
  BY <1>1, <1>2, SameVerdict
<1> QED BY <1>3 DEF landed, failed

-----------------------------------------------------------------------------
(* The record checker.                                                     *)

\* The walk along the references is what its definition says.
LEMMA RecordWalkIs ==
  ASSUME NEW image, NEW entry
  PROVE  LET walk == RecordWalk(image, entry)
         IN  /\ walk[1] = entry
             /\ \A i \in 2..(MaxPath + 1) : walk[i] = NextRecord(image, walk[i - 1])
<1> DEFINE Is(f, k) ==
             f = [i \in 1..k |-> IF i = 1 THEN entry ELSE NextRecord(image, f[i - 1])]
           Bad == {k \in Nat : ~\E f : Is(f, k)}
<1>1. Bad = {}
  <2> SUFFICES ASSUME Bad # {} PROVE FALSE
    OBVIOUS
  <2>1. PICK k \in Bad : \A m \in Bad : k <= m
    <3> HIDE DEF Bad
    <3>1. Bad \subseteq Nat
      BY DEF Bad
    <3> QED BY <3>1, LeastNat
  <2>2. k \in Nat /\ ~\E f : Is(f, k)
    BY <2>1
  <2>3. k # 0
    <3> DEFINE f == [i \in 1..0 |-> entry]
    <3>1. Is(f, 0)
      OBVIOUS
    <3> QED BY <2>2, <3>1
  <2>4. k - 1 \in Nat /\ k - 1 \notin Bad
    <3> HIDE DEF Bad
    <3> QED BY <2>1, <2>2, <2>3
  <2>5. PICK g : Is(g, k - 1)
    BY <2>4
  <2> DEFINE f == [i \in 1..k |-> IF i = 1 THEN entry ELSE NextRecord(image, g[i - 1])]
  <2>6. ASSUME NEW i \in 1..k, i # 1 PROVE f[i - 1] = g[i - 1]
    <3>1. i - 1 \in 1..(k - 1) /\ i - 1 \in 1..k
      BY <2>2, <2>6
    <3>2. g[i - 1] = IF i - 1 = 1 THEN entry ELSE NextRecord(image, g[(i - 1) - 1])
      BY <2>5, <3>1
    <3> QED BY <3>1, <3>2
  <2>7. Is(f, k)
    <3> HIDE DEF f
    <3>1. \A i \in 1..k : f[i] = IF i = 1 THEN entry ELSE NextRecord(image, f[i - 1])
      BY <2>6 DEF f
    <3>2. f = [i \in 1..k |-> f[i]]
      BY DEF f
    <3> QED BY <3>1, <3>2
  <2> QED BY <2>2, <2>7
<1> DEFINE walk == RecordWalk(image, entry)
<1>2. MaxPath + 1 \in Nat /\ MaxPath + 1 >= 1
  BY StoreCheckAssumption
<1>3. \E f : Is(f, MaxPath + 1)
  BY <1>1, <1>2
<1>4. Is(walk, MaxPath + 1)
  BY <1>3 DEF RecordWalk
<1> HIDE DEF walk
<1>5. walk[1] = entry
  BY <1>2, <1>4
<1>6. \A i \in 2..(MaxPath + 1) : walk[i] = NextRecord(image, walk[i - 1])
  BY <1>2, <1>4
<1> QED BY <1>5, <1>6 DEF walk

\* Beyond the end of the references there is nothing.
LEMMA RecordWalkEnds ==
  ASSUME NEW image, NoName \notin DOMAIN image.records, NEW entry,
         NEW k \in 1..MaxPath,
         NextRecord(image, RecordWalk(image, entry)[k]) = NoName
  PROVE  \A i \in (k + 1)..(MaxPath + 1) : RecordWalk(image, entry)[i] = NoName
<1> DEFINE walk == RecordWalk(image, entry)
           Bad == {i \in (k + 1)..(MaxPath + 1) : walk[i] # NoName}
<1>0. MaxPath \in Nat
  BY StoreCheckAssumption
<1>1. \A i \in 2..(MaxPath + 1) : walk[i] = NextRecord(image, walk[i - 1])
  BY RecordWalkIs
<1>2. NextRecord(image, walk[k]) = NoName /\ NextRecord(image, NoName) = NoName
  BY DEF NextRecord
<1> HIDE DEF walk
<1> SUFFICES ASSUME Bad # {} PROVE FALSE
  BY DEF walk
<1>3. Bad \subseteq Nat
  BY <1>0
<1>4. PICK i \in Bad : \A j \in Bad : i <= j
  BY <1>3, LeastNat
<1>5. i \in 2..(MaxPath + 1) /\ walk[i] # NoName
  BY <1>0, <1>4
<1>6. CASE i = k + 1
  BY <1>1, <1>2, <1>5, <1>6
<1>7. CASE i # k + 1
  <2>1. i - 1 \in (k + 1)..(MaxPath + 1) /\ i - 1 \notin Bad
    BY <1>0, <1>4, <1>7
  <2>2. walk[i - 1] = NoName
    BY <2>1
  <2> QED BY <1>1, <1>2, <1>5, <2>2
<1> QED BY <1>6, <1>7

LEMMA StoreFaultAtIs ==
  ASSUME NEW image, NEW walk, NEW i
  PROVE  StoreFaultAt(image, walk, i) =
           LET there == walk[i] \in DOMAIN image.records
               bytes == IF there THEN RecordFault(image.records[walk[i]].flaws) ELSE "none"
           IN  IF walk[i] \in {walk[j] : j \in 1..(i - 1)} THEN "reference_cycle"
               ELSE IF i > MaxPath THEN "nesting_too_deep"
               ELSE IF ~there THEN "record_unreadable"
               ELSE IF bytes # "none" THEN bytes
               ELSE IF NextRecord(image, walk[i]) \notin DOMAIN image.records \cup {NoName}
               THEN "reference_missing" ELSE "none"
<1> DEFINE there == walk[i] \in DOMAIN image.records
           bytes == IF there THEN RecordFault(image.records[walk[i]].flaws) ELSE "none"
           c1 == walk[i] \in {walk[j] : j \in 1..(i - 1)}
           c2 == i > MaxPath
           c3 == ~there
           c4 == bytes # "none"
           c5 == NextRecord(image, walk[i]) \notin DOMAIN image.records \cup {NoName}
<1>1. StoreFaultAt(image, walk, i) =
        FirstFault(<<<<c1, "reference_cycle">>, <<c2, "nesting_too_deep">>,
                     <<c3, "record_unreadable">>, <<c4, bytes>>,
                     <<c5, "reference_missing">>>>)
  BY DEF StoreFaultAt
<1> HIDE DEF c1, c2, c3, c4, c5, bytes
<1>2. StoreFaultAt(image, walk, i) =
        IF c1 THEN "reference_cycle" ELSE IF c2 THEN "nesting_too_deep"
        ELSE IF c3 THEN "record_unreadable" ELSE IF c4 THEN bytes
        ELSE IF c5 THEN "reference_missing" ELSE "none"
  BY <1>1, FirstFault5
<1> QED BY <1>2 DEF c1, c2, c3, c4, c5, bytes

LEMMA RecordFaultNames ==
  ASSUME NEW flaws
  PROVE  RecordFault(flaws) # "reference_missing"
<1> DEFINE c1 == "short" \in flaws
           c2 == "header" \in flaws
           c3 == "version" \in flaws
           c4 == "field" \in flaws
           c5 == "sum" \in flaws
<1>1. RecordFault(flaws) =
        FirstFault(<<<<c1, "record_unreadable">>, <<c2, "header_bad">>,
                     <<c3, "version_unsupported">>, <<c4, "field_malformed">>,
                     <<c5, "checksum_mismatch">>>>)
  BY DEF RecordFault
<1> HIDE DEF c1, c2, c3, c4, c5
<1>2. RecordFault(flaws) =
        IF c1 THEN "record_unreadable" ELSE IF c2 THEN "header_bad"
        ELSE IF c3 THEN "version_unsupported" ELSE IF c4 THEN "field_malformed"
        ELSE IF c5 THEN "checksum_mismatch" ELSE "none"
  BY <1>1, FirstFault5
<1> QED BY <1>2

LEMMA StoreFails ==
  ASSUME NEW image, NEW entry, image.mounts, NEW k \in 1..(MaxPath + 1), NEW fault, NEW walk,
         walk = RecordWalk(image, entry),
         \A j \in 1..(k - 1) : StoreFaultAt(image, walk, j) = "none",
         walk[k] # NoName, StoreFaultAt(image, walk, k) = fault, fault # "none"
  PROVE  StoreVerdict(image, entry) =
           Failed(fault, k - 1, IF fault = "reference_missing"
                                THEN NextRecord(image, walk[k]) ELSE walk[k])
<1> DEFINE steps == {i \in 1..(MaxPath + 1) : walk[i] # NoName}
           faulty == {i \in steps : StoreFaultAt(image, walk, i) # "none"}
<1>0. MaxPath \in Nat
  BY StoreCheckAssumption
<1>1. k \in faulty /\ faulty \subseteq Int
  BY <1>0
<1>2. ASSUME NEW j \in faulty PROVE k <= j
  <2>1. j \in 1..(MaxPath + 1) /\ j \notin 1..(k - 1)
    OBVIOUS
  <2> QED BY <1>0, <2>1
<1> HIDE DEF faulty
<1>3. Least(faulty) = k
  BY <1>1, <1>2, LeastIs
<1>4. faulty # {}
  BY <1>1
<1> QED BY <1>3, <1>4, Zenon DEF StoreVerdict, faulty

LEMMA StoreCompletes ==
  ASSUME NEW image, NoName \notin DOMAIN image.records, NEW entry, image.mounts,
         NEW k \in 1..MaxPath, NEW walk, walk = RecordWalk(image, entry),
         \A j \in 1..k : walk[j] # NoName /\ StoreFaultAt(image, walk, j) = "none",
         NextRecord(image, walk[k]) = NoName
  PROVE  StoreVerdict(image, entry) = Completed(k, <<>>)
<1> DEFINE steps == {i \in 1..(MaxPath + 1) : walk[i] # NoName}
           faulty == {i \in steps : StoreFaultAt(image, walk, i) # "none"}
<1>0. MaxPath \in Nat
  BY StoreCheckAssumption
<1>1. \A i \in (k + 1)..(MaxPath + 1) : walk[i] = NoName
  BY RecordWalkEnds
<1>2. steps = 1..k
  <2>1. ASSUME NEW i \in steps PROVE i \in 1..k
    <3>1. i \in 1..(MaxPath + 1) /\ i \notin (k + 1)..(MaxPath + 1)
      BY <1>1
    <3> QED BY <1>0, <3>1
  <2>2. 1..k \subseteq steps
    BY <1>0
  <2> QED BY <2>1, <2>2
<1>3. faulty = {}
  BY <1>2
<1>4. Cardinality(steps) = k
  <2>1. k \in Int /\ 1 \in Int /\ ~(1 > k)
    BY <1>0
  <2>2. Cardinality(1..k) = k - 1 + 1
    BY <2>1, FS_Interval
  <2> HIDE DEF steps
  <2> QED BY <1>2, <2>1, <2>2
<1> HIDE DEF faulty
<1>5. StoreVerdict(image, entry) = Completed(Cardinality(steps), <<>>)
  BY <1>3, Zenon DEF StoreVerdict, faulty
<1> QED BY <1>4, <1>5

\* Enter and ReturnTo, frame by frame.
Entered(s, t, f, g) ==
  /\ IsSeq(t) /\ t # <<>> /\ Len(t) = Len(s) + 1
  /\ t[Len(s) + 1] = g /\ t[Len(s)] = f
  /\ \A i \in 1..(Len(s) - 1) : t[i] = s[i]
Returned(s, t, f) ==
  /\ IsSeq(t) /\ t # <<>> /\ Len(t) = Len(s) - 1
  /\ t[Len(s) - 1] = f
  /\ \A i \in 1..(Len(s) - 2) : t[i] = s[i]

LEMMA EnterStack ==
  ASSUME NEW s, NEW f, NEW g, IsSeq(s), s # <<>>
  PROVE  Entered(s, Append(Front(s), f) \o <<g>>, f, g)
<1> DEFINE u == Append(Front(s), f)
           t == u \o <<g>>
<1>1. Tops(s, u, f)
  BY FrontTops
<1>2. Len(s) \in Nat \ {0}
  BY LengthOf
<1>3. IsSeq(u)
  BY <1>1 DEF Tops
<1> HIDE DEF u
<1>4. Pushed(u, t, g)
  BY <1>3, ConcatPushes
<1> HIDE DEF t
<1>5. /\ IsSeq(t) /\ Len(t) = Len(s) + 1 /\ t[Len(s) + 1] = g
      /\ \A i \in 1..Len(s) : t[i] = u[i]
  BY <1>1, <1>4 DEF Tops, Pushed
<1>6. t[Len(s)] = f /\ \A i \in 1..(Len(s) - 1) : t[i] = s[i]
  BY <1>1, <1>2, <1>5 DEF Tops
<1>7. t # <<>>
  BY <1>2, <1>5, LengthOf
<1>8. Entered(s, t, f, g)
  BY <1>5, <1>6, <1>7 DEF Entered
<1> QED BY <1>8 DEF t, u

LEMMA ReturnStack ==
  ASSUME NEW s, NEW f, IsSeq(s), Len(s) > 1
  PROVE  Returned(s, Append(Front(Front(s)), f), f)
<1> DEFINE u == Front(s)
           t == Append(Front(u), f)
<1>1. Len(s) \in Nat /\ s # <<>>
  BY LengthOf
<1>2. Popped(s, u)
  BY <1>1, LeavePops
<1> HIDE DEF u
<1>3. IsSeq(u) /\ Len(u) = Len(s) - 1
  BY <1>2 DEF Popped
<1>4. u # <<>>
  BY <1>1, <1>3, LengthOf
<1>5. Tops(u, t, f)
  BY <1>3, <1>4, FrontTops
<1> HIDE DEF t
<1>6. IsSeq(t) /\ Len(t) = Len(s) - 1 /\ t[Len(s) - 1] = f
  BY <1>3, <1>5 DEF Tops
<1>7. \A i \in 1..(Len(s) - 2) : t[i] = s[i]
  BY <1>1, <1>2, <1>3, <1>5 DEF Tops, Popped
<1>8. t # <<>>
  BY <1>1, <1>6, LengthOf
<1>9. Returned(s, t, f)
  BY <1>6, <1>7, <1>8 DEF Returned
<1> QED BY <1>9 DEF t, u

\* Frame f at position k against the walk along the references: it has passed
\* the checks before the point it is at.
StoreFrame(image, walk, f, k) ==
  /\ f.name = walk[k] /\ walk[k] # NoName
  /\ k <= MaxPath + 1
  /\ f.pc # "enter" => walk[k] \notin {walk[j] : j \in 1..(k - 1)} /\ k <= MaxPath
  /\ f.pc \in {"read", "ref", "done"} => walk[k] \in DOMAIN image.records
  /\ f.pc \in {"ref", "done"} => RecordFault(image.records[walk[k]].flaws) = "none"
  /\ f.pc = "done" => NextRecord(image, walk[k]) \in DOMAIN image.records

\* The records counted: those of the frames, until one of them returns; then
\* the call will succeed with the number it has.
StoreCount(image, entry, fs, n) ==
  IF fs[Len(fs)].pc = "done" THEN StoreVerdict(image, entry) = Completed(n, <<>>)
  ELSE n = IF fs[Len(fs)].pc = "ref" THEN Len(fs) ELSE Len(fs) - 1

StoreDescent(image, entry, fs, n) ==
  /\ \A k \in 1..Len(fs) : StoreFrame(image, RecordWalk(image, entry), fs[k], k)
  /\ StoreCount(image, entry, fs, n)

\* The error under way.
Underway == Failed(payload.fault, payload.depth, fault_name)

StoreInv ==
  app = "store" =>
    /\ input \in Images
    /\ mode # "idle" => call \in input.asked
    /\ mode = "begin" => ~input.mounts
    /\ mode = "run" => input.mounts /\ StoreDescent(input, call, frames, count)
    /\ mode = "escape" => StoreVerdict(input, call) = Underway /\ payload.hops = 0
    /\ mode # "fail"
    /\ mode = "idle" /\ verdict # NoVerdict => verdict = StoreVerdict(input, call)

\* A record that has been left behind has no fault.
LEMMA StorePassed ==
  ASSUME NEW image, NEW walk, NEW f, NEW k, StoreFrame(image, walk, f, k), f.pc = "done",
         NEW n, k \in 1..n, n \in Nat
  PROVE  StoreFaultAt(image, walk, k) = "none" /\ walk[k] # NoName
<1>1. /\ walk[k] \notin {walk[j] : j \in 1..(k - 1)} /\ k <= MaxPath
      /\ walk[k] \in DOMAIN image.records
      /\ RecordFault(image.records[walk[k]].flaws) = "none"
      /\ NextRecord(image, walk[k]) \in DOMAIN image.records
      /\ walk[k] # NoName
  BY DEF StoreFrame
<1>2. ~(k > MaxPath)
  BY <1>1, StoreCheckAssumption
<1> QED BY <1>1, <1>2, StoreFaultAtIs

\* What the innermost frame of a call of the record checker knows.
LEMMA StoreTop ==
  ASSUME IInv, StoreInv, NEW pc, At("store", pc)
  PROVE  /\ app = "store" /\ mode = "run" /\ frames # <<>>
         /\ input \in Images /\ input.mounts /\ NoName \notin DOMAIN input.records
         /\ call \in input.asked
         /\ Len(frames) \in Nat \ {0} /\ IsSeq(frames)
         /\ Top = frames[Len(frames)] /\ IsFrame(Top) /\ Top.pc = pc
         /\ Top.depth = Len(frames) - 1
         /\ Guarded("store", Top)
         /\ StoreFrame(input, RecordWalk(input, call), Top, Len(frames))
         /\ StoreCount(input, call, frames, count)
         /\ Len(frames) \in 1..(MaxPath + 1)
         /\ \A k \in 1..(Len(frames) - 1) : frames[k].pc = "done"
         /\ \A k \in 1..(Len(frames) - 1) :
              /\ StoreFaultAt(input, RecordWalk(input, call), k) = "none"
              /\ RecordWalk(input, call)[k] # NoName
         /\ \A k \in 1..Len(frames) :
              StoreFrame(input, RecordWalk(input, call), frames[k], k)
<1>0. MaxPath \in Nat
  BY StoreCheckAssumption
<1> DEFINE a == "store"
<1>a. a \in Guarding
  BY DEF Guarding
<1> HIDE DEF a
<1>b. At(a, pc)
  BY DEF a
<1>1. /\ app = a /\ mode = "run" /\ frames # <<>>
      /\ Stack(a, frames, path, held)
      /\ IsSeq(frames) /\ Len(frames) \in Nat \ {0}
      /\ Top = frames[Len(frames)]
      /\ IsFrame(Top) /\ Guarded(a, Top) /\ Top.pc = pc
      /\ Top.depth = Len(frames) - 1
  BY <1>a, <1>b, RunTop
<1>2. /\ input \in Images /\ input.mounts /\ call \in input.asked
      /\ StoreDescent(input, call, frames, count)
  BY <1>1 DEF StoreInv, a
<1>3. NoName \notin DOMAIN input.records
  BY <1>2, InputAssumption
<1>4. \A k \in 1..(Len(frames) - 1) : frames[k].pc = "done"
  <2>1. \A k \in 1..Len(frames) : k < Len(frames) => frames[k].pc = CallPoint(a)
    BY <1>1 DEF Stack
  <2>2. CallPoint(a) = "done"
    BY DEF a, CallPoint
  <2> QED BY <1>1, <2>1, <2>2
<1>5. \A k \in 1..Len(frames) :
        StoreFrame(input, RecordWalk(input, call), frames[k], k)
  BY <1>2 DEF StoreDescent
<1>6. ASSUME NEW k \in 1..(Len(frames) - 1)
      PROVE  /\ StoreFaultAt(input, RecordWalk(input, call), k) = "none"
             /\ RecordWalk(input, call)[k] # NoName
  <2>1. k \in 1..Len(frames)
    BY <1>1
  <2>2. StoreFrame(input, RecordWalk(input, call), frames[k], k) /\ frames[k].pc = "done"
    BY <1>4, <1>5, <2>1
  <2> QED BY <1>1, <2>1, <2>2, StorePassed
<1>7. StoreFrame(input, RecordWalk(input, call), Top, Len(frames))
  BY <1>1, <1>5
<1>8. Len(frames) \in 1..(MaxPath + 1)
  BY <1>0, <1>1, <1>7 DEF StoreFrame
<1> QED BY <1>1, <1>2, <1>3, <1>4, <1>5, <1>6, <1>7, <1>8 DEF StoreDescent, a

LEMMA StoreEject ==
  ASSUME IInv, StoreInv, app = "store", mode # "idle", NEW f, NEW n, NEW d,
         Eject(f, n, d), StoreVerdict(input, call) = Failed(f, d, n)
  PROVE  StoreInv'
<1>1. /\ app' = "store" /\ input' = input /\ call' = call /\ mode' = "escape"
      /\ payload' = [fault |-> f, depth |-> d, hops |-> 0] /\ fault_name' = n
  BY DEF Eject, Raise
<1>2. Underway' = Failed(f, d, n) /\ payload'.hops = 0
  BY <1>1 DEF Underway
<1>3. input \in Images /\ call \in input.asked
  BY DEF StoreInv
<1> QED BY <1>1, <1>2, <1>3 DEF StoreInv

\* The call goes on with the descent.
LEMMA StoreRuns ==
  ASSUME StoreInv, app = "store", mode = "run",
         app' = app, input' = input, call' = call, mode' = mode,
         StoreDescent(input, call, frames', count')
  PROVE  StoreInv'
BY DEF StoreInv

LEMMA CheckImageExact ==
  ASSUME IInv, StoreInv, app = "store", NEW entry \in input.asked, CheckImage(entry)
  PROVE  StoreInv'
<1>1. /\ app' = "store" /\ input' = input /\ call' = entry /\ input \in Images
      /\ verdict' = NoVerdict
  BY DEF CheckImage, Begin, StoreInv
<1>2. CASE ~input.mounts
  BY <1>1, <1>2 DEF CheckImage, StoreInv
<1>3. CASE input.mounts
  <2> DEFINE f == NewFrame(entry, 0, 1)
             walk == RecordWalk(input, entry)
  <2>1. mode' = "run" /\ count' = 0 /\ frames' = <<f>>
    BY <1>3 DEF CheckImage, Begin
  <2>2. f.name = entry /\ f.pc = "enter"
    BY NewFrameIs
  <2>3. walk[1] = entry /\ entry # NoName
    BY <1>1, RecordWalkIs, InputAssumption
  <2> HIDE DEF f, walk
  <2>4. Len(frames') = 1 /\ frames'[1] = f
    BY <2>1
  <2>5. StoreFrame(input, walk, f, 1)
    BY <2>2, <2>3, StoreCheckAssumption DEF StoreFrame
  <2>6. \A k \in 1..Len(frames') : StoreFrame(input, walk, frames'[k], k)
    BY <2>4, <2>5
  <2>7. StoreCount(input, entry, frames', count')
    BY <2>1, <2>2, <2>4 DEF StoreCount
  <2>8. StoreDescent(input, entry, frames', count')
    BY <2>6, <2>7 DEF StoreDescent, walk
  <2> QED BY <1>1, <1>3, <2>1, <2>8 DEF StoreInv
<1> QED BY <1>2, <1>3, InputAssumption DEF StoreInv

LEMMA MountFailedExact ==
  ASSUME IInv, StoreInv, MountFailed
  PROVE  StoreInv'
<1>1. app = "store" /\ mode = "begin" /\ Eject("mount_failed", call, 0)
  BY DEF MountFailed
<1>2. ~input.mounts
  BY <1>1 DEF StoreInv
<1>3. StoreVerdict(input, call) = Failed("mount_failed", 0, call)
  BY <1>2 DEF StoreVerdict
<1> QED BY <1>1, <1>3, StoreEject

\* The innermost frame goes on as f.
LEMMA StoreGoes ==
  ASSUME IInv, StoreInv, NEW pc, At("store", pc), pc # "done", NEW f, Go(f),
         StoreFrame(input, RecordWalk(input, call), f, Len(frames)),
         f.pc # "done",
         count' = IF f.pc = "ref" THEN Len(frames) ELSE Len(frames) - 1
  PROVE  StoreInv'
<1> DEFINE walk == RecordWalk(input, call)
<1>1. /\ app = "store" /\ mode = "run" /\ frames # <<>> /\ IsSeq(frames)
      /\ Len(frames) \in Nat \ {0}
      /\ \A k \in 1..Len(frames) : StoreFrame(input, walk, frames[k], k)
  BY StoreTop
<1> HIDE DEF walk
<1>2. /\ app' = app /\ input' = input /\ call' = call /\ mode' = mode
      /\ Tops(frames, frames', f)
  BY <1>1, GoTops DEF Go
<1>3. /\ Len(frames') = Len(frames) /\ frames'[Len(frames)] = f
      /\ \A i \in 1..(Len(frames) - 1) : frames'[i] = frames[i]
  BY <1>2 DEF Tops
<1>4. ASSUME NEW k \in 1..Len(frames') PROVE StoreFrame(input, walk, frames'[k], k)
  <2>1. CASE k = Len(frames) BY <1>3, <2>1 DEF walk
  <2>2. CASE k # Len(frames)
    <3>1. k \in 1..(Len(frames) - 1) /\ k \in 1..Len(frames)
      BY <1>1, <1>3, <2>2
    <3> QED BY <1>1, <1>3, <3>1
  <2> QED BY <2>1, <2>2
<1>5. StoreCount(input, call, frames', count')
  BY <1>3 DEF StoreCount
<1>6. StoreDescent(input, call, frames', count')
  BY <1>4, <1>5 DEF StoreDescent, walk
<1> QED BY <1>1, <1>2, <1>6, StoreRuns

\* A fault of the innermost frame is the call's verdict.
LEMMA StoreFault ==
  ASSUME IInv, StoreInv, NEW pc, At("store", pc), NEW fault, fault # "none",
         StoreFaultAt(input, RecordWalk(input, call), Len(frames)) = fault,
         NEW name,
         name = IF fault = "reference_missing" THEN NextRecord(input, Top.name)
                ELSE Top.name,
         Eject(fault, name, Top.depth)
  PROVE  StoreInv'
<1> DEFINE walk == RecordWalk(input, call)
<1>1. /\ app = "store" /\ mode = "run" /\ input.mounts
      /\ Len(frames) \in 1..(MaxPath + 1) /\ Top.depth = Len(frames) - 1
      /\ StoreFrame(input, walk, Top, Len(frames))
      /\ \A k \in 1..(Len(frames) - 1) : StoreFaultAt(input, walk, k) = "none"
  BY StoreTop
<1> HIDE DEF walk
<1>2. Top.name = walk[Len(frames)] /\ walk[Len(frames)] # NoName
  BY <1>1 DEF StoreFrame
<1>3. StoreVerdict(input, call) =
        Failed(fault, Len(frames) - 1,
               IF fault = "reference_missing"
               THEN NextRecord(input, walk[Len(frames)]) ELSE walk[Len(frames)])
  BY <1>1, <1>2, StoreFails DEF walk
<1>4. StoreVerdict(input, call) = Failed(fault, Top.depth, name)
  BY <1>1, <1>2, <1>3
<1> QED BY <1>1, <1>4, StoreEject

\* The names on the path are those the walk has met.
LEMMA StoreSeen ==
  ASSUME IInv, StoreInv, At("store", "enter")
  PROVE  /\ Elements(path) = {RecordWalk(input, call)[j] : j \in 1..(Len(frames) - 1)}
         /\ Len(path) = Len(frames) - 1
<1> DEFINE walk == RecordWalk(input, call)
<1>1. /\ app = "store" /\ IsSeq(frames) /\ Len(frames) \in Nat \ {0}
      /\ Top = frames[Len(frames)] /\ Guarded("store", Top) /\ Top.pc = "enter"
      /\ \A k \in 1..Len(frames) : StoreFrame(input, walk, frames[k], k)
      /\ frames # <<>>
  BY StoreTop
<1> HIDE DEF walk
<1>2. Stack("store", frames, path, held)
  BY <1>1 DEF IInv, Shape, Guarding
<1>3. OnStack(frames, path) /\ ~frames[Len(frames)].marks
  BY <1>1, <1>2 DEF Stack, Guarded
<1>4. /\ Len(path) = Len(frames) - 1
      /\ \A i \in 1..Len(path) : path[i] = frames[i].name
  BY <1>1, <1>3 DEF OnStack
<1>5. \A i \in 1..(Len(frames) - 1) : path[i] = walk[i]
  <2> TAKE i \in 1..(Len(frames) - 1)
  <2>1. i \in 1..Len(frames)
    BY <1>1
  <2>2. StoreFrame(input, walk, frames[i], i)
    BY <1>1, <2>1
  <2> QED BY <1>4, <2>2 DEF StoreFrame
<1>6. Elements(path) = {walk[j] : j \in 1..(Len(frames) - 1)}
  BY <1>4, <1>5 DEF Elements
<1> QED BY <1>4, <1>6 DEF walk

LEMMA VisitExact ==
  ASSUME IInv, StoreInv, Visit
  PROVE  StoreInv'
<1> DEFINE walk == RecordWalk(input, call)
           n == Len(frames)
<1>0. At("store", "enter") /\ MaxPath \in Nat
  BY StoreCheckAssumption DEF Visit
<1>1. /\ n \in Nat \ {0} /\ n \in 1..(MaxPath + 1) /\ IsFrame(Top)
      /\ StoreFrame(input, walk, Top, n) /\ Top.pc = "enter"
      /\ StoreCount(input, call, frames, count) /\ Top = frames[n]
  BY <1>0, StoreTop
<1>2. /\ Elements(path) = {walk[j] : j \in 1..(n - 1)}
      /\ Len(path) = n - 1
  BY <1>0, StoreSeen
<1>3. PathFull <=> n > MaxPath
  BY <1>0, <1>1, <1>2 DEF PathFull
<1>4. count = n - 1
  BY <1>1 DEF StoreCount
<1>5. Top.name = walk[n]
  BY <1>1 DEF StoreFrame
<1> HIDE DEF walk, n
<1>6. CASE Top.name \in Elements(path)
  <2>1. Eject("reference_cycle", Top.name, Top.depth)
    BY <1>6 DEF Visit
  <2>2. StoreFaultAt(input, walk, n) = "reference_cycle"
    BY <1>2, <1>5, <1>6, StoreFaultAtIs
  <2> QED BY <1>0, <2>1, <2>2, StoreFault DEF walk, n
<1>7. CASE Top.name \notin Elements(path) /\ PathFull
  <2>1. Eject("nesting_too_deep", Top.name, Top.depth)
    BY <1>7 DEF Visit
  <2>2. StoreFaultAt(input, walk, n) = "nesting_too_deep"
    BY <1>2, <1>3, <1>5, <1>7, StoreFaultAtIs
  <2> QED BY <1>0, <2>1, <2>2, StoreFault DEF walk, n
<1>8. CASE Top.name \notin Elements(path) /\ ~PathFull
  <2> DEFINE f == [Top EXCEPT !.marks = TRUE, !.pc = "open"]
  <2>1. Go(f) /\ count' = count
    BY <1>8 DEF Visit
  <2>2. f.name = Top.name /\ f.pc = "open"
    BY <1>1 DEF IsFrame, FrameFields
  <2> HIDE DEF f
  <2>3. walk[n] \notin {walk[j] : j \in 1..(n - 1)} /\ n <= MaxPath
    BY <1>0, <1>1, <1>2, <1>3, <1>5, <1>8
  <2>4. StoreFrame(input, walk, f, n)
    BY <1>1, <2>2, <2>3 DEF StoreFrame
  <2> QED BY <1>0, <1>4, <2>1, <2>2, <2>4, StoreGoes DEF walk, n
<1> QED BY <1>6, <1>7, <1>8

LEMMA OpenFileExact ==
  ASSUME IInv, StoreInv, OpenFile
  PROVE  StoreInv'
<1> DEFINE walk == RecordWalk(input, call)
           n == Len(frames)
<1>0. At("store", "open") /\ MaxPath \in Nat
  BY StoreCheckAssumption DEF OpenFile
<1>1. /\ n \in Nat \ {0} /\ n \in 1..(MaxPath + 1) /\ IsFrame(Top)
      /\ StoreFrame(input, walk, Top, n) /\ Top.pc = "open"
      /\ StoreCount(input, call, frames, count) /\ Top = frames[n]
  BY <1>0, StoreTop
<1>2. count = n - 1
  BY <1>1 DEF StoreCount
<1> HIDE DEF walk, n
<1>3. /\ Top.name = walk[n] /\ walk[n] \notin {walk[j] : j \in 1..(n - 1)}
      /\ n <= MaxPath /\ ~(n > MaxPath)
  BY <1>0, <1>1 DEF StoreFrame
<1>4. CASE Exists(Top.name)
  <2> DEFINE f == [Top EXCEPT !.owns = TRUE, !.pc = "read"]
  <2>1. Go(f) /\ count' = count
    BY <1>4 DEF OpenFile
  <2>2. f.name = Top.name /\ f.pc = "read"
    BY <1>1 DEF IsFrame, FrameFields
  <2> HIDE DEF f
  <2>3. StoreFrame(input, walk, f, n)
    BY <1>1, <1>3, <1>4, <2>2 DEF StoreFrame, Exists
  <2> QED BY <1>0, <1>2, <2>1, <2>2, <2>3, StoreGoes DEF walk, n
<1>5. CASE ~Exists(Top.name)
  <2>1. Eject("record_unreadable", Top.name, Top.depth)
    BY <1>5 DEF OpenFile
  <2>2. StoreFaultAt(input, walk, n) = "record_unreadable"
    BY <1>3, <1>5, StoreFaultAtIs DEF Exists
  <2> QED BY <1>0, <2>1, <2>2, StoreFault DEF walk, n
<1> QED BY <1>4, <1>5

LEMMA ReadRecordExact ==
  ASSUME IInv, StoreInv, ReadRecord
  PROVE  StoreInv'
<1> DEFINE walk == RecordWalk(input, call)
           n == Len(frames)
           fault == RecordFault(input.records[Top.name].flaws)
<1>0. At("store", "read") /\ MaxPath \in Nat
  BY StoreCheckAssumption DEF ReadRecord
<1>1. /\ n \in Nat \ {0} /\ n \in 1..(MaxPath + 1) /\ IsFrame(Top)
      /\ StoreFrame(input, walk, Top, n) /\ Top.pc = "read"
      /\ StoreCount(input, call, frames, count) /\ Top = frames[n]
  BY <1>0, StoreTop
<1>2. count = n - 1
  BY <1>1 DEF StoreCount
<1>a. fault # "reference_missing"
  BY RecordFaultNames
<1>b. IF fault # "none"
      THEN Eject(fault, Top.name, Top.depth)
      ELSE count' = count + 1 /\ Go([Top EXCEPT !.pc = "ref"])
  BY DEF ReadRecord
<1> HIDE DEF walk, n
<1>3. /\ Top.name = walk[n] /\ walk[n] \notin {walk[j] : j \in 1..(n - 1)}
      /\ n <= MaxPath /\ ~(n > MaxPath) /\ walk[n] \in DOMAIN input.records
  BY <1>0, <1>1 DEF StoreFrame
<1>c. fault = RecordFault(input.records[walk[n]].flaws)
  BY <1>3
<1> HIDE DEF fault
<1>4. CASE fault # "none"
  <2>1. StoreFaultAt(input, walk, n) = fault
    BY <1>3, <1>4, <1>c, StoreFaultAtIs
  <2> QED BY <1>0, <1>4, <1>a, <1>b, <2>1, StoreFault DEF walk, n
<1>5. CASE fault = "none"
  <2> DEFINE f == [Top EXCEPT !.pc = "ref"]
  <2>1. Go(f) /\ count' = count + 1
    BY <1>5, <1>b
  <2>2. f.name = Top.name /\ f.pc = "ref"
    BY <1>1 DEF IsFrame, FrameFields
  <2> HIDE DEF f
  <2>3. StoreFrame(input, walk, f, n)
    BY <1>1, <1>3, <1>5, <1>c, <2>2 DEF StoreFrame
  <2>4. count' = n
    BY <1>1, <1>2, <2>1
  <2> QED BY <1>0, <2>1, <2>2, <2>3, <2>4, StoreGoes DEF walk, n
<1> QED BY <1>4, <1>5

\* The innermost frame goes on as f when the level it enters, g, has returned.
LEMMA StoreEnters ==
  ASSUME IInv, StoreInv, At("store", "ref"), NEW f, NEW g, Enter(f, g),
         StoreFrame(input, RecordWalk(input, call), f, Len(frames)),
         StoreFrame(input, RecordWalk(input, call), g, Len(frames) + 1),
         g.pc = "enter", count' = Len(frames)
  PROVE  StoreInv'
<1> DEFINE walk == RecordWalk(input, call)
           n == Len(frames)
<1>1. /\ app = "store" /\ mode = "run" /\ n \in Nat \ {0}
      /\ frames # <<>> /\ IsSeq(frames)
      /\ \A k \in 1..n : StoreFrame(input, walk, frames[k], k)
  BY StoreTop
<1>2. /\ app' = app /\ input' = input /\ mode' = mode /\ call' = call
      /\ frames' = Append(Front(frames), f) \o <<g>>
  BY DEF Enter
<1>3. /\ Len(frames') = n + 1 /\ frames'[n + 1] = g /\ frames'[n] = f
      /\ \A i \in 1..(n - 1) : frames'[i] = frames[i]
  <2>1. Entered(frames, frames', f, g)
    BY <1>1, <1>2, EnterStack
  <2> QED BY <2>1 DEF Entered
<1>4. StoreFrame(input, walk, f, n) /\ StoreFrame(input, walk, g, n + 1) /\ count' = n
  OBVIOUS
<1> HIDE DEF walk, n
<1>5. ASSUME NEW k \in 1..Len(frames') PROVE StoreFrame(input, walk, frames'[k], k)
  <2>1. CASE k = n + 1 BY <1>3, <1>4, <2>1
  <2>2. CASE k = n BY <1>3, <1>4, <2>2
  <2>3. CASE k # n /\ k # n + 1
    <3>1. k \in 1..(n - 1) /\ k \in 1..n
      BY <1>1, <1>3, <2>3
    <3> QED BY <1>1, <1>3, <3>1
  <2> QED BY <2>1, <2>2, <2>3
<1>6. StoreCount(input, call, frames', count')
  <2>1. n = (n + 1) - 1
    BY <1>1
  <2> QED BY <1>3, <1>4, <2>1 DEF StoreCount
<1>7. StoreDescent(input, call, frames', count')
  BY <1>5, <1>6 DEF StoreDescent, walk
<1> QED BY <1>1, <1>2, <1>7, StoreRuns

LEMMA FollowRefExact ==
  ASSUME IInv, StoreInv, FollowRef
  PROVE  StoreInv'
<1> DEFINE walk == RecordWalk(input, call)
           n == Len(frames)
           ref == input.records[Top.name].ref
<1>0. At("store", "ref") /\ MaxPath \in Nat
  BY StoreCheckAssumption DEF FollowRef
<1>1. /\ app = "store" /\ mode = "run" /\ input \in Images
      /\ n \in Nat \ {0} /\ n \in 1..(MaxPath + 1) /\ IsFrame(Top)
      /\ StoreFrame(input, walk, Top, n) /\ Top.pc = "ref"
      /\ StoreCount(input, call, frames, count) /\ Top = frames[n]
      /\ frames # <<>> /\ IsSeq(frames) /\ Top.depth = n - 1
      /\ \A k \in 1..n : StoreFrame(input, walk, frames[k], k)
      /\ NoName \notin DOMAIN input.records
  BY <1>0, StoreTop
<1>2. count = n
  BY <1>1 DEF StoreCount
<1>a. ref # NoName
  BY DEF FollowRef
<1>b. IF Exists(ref)
      THEN Enter([Top EXCEPT !.pc = "done"], NewFrame(ref, Top.depth + 1, 1))
      ELSE Eject("reference_missing", ref, Top.depth)
  BY DEF FollowRef
<1>c. count' = count
  BY DEF FollowRef
<1>d. \A i \in 2..(MaxPath + 1) : walk[i] = NextRecord(input, walk[i - 1])
  BY RecordWalkIs
<1> HIDE DEF walk, n
<1>3. /\ Top.name = walk[n] /\ walk[n] \notin {walk[j] : j \in 1..(n - 1)}
      /\ n <= MaxPath /\ ~(n > MaxPath) /\ walk[n] \in DOMAIN input.records
      /\ RecordFault(input.records[walk[n]].flaws) = "none"
      /\ walk[n] # NoName
  BY <1>0, <1>1 DEF StoreFrame
<1>4. ref = NextRecord(input, Top.name) /\ ref = NextRecord(input, walk[n])
  BY <1>3 DEF NextRecord
<1> HIDE DEF ref
<1>5. CASE ~Exists(ref)
  <2>1. StoreFaultAt(input, walk, n) = "reference_missing"
    BY <1>3, <1>4, <1>5, <1>a, StoreFaultAtIs DEF Exists
  <2>2. Eject("reference_missing", ref, Top.depth)
    BY <1>5, <1>b
  <2> QED BY <1>0, <1>4, <2>1, <2>2, StoreFault DEF walk, n
<1>6. CASE Exists(ref)
  <2> DEFINE caller == [Top EXCEPT !.pc = "done"]
             callee == NewFrame(ref, Top.depth + 1, 1)
  <2>1. caller.name = Top.name /\ caller.pc = "done" /\ callee.name = ref /\ callee.pc = "enter"
    BY <1>1, NewFrameIs DEF IsFrame, FrameFields
  <2>2. Enter(caller, callee)
    BY <1>6, <1>b
  <2> HIDE DEF caller, callee
  <2>3. StoreFrame(input, walk, caller, n)
    BY <1>1, <1>3, <1>4, <1>6, <2>1 DEF StoreFrame, Exists
  <2>4. walk[n + 1] = ref /\ ref # NoName /\ n + 1 <= MaxPath + 1
    <3>1. n + 1 \in 2..(MaxPath + 1) /\ (n + 1) - 1 = n
      BY <1>0, <1>1, <1>3
    <3> QED BY <1>0, <1>4, <1>a, <1>d, <3>1
  <2>5. StoreFrame(input, walk, callee, n + 1)
    BY <2>1, <2>4 DEF StoreFrame
  <2> QED BY <1>0, <1>2, <1>c, <2>1, <2>2, <2>3, <2>5, StoreEnters DEF walk, n
<1> QED BY <1>5, <1>6

LEMMA CheckReturnExact ==
  ASSUME IInv, StoreInv, CheckReturn
  PROVE  StoreInv'
<1> DEFINE walk == RecordWalk(input, call)
           n == Len(frames)
<1>0. MaxPath \in Nat
  BY StoreCheckAssumption
<1>1. PICK pc \in {"done", "ref"} :
        At("store", pc) /\ (pc = "ref" => input.records[Top.name].ref = NoName)
  BY DEF CheckReturn
<1>2. /\ app = "store" /\ mode = "run" /\ input \in Images
      /\ n \in Nat \ {0} /\ n \in 1..(MaxPath + 1) /\ input.mounts
      /\ StoreFrame(input, walk, Top, n) /\ Top.pc = pc
      /\ StoreCount(input, call, frames, count) /\ Top = frames[n]
      /\ frames # <<>> /\ IsSeq(frames)
      /\ \A k \in 1..n : StoreFrame(input, walk, frames[k], k)
      /\ \A k \in 1..(n - 1) : frames[k].pc = "done"
      /\ \A k \in 1..(n - 1) : StoreFaultAt(input, walk, k) = "none" /\ walk[k] # NoName
      /\ NoName \notin DOMAIN input.records
  BY <1>1, StoreTop
<1>3. StoreVerdict(input, call) = Completed(count, <<>>)
  <2>1. CASE pc = "done"
    BY <1>2, <2>1 DEF StoreCount
  <2>2. CASE pc = "ref"
    <3>1. count = n
      BY <1>2, <2>2 DEF StoreCount
    <3> HIDE DEF walk, n
    <3>2. /\ Top.name = walk[n] /\ walk[n] \notin {walk[j] : j \in 1..(n - 1)}
          /\ n <= MaxPath /\ ~(n > MaxPath) /\ walk[n] \in DOMAIN input.records
          /\ RecordFault(input.records[walk[n]].flaws) = "none"
          /\ walk[n] # NoName
      BY <1>0, <1>2, <2>2 DEF StoreFrame
    <3>3. NextRecord(input, walk[n]) = NoName
      BY <1>1, <2>2, <3>2 DEF NextRecord
    <3>4. StoreFaultAt(input, walk, n) = "none"
      BY <3>2, <3>3, StoreFaultAtIs
    <3>5. n \in 1..MaxPath
      BY <1>0, <1>2, <3>2
    <3>6. ASSUME NEW j \in 1..n
          PROVE  walk[j] # NoName /\ StoreFaultAt(input, walk, j) = "none"
      <4>1. CASE j = n BY <3>2, <3>4, <4>1
      <4>2. CASE j # n
        <5>1. j \in 1..(n - 1)
          BY <1>2, <4>2
        <5> QED BY <1>2, <5>1
      <4> QED BY <4>1, <4>2
    <3>7. StoreVerdict(input, call) = Completed(n, <<>>)
      BY <1>2, <3>3, <3>5, <3>6, StoreCompletes DEF walk
    <3> QED BY <3>1, <3>7
  <2> QED BY <1>1, <2>1, <2>2
<1>4. count' = count
  BY DEF CheckReturn
<1>5. CASE Succeed(count, <<>>)
  <2>1. /\ app' = app /\ input' = input /\ call' = call /\ mode' = "idle"
        /\ verdict' = Completed(count, <<>>)
    BY <1>5 DEF Succeed, SucceedAs, Success, Completed
  <2> QED BY <1>2, <1>3, <2>1 DEF StoreInv
<1>6. CASE ReturnTo(Caller)
  <2>1. /\ app' = app /\ input' = input /\ call' = call /\ mode' = mode
        /\ n > 1 /\ frames' = Append(Front(Front(frames)), Caller)
        /\ Caller = frames[n - 1]
    BY <1>6 DEF ReturnTo, Caller
  <2> HIDE DEF walk
  <2>2. /\ Len(frames') = n - 1 /\ frames'[n - 1] = Caller
        /\ \A i \in 1..(n - 2) : frames'[i] = frames[i]
    <3>1. Returned(frames, frames', Caller)
      BY <1>2, <2>1, ReturnStack
    <3> QED BY <3>1 DEF Returned
  <2> HIDE DEF n
  <2>3. ASSUME NEW k \in 1..Len(frames') PROVE frames'[k] = frames[k] /\ k \in 1..n
    <3>1. CASE k = n - 1 BY <1>2, <2>1, <2>2, <3>1
    <3>2. CASE k # n - 1
      <4>1. k \in 1..(n - 2) /\ k \in 1..n
        BY <1>2, <2>1, <2>2, <3>2
      <4> QED BY <2>2, <4>1
    <3> QED BY <3>1, <3>2
  <2>4. \A k \in 1..Len(frames') : StoreFrame(input, walk, frames'[k], k)
    BY <1>2, <2>3
  <2>5. frames'[Len(frames')].pc = "done"
    <3>1. n - 1 \in 1..(n - 1)
      BY <1>2, <2>1
    <3> QED BY <1>2, <2>1, <2>2, <3>1
  <2>6. StoreCount(input, call, frames', count')
    BY <1>3, <1>4, <2>5 DEF StoreCount
  <2>7. StoreDescent(input, call, frames', count')
    BY <2>4, <2>6 DEF StoreDescent, walk
  <2> QED BY <1>2, <2>1, <2>7, StoreRuns
<1> QED BY <1>5, <1>6 DEF CheckReturn

LEMMA CheckUnwindExact ==
  ASSUME IInv, StoreInv, CheckUnwind
  PROVE  StoreInv'
<1>1. /\ app = "store" /\ mode = "escape" /\ app' = app /\ input' = input
      /\ mode' = mode /\ call' = call /\ fault_name' = fault_name /\ payload' = payload
  BY DEF CheckUnwind, Leave
<1>2. Underway' = Underway
  BY <1>1 DEF Underway
<1> QED BY <1>1, <1>2 DEF StoreInv

LEMMA CheckLandExact ==
  ASSUME IInv, StoreInv, CheckLand
  PROVE  StoreInv'
<1>1. /\ app = "store" /\ mode \in {"escape", "fail"} /\ app' = app /\ input' = input
      /\ mode' = "idle" /\ call' = call
      /\ verdict' = [NoVerdict EXCEPT !.fault = payload.fault, !.depth = payload.depth,
                        !.hops = payload.hops, !.name = fault_name]
  BY DEF CheckLand, Land, LandAs, Failure
<1>2. /\ StoreVerdict(input, call) = Underway /\ payload.hops = 0 /\ input \in Images
  BY <1>1 DEF StoreInv
<1>3. verdict' = Underway
  BY <1>1, <1>2, LandedIs DEF Underway
<1> QED BY <1>1, <1>2, <1>3 DEF StoreInv

LEMMA StoreExact ==
  ASSUME IInv, StoreInv, StoreCheckNext
  PROVE  StoreInv'
BY CheckImageExact, MountFailedExact, VisitExact, OpenFileExact, ReadRecordExact,
   FollowRefExact, CheckReturnExact, CheckUnwindExact, CheckLandExact
   DEF StoreCheckNext

-----------------------------------------------------------------------------
(* The manifest verifier.                                                  *)

\* The walk along the references is what its definition says.
LEMMA EntryWalkIs ==
  ASSUME NEW m
  PROVE  LET walk == EntryWalk(m)
         IN  /\ walk[1] = 1
             /\ \A i \in 2..(MaxNesting + 2) : walk[i] = NextEntry(m, walk[i - 1])
<1> DEFINE Is(f, k) ==
             f = [i \in 1..k |-> IF i = 1 THEN 1 ELSE NextEntry(m, f[i - 1])]
           Bad == {k \in Nat : ~\E f : Is(f, k)}
<1>1. Bad = {}
  <2> SUFFICES ASSUME Bad # {} PROVE FALSE
    OBVIOUS
  <2>1. PICK k \in Bad : \A j \in Bad : k <= j
    <3> HIDE DEF Bad
    <3>1. Bad \subseteq Nat
      BY DEF Bad
    <3> QED BY <3>1, LeastNat
  <2>2. k \in Nat /\ ~\E f : Is(f, k)
    BY <2>1
  <2>3. k # 0
    <3> DEFINE f == [i \in 1..0 |-> 1]
    <3>1. Is(f, 0)
      OBVIOUS
    <3> QED BY <2>2, <3>1
  <2>4. k - 1 \in Nat /\ k - 1 \notin Bad
    <3> HIDE DEF Bad
    <3> QED BY <2>1, <2>2, <2>3
  <2>5. PICK g : Is(g, k - 1)
    BY <2>4
  <2> DEFINE f == [i \in 1..k |-> IF i = 1 THEN 1 ELSE NextEntry(m, g[i - 1])]
  <2>6. ASSUME NEW i \in 1..k, i # 1 PROVE f[i - 1] = g[i - 1]
    <3>1. i - 1 \in 1..(k - 1) /\ i - 1 \in 1..k
      BY <2>2, <2>6
    <3>2. g[i - 1] = IF i - 1 = 1 THEN 1 ELSE NextEntry(m, g[(i - 1) - 1])
      BY <2>5, <3>1
    <3> QED BY <3>1, <3>2
  <2>7. Is(f, k)
    <3> HIDE DEF f
    <3>1. \A i \in 1..k : f[i] = IF i = 1 THEN 1 ELSE NextEntry(m, f[i - 1])
      BY <2>6 DEF f
    <3>2. f = [i \in 1..k |-> f[i]]
      BY DEF f
    <3> QED BY <3>1, <3>2
  <2> QED BY <2>2, <2>7
<1> DEFINE walk == EntryWalk(m)
<1>2. MaxNesting + 2 \in Nat /\ MaxNesting + 2 >= 1
  BY ManifestAssumption
<1>3. \E f : Is(f, MaxNesting + 2)
  BY <1>1, <1>2
<1>4. Is(walk, MaxNesting + 2)
  BY <1>3 DEF EntryWalk
<1> HIDE DEF walk
<1>5. walk[1] = 1
  BY <1>2, <1>4
<1>6. \A i \in 2..(MaxNesting + 2) : walk[i] = NextEntry(m, walk[i - 1])
  BY <1>2, <1>4
<1> QED BY <1>5, <1>6 DEF walk

\* Beyond the end of the references there is nothing.
LEMMA EntryWalkEnds ==
  ASSUME NEW m, NEW k \in 1..(MaxNesting + 1),
         NextEntry(m, EntryWalk(m)[k]) = 0
  PROVE  \A i \in (k + 1)..(MaxNesting + 2) : EntryWalk(m)[i] = 0
<1> DEFINE walk == EntryWalk(m)
           Bad == {i \in (k + 1)..(MaxNesting + 2) : walk[i] # 0}
<1>0. MaxNesting \in Nat
  BY ManifestAssumption
<1>1. \A i \in 2..(MaxNesting + 2) : walk[i] = NextEntry(m, walk[i - 1])
  BY EntryWalkIs
<1>2. NextEntry(m, walk[k]) = 0 /\ NextEntry(m, 0) = 0
  BY DEF NextEntry
<1> HIDE DEF walk
<1> SUFFICES ASSUME Bad # {} PROVE FALSE
  BY DEF walk
<1>3. Bad \subseteq Nat
  BY <1>0
<1>4. PICK i \in Bad : \A j \in Bad : i <= j
  BY <1>3, LeastNat
<1>5. i \in 2..(MaxNesting + 2) /\ walk[i] # 0
  BY <1>0, <1>4
<1>6. CASE i = k + 1
  BY <1>1, <1>2, <1>5, <1>6
<1>7. CASE i # k + 1
  <2>1. i - 1 \in (k + 1)..(MaxNesting + 2) /\ i - 1 \notin Bad
    BY <1>0, <1>4, <1>7
  <2>2. walk[i - 1] = 0
    BY <2>1
  <2> QED BY <1>1, <1>2, <1>5, <2>2
<1> QED BY <1>6, <1>7

LEMMA EntryFaultAtIs ==
  ASSUME NEW m, NEW walk, NEW i
  PROVE  EntryFaultAt(m, walk, i) =
           IF NameAt(m, walk, i) \in {NameAt(m, walk, j) : j \in 1..(i - 1)}
           THEN "reference_cycle"
           ELSE IF i > MaxNesting + 1 THEN "nesting_too_deep"
           ELSE IF i > m.pool THEN "digest_unavailable"
           ELSE EntryFault(m, walk[i])
<1> DEFINE bytes == EntryFault(m, walk[i])
           c1 == NameAt(m, walk, i) \in {NameAt(m, walk, j) : j \in 1..(i - 1)}
           c2 == i > MaxNesting + 1
           c3 == i > m.pool
           c4 == bytes # "none"
<1>1. EntryFaultAt(m, walk, i) =
        FirstFault(<<<<c1, "reference_cycle">>, <<c2, "nesting_too_deep">>,
                     <<c3, "digest_unavailable">>, <<c4, bytes>>>>)
  BY DEF EntryFaultAt
<1> HIDE DEF c1, c2, c3, c4, bytes
<1>2. EntryFaultAt(m, walk, i) =
        IF c1 THEN "reference_cycle" ELSE IF c2 THEN "nesting_too_deep"
        ELSE IF c3 THEN "digest_unavailable" ELSE IF c4 THEN bytes ELSE "none"
  BY <1>1, FirstFault4
<1> QED BY <1>2 DEF c1, c2, c3, c4, bytes

\* The faults of an entry's fields; without one, its reference is found.
LEMMA EntryFaultIs ==
  ASSUME NEW m, NEW i
  PROVE  /\ EntryFault(m, i) # "digest_unavailable"
         /\ EntryFault(m, i) = "none" =>
              m.entries[i].ref = NoName \/ FindEntry(m, m.entries[i].ref) # {}
<1> DEFINE e == m.entries[i]
           c1 == ~Has(m, Body(m, i), 1 + Units(e.ref))
           c2 == e.len = 0 \/ e.len > MaxImage
           c3 == e.ref # NoName /\ FindEntry(m, e.ref) = {}
<1>1. EntryFault(m, i) =
        FirstFault(<<<<c1, "manifest_truncated">>, <<c2, "length_implausible">>,
                     <<c3, "reference_missing">>>>)
  BY DEF EntryFault
<1> HIDE DEF c1, c2, c3
<1>2. EntryFault(m, i) =
        IF c1 THEN "manifest_truncated" ELSE IF c2 THEN "length_implausible"
        ELSE IF c3 THEN "reference_missing" ELSE "none"
  BY <1>1, FirstFault3
<1>3. EntryFault(m, i) = "none" => ~c3
  BY <1>2
<1> QED BY <1>2, <1>3 DEF c3

\* find_entry finds an entry of the name, the first one.
LEMMA FirstFound ==
  ASSUME NEW m, Len(m.entries) \in Nat, NEW name, FindEntry(m, name) # {}
  PROVE  LET i == First(FindEntry(m, name))
         IN  i \in Nat \ {0} /\ m.entries[i].name = name
<1> DEFINE S == FindEntry(m, name)
<1>1. S \subseteq Nat \ {0} /\ \A i \in S : m.entries[i].name = name
  BY DEF FindEntry
<1> HIDE DEF S
<1>2. PICK n \in S : \A j \in S : n <= j
  BY <1>1, LeastNat DEF S
<1>3. First(S) \in S
  BY <1>2, Zenon DEF First
<1> QED BY <1>1, <1>3 DEF S

ManifestSteps(m) == {i \in 1..(MaxNesting + 2) : EntryWalk(m)[i] # 0}

LEMMA ManifestFails ==
  ASSUME NEW m, HeaderFault(m) = "none", NEW k \in 1..(MaxNesting + 2), NEW fault,
         NEW walk, walk = EntryWalk(m),
         \A j \in 1..(k - 1) : EntryFaultAt(m, walk, j) = "none",
         walk[k] # 0, EntryFaultAt(m, walk, k) = fault, fault # "none"
  PROVE  Verification(m) = Failed(fault, k - 1, Blamed(m, walk, k, fault))
<1> DEFINE steps == {i \in 1..(MaxNesting + 2) : walk[i] # 0}
           faulty == {i \in steps : EntryFaultAt(m, walk, i) # "none"}
<1>0. MaxNesting \in Nat
  BY ManifestAssumption
<1>1. k \in faulty /\ faulty \subseteq Int
  BY <1>0
<1>2. ASSUME NEW j \in faulty PROVE k <= j
  <2>1. j \in 1..(MaxNesting + 2) /\ j \notin 1..(k - 1)
    OBVIOUS
  <2> QED BY <1>0, <2>1
<1> HIDE DEF faulty
<1>3. Least(faulty) = k
  BY <1>1, <1>2, LeastIs
<1>4. faulty # {}
  BY <1>1
<1> QED BY <1>3, <1>4, Zenon DEF Verification, faulty

\* The way down has ended at entry number n of the walk, without a fault.
Bottomed(m, n) ==
  /\ HeaderFault(m) = "none"
  /\ n \in Nat
  /\ ManifestSteps(m) = 1..n
  /\ \A j \in 1..n : EntryFaultAt(m, EntryWalk(m), j) = "none"

LEMMA ManifestBottom ==
  ASSUME NEW m, HeaderFault(m) = "none", NEW k \in 1..(MaxNesting + 1),
         NEW walk, walk = EntryWalk(m),
         \A j \in 1..k : walk[j] # 0 /\ EntryFaultAt(m, walk, j) = "none",
         NextEntry(m, walk[k]) = 0
  PROVE  Bottomed(m, k)
<1>0. MaxNesting \in Nat
  BY ManifestAssumption
<1>1. \A i \in (k + 1)..(MaxNesting + 2) : walk[i] = 0
  BY EntryWalkEnds
<1>2. ManifestSteps(m) = 1..k
  <2>1. ASSUME NEW i \in ManifestSteps(m) PROVE i \in 1..k
    <3>1. i \in 1..(MaxNesting + 2) /\ i \notin (k + 1)..(MaxNesting + 2)
      BY <1>1 DEF ManifestSteps
    <3> QED BY <1>0, <3>1
  <2>2. 1..k \subseteq ManifestSteps(m)
    BY <1>0 DEF ManifestSteps
  <2> QED BY <2>1, <2>2
<1> QED BY <1>0, <1>2 DEF Bottomed

\* Then the innermost bad image decides.
LEMMA ManifestSpoilt ==
  ASSUME NEW m, NEW n, Bottomed(m, n), NEW k \in 1..n, NEW walk, walk = EntryWalk(m),
         ImageFault(m, walk[k]) # "none",
         \A j \in (k + 1)..n : ImageFault(m, walk[j]) = "none"
  PROVE  Verification(m) =
           Failed(ImageFault(m, walk[k]), k - 1, NameAt(m, walk, k))
<1> DEFINE steps == {i \in 1..(MaxNesting + 2) : walk[i] # 0}
           faulty == {i \in steps : EntryFaultAt(m, walk, i) # "none"}
           bad == {i \in steps : ImageFault(m, walk[i]) # "none"}
<1>1. steps = 1..n /\ n \in Nat /\ HeaderFault(m) = "none"
      /\ \A j \in 1..n : EntryFaultAt(m, walk, j) = "none"
  BY DEF Bottomed, ManifestSteps
<1>2. faulty = {}
  BY <1>1
<1>3. k \in bad /\ bad \subseteq 1..n
  BY <1>1
<1>4. ASSUME NEW j \in bad PROVE k >= j
  <2>1. j \in 1..n /\ j \notin (k + 1)..n
    BY <1>3
  <2> QED BY <1>1, <2>1
<1> HIDE DEF bad
<1>5. bad \subseteq Int
  BY <1>1, <1>3
<1>6. Greatest(bad) = k
  BY <1>3, <1>4, <1>5, GreatestIs
<1>7. bad # {}
  BY <1>3
<1> HIDE DEF faulty
<1> QED BY <1>1, <1>2, <1>6, <1>7, Zenon DEF Verification, faulty, bad

LEMMA ManifestCompletes ==
  ASSUME NEW m, NEW n, Bottomed(m, n), NEW walk, walk = EntryWalk(m),
         \A j \in 1..n : ImageFault(m, walk[j]) = "none"
  PROVE  Verification(m) = Completed(n, <<>>)
<1> DEFINE steps == {i \in 1..(MaxNesting + 2) : walk[i] # 0}
           faulty == {i \in steps : EntryFaultAt(m, walk, i) # "none"}
           bad == {i \in steps : ImageFault(m, walk[i]) # "none"}
<1>1. steps = 1..n /\ n \in Nat /\ HeaderFault(m) = "none"
      /\ \A j \in 1..n : EntryFaultAt(m, walk, j) = "none"
  BY DEF Bottomed, ManifestSteps
<1>2. faulty = {} /\ bad = {}
  BY <1>1
<1>3. Cardinality(steps) = n
  <2> HIDE DEF steps
  <2>1. n \in Int /\ 1 \in Int
    BY <1>1
  <2>2. Cardinality(1..n) = IF 1 > n THEN 0 ELSE n - 1 + 1
    BY <2>1, FS_Interval
  <2>3. Cardinality(1..n) = n
    BY <1>1, <2>2
  <2> QED BY <1>1, <2>3
<1> HIDE DEF faulty, bad
<1>4. Verification(m) = Completed(Cardinality(steps), <<>>)
  BY <1>1, <1>2, Zenon DEF Verification, faulty, bad
<1> QED BY <1>3, <1>4

\* Frame f at position k against the walk along the entries.
EntryFrame(m, walk, f, k) ==
  /\ f.at = walk[k] /\ walk[k] # 0 /\ f.name = NameAt(m, walk, k)
  /\ k <= MaxNesting + 2
  /\ f.pc # "enter" =>
       /\ NameAt(m, walk, k) \notin {NameAt(m, walk, j) : j \in 1..(k - 1)}
       /\ k <= MaxNesting + 1
  /\ f.pc \in {"parse", "image"} => k <= m.pool
  /\ f.pc = "image" => EntryFault(m, walk[k]) = "none"

\* The images verified: none on the way down, and on the way back up those of
\* the entries below the innermost frame.
Verified(m, fs, n) ==
  IF fs[Len(fs)].pc = "image"
  THEN \E b \in Nat :
         /\ Bottomed(m, b) /\ Len(fs) <= b /\ n = b - Len(fs)
         /\ \A j \in (Len(fs) + 1)..b : ImageFault(m, EntryWalk(m)[j]) = "none"
  ELSE n = 0

ManifestDescent(m, fs, n) ==
  /\ HeaderFault(m) = "none"
  /\ \A k \in 1..Len(fs) : EntryFrame(m, EntryWalk(m), fs[k], k)
  /\ Verified(m, fs, n)

ManifestInv ==
  app = "manifest" =>
    /\ mode # "idle" \/ verdict # NoVerdict => input \in Manifests
    /\ mode = "begin" => count = 0
    /\ mode = "run" => ManifestDescent(input, frames, count)
    /\ mode = "escape" => Verification(input) = Underway /\ payload.hops = 0
    /\ mode # "fail"
    /\ mode = "idle" /\ verdict # NoVerdict => verdict = ManifestVerdict(input)

\* An entry whose fields have been passed has no fault.
LEMMA EntryPassed ==
  ASSUME NEW m, m.pool \in Nat, NEW walk, NEW f, NEW n \in Nat, NEW k \in 1..n,
         EntryFrame(m, walk, f, k), f.pc = "image"
  PROVE  EntryFaultAt(m, walk, k) = "none" /\ walk[k] # 0
<1>1. /\ NameAt(m, walk, k) \notin {NameAt(m, walk, j) : j \in 1..(k - 1)}
      /\ k <= MaxNesting + 1 /\ k <= m.pool /\ EntryFault(m, walk[k]) = "none"
      /\ walk[k] # 0
  BY DEF EntryFrame
<1>2. ~(k > MaxNesting + 1) /\ ~(k > m.pool)
  BY <1>1, ManifestAssumption
<1> QED BY <1>1, <1>2, EntryFaultAtIs

LEMMA ManifestTop ==
  ASSUME IInv, ManifestInv, NEW pc, At("manifest", pc)
  PROVE  /\ app = "manifest" /\ mode = "run" /\ frames # <<>>
         /\ input \in Manifests /\ Len(input.entries) \in Nat /\ input.pool \in Nat
         /\ HeaderFault(input) = "none"
         /\ Len(frames) \in Nat \ {0} /\ IsSeq(frames)
         /\ Top = frames[Len(frames)] /\ IsFrame(Top) /\ Top.pc = pc
         /\ Top.depth = Len(frames) - 1
         /\ Guarded("manifest", Top)
         /\ EntryFrame(input, EntryWalk(input), Top, Len(frames))
         /\ Verified(input, frames, count)
         /\ Len(frames) \in 1..(MaxNesting + 2)
         /\ \A k \in 1..(Len(frames) - 1) : frames[k].pc = "image"
         /\ \A k \in 1..(Len(frames) - 1) :
              EntryFaultAt(input, EntryWalk(input), k) = "none" /\ EntryWalk(input)[k] # 0
         /\ \A k \in 1..Len(frames) : EntryFrame(input, EntryWalk(input), frames[k], k)
<1>0. MaxNesting \in Nat
  BY ManifestAssumption
<1> DEFINE a == "manifest"
<1>a. a \in Guarding
  BY DEF Guarding
<1> HIDE DEF a
<1>b. At(a, pc)
  BY DEF a
<1>1. /\ app = a /\ mode = "run" /\ frames # <<>>
      /\ Stack(a, frames, path, held)
      /\ IsSeq(frames) /\ Len(frames) \in Nat \ {0}
      /\ Top = frames[Len(frames)]
      /\ IsFrame(Top) /\ Guarded(a, Top) /\ Top.pc = pc
      /\ Top.depth = Len(frames) - 1
  BY <1>a, <1>b, RunTop
<1>2. input \in Manifests /\ ManifestDescent(input, frames, count)
  BY <1>1 DEF ManifestInv, a
<1>3. Len(input.entries) \in Nat /\ input.pool \in Nat
  BY <1>2, InputAssumption
<1>4. \A k \in 1..(Len(frames) - 1) : frames[k].pc = "image"
  <2>1. \A k \in 1..Len(frames) : k < Len(frames) => frames[k].pc = CallPoint(a)
    BY <1>1 DEF Stack
  <2>2. CallPoint(a) = "image"
    BY DEF a, CallPoint
  <2> QED BY <1>1, <2>1, <2>2
<1>5. \A k \in 1..Len(frames) : EntryFrame(input, EntryWalk(input), frames[k], k)
  BY <1>2 DEF ManifestDescent
<1>6. ASSUME NEW k \in 1..(Len(frames) - 1)
      PROVE  EntryFaultAt(input, EntryWalk(input), k) = "none" /\ EntryWalk(input)[k] # 0
  <2>1. k \in 1..Len(frames)
    BY <1>1
  <2>2. EntryFrame(input, EntryWalk(input), frames[k], k) /\ frames[k].pc = "image"
    BY <1>4, <1>5, <2>1
  <2> QED BY <1>1, <1>3, <2>1, <2>2, EntryPassed
<1>7. EntryFrame(input, EntryWalk(input), Top, Len(frames))
  BY <1>1, <1>5
<1>8. Len(frames) \in 1..(MaxNesting + 2)
  BY <1>0, <1>1, <1>7 DEF EntryFrame
<1> QED BY <1>1, <1>2, <1>3, <1>4, <1>5, <1>6, <1>7, <1>8 DEF ManifestDescent, a

\* What the client reads of a verdict.
LEMMA ReplyIs ==
  ASSUME NEW v, input \in Manifests
  PROVE  Reply(v) = Answer(input, v)
<1>1. input.room \in Nat
  BY InputAssumption
<1> DEFINE short == [NoVerdict EXCEPT !.fault = "short_buffer"]
           failed == Failed("short_buffer", 0, NoName)
<1>2. short = failed
  <2>1. /\ IsVerdict(short) /\ short.ok = NoVerdict.ok /\ short.fault = "short_buffer"
        /\ short.depth = 0 /\ short.hops = 0 /\ short.name = NoName /\ short.count = 0
        /\ short.out = <<>>
    BY NoVerdictIs DEF IsVerdict, VerdictFields
  <2>2. /\ IsVerdict(failed) /\ failed.ok = NoVerdict.ok /\ failed.fault = "short_buffer"
        /\ failed.depth = 0 /\ failed.hops = 0 /\ failed.name = NoName /\ failed.count = 0
        /\ failed.out = <<>>
    BY FailedIs
  <2> HIDE DEF short, failed
  <2> QED BY <2>1, <2>2, SameVerdict
<1>3. CASE v.name = NoName
  BY <1>1, <1>2, <1>3 DEF Reply, Answer, Units
<1>4. CASE v.name # NoName
  BY <1>1, <1>2, <1>4 DEF Reply, Answer, Units
<1> QED BY <1>3, <1>4

LEMMA ManifestEject ==
  ASSUME IInv, ManifestInv, app = "manifest", mode # "idle", NEW f, NEW n, NEW d,
         Eject(f, n, d), Verification(input) = Failed(f, d, n)
  PROVE  ManifestInv'
<1>1. /\ app' = "manifest" /\ input' = input /\ mode' = "escape"
      /\ payload' = [fault |-> f, depth |-> d, hops |-> 0] /\ fault_name' = n
  BY DEF Eject, Raise
<1>2. Underway' = Failed(f, d, n) /\ payload'.hops = 0
  BY <1>1 DEF Underway
<1>3. input \in Manifests
  BY DEF ManifestInv
<1> QED BY <1>1, <1>2, <1>3 DEF ManifestInv

LEMMA ManifestRuns ==
  ASSUME ManifestInv, app = "manifest", mode \in {"begin", "run"},
         app' = app, input' = input, mode' = "run",
         ManifestDescent(input, frames', count')
  PROVE  ManifestInv'
BY DEF ManifestInv

\* The innermost frame goes on as f.
LEMMA ManifestGoes ==
  ASSUME IInv, ManifestInv, NEW pc, At("manifest", pc), NEW f, Go(f),
         EntryFrame(input, EntryWalk(input), f, Len(frames)),
         count' = count, count = 0,
         f.pc = "image" => Bottomed(input, Len(frames))
  PROVE  ManifestInv'
<1> DEFINE walk == EntryWalk(input)
           n == Len(frames)
<1>1. /\ app = "manifest" /\ mode = "run" /\ frames # <<>> /\ IsSeq(frames)
      /\ n \in Nat \ {0} /\ HeaderFault(input) = "none"
      /\ \A k \in 1..n : EntryFrame(input, walk, frames[k], k)
  BY ManifestTop
<1> HIDE DEF walk
<1>2. /\ app' = app /\ input' = input /\ mode' = mode
      /\ Tops(frames, frames', f)
  BY <1>1, GoTops DEF Go
<1>3. /\ Len(frames') = n /\ frames'[n] = f
      /\ \A i \in 1..(n - 1) : frames'[i] = frames[i]
  BY <1>2 DEF Tops
<1>a. /\ EntryFrame(input, walk, f, n)
      /\ f.pc = "image" => Bottomed(input, n)
  BY DEF walk
<1> HIDE DEF n
<1>4. ASSUME NEW k \in 1..Len(frames') PROVE EntryFrame(input, walk, frames'[k], k)
  <2>1. CASE k = n BY <1>3, <1>a, <2>1
  <2>2. CASE k # n
    <3>1. k \in 1..(n - 1) /\ k \in 1..n
      BY <1>1, <1>3, <2>2
    <3> QED BY <1>1, <1>3, <3>1
  <2> QED BY <2>1, <2>2
<1>5. Verified(input, frames', count')
  <2>1. CASE f.pc = "image"
    <3>1. Bottomed(input, n) /\ n \in Nat /\ n <= n /\ 0 = n - n
      BY <1>1, <1>a, <2>1
    <3>2. \A j \in (n + 1)..n : ImageFault(input, EntryWalk(input)[j]) = "none"
      BY <1>1
    <3> QED BY <1>3, <2>1, <3>1, <3>2 DEF Verified
  <2>2. CASE f.pc # "image"
    BY <1>3, <2>2 DEF Verified
  <2> QED BY <2>1, <2>2
<1>6. ManifestDescent(input, frames', count')
  BY <1>1, <1>4, <1>5 DEF ManifestDescent, walk
<1> QED BY <1>1, <1>2, <1>6, ManifestRuns

LEMMA ManifestEnters ==
  ASSUME IInv, ManifestInv, At("manifest", "parse"), NEW f, NEW g, Enter(f, g),
         EntryFrame(input, EntryWalk(input), f, Len(frames)),
         EntryFrame(input, EntryWalk(input), g, Len(frames) + 1),
         g.pc = "enter", count' = 0
  PROVE  ManifestInv'
<1> DEFINE walk == EntryWalk(input)
           n == Len(frames)
<1>1. /\ app = "manifest" /\ mode = "run" /\ n \in Nat \ {0}
      /\ frames # <<>> /\ IsSeq(frames) /\ HeaderFault(input) = "none"
      /\ \A k \in 1..n : EntryFrame(input, walk, frames[k], k)
  BY ManifestTop
<1>2. /\ app' = app /\ input' = input /\ mode' = mode
      /\ frames' = Append(Front(frames), f) \o <<g>>
  BY DEF Enter
<1>3. /\ Len(frames') = n + 1 /\ frames'[n + 1] = g /\ frames'[n] = f
      /\ \A i \in 1..(n - 1) : frames'[i] = frames[i]
  <2>1. Entered(frames, frames', f, g)
    BY <1>1, <1>2, EnterStack
  <2> QED BY <2>1 DEF Entered
<1>4. EntryFrame(input, walk, f, n) /\ EntryFrame(input, walk, g, n + 1)
  OBVIOUS
<1> HIDE DEF walk, n
<1>5. ASSUME NEW k \in 1..Len(frames') PROVE EntryFrame(input, walk, frames'[k], k)
  <2>1. CASE k = n + 1 BY <1>3, <1>4, <2>1
  <2>2. CASE k = n BY <1>3, <1>4, <2>2
  <2>3. CASE k # n /\ k # n + 1
    <3>1. k \in 1..(n - 1) /\ k \in 1..n
      BY <1>1, <1>3, <2>3
    <3> QED BY <1>1, <1>3, <3>1
  <2> QED BY <2>1, <2>2, <2>3
<1>6. Verified(input, frames', count')
  BY <1>3 DEF Verified
<1>7. ManifestDescent(input, frames', count')
  BY <1>1, <1>5, <1>6 DEF ManifestDescent, walk
<1> QED BY <1>1, <1>2, <1>7, ManifestRuns

\* A fault of the innermost frame's fields is the call's verdict.
LEMMA ManifestFault ==
  ASSUME IInv, ManifestInv, NEW pc, At("manifest", pc), NEW fault, fault # "none",
         EntryFaultAt(input, EntryWalk(input), Len(frames)) = fault,
         NEW name, name = Blamed(input, EntryWalk(input), Len(frames), fault),
         Eject(fault, name, Top.depth)
  PROVE  ManifestInv'
<1> DEFINE walk == EntryWalk(input)
<1>1. /\ app = "manifest" /\ mode = "run" /\ HeaderFault(input) = "none"
      /\ Len(frames) \in 1..(MaxNesting + 2) /\ Top.depth = Len(frames) - 1
      /\ EntryFrame(input, walk, Top, Len(frames))
      /\ \A k \in 1..(Len(frames) - 1) : EntryFaultAt(input, walk, k) = "none"
  BY ManifestTop
<1> HIDE DEF walk
<1>2. walk[Len(frames)] # 0
  BY <1>1 DEF EntryFrame
<1>3. Verification(input) =
        Failed(fault, Len(frames) - 1, Blamed(input, walk, Len(frames), fault))
  BY <1>1, <1>2, ManifestFails DEF walk
<1>4. Verification(input) = Failed(fault, Top.depth, name)
  BY <1>1, <1>3 DEF walk
<1> QED BY <1>1, <1>4, ManifestEject

\* The names on the path are those the walk has met.
LEMMA ManifestSeen ==
  ASSUME IInv, ManifestInv, At("manifest", "enter")
  PROVE  /\ Elements(path) = {NameAt(input, EntryWalk(input), j) : j \in 1..(Len(frames) - 1)}
         /\ Len(path) = Len(frames) - 1
<1> DEFINE walk == EntryWalk(input)
<1>1. /\ app = "manifest" /\ IsSeq(frames) /\ Len(frames) \in Nat \ {0}
      /\ Top = frames[Len(frames)] /\ Guarded("manifest", Top) /\ Top.pc = "enter"
      /\ \A k \in 1..Len(frames) : EntryFrame(input, walk, frames[k], k)
      /\ frames # <<>>
  BY ManifestTop
<1> HIDE DEF walk
<1>2. Stack("manifest", frames, path, held)
  BY <1>1 DEF IInv, Shape, Guarding
<1>3. OnStack(frames, path) /\ ~frames[Len(frames)].marks
  BY <1>1, <1>2 DEF Stack, Guarded
<1>4. /\ Len(path) = Len(frames) - 1
      /\ \A i \in 1..Len(path) : path[i] = frames[i].name
  BY <1>1, <1>3 DEF OnStack
<1>5. \A i \in 1..(Len(frames) - 1) : path[i] = NameAt(input, walk, i)
  <2> TAKE i \in 1..(Len(frames) - 1)
  <2>1. i \in 1..Len(frames)
    BY <1>1
  <2>2. EntryFrame(input, walk, frames[i], i)
    BY <1>1, <2>1
  <2> QED BY <1>4, <2>2 DEF EntryFrame
<1>6. Elements(path) = {NameAt(input, walk, j) : j \in 1..(Len(frames) - 1)}
  BY <1>4, <1>5 DEF Elements
<1> QED BY <1>4, <1>6 DEF walk

LEMMA VerifyManifestExact ==
  ASSUME ManifestInv, NEW m \in Manifests, VerifyManifest(m)
  PROVE  ManifestInv'
<1>1. /\ app' = "manifest" /\ input' = m /\ mode' = "begin" /\ count' = 0
  BY DEF VerifyManifest, Begin
<1> QED BY <1>1 DEF ManifestInv

LEMMA VerifyHeaderExact ==
  ASSUME IInv, ManifestInv, VerifyHeader
  PROVE  ManifestInv'
<1>0. MaxNesting \in Nat
  BY ManifestAssumption
<1>1. app = "manifest" /\ mode = "begin" /\ count = 0 /\ count' = count
  BY DEF VerifyHeader, ManifestInv
<1>2. CASE HeaderFault(input) # "none"
  <2>1. Eject(HeaderFault(input), "root", 0)
    BY <1>2 DEF VerifyHeader
  <2>2. Verification(input) = Failed(HeaderFault(input), 0, "root")
    BY <1>2 DEF Verification
  <2> QED BY <1>1, <2>1, <2>2, ManifestEject
<1>3. CASE HeaderFault(input) = "none"
  <2> DEFINE f == NewFrame(input.entries[1].name, 0, 1)
             walk == EntryWalk(input)
  <2>1. mode' = "run" /\ frames' = <<f>> /\ app' = app /\ input' = input
    BY <1>3 DEF VerifyHeader
  <2>2. f.name = input.entries[1].name /\ f.pc = "enter" /\ f.at = 1
    BY NewFrameIs
  <2>3. walk[1] = 1
    BY EntryWalkIs
  <2> HIDE DEF f, walk
  <2>4. Len(frames') = 1 /\ frames'[1] = f
    BY <2>1
  <2>5. EntryFrame(input, walk, f, 1)
    BY <1>0, <2>2, <2>3 DEF EntryFrame, NameAt
  <2>6. \A k \in 1..Len(frames') : EntryFrame(input, walk, frames'[k], k)
    BY <2>4, <2>5
  <2>7. Verified(input, frames', count')
    BY <1>1, <2>2, <2>4 DEF Verified
  <2>8. ManifestDescent(input, frames', count')
    BY <1>3, <2>6, <2>7 DEF ManifestDescent, walk
  <2> QED BY <1>1, <2>1, <2>8, ManifestRuns
<1> QED BY <1>2, <1>3

LEMMA VisitEntryExact ==
  ASSUME IInv, ManifestInv, VisitEntry
  PROVE  ManifestInv'
<1> DEFINE walk == EntryWalk(input)
           n == Len(frames)
<1>0. At("manifest", "enter") /\ MaxNesting \in Nat
  BY ManifestAssumption DEF VisitEntry
<1>1. /\ n \in Nat \ {0} /\ n \in 1..(MaxNesting + 2) /\ IsFrame(Top)
      /\ EntryFrame(input, walk, Top, n) /\ Top.pc = "enter"
      /\ Verified(input, frames, count) /\ Top = frames[n]
  BY <1>0, ManifestTop
<1>2. /\ Elements(path) = {NameAt(input, walk, j) : j \in 1..(n - 1)}
      /\ Len(path) = n - 1
  BY <1>0, ManifestSeen
<1>3. NestedTooDeep <=> n > MaxNesting + 1
  BY <1>0, <1>1, <1>2 DEF NestedTooDeep
<1>4. count = 0
  BY <1>1 DEF Verified
<1>5. Top.name = NameAt(input, walk, n)
  BY <1>1 DEF EntryFrame
<1> HIDE DEF walk, n
<1>6. CASE Top.name \in Elements(path)
  <2>1. Eject("reference_cycle", Top.name, Top.depth)
    BY <1>6 DEF VisitEntry
  <2>2. EntryFaultAt(input, walk, n) = "reference_cycle"
    BY <1>2, <1>5, <1>6, EntryFaultAtIs
  <2>3. Top.name = Blamed(input, walk, n, "reference_cycle")
    BY <1>5 DEF Blamed
  <2> QED BY <1>0, <2>1, <2>2, <2>3, ManifestFault DEF walk, n
<1>7. CASE Top.name \notin Elements(path) /\ NestedTooDeep
  <2>1. Eject("nesting_too_deep", Top.name, Top.depth)
    BY <1>7 DEF VisitEntry
  <2>2. EntryFaultAt(input, walk, n) = "nesting_too_deep"
    BY <1>2, <1>3, <1>5, <1>7, EntryFaultAtIs
  <2>3. Top.name = Blamed(input, walk, n, "nesting_too_deep")
    BY <1>5 DEF Blamed
  <2> QED BY <1>0, <2>1, <2>2, <2>3, ManifestFault DEF walk, n
<1>8. CASE Top.name \notin Elements(path) /\ ~NestedTooDeep
  <2> DEFINE f == [Top EXCEPT !.marks = TRUE, !.pc = "digest"]
  <2>1. Go(f) /\ count' = count
    BY <1>8 DEF VisitEntry
  <2>2. f.name = Top.name /\ f.pc = "digest" /\ f.at = Top.at
    BY <1>1 DEF IsFrame, FrameFields
  <2> HIDE DEF f
  <2>3. /\ NameAt(input, walk, n) \notin {NameAt(input, walk, j) : j \in 1..(n - 1)}
        /\ n <= MaxNesting + 1
    BY <1>0, <1>1, <1>2, <1>3, <1>5, <1>8
  <2>4. EntryFrame(input, walk, f, n)
    BY <1>1, <2>2, <2>3 DEF EntryFrame
  <2> QED BY <1>0, <1>4, <2>1, <2>2, <2>4, ManifestGoes DEF walk, n
<1> QED BY <1>6, <1>7, <1>8

LEMMA AllocateDigestExact ==
  ASSUME IInv, ManifestInv, AllocateDigest
  PROVE  ManifestInv'
<1> DEFINE walk == EntryWalk(input)
           n == Len(frames)
<1>0. At("manifest", "digest") /\ MaxNesting \in Nat
  BY ManifestAssumption DEF AllocateDigest
<1>1. /\ n \in Nat \ {0} /\ n \in 1..(MaxNesting + 2) /\ IsFrame(Top)
      /\ EntryFrame(input, walk, Top, n) /\ Top.pc = "digest"
      /\ Verified(input, frames, count) /\ Top = frames[n]
      /\ Guarded("manifest", Top) /\ app = "manifest" /\ frames # <<>>
      /\ input.pool \in Nat
  BY <1>0, ManifestTop
<1>2. held = n - 1
  <2>1. Stack("manifest", frames, path, held)
    BY <1>1 DEF IInv, Shape, Guarding
  <2>2. ~Top.owns
    BY <1>1 DEF Guarded, OwningPoints
  <2> QED BY <1>1, <2>1, <2>2 DEF Stack, Owned
<1>3. held < input.pool <=> ~(n > input.pool)
  BY <1>1, <1>2
<1>4. count = 0
  BY <1>1 DEF Verified
<1> HIDE DEF walk, n
<1>5. /\ Top.name = NameAt(input, walk, n)
      /\ NameAt(input, walk, n) \notin {NameAt(input, walk, j) : j \in 1..(n - 1)}
      /\ ~(n > MaxNesting + 1) /\ n <= MaxNesting + 1
  BY <1>0, <1>1 DEF EntryFrame
<1>6. CASE held < input.pool
  <2> DEFINE f == [Top EXCEPT !.owns = TRUE, !.pc = "parse"]
  <2>1. Go(f) /\ count' = count
    BY <1>6 DEF AllocateDigest
  <2>2. f.name = Top.name /\ f.pc = "parse" /\ f.at = Top.at
    BY <1>1 DEF IsFrame, FrameFields
  <2> HIDE DEF f
  <2>3. n <= input.pool
    BY <1>1, <1>3, <1>6
  <2>4. EntryFrame(input, walk, f, n)
    BY <1>1, <1>5, <2>2, <2>3 DEF EntryFrame
  <2> QED BY <1>0, <1>4, <2>1, <2>2, <2>4, ManifestGoes DEF walk, n
<1>7. CASE ~(held < input.pool)
  <2>1. Eject("digest_unavailable", "digest", Top.depth)
    BY <1>7 DEF AllocateDigest
  <2>2. EntryFaultAt(input, walk, n) = "digest_unavailable"
    BY <1>3, <1>5, <1>7, EntryFaultAtIs
  <2>3. "digest" = Blamed(input, walk, n, "digest_unavailable")
    BY DEF Blamed
  <2> QED BY <1>0, <2>1, <2>2, <2>3, ManifestFault DEF walk, n
<1> QED BY <1>6, <1>7

LEMMA ParseEntryExact ==
  ASSUME IInv, ManifestInv, ParseEntry
  PROVE  ManifestInv'
<1> DEFINE walk == EntryWalk(input)
           n == Len(frames)
           ref == input.entries[Top.at].ref
           fault == EntryFault(input, Top.at)
<1>0. At("manifest", "parse") /\ MaxNesting \in Nat
  BY ManifestAssumption DEF ParseEntry
<1>1. /\ n \in Nat \ {0} /\ n \in 1..(MaxNesting + 2) /\ IsFrame(Top)
      /\ EntryFrame(input, walk, Top, n) /\ Top.pc = "parse"
      /\ Verified(input, frames, count) /\ Top = frames[n]
      /\ app = "manifest" /\ frames # <<>> /\ Top.depth = n - 1
      /\ input.pool \in Nat /\ Len(input.entries) \in Nat
      /\ HeaderFault(input) = "none"
      /\ \A k \in 1..(n - 1) : EntryFaultAt(input, walk, k) = "none" /\ walk[k] # 0
  BY <1>0, ManifestTop
<1>2. count = 0 /\ count' = count
  BY <1>1 DEF Verified, ParseEntry
<1>3. \/ fault # "none" /\ Eject(fault, IF fault = "reference_missing" THEN ref ELSE Top.name,
                                 Top.depth)
      \/ fault = "none" /\ ref = NoName /\ Go([Top EXCEPT !.pc = "image"])
      \/ fault = "none" /\ ref # NoName
         /\ Enter([Top EXCEPT !.pc = "image"],
                  NewFrame(ref, Top.depth + 1, First(FindEntry(input, ref))))
  BY DEF ParseEntry
<1>4. \A i \in 2..(MaxNesting + 2) : walk[i] = NextEntry(input, walk[i - 1])
  BY EntryWalkIs
<1> HIDE DEF walk, n
<1>5. /\ Top.name = NameAt(input, walk, n) /\ Top.at = walk[n] /\ walk[n] # 0
      /\ NameAt(input, walk, n) \notin {NameAt(input, walk, j) : j \in 1..(n - 1)}
      /\ ~(n > MaxNesting + 1) /\ n <= MaxNesting + 1
      /\ n <= input.pool /\ ~(n > input.pool)
  BY <1>0, <1>1 DEF EntryFrame
<1>6. /\ fault # "digest_unavailable"
      /\ fault = "none" => ref = NoName \/ FindEntry(input, ref) # {}
  BY EntryFaultIs
<1>7. fault = EntryFault(input, walk[n]) /\ ref = input.entries[walk[n]].ref
  BY <1>5
<1> HIDE DEF fault, ref
<1>8. EntryFaultAt(input, walk, n) = fault
  BY <1>5, <1>7, EntryFaultAtIs
<1>9. CASE fault # "none"
  <2> DEFINE name == IF fault = "reference_missing" THEN ref ELSE Top.name
  <2>1. Eject(fault, name, Top.depth)
    BY <1>3, <1>9
  <2>2. name = Blamed(input, walk, n, fault)
    BY <1>5, <1>6, <1>7 DEF Blamed
  <2> HIDE DEF name
  <2> QED BY <1>0, <1>8, <1>9, <2>1, <2>2, ManifestFault DEF walk, n
<1>10. CASE fault = "none"
  <2> DEFINE f == [Top EXCEPT !.pc = "image"]
  <2>1. f.name = Top.name /\ f.pc = "image" /\ f.at = Top.at
    BY <1>1 DEF IsFrame, FrameFields
  <2>2. \/ ref = NoName /\ Go(f)
        \/ ref # NoName
           /\ Enter(f, NewFrame(ref, Top.depth + 1, First(FindEntry(input, ref))))
    BY <1>3, <1>10
  <2> HIDE DEF f
  <2>3. EntryFrame(input, walk, f, n)
    BY <1>1, <1>5, <1>7, <1>10, <2>1 DEF EntryFrame
  <2>4. CASE ref = NoName
    <3>1. NextEntry(input, walk[n]) = 0
      BY <1>7, <2>4 DEF NextEntry
    <3>2. ASSUME NEW j \in 1..n
          PROVE  walk[j] # 0 /\ EntryFaultAt(input, walk, j) = "none"
      <4>1. CASE j = n BY <1>5, <1>8, <1>10, <4>1
      <4>2. CASE j # n
        <5>1. j \in 1..(n - 1)
          BY <1>1, <4>2
        <5> QED BY <1>1, <5>1
      <4> QED BY <4>1, <4>2
    <3>3. n \in 1..(MaxNesting + 1)
      BY <1>0, <1>1, <1>5
    <3>4. Bottomed(input, n)
      BY <1>1, <3>1, <3>2, <3>3, ManifestBottom DEF walk
    <3> QED BY <1>0, <1>2, <2>2, <2>3, <2>4, <3>4, ManifestGoes DEF walk, n
  <2>5. CASE ref # NoName
    <3> DEFINE found == First(FindEntry(input, ref))
               g == NewFrame(ref, Top.depth + 1, found)
    <3>1. FindEntry(input, ref) # {}
      BY <1>6, <1>10, <2>5
    <3>2. found \in Nat \ {0} /\ input.entries[found].name = ref
      BY <1>1, <3>1, FirstFound
    <3>3. walk[n + 1] = found /\ n + 1 <= MaxNesting + 2
      <4>1. n + 1 \in 2..(MaxNesting + 2) /\ (n + 1) - 1 = n
        BY <1>0, <1>1, <1>5
      <4>2. walk[n + 1] = NextEntry(input, walk[n])
        BY <1>4, <4>1
      <4>3. NextEntry(input, walk[n]) = found
        BY <1>5, <1>7, <2>5, <3>1 DEF NextEntry
      <4> QED BY <1>0, <4>1, <4>2, <4>3
    <3>4. Enter(f, g)
      BY <2>2, <2>5
    <3>5. g.name = ref /\ g.pc = "enter" /\ g.at = found
      BY NewFrameIs
    <3> HIDE DEF found, g
    <3>6. EntryFrame(input, walk, g, n + 1)
      BY <3>2, <3>3, <3>5 DEF EntryFrame, NameAt
    <3> QED BY <1>0, <1>2, <2>3, <3>4, <3>5, <3>6, ManifestEnters DEF walk, n
  <2> QED BY <2>4, <2>5
<1> QED BY <1>9, <1>10

LEMMA VerifyImageExact ==
  ASSUME IInv, ManifestInv, VerifyImage
  PROVE  ManifestInv'
<1> DEFINE walk == EntryWalk(input)
           n == Len(frames)
<1>0. At("manifest", "image") /\ MaxNesting \in Nat
  BY ManifestAssumption DEF VerifyImage
<1>1. /\ n \in Nat \ {0} /\ n \in 1..(MaxNesting + 2)
      /\ EntryFrame(input, walk, Top, n) /\ Top.pc = "image"
      /\ Verified(input, frames, count) /\ Top = frames[n]
      /\ app = "manifest" /\ mode = "run" /\ frames # <<>> /\ Top.depth = n - 1
      /\ IsSeq(frames) /\ HeaderFault(input) = "none"
      /\ \A k \in 1..n : EntryFrame(input, walk, frames[k], k)
      /\ \A k \in 1..(n - 1) : frames[k].pc = "image"
      /\ input \in Manifests
  BY <1>0, ManifestTop
<1>2. PICK b \in Nat :
        /\ Bottomed(input, b) /\ n <= b /\ count = b - n
        /\ \A j \in (n + 1)..b : ImageFault(input, walk[j]) = "none"
  BY <1>1 DEF Verified
<1>3. Top.name = NameAt(input, walk, n) /\ Top.at = walk[n]
  BY <1>1 DEF EntryFrame
<1>4. CASE ImageFault(input, Top.at) # "none"
  <2>1. Eject(ImageFault(input, Top.at), Top.name, Top.depth)
    BY <1>4 DEF VerifyImage
  <2>2. n \in 1..b
    BY <1>1, <1>2
  <2> HIDE DEF n
  <2>3. Verification(input) =
          Failed(ImageFault(input, walk[n]), n - 1, NameAt(input, walk, n))
    BY <1>2, <1>3, <1>4, <2>2, ManifestSpoilt
  <2> QED BY <1>1, <1>3, <2>1, <2>3, ManifestEject
<1>5. CASE ImageFault(input, Top.at) = "none"
  <2>1. count' = count + 1 /\ (SucceedAs(Reply(Success(count', <<>>))) \/ ReturnTo(Caller))
    BY <1>5 DEF VerifyImage
  <2> HIDE DEF walk
  <2>2. ASSUME NEW j \in n..b PROVE ImageFault(input, walk[j]) = "none"
    <3> HIDE DEF n
    <3>1. CASE j = n BY <1>3, <1>5, <3>1
    <3>2. CASE j # n
      <4>1. j \in (n + 1)..b
        BY <1>1, <3>2
      <4> QED BY <1>2, <4>1
    <3> QED BY <3>1, <3>2
  <2>3. CASE SucceedAs(Reply(Success(count', <<>>)))
    <3>1. /\ app' = app /\ input' = input /\ mode' = "idle" /\ n = 1
          /\ verdict' = Answer(input, Completed(count', <<>>))
      BY <1>1, <2>3, ReplyIs DEF SucceedAs, Success, Completed
    <3>2. count' = b
      BY <1>2, <2>1, <3>1
    <3>3. \A j \in 1..b : ImageFault(input, walk[j]) = "none"
      BY <2>2, <3>1
    <3>4. Verification(input) = Completed(b, <<>>)
      BY <1>2, <3>3, ManifestCompletes DEF walk
    <3> QED BY <1>1, <3>1, <3>2, <3>4 DEF ManifestInv, ManifestVerdict
  <2>4. CASE ReturnTo(Caller)
    <3>1. /\ app' = app /\ input' = input /\ mode' = mode
          /\ n > 1 /\ frames' = Append(Front(Front(frames)), Caller)
          /\ Caller = frames[n - 1]
      BY <2>4 DEF ReturnTo, Caller
    <3>2. /\ Len(frames') = n - 1 /\ frames'[n - 1] = Caller
          /\ \A i \in 1..(n - 2) : frames'[i] = frames[i]
      <4>1. Returned(frames, frames', Caller)
        BY <1>1, <3>1, ReturnStack
      <4> QED BY <4>1 DEF Returned
    <3> HIDE DEF n
    <3>3. ASSUME NEW k \in 1..Len(frames') PROVE frames'[k] = frames[k] /\ k \in 1..n
      <4>1. CASE k = n - 1 BY <1>1, <3>1, <3>2, <4>1
      <4>2. CASE k # n - 1
        <5>1. k \in 1..(n - 2) /\ k \in 1..n
          BY <1>1, <3>1, <3>2, <4>2
        <5> QED BY <3>2, <5>1
      <4> QED BY <4>1, <4>2
    <3>4. \A k \in 1..Len(frames') : EntryFrame(input, walk, frames'[k], k)
      BY <1>1, <3>3
    <3>5. frames'[Len(frames')].pc = "image"
      <4>1. n - 1 \in 1..(n - 1)
        BY <1>1, <3>1
      <4> QED BY <1>1, <3>1, <3>2, <4>1
    <3>6. Verified(input, frames', count')
      <4> DEFINE m == Len(frames')
      <4>1. m <= b /\ count' = b - m /\ m + 1 = n
        <5>1. n \in Nat /\ n > 1 /\ n <= b /\ m = n - 1
          BY <1>1, <1>2, <3>1, <3>2
        <5>2. count = b - n /\ count' = count + 1
          BY <1>2, <2>1
        <5> HIDE DEF m
        <5> QED BY <5>1, <5>2
      <4>2. \A j \in (m + 1)..b : ImageFault(input, EntryWalk(input)[j]) = "none"
        BY <2>2, <4>1 DEF walk
      <4> QED BY <1>2, <3>5, <4>1, <4>2 DEF Verified
    <3>7. ManifestDescent(input, frames', count')
      BY <1>1, <3>4, <3>6 DEF ManifestDescent, walk
    <3> QED BY <1>1, <3>1, <3>7, ManifestRuns
  <2> QED BY <2>1, <2>3, <2>4
<1> QED BY <1>4, <1>5

LEMMA EntryUnwindExact ==
  ASSUME IInv, ManifestInv, EntryUnwind
  PROVE  ManifestInv'
<1>1. /\ app = "manifest" /\ mode = "escape" /\ app' = app /\ input' = input
      /\ mode' = mode /\ fault_name' = fault_name /\ payload' = payload
  BY DEF EntryUnwind, Leave
<1>2. Underway' = Underway
  BY <1>1 DEF Underway
<1> QED BY <1>1, <1>2 DEF ManifestInv

LEMMA ManifestLandExact ==
  ASSUME IInv, ManifestInv, ManifestLand
  PROVE  ManifestInv'
<1>1. /\ app = "manifest" /\ mode \in {"escape", "fail"} /\ app' = app /\ input' = input
      /\ mode' = "idle" /\ verdict' = Reply(Failure(fault_name))
  BY DEF ManifestLand, LandAs
<1>2. /\ Verification(input) = Underway /\ payload.hops = 0 /\ input \in Manifests
  BY <1>1 DEF ManifestInv
<1>3. Failure(fault_name) = Underway
  BY <1>2, LandedIs DEF Underway, Failure
<1>4. verdict' = ManifestVerdict(input)
  BY <1>1, <1>2, <1>3, ReplyIs DEF ManifestVerdict
<1> QED BY <1>1, <1>2, <1>4 DEF ManifestInv

LEMMA ManifestExact ==
  ASSUME IInv, ManifestInv, ManifestNext
  PROVE  ManifestInv'
BY VerifyHeaderExact, VisitEntryExact, AllocateDigestExact, ParseEntryExact,
   VerifyImageExact, EntryUnwindExact, ManifestLandExact DEF ManifestNext

-----------------------------------------------------------------------------
(* Failures that return level by level.                                    *)

Reported(f, name, h) == [Failed(f, 0, name) EXCEPT !.hops = h]

\* What the failure under way will be reported as: every frame left adds a hop.
Returning ==
  Reported(payload.fault, fault_name,
           IF held = 1 THEN Shorter(payload.hops + Len(frames)) ELSE NoContext)
IsPayload(p) ==
  /\ p = [fault |-> p.fault, depth |-> p.depth, hops |-> p.hops]
  /\ p.hops \in 0..MaxChain

LEMMA ReportedIs ==
  ASSUME NEW f, NEW n, NEW h
  PROVE  [NoVerdict EXCEPT !.fault = f, !.name = n, !.hops = h] = Reported(f, n, h)
<1> DEFINE u == [NoVerdict EXCEPT !.fault = f, !.name = n, !.hops = h]
           w == Failed(f, 0, n)
           v == [w EXCEPT !.hops = h]
<1>1. /\ IsVerdict(u) /\ u.ok = NoVerdict.ok /\ u.fault = f /\ u.depth = 0
      /\ u.hops = h /\ u.name = n /\ u.count = 0 /\ u.out = <<>>
  BY NoVerdictIs DEF IsVerdict, VerdictFields
<1>2. /\ IsVerdict(w) /\ w.ok = NoVerdict.ok /\ w.fault = f /\ w.depth = 0
      /\ w.hops = 0 /\ w.name = n /\ w.count = 0 /\ w.out = <<>>
  BY FailedIs
<1> HIDE DEF w
<1>3. /\ IsVerdict(v) /\ v.ok = NoVerdict.ok /\ v.fault = f /\ v.depth = 0
      /\ v.hops = h /\ v.name = n /\ v.count = 0 /\ v.out = <<>>
  BY <1>2 DEF IsVerdict, VerdictFields
<1> HIDE DEF u, v
<1>4. u = v
  BY <1>1, <1>3, SameVerdict
<1> QED BY <1>4 DEF u, v, w, Reported

\* A JMPXX_TRY passes the failure on as it is.
LEMMA TryExact ==
  ASSUME IInv, IsPayload(payload), TryReturns(MaxChain)
  PROVE  Returning' = Returning /\ IsPayload(payload')
<1> DEFINE n == Len(frames)
           h == payload.hops
<1>0. MaxChain \in Nat
  BY SceneAssumption
<1>1. /\ frames # <<>> /\ frames' = Front(frames) /\ held' = held
      /\ fault_name' = fault_name
      /\ payload' = IF held = 1 /\ payload.hops < MaxChain
                    THEN [payload EXCEPT !.hops = @ + 1] ELSE payload
  BY DEF TryReturns, Leave
<1>2. IsSeq(frames)
  BY DEF IInv, Shape, Levels
<1>3. Len(frames') = n - 1 /\ n \in Nat \ {0}
  BY <1>1, <1>2, FrontOf
<1>4. h \in 0..MaxChain
  BY DEF IsPayload
<1>5. CASE held = 1 /\ h < MaxChain
  <2>1. payload' = [payload EXCEPT !.hops = h + 1]
    BY <1>1, <1>5
  <2>2. /\ payload'.fault = payload.fault /\ payload'.depth = payload.depth
        /\ payload'.hops = h + 1
        /\ payload' = [fault |-> payload.fault, depth |-> payload.depth, hops |-> h + 1]
    BY <2>1 DEF IsPayload
  <2>3. h + 1 \in 0..MaxChain /\ (h + 1) + (n - 1) = h + n
    BY <1>0, <1>3, <1>4, <1>5
  <2> HIDE DEF h, n
  <2>4. IsPayload(payload')
    BY <2>2, <2>3 DEF IsPayload
  <2>5. payload'.hops + Len(frames') = h + n
    BY <1>3, <2>2, <2>3
  <2> QED BY <1>1, <2>2, <2>4, <2>5 DEF Returning, h, n
<1>6. CASE ~(held = 1 /\ h < MaxChain)
  <2>1. payload' = payload
    BY <1>1, <1>6
  <2>2. CASE held = 1
    <3>1. h = MaxChain
      BY <1>0, <1>4, <1>6, <2>2
    <3>2. Shorter(h + n) = MaxChain /\ Shorter(h + (n - 1)) = MaxChain
      <4> HIDE DEF h, n
      <4> QED BY <1>0, <1>3, <3>1 DEF Shorter
    <3> QED BY <1>1, <1>3, <2>1, <2>2, <3>2 DEF Returning
  <2>3. CASE held # 1
    BY <1>1, <2>1, <2>3 DEF Returning
  <2> QED BY <2>1, <2>2, <2>3
<1> QED BY <1>5, <1>6

\* And the boundary of the call reports it.
LEMMA ReturnedExact ==
  ASSUME IInv, IsPayload(payload), frames = <<>>,
         verdict' = [NoVerdict EXCEPT !.fault = payload.fault, !.name = fault_name,
                        !.hops = IF held = 1 THEN payload.hops ELSE NoContext]
  PROVE  verdict' = Returning
<1>0. MaxChain \in Nat
  BY SceneAssumption
<1>1. payload.hops \in 0..MaxChain /\ Len(frames) = 0
  BY EmptyIsSeq DEF IsPayload
<1>2. Shorter(payload.hops + Len(frames)) = payload.hops
  BY <1>0, <1>1 DEF Shorter
<1> QED BY <1>2, ReportedIs DEF Returning

-----------------------------------------------------------------------------
(* The configuration checker.                                              *)

\* Check number i fails.
Fails(file, i) == ConfigChecks(file)[i][1]

LEMMA ConfigFails ==
  ASSUME NEW file, NEW j \in 1..13, Fails(file, j),
         \A i \in 1..(j - 1) : ~Fails(file, i)
  PROVE  ConfigVerdict(file) =
           Reported(ConfigChecks(file)[j][2], ConfigChecks(file)[j][3],
                    IF file.rich THEN Shorter(ConfigChecks(file)[j][4]) ELSE NoContext)
<1> DEFINE failing == {i \in 1..13 : ConfigChecks(file)[i][1]}
<1>1. j \in failing /\ failing \subseteq Int
  BY DEF Fails
<1>2. ASSUME NEW i \in failing PROVE j <= i
  <2>1. i \in 1..13 /\ i \notin 1..(j - 1)
    BY DEF Fails
  <2> QED BY <2>1
<1> HIDE DEF failing
<1>3. Least(failing) = j
  BY <1>1, <1>2, LeastIs
<1>4. failing # {}
  BY <1>1
<1> QED BY <1>3, <1>4, Zenon DEF ConfigVerdict, failing, Reported

LEMMA ConfigCompletes ==
  ASSUME NEW file, \A i \in 1..13 : ~Fails(file, i)
  PROVE  ConfigVerdict(file) = Completed(0, <<>>)
<1> DEFINE failing == {i \in 1..13 : ConfigChecks(file)[i][1]}
<1>1. failing = {}
  BY DEF Fails
<1> HIDE DEF failing
<1> QED BY <1>1, Zenon DEF ConfigVerdict, failing

LEMMA ChecksAre ==
  ASSUME NEW file
  PROVE  /\ Fails(file, 1) <=> file.file # "good"
         /\ Fails(file, 2) <=> file.host # "good"
         /\ Fails(file, 3) <=> file.port = "absent"
         /\ Fails(file, 4) <=> file.port = "outside"
         /\ Fails(file, 5) <=> file.workers = "absent"
         /\ Fails(file, 6) <=> file.workers = "outside"
         /\ Fails(file, 7) <=> file.limits # "good"
         /\ Fails(file, 8) <=> file.max_connections = "absent"
         /\ Fails(file, 9) <=> file.max_connections = "outside"
         /\ Fails(file, 10) <=> file.timeout_ms = "absent"
         /\ Fails(file, 11) <=> file.timeout_ms = "outside"
         /\ Fails(file, 12) <=> file.access = "absent"
         /\ Fails(file, 13) <=> file.access = "outside"
BY DEF Fails, ConfigChecks

LEMMA ReportsAre ==
  ASSUME NEW file
  PROVE  LET c == ConfigChecks(file)
         IN  /\ c[1][2] = "parse" /\ c[1][3] = "file" /\ c[1][4] = 0
             /\ c[2][2] = "missing" /\ c[2][3] = "server" /\ c[2][4] = 1
             /\ c[3][2] = "missing" /\ c[3][3] = "server" /\ c[3][4] = 2
             /\ c[4][2] = "out_of_range" /\ c[4][3] = "server" /\ c[4][4] = 1
             /\ c[5][2] = "missing" /\ c[5][3] = "server" /\ c[5][4] = 2
             /\ c[6][2] = "out_of_range" /\ c[6][3] = "server" /\ c[6][4] = 1
             /\ c[7][2] = "missing_section" /\ c[7][3] = "limits" /\ c[7][4] = NoContext
             /\ c[8][2] = "missing_key" /\ c[8][3] = "limits" /\ c[8][4] = NoContext
             /\ c[9][2] = "limit_out_of_range" /\ c[9][3] = "limits" /\ c[9][4] = NoContext
             /\ c[10][2] = "missing_key" /\ c[10][3] = "limits" /\ c[10][4] = NoContext
             /\ c[11][2] = "limit_out_of_range" /\ c[11][3] = "limits" /\ c[11][4] = NoContext
             /\ c[12][2] = "missing" /\ c[12][3] = "policy" /\ c[12][4] = 0
             /\ c[13][2] = "json" /\ c[13][3] = "policy" /\ c[13][4] = NoContext
BY DEF ConfigChecks

\* The checks behind a section's frame, in their order.
ConfigPassed(f) ==
  CASE f.name = "server" -> (IF f.at = 1 THEN 1 ELSE IF f.at = 2 THEN 2 ELSE 4)
    [] f.name = "limits" -> 6
    [] OTHER -> 11

ConfigDescent(file, fs) ==
  /\ \A i \in 1..ConfigPassed(fs[1]) : ~Fails(file, i)
  /\ Len(fs) = 2 => fs[2].name = ServerFields[fs[1].at]

ConfigInv ==
  app = "config" =>
    /\ mode # "idle" \/ verdict # NoVerdict => input \in Files
    /\ mode = "run" => ConfigDescent(input, frames)
    /\ mode = "fail" => ConfigVerdict(input) = Returning /\ IsPayload(payload)
    /\ mode # "escape"
    /\ mode = "idle" /\ verdict # NoVerdict => verdict = ConfigVerdict(input)

\* Check j is the first to fail, as the code reports it.
LEMMA ConfigRaises ==
  ASSUME ConfigInv, app = "config", mode \in {"begin", "run"}, app' = app, input' = input,
         NEW j \in 1..13, Fails(input, j), \A i \in 1..(j - 1) : ~Fails(input, i),
         NEW f, NEW name, f = ConfigChecks(input)[j][2], name = ConfigChecks(input)[j][3],
         mode' = "fail", payload' = [fault |-> f, depth |-> 0, hops |-> 0],
         fault_name' = name, Len(frames') \in Nat,
         \/ held' = PolicyRecord /\ ConfigChecks(input)[j][4] = Len(frames')
         \/ held' = 0 /\ ConfigChecks(input)[j][4] = NoContext
  PROVE  ConfigInv'
<1> DEFINE h == IF input.rich THEN Shorter(ConfigChecks(input)[j][4]) ELSE NoContext
<1>0. MaxChain \in Nat
  BY SceneAssumption
<1>1. ConfigVerdict(input) = Reported(f, name, h)
  BY ConfigFails
<1>2. payload'.fault = f /\ payload'.hops = 0 /\ payload'.depth = 0
  OBVIOUS
<1>3. IsPayload(payload')
  BY <1>0 DEF IsPayload
<1>4. h = IF held' = 1 THEN Shorter(payload'.hops + Len(frames')) ELSE NoContext
  <2>1. CASE held' = PolicyRecord /\ ConfigChecks(input)[j][4] = Len(frames')
    <3>1. payload'.hops + Len(frames') = Len(frames')
      BY <1>2
    <3>2. held' = 1 <=> input.rich
      BY <2>1 DEF PolicyRecord
    <3> QED BY <2>1, <3>1, <3>2
  <2>2. CASE held' = 0 /\ ConfigChecks(input)[j][4] = NoContext
    <3>1. Shorter(NoContext) = NoContext
      BY <1>0 DEF Shorter, NoContext
    <3> QED BY <2>2, <3>1
  <2> QED BY <2>1, <2>2
<1> HIDE DEF h
<1>5. Returning' = Reported(f, name, h)
  BY <1>2, <1>4 DEF Returning
<1>6. input \in Files
  BY DEF ConfigInv
<1> QED BY <1>1, <1>3, <1>5, <1>6 DEF ConfigInv

LEMMA ConfigRuns ==
  ASSUME ConfigInv, app = "config", mode \in {"begin", "run"}, app' = app, input' = input,
         mode' = "run", ConfigDescent(input, frames')
  PROVE  ConfigInv'
BY DEF ConfigInv

LEMMA ConfigTop ==
  ASSUME IInv, ConfigInv, At("config", "enter")
  PROVE  /\ app = "config" /\ mode = "run" /\ frames # <<>> /\ IsSeq(frames)
         /\ Len(frames) \in {1, 2} /\ Top = frames[Len(frames)] /\ IsFrame(Top)
         /\ Sections(frames) /\ ConfigDescent(input, frames)
         /\ input \in Files /\ Levels(frames)
<1>1. app = "config" /\ mode = "run" /\ frames # <<>>
  BY DEF At
<1>2. Levels(frames) /\ Sections(frames)
  BY <1>1 DEF IInv, Shape
<1>3. Len(frames) \in Nat /\ Len(frames) # 0 /\ Len(frames) <= 2 /\ IsFrame(frames[Len(frames)])
      /\ IsSeq(frames)
  BY <1>1, <1>2, LevelsLength DEF Sections
<1>4. Len(frames) \in {1, 2}
  <2>1. \A n \in Nat : n # 0 /\ n <= 2 => n = 1 \/ n = 2
    OBVIOUS
  <2>2. Len(frames) = 1 \/ Len(frames) = 2
    BY <1>3, <2>1
  <2> QED BY <2>2
<1> QED BY <1>1, <1>2, <1>3, <1>4 DEF ConfigInv, Top

LEMMA ThreeJoined ==
  ASSUME NEW a, NEW b, NEW c
  PROVE  <<a>> \o <<b, c>> = <<a, b, c>>
<1> DEFINE E == {a, b, c}
           u == <<a>>
           v == <<b, c>>
           w == <<a, b, c>>
           t == u \o v
<1>1. u \in Seq(E) /\ v \in Seq(E) /\ w \in Seq(E)
  OBVIOUS
<1>2. /\ Len(u) = 1 /\ Len(v) = 2 /\ Len(w) = 3 /\ u[1] = a /\ v[1] = b /\ v[2] = c
      /\ w[1] = a /\ w[2] = b /\ w[3] = c
  OBVIOUS
<1> HIDE DEF u, v, w, E
<1>3. /\ t \in Seq(E) /\ Len(t) = Len(u) + Len(v)
      /\ \A i \in 1..(Len(u) + Len(v)) :
           t[i] = IF i <= Len(u) THEN u[i] ELSE v[i - Len(u)]
  BY <1>1, ConcatProperties
<1> HIDE DEF t
<1>4. Len(t) = 3 /\ t[1] = a /\ t[2] = b /\ t[3] = c
  BY <1>2, <1>3
<1>5. \A i \in 1..Len(t) : t[i] = w[i]
  BY <1>2, <1>4
<1>6. t = w
  BY <1>1, <1>2, <1>3, <1>4, <1>5, SeqEqual
<1> QED BY <1>6 DEF t, u, v, w

LEMMA LimitsFaultIs ==
  ASSUME input \in Files
  PROVE  LimitsFault =
           IF input.limits # "good" THEN "missing_section"
           ELSE IF input.max_connections = "absent" THEN "missing_key"
           ELSE IF input.max_connections = "outside" THEN "limit_out_of_range"
           ELSE IF input.timeout_ms = "absent" THEN "missing_key"
           ELSE IF input.timeout_ms = "outside" THEN "limit_out_of_range"
           ELSE "none"
<1> DEFINE fault(f) == CASE input[f] = "absent" -> "missing_key"
                         [] input[f] = "outside" -> "limit_out_of_range"
                         [] OTHER -> "none"
           c1 == input.limits # "good"
           c2 == input.max_connections # "good"
           c3 == input.timeout_ms # "good"
           f2 == fault("max_connections")
           f3 == fault("timeout_ms")
           t == [i \in 1..Len(LimitFields) |->
                   <<input[LimitFields[i]] # "good", fault(LimitFields[i])>>]
           s == <<<<c1, "missing_section">>>>
<1>1. LimitsFault = FirstFault(s \o t)
  BY DEF LimitsFault
<1>2. t = <<<<c2, f2>>, <<c3, f3>>>>
  <2>1. Len(LimitFields) = 2 /\ LimitFields[1] = "max_connections"
        /\ LimitFields[2] = "timeout_ms"
    BY DEF LimitFields
  <2>2. t[1] = <<c2, f2>> /\ t[2] = <<c3, f3>>
    BY <2>1
  <2>3. t = [i \in 1..2 |-> t[i]]
    BY <2>1
  <2> HIDE DEF t, c2, c3, f2, f3
  <2> QED BY <2>2, <2>3
<1> HIDE DEF t, c1, c2, c3, f2, f3
<1>3. s \o t = <<<<c1, "missing_section">>, <<c2, f2>>, <<c3, f3>>>>
  <2> DEFINE x == <<c1, "missing_section">>
             y == <<c2, f2>>
             z == <<c3, f3>>
  <2>1. t = <<y, z>> /\ s = <<x>>
    BY <1>2
  <2> HIDE DEF x, y, z
  <2>2. s \o t = <<x, y, z>>
    BY <2>1, ThreeJoined
  <2> QED BY <2>2 DEF x, y, z
<1> HIDE DEF s
<1>a. LimitsFault = FirstFault(<<<<c1, "missing_section">>, <<c2, f2>>, <<c3, f3>>>>)
  BY <1>1, <1>3
<1>4. LimitsFault = IF c1 THEN "missing_section" ELSE IF c2 THEN f2 ELSE IF c3 THEN f3
                    ELSE "none"
  BY <1>a, FirstFault3
<1>5. /\ input.max_connections \in Fields /\ input.timeout_ms \in Fields
  BY InputAssumption
<1> QED BY <1>4, <1>5 DEF c1, c2, c3, f2, f3, Fields

LEMMA LoadExact ==
  ASSUME ConfigInv, NEW f \in Files, Load(f)
  PROVE  ConfigInv'
<1>1. app' = "config" /\ input' = f /\ mode' = "begin"
  BY DEF Load, Begin
<1> QED BY <1>1 DEF ConfigInv

LEMMA ParseFileExact ==
  ASSUME IInv, ConfigInv, ParseFile
  PROVE  ConfigInv'
<1>1. app = "config" /\ mode = "begin" /\ frames = <<>> /\ Len(frames) = 0
  BY EmptyIsSeq DEF ParseFile, IInv, Control
<1>2. CASE input.file # "good"
  <2>1. /\ app' = app /\ input' = input /\ mode' = "fail" /\ frames' = frames
        /\ payload' = [fault |-> "parse", depth |-> 0, hops |-> 0]
        /\ fault_name' = "file" /\ held' = PolicyRecord
    BY <1>2 DEF ParseFile, FailBelow, Raise
  <2>2. Fails(input, 1) /\ \A i \in 1..(1 - 1) : ~Fails(input, i)
    BY <1>2, ChecksAre
  <2>3. /\ ConfigChecks(input)[1][2] = "parse" /\ ConfigChecks(input)[1][3] = "file"
        /\ ConfigChecks(input)[1][4] = Len(frames') /\ Len(frames') \in Nat
    BY <1>1, <2>1, ReportsAre
  <2> QED BY <1>1, <2>1, <2>2, <2>3, ConfigRaises
<1>3. CASE input.file = "good"
  <2> DEFINE f == NewFrame("server", 0, 1)
  <2>1. /\ app' = app /\ input' = input /\ mode' = "run" /\ frames' = <<f>>
    BY <1>3 DEF ParseFile
  <2>2. f.name = "server" /\ f.at = 1
    BY NewFrameIs
  <2> HIDE DEF f
  <2>3. Len(frames') = 1 /\ frames'[1] = f
    BY <2>1
  <2>4. ConfigPassed(f) = 1
    BY <2>2 DEF ConfigPassed
  <2>5. \A i \in 1..1 : ~Fails(input, i)
    BY <1>3, ChecksAre
  <2>6. ConfigDescent(input, frames')
    BY <2>3, <2>4, <2>5 DEF ConfigDescent
  <2> QED BY <1>1, <2>1, <2>6, ConfigRuns
<1> QED BY <1>2, <1>3

LEMMA ServerFieldsAre ==
  ServerFields[1] = "host" /\ ServerFields[2] = "port" /\ ServerFields[3] = "workers"
  /\ Len(ServerFields) = 3
BY DEF ServerFields

LEMMA ValidateFieldExact ==
  ASSUME IInv, ConfigInv, ValidateField
  PROVE  ConfigInv'
<1> DEFINE field == ServerFields[Top.at]
<1>0. At("config", "enter") /\ Top.name = "server"
  BY DEF ValidateField
<1>1. /\ app = "config" /\ mode = "run" /\ frames # <<>> /\ IsSeq(frames)
      /\ IsFrame(Top) /\ ConfigDescent(input, frames) /\ Top = frames[Len(frames)]
  BY <1>0, ConfigTop
<1>2. Len(frames) = 1 /\ Top.at \in 1..3
  BY <1>0, SectionTop
<1>3. Top = frames[1]
  BY <1>1, <1>2
<1>4. \A i \in 1..ConfigPassed(Top) : ~Fails(input, i)
  BY <1>1, <1>3 DEF ConfigDescent
<1>5. CASE field = "host" /\ input.host # "good"
  <2>1. Top.at = 1
    BY <1>2, <1>5, ServerFieldsAre
  <2>2. ConfigPassed(Top) = 1
    BY <1>0, <2>1 DEF ConfigPassed
  <2>3. FailBelow("missing", "server", 0, PolicyRecord)
    BY <1>5 DEF ValidateField
  <2>4. /\ app' = app /\ input' = input /\ mode' = "fail" /\ frames' = frames
        /\ payload' = [fault |-> "missing", depth |-> 0, hops |-> 0]
        /\ fault_name' = "server" /\ held' = PolicyRecord
    BY <2>3 DEF FailBelow, Raise
  <2>5. Fails(input, 2) /\ \A i \in 1..(2 - 1) : ~Fails(input, i)
    BY <1>4, <1>5, <2>2, ChecksAre
  <2>6. /\ ConfigChecks(input)[2][2] = "missing" /\ ConfigChecks(input)[2][3] = "server"
        /\ ConfigChecks(input)[2][4] = Len(frames') /\ Len(frames') \in Nat
    BY <1>2, <2>4, ReportsAre
  <2> QED BY <1>1, <2>4, <2>5, <2>6, ConfigRaises
<1>6. CASE field = "host" /\ input.host = "good"
  <2> DEFINE f == [Top EXCEPT !.at = Top.at + 1]
  <2>1. Top.at = 1
    BY <1>2, <1>6, ServerFieldsAre
  <2>2. ConfigPassed(Top) = 1
    BY <1>0, <2>1 DEF ConfigPassed
  <2>3. Go(f)
    BY <1>6 DEF ValidateField
  <2>4. f.name = "server" /\ f.at = 2
    BY <1>0, <1>1, <2>1 DEF IsFrame, FrameFields
  <2> HIDE DEF f
  <2>5. /\ app' = app /\ input' = input /\ mode' = mode /\ Tops(frames, frames', f)
    BY <1>1, <2>3, GoTops DEF Go
  <2>6. Len(frames') = 1 /\ frames'[1] = f
    BY <1>2, <2>5 DEF Tops
  <2>7. ConfigPassed(f) = 2
    BY <2>4 DEF ConfigPassed
  <2>8. ~Fails(input, 1) /\ ~Fails(input, 2)
    BY <1>4, <1>6, <2>2, ChecksAre
  <2>9. \A i \in 1..2 : ~Fails(input, i)
    BY <2>8
  <2>10. ConfigDescent(input, frames')
    BY <2>6, <2>7, <2>9 DEF ConfigDescent
  <2> QED BY <1>1, <2>5, <2>10, ConfigRuns
<1>7. CASE field # "host"
  <2> DEFINE g == NewFrame(field, 1, 1)
  <2>1. Enter(Top, g)
    BY <1>7 DEF ValidateField
  <2>2. g.name = field
    BY NewFrameIs
  <2>3. field = ServerFields[Top.at]
    OBVIOUS
  <2> HIDE DEF g, field
  <2>4. /\ app' = app /\ input' = input /\ mode' = mode
        /\ Entered(frames, frames', Top, g)
    BY <1>1, <2>1, EnterStack DEF Enter
  <2>5. Len(frames') = 2 /\ frames'[1] = Top /\ frames'[2] = g
    BY <1>2, <2>4 DEF Entered
  <2>6. ConfigDescent(input, frames')
    BY <1>4, <2>2, <2>3, <2>5 DEF ConfigDescent
  <2> QED BY <1>1, <2>4, <2>6, ConfigRuns
<1> QED BY <1>5, <1>6, <1>7 DEF ValidateField

LEMMA FieldIntExact ==
  ASSUME IInv, ConfigInv, FieldInt
  PROVE  ConfigInv'
<1>0. At("config", "enter") /\ Top.name \in {"port", "workers"}
  BY DEF FieldInt
<1>1. /\ app = "config" /\ mode = "run" /\ frames # <<>> /\ IsSeq(frames)
      /\ Sections(frames) /\ Levels(frames)
      /\ IsFrame(Top) /\ ConfigDescent(input, frames) /\ Top = frames[Len(frames)]
      /\ Len(frames) \in {1, 2}
  BY <1>0, ConfigTop
<1>a. CASE Len(frames) = 1
  \* The first frame is a section; a field alone cannot return.
  <2>1. Top = frames[1] /\ ConfigPassed(Top) = 11
    BY <1>0, <1>1, <1>a DEF ConfigPassed
  <2>2. \A i \in 1..11 : ~Fails(input, i)
    BY <1>1, <2>1 DEF ConfigDescent
  <2>3. ~Fails(input, 3) /\ ~Fails(input, 4) /\ ~Fails(input, 5) /\ ~Fails(input, 6)
    BY <2>2
  <2>4. /\ input.port # "absent" /\ input.port # "outside"
        /\ input.workers # "absent" /\ input.workers # "outside"
    BY <2>3, ChecksAre
  <2>5. input[Top.name] # "absent" /\ input[Top.name] # "outside"
    BY <1>0, <2>4
  <2>6. Len(frames) > 1
    BY <2>5 DEF FieldInt, ReturnTo
  <2> QED BY <1>a, <2>6
<1>b. CASE Len(frames) = 2
  <2>0. Caller = frames[1] /\ Top = frames[2] /\ frames[1].name = "server"
        /\ frames[1].at \in 1..3 /\ IsFrame(Caller) /\ Top.name = ServerFields[Caller.at]
    BY <1>1, <1>b, CallerIs DEF Caller, Sections, ConfigDescent
  <2> DEFINE p == ConfigPassed(Caller)
             j == IF Caller.at = 2 THEN 3 ELSE 5
  <2>1. Caller.at \in {2, 3} /\ Top.name = (IF Caller.at = 2 THEN "port" ELSE "workers")
    BY <1>0, <2>0, ServerFieldsAre
  <2>2. \A i \in 1..p : ~Fails(input, i)
    BY <1>1, <2>0 DEF ConfigDescent
  <2>3. p = (IF Caller.at = 2 THEN 2 ELSE 4) /\ p = j - 1 /\ j \in 1..13 /\ j + 1 \in 1..13
    BY <2>0, <2>1 DEF ConfigPassed
  <2>4. /\ Fails(input, j) <=> input[Top.name] = "absent"
        /\ Fails(input, j + 1) <=> input[Top.name] = "outside"
    BY <2>1, ChecksAre
  <2>5. /\ ConfigChecks(input)[j][2] = "missing" /\ ConfigChecks(input)[j][3] = "server"
        /\ ConfigChecks(input)[j][4] = 2
        /\ ConfigChecks(input)[j + 1][2] = "out_of_range"
        /\ ConfigChecks(input)[j + 1][3] = "server"
        /\ ConfigChecks(input)[j + 1][4] = 1
    BY <2>1, ReportsAre
  <2> HIDE DEF p, j
  <2>6. CASE input[Top.name] = "absent"
    <3>1. FailBelow("missing", "server", 0, PolicyRecord)
      BY <2>6 DEF FieldInt
    <3>2. /\ app' = app /\ input' = input /\ mode' = "fail" /\ frames' = frames
          /\ payload' = [fault |-> "missing", depth |-> 0, hops |-> 0]
          /\ fault_name' = "server" /\ held' = PolicyRecord
      BY <3>1 DEF FailBelow, Raise
    <3>3. Fails(input, j) /\ \A i \in 1..(j - 1) : ~Fails(input, i)
      BY <2>2, <2>3, <2>4, <2>6
    <3>4. ConfigChecks(input)[j][4] = Len(frames') /\ Len(frames') \in Nat
      BY <1>b, <2>5, <3>2
    <3> QED BY <1>1, <2>3, <2>5, <3>2, <3>3, <3>4, ConfigRaises
  <2>7. CASE input[Top.name] = "outside"
    <3>1. FailHere("out_of_range", "server", 0, PolicyRecord)
      BY <2>7 DEF FieldInt
    <3>2. /\ app' = app /\ input' = input /\ mode' = "fail" /\ frames' = Front(frames)
          /\ payload' = [fault |-> "out_of_range", depth |-> 0, hops |-> 0]
          /\ fault_name' = "server" /\ held' = PolicyRecord
      BY <3>1 DEF FailHere
    <3>3. ~Fails(input, j)
      BY <2>4, <2>7
    <3>4. Fails(input, j + 1) /\ \A i \in 1..((j + 1) - 1) : ~Fails(input, i)
      BY <2>2, <2>3, <2>4, <2>7, <3>3
    <3>5. Len(frames') = 1
      <4>1. Len(Front(frames)) = Len(frames) - 1
        BY <1>1, FrontOf
      <4> QED BY <1>b, <3>2, <4>1
    <3>6. ConfigChecks(input)[j + 1][4] = Len(frames') /\ Len(frames') \in Nat
      BY <2>5, <3>5
    <3> QED BY <1>1, <2>3, <2>5, <3>2, <3>4, <3>6, ConfigRaises
  <2>8. CASE input[Top.name] = "good"
    <3> DEFINE f == IF Caller.at < Len(ServerFields)
                    THEN [Caller EXCEPT !.at = Caller.at + 1]
                    ELSE NewFrame("limits", 0, 1)
    <3>1. ReturnTo(f)
      BY <2>8 DEF FieldInt
    <3>2. ConfigPassed(f) = j + 1
      <4>1. CASE Caller.at = 2
        <5>1. f = [Caller EXCEPT !.at = 3]
          BY <4>1, ServerFieldsAre
        <5>2. f.name = "server" /\ f.at = 3
          BY <2>0, <5>1 DEF IsFrame, FrameFields
        <5> HIDE DEF f
        <5> QED BY <4>1, <5>2 DEF ConfigPassed, j
      <4>2. CASE Caller.at = 3
        <5>1. f = NewFrame("limits", 0, 1)
          BY <4>2, ServerFieldsAre
        <5>a. NewFrame("limits", 0, 1).name = "limits"
          BY NewFrameIs
        <5>2. f.name = "limits"
          <6> HIDE DEF f
          <6> QED BY <5>1, <5>a
        <5> HIDE DEF f
        <5> QED BY <4>2, <5>2 DEF ConfigPassed, j
      <4> QED BY <2>1, <4>1, <4>2
    <3> HIDE DEF f
    <3>3. /\ app' = app /\ input' = input /\ mode' = mode
          /\ Returned(frames, frames', f)
      BY <1>1, <3>1, ReturnStack DEF ReturnTo
    <3>4. Len(frames') = 1 /\ frames'[1] = f
      BY <1>b, <3>3 DEF Returned
    <3>5. ~Fails(input, j) /\ ~Fails(input, j + 1)
      BY <2>4, <2>8
    <3>6. \A i \in 1..(j + 1) : ~Fails(input, i)
      <4> TAKE i \in 1..(j + 1)
      <4>1. CASE i = j \/ i = j + 1 BY <3>5, <4>1
      <4>2. CASE i # j /\ i # j + 1
        <5>1. i \in 1..p
          BY <2>3, <4>2
        <5> QED BY <2>2, <5>1
      <4> QED BY <4>1, <4>2
    <3>7. ConfigDescent(input, frames')
      BY <3>2, <3>4, <3>6 DEF ConfigDescent
    <3> QED BY <1>1, <3>3, <3>7, ConfigRuns
  <2> QED BY <2>6, <2>7, <2>8 DEF FieldInt
<1> QED BY <1>1, <1>a, <1>b

LEMMA CheckLimitsExact ==
  ASSUME IInv, ConfigInv, CheckLimits
  PROVE  ConfigInv'
<1>0. At("config", "enter") /\ Top.name = "limits"
  BY DEF CheckLimits
<1>1. /\ app = "config" /\ mode = "run" /\ frames # <<>> /\ IsSeq(frames)
      /\ IsFrame(Top) /\ ConfigDescent(input, frames) /\ Top = frames[Len(frames)]
      /\ input \in Files
  BY <1>0, ConfigTop
<1>2. Len(frames) = 1
  BY <1>0, SectionTop
<1>3. Top = frames[1]
  BY <1>1, <1>2
<1>4. ConfigPassed(Top) = 6
  BY <1>0 DEF ConfigPassed
<1>5. \A i \in 1..6 : ~Fails(input, i)
  BY <1>1, <1>3, <1>4 DEF ConfigDescent
<1>6. LimitsFault =
        IF Fails(input, 7) THEN "missing_section"
        ELSE IF Fails(input, 8) THEN "missing_key"
        ELSE IF Fails(input, 9) THEN "limit_out_of_range"
        ELSE IF Fails(input, 10) THEN "missing_key"
        ELSE IF Fails(input, 11) THEN "limit_out_of_range"
        ELSE "none"
  BY <1>1, LimitsFaultIs, ChecksAre
<1>7. CASE LimitsFault # "none"
  <2>1. FailHere(LimitsFault, "limits", 0, 0)
    BY <1>7 DEF CheckLimits
  <2>2. /\ app' = app /\ input' = input /\ mode' = "fail" /\ frames' = Front(frames)
        /\ payload' = [fault |-> LimitsFault, depth |-> 0, hops |-> 0]
        /\ fault_name' = "limits" /\ held' = 0
    BY <2>1 DEF FailHere
  <2>3. Len(frames') = 0
    <3>1. Len(Front(frames)) = Len(frames) - 1
      BY <1>1, FrontOf
    <3> QED BY <1>2, <2>2, <3>1
  <2>4. PICK j \in 7..11 : Fails(input, j) /\ \A i \in 7..(j - 1) : ~Fails(input, i)
    BY <1>6, <1>7
  <2>5. \A i \in 1..(j - 1) : ~Fails(input, i)
    BY <1>5, <2>4
  <2>6. /\ ConfigChecks(input)[j][2] = LimitsFault /\ ConfigChecks(input)[j][3] = "limits"
        /\ ConfigChecks(input)[j][4] = NoContext
    <3>1. CASE j = 7 BY <1>6, <2>4, <3>1, ReportsAre
    <3>2. CASE j = 8
      <4>1. ~Fails(input, 7)
        BY <2>4, <3>2
      <4> QED BY <1>6, <2>4, <3>2, <4>1, ReportsAre
    <3>3. CASE j = 9
      <4>1. ~Fails(input, 7) /\ ~Fails(input, 8)
        BY <2>4, <3>3
      <4> QED BY <1>6, <2>4, <3>3, <4>1, ReportsAre
    <3>4. CASE j = 10
      <4>1. ~Fails(input, 7) /\ ~Fails(input, 8) /\ ~Fails(input, 9)
        BY <2>4, <3>4
      <4> QED BY <1>6, <2>4, <3>4, <4>1, ReportsAre
    <3>5. CASE j = 11
      <4>1. ~Fails(input, 7) /\ ~Fails(input, 8) /\ ~Fails(input, 9) /\ ~Fails(input, 10)
        BY <2>4, <3>5
      <4> QED BY <1>6, <2>4, <3>5, <4>1, ReportsAre
    <3> QED BY <2>4, <3>1, <3>2, <3>3, <3>4, <3>5
  <2> HIDE DEF LimitsFault
  <2> QED BY <1>1, <2>2, <2>3, <2>4, <2>5, <2>6, ConfigRaises
<1>8. CASE LimitsFault = "none"
  <2> DEFINE f == NewFrame("policy", 0, 1)
  <2>1. Go(f)
    BY <1>8 DEF CheckLimits
  <2>2. f.name = "policy"
    BY NewFrameIs
  <2> HIDE DEF f
  <2>3. /\ app' = app /\ input' = input /\ mode' = mode /\ Tops(frames, frames', f)
    BY <1>1, <2>1, GoTops DEF Go
  <2>4. Len(frames') = 1 /\ frames'[1] = f
    BY <1>2, <2>3 DEF Tops
  <2>5. ConfigPassed(f) = 11
    BY <2>2 DEF ConfigPassed
  <2>6. /\ ~Fails(input, 7) /\ ~Fails(input, 8) /\ ~Fails(input, 9)
        /\ ~Fails(input, 10) /\ ~Fails(input, 11)
    BY <1>6, <1>8
  <2>7. \A i \in 1..11 : ~Fails(input, i)
    BY <1>5, <2>6
  <2>8. ConfigDescent(input, frames')
    BY <2>4, <2>5, <2>7 DEF ConfigDescent
  <2> QED BY <1>1, <2>3, <2>8, ConfigRuns
<1> QED BY <1>7, <1>8

LEMMA CheckPolicyExact ==
  ASSUME IInv, ConfigInv, CheckPolicy
  PROVE  ConfigInv'
<1>0. At("config", "enter") /\ Top.name = "policy"
  BY DEF CheckPolicy
<1>1. /\ app = "config" /\ mode = "run" /\ frames # <<>> /\ IsSeq(frames)
      /\ IsFrame(Top) /\ ConfigDescent(input, frames) /\ Top = frames[Len(frames)]
      /\ input \in Files
  BY <1>0, ConfigTop
<1>2. Len(frames) = 1
  BY <1>0, SectionTop
<1>3. Top = frames[1]
  BY <1>1, <1>2
<1>4. ConfigPassed(Top) = 11
  BY <1>0 DEF ConfigPassed
<1>5. \A i \in 1..11 : ~Fails(input, i)
  BY <1>1, <1>3, <1>4 DEF ConfigDescent
<1>6. Len(Front(frames)) = 0
  <2>1. Len(Front(frames)) = Len(frames) - 1
    BY <1>1, FrontOf
  <2> QED BY <1>2, <2>1
<1>7. CASE input.access = "absent"
  <2>1. FailHere("missing", "policy", 0, PolicyRecord)
    BY <1>7 DEF CheckPolicy
  <2>2. /\ app' = app /\ input' = input /\ mode' = "fail" /\ frames' = Front(frames)
        /\ payload' = [fault |-> "missing", depth |-> 0, hops |-> 0]
        /\ fault_name' = "policy" /\ held' = PolicyRecord
    BY <2>1 DEF FailHere
  <2>3. Fails(input, 12) /\ \A i \in 1..(12 - 1) : ~Fails(input, i)
    BY <1>5, <1>7, ChecksAre
  <2>4. /\ ConfigChecks(input)[12][2] = "missing" /\ ConfigChecks(input)[12][3] = "policy"
        /\ ConfigChecks(input)[12][4] = Len(frames') /\ Len(frames') \in Nat
    BY <1>6, <2>2, ReportsAre
  <2> QED BY <1>1, <2>2, <2>3, <2>4, ConfigRaises
<1>8. CASE input.access = "outside"
  <2>1. FailHere("json", "policy", 0, 0)
    BY <1>8 DEF CheckPolicy
  <2>2. /\ app' = app /\ input' = input /\ mode' = "fail" /\ frames' = Front(frames)
        /\ payload' = [fault |-> "json", depth |-> 0, hops |-> 0]
        /\ fault_name' = "policy" /\ held' = 0
    BY <2>1 DEF FailHere
  <2>3. Fails(input, 13) /\ ~Fails(input, 12)
    BY <1>8, ChecksAre
  <2>4. \A i \in 1..(13 - 1) : ~Fails(input, i)
    BY <1>5, <2>3
  <2>5. /\ ConfigChecks(input)[13][2] = "json" /\ ConfigChecks(input)[13][3] = "policy"
        /\ ConfigChecks(input)[13][4] = NoContext /\ Len(frames') \in Nat
    BY <1>6, <2>2, ReportsAre
  <2> QED BY <1>1, <2>2, <2>3, <2>4, <2>5, ConfigRaises
<1>9. CASE input.access = "good"
  <2>1. /\ app' = app /\ input' = input /\ mode' = "idle"
        /\ verdict' = Completed(0, <<>>)
    BY <1>9 DEF CheckPolicy, Succeed, SucceedAs, Success, Completed
  <2>2. ~Fails(input, 12) /\ ~Fails(input, 13)
    BY <1>9, ChecksAre
  <2>3. \A i \in 1..13 : ~Fails(input, i)
    BY <1>5, <2>2
  <2> QED BY <1>1, <2>1, <2>3, ConfigCompletes DEF ConfigInv
<1> QED BY <1>7, <1>8, <1>9 DEF CheckPolicy

LEMMA ValidateFailsExact ==
  ASSUME IInv, ConfigInv, ValidateFails
  PROVE  ConfigInv'
<1>1. app = "config" /\ mode = "fail" /\ TryReturns(MaxChain)
  BY DEF ValidateFails
<1>2. app' = app /\ mode' = mode /\ input' = input
  BY <1>1 DEF TryReturns, Leave
<1>3. ConfigVerdict(input) = Returning /\ IsPayload(payload) /\ input \in Files
  BY <1>1 DEF ConfigInv
<1>4. Returning' = Returning /\ IsPayload(payload')
  BY <1>1, <1>3, TryExact
<1> QED BY <1>1, <1>2, <1>3, <1>4 DEF ConfigInv

LEMMA ReportExact ==
  ASSUME IInv, ConfigInv, Report
  PROVE  ConfigInv'
<1>1. /\ app = "config" /\ mode = "fail" /\ frames = <<>> /\ mode' = "idle"
      /\ app' = app /\ input' = input
      /\ verdict' = [NoVerdict EXCEPT !.fault = payload.fault, !.name = fault_name,
                        !.hops = IF held = 1 THEN payload.hops ELSE NoContext]
  BY DEF Report
<1>2. ConfigVerdict(input) = Returning /\ IsPayload(payload) /\ input \in Files
  BY <1>1 DEF ConfigInv
<1>3. verdict' = Returning
  BY <1>1, <1>2, ReturnedExact
<1> QED BY <1>1, <1>2, <1>3 DEF ConfigInv

LEMMA ConfigExact ==
  ASSUME IInv, ConfigInv, ConfigNext
  PROVE  ConfigInv'
BY ParseFileExact, ValidateFieldExact, FieldIntExact, CheckLimitsExact,
   CheckPolicyExact, ValidateFailsExact, ReportExact DEF ConfigNext

-----------------------------------------------------------------------------
(* The resolver.                                                           *)

\* One level of Values: b holds the values one level deeper.
ValueLevel(doc, n, b) ==
  [seen \in SUBSET Keys |-> [key \in Keys |->
     IF n = 0 THEN Failed("too_deep", MaxDepth + 1, key)
     ELSE TextOf(doc, key, MaxDepth + 1 - n, seen, b)]]

LEMMA ValuesIs ==
  ASSUME NEW doc
  PROVE  \A n \in 0..(MaxDepth + 1) :
           Values(doc)[n] = ValueLevel(doc, n, Values(doc)[n - 1])
<1> DEFINE Is(f, k) == f = [n \in 0..k |-> ValueLevel(doc, n, f[n - 1])]
           Bad == {k \in Nat : ~\E f : Is(f, k)}
<1>0. \A b, c : ValueLevel(doc, 0, b) = ValueLevel(doc, 0, c)
  BY DEF ValueLevel
<1>1. Bad = {}
  <2> SUFFICES ASSUME Bad # {} PROVE FALSE
    OBVIOUS
  <2>1. PICK k \in Bad : \A j \in Bad : k <= j
    <3> HIDE DEF Bad
    <3>1. Bad \subseteq Nat
      BY DEF Bad
    <3> QED BY <3>1, LeastNat
  <2>2. k \in Nat /\ ~\E f : Is(f, k)
    BY <2>1
  <2>3. k # 0
    <3> DEFINE f == [n \in 0..0 |-> ValueLevel(doc, 0, 0)]
    <3>1. Is(f, 0)
      <4>1. ASSUME NEW n \in 0..0 PROVE f[n] = ValueLevel(doc, n, f[n - 1])
        <5>1. n = 0
          OBVIOUS
        <5>2. f[n] = ValueLevel(doc, 0, 0)
          OBVIOUS
        <5> HIDE DEF f
        <5> QED BY <1>0, <5>1, <5>2
      <4>2. f = [n \in 0..0 |-> f[n]]
        OBVIOUS
      <4> HIDE DEF f
      <4> QED BY <4>1, <4>2
    <3> QED BY <2>2, <3>1
  <2>4. k - 1 \in Nat /\ k - 1 \notin Bad
    <3> HIDE DEF Bad
    <3> QED BY <2>1, <2>2, <2>3
  <2>5. PICK g : Is(g, k - 1)
    BY <2>4
  <2> DEFINE f == [n \in 0..k |-> ValueLevel(doc, n, g[n - 1])]
  <2>6. ASSUME NEW n \in 0..k PROVE f[n] = ValueLevel(doc, n, f[n - 1])
    <3>1. f[n] = ValueLevel(doc, n, g[n - 1])
      OBVIOUS
    <3>2. CASE n = 0
      <4> HIDE DEF f
      <4> QED BY <1>0, <3>1, <3>2
    <3>3. CASE n # 0
      <4>1. n - 1 \in 0..(k - 1) /\ n - 1 \in 0..k
        BY <2>2, <3>3
      <4>2. g[n - 1] = ValueLevel(doc, n - 1, g[(n - 1) - 1])
        BY <2>5, <4>1
      <4>3. f[n - 1] = ValueLevel(doc, n - 1, g[(n - 1) - 1])
        BY <4>1
      <4> HIDE DEF f
      <4> QED BY <3>1, <4>2, <4>3
    <3> QED BY <3>2, <3>3
  <2>7. Is(f, k)
    <3>1. f = [n \in 0..k |-> f[n]]
      OBVIOUS
    <3> HIDE DEF f
    <3> QED BY <2>6, <3>1
  <2> QED BY <2>2, <2>7
<1> DEFINE value == Values(doc)
<1>2. MaxDepth + 1 \in Nat
  BY ResolverAssumption
<1>3. \E f : Is(f, MaxDepth + 1)
  BY <1>1, <1>2
<1>4. Is(value, MaxDepth + 1)
  BY <1>3 DEF Values, ValueLevel
<1> HIDE DEF value
<1>5. \A n \in 0..(MaxDepth + 1) : value[n] = ValueLevel(doc, n, value[n - 1])
  BY <1>4
<1> QED BY <1>5 DEF value

\* The values of a key: too deep at the last level, its text above it.
LEMMA ValueIs ==
  ASSUME NEW doc, NEW seen \in SUBSET Keys, NEW key \in Keys
  PROVE  /\ Values(doc)[0][seen][key] = Failed("too_deep", MaxDepth + 1, key)
         /\ \A n \in 1..(MaxDepth + 1) :
              Values(doc)[n][seen][key] =
                TextOf(doc, key, MaxDepth + 1 - n, seen, Values(doc)[n - 1])
<1> DEFINE value == Values(doc)
<1>0. MaxDepth \in Nat
  BY ResolverAssumption
<1>1. \A n \in 0..(MaxDepth + 1) : value[n] = ValueLevel(doc, n, value[n - 1])
  BY ValuesIs
<1> HIDE DEF value
<1>2. value[0][seen][key] = Failed("too_deep", MaxDepth + 1, key)
  <2>1. value[0] = ValueLevel(doc, 0, value[0 - 1])
    BY <1>0, <1>1
  <2> QED BY <2>1 DEF ValueLevel
<1>3. ASSUME NEW n \in 1..(MaxDepth + 1)
      PROVE  value[n][seen][key] =
               TextOf(doc, key, MaxDepth + 1 - n, seen, value[n - 1])
  <2>1. value[n] = ValueLevel(doc, n, value[n - 1]) /\ n # 0
    BY <1>0, <1>1
  <2> QED BY <2>1 DEF ValueLevel
<1> QED BY <1>2, <1>3 DEF value

\* The text up to a piece is what its definition says.
LEMMA TextUpToIs ==
  ASSUME NEW doc, NEW key, Len(doc[key]) \in Nat, NEW depth, NEW below
  PROVE  LET upto == TextUpTo(doc, key, depth, below)
         IN  /\ upto[0] = Completed(0, <<>>)
             /\ \A i \in 1..Len(doc[key]) :
                  upto[i] = After(upto[i - 1], PieceValue(doc, key, depth, below, i))
<1> DEFINE Piece(i) == PieceValue(doc, key, depth, below, i)
           Is(f, k) == f = [i \in 0..k |-> IF i = 0 THEN Completed(0, <<>>)
                                           ELSE After(f[i - 1], Piece(i))]
           Bad == {k \in Nat : ~\E f : Is(f, k)}
<1> HIDE DEF Piece
<1>1. Bad = {}
  <2> SUFFICES ASSUME Bad # {} PROVE FALSE
    OBVIOUS
  <2>1. PICK k \in Bad : \A j \in Bad : k <= j
    <3> HIDE DEF Bad
    <3>1. Bad \subseteq Nat
      BY DEF Bad
    <3> QED BY <3>1, LeastNat
  <2>2. k \in Nat /\ ~\E f : Is(f, k)
    BY <2>1
  <2>3. k # 0
    <3> DEFINE f == [i \in 0..0 |-> Completed(0, <<>>)]
    <3>1. Is(f, 0)
      OBVIOUS
    <3> QED BY <2>2, <3>1
  <2>4. k - 1 \in Nat /\ k - 1 \notin Bad
    <3> HIDE DEF Bad
    <3> QED BY <2>1, <2>2, <2>3
  <2>5. PICK g : Is(g, k - 1)
    BY <2>4
  <2> DEFINE f == [i \in 0..k |-> IF i = 0 THEN Completed(0, <<>>)
                                  ELSE After(g[i - 1], Piece(i))]
  <2>6. ASSUME NEW i \in 0..k, i # 0 PROVE f[i - 1] = g[i - 1]
    <3>1. i - 1 \in 0..(k - 1) /\ i - 1 \in 0..k
      BY <2>2, <2>6
    <3>2. g[i - 1] = IF i - 1 = 0 THEN Completed(0, <<>>)
                     ELSE After(g[(i - 1) - 1], Piece(i - 1))
      BY <2>5, <3>1
    <3> QED BY <3>1, <3>2
  <2>7. Is(f, k)
    <3> HIDE DEF f
    <3>1. \A i \in 0..k : f[i] = IF i = 0 THEN Completed(0, <<>>)
                                 ELSE After(f[i - 1], Piece(i))
      BY <2>6 DEF f
    <3>2. f = [i \in 0..k |-> f[i]]
      BY DEF f
    <3> QED BY <3>1, <3>2
  <2> QED BY <2>2, <2>7
<1> DEFINE upto == TextUpTo(doc, key, depth, below)
<1>3. \E f : Is(f, Len(doc[key]))
  BY <1>1
<1>4. Is(upto, Len(doc[key]))
  BY <1>3 DEF TextUpTo, Piece
<1> HIDE DEF upto
<1>5. upto[0] = Completed(0, <<>>)
  BY <1>4
<1>6. \A i \in 1..Len(doc[key]) : upto[i] = After(upto[i - 1], Piece(i))
  BY <1>4
<1> QED BY <1>5, <1>6 DEF upto, Piece

\* A failure on the way stays.
LEMMA TextStays ==
  ASSUME NEW doc, NEW key, Len(doc[key]) \in Nat, NEW depth, NEW below,
         NEW i \in 0..Len(doc[key]),
         ~TextUpTo(doc, key, depth, below)[i].ok
  PROVE  TextUpTo(doc, key, depth, below)[Len(doc[key])] =
           TextUpTo(doc, key, depth, below)[i]
<1> DEFINE upto == TextUpTo(doc, key, depth, below)
           n == Len(doc[key])
           Bad == {j \in i..n : upto[j] # upto[i]}
           Piece(j) == PieceValue(doc, key, depth, below, j)
<1>1. \A j \in 1..n : upto[j] = After(upto[j - 1], Piece(j))
  BY TextUpToIs
<1>2. ~upto[i].ok /\ n \in Nat
  OBVIOUS
<1> HIDE DEF upto, Piece, n
<1>3. Bad = {}
  <2> SUFFICES ASSUME Bad # {} PROVE FALSE
    OBVIOUS
  <2>1. Bad \subseteq Nat
    OBVIOUS
  <2>2. PICK j \in Bad : \A k \in Bad : j <= k
    BY <2>1, LeastNat
  <2>3. j # i /\ j \in i..n
    OBVIOUS
  <2>4. j - 1 \in i..n /\ j - 1 \notin Bad /\ j \in 1..n
    BY <1>2, <2>2, <2>3
  <2>5. upto[j - 1] = upto[i]
    BY <2>4
  <2>6. upto[j] = upto[i]
    BY <1>1, <1>2, <2>4, <2>5 DEF After
  <2> QED BY <2>6
<1>4. n \in i..n
  BY <1>2 DEF n
<1> QED BY <1>3, <1>4 DEF upto, n

\* The keys above frame k, the value its key must come to, and the text of it
\* that frame k has behind it.
Above(fs, k) == {fs[j].name : j \in 1..(k - 1)}
ValueOf(doc, fs, k) == Values(doc)[MaxDepth + 2 - k][Above(fs, k)][fs[k].name]
Below(doc, fs, k) == Values(doc)[MaxDepth + 1 - k][Above(fs, k) \cup {fs[k].name}]
TextBehind(doc, fs, k, i) == TextUpTo(doc, fs[k].name, k - 1, Below(doc, fs, k))[i]

ResolverFrame(doc, fs, k) ==
  /\ fs[k].name \in Keys
  /\ k <= MaxDepth + 2
  /\ fs[k].pc # "enter" => fs[k].name \notin Above(fs, k) /\ k <= MaxDepth + 1
  /\ fs[k].at \in Nat \ {0}
  /\ fs[k].out \in Seq(Keys)
  /\ fs[k].pc # "text" => fs[k].at = 1 /\ fs[k].out = <<>>
  /\ fs[k].pc = "text" =>
       /\ fs[k].name \in DOMAIN doc
       /\ fs[k].at <= Len(doc[fs[k].name]) + 1
       /\ TextBehind(doc, fs, k, fs[k].at - 1) = Completed(0, fs[k].out)

\* A frame that waits stands at a reference to the key of the next one.
Waits(doc, fs, k) ==
  /\ fs[k].pc = "text"
  /\ fs[k].at <= Len(doc[fs[k].name])
  /\ doc[fs[k].name][fs[k].at].kind = "ref"
  /\ doc[fs[k].name][fs[k].at].to = fs[k + 1].name

ResolverDescent(doc, key, fs) ==
  /\ fs[1].name = key
  /\ \A k \in 1..Len(fs) : ResolverFrame(doc, fs, k)
  /\ \A k \in 1..(Len(fs) - 1) : Waits(doc, fs, k)

ResolverInv ==
  app = "resolver" =>
    /\ input \in Documents
    /\ mode = "run" => ResolverDescent(input, call, frames)
    /\ mode = "escape" => ResolverVerdict(input, call) = Underway /\ payload.hops = 0
    /\ mode \notin {"begin", "fail"}
    /\ mode = "idle" /\ verdict # NoVerdict => verdict = ResolverVerdict(input, call)

LEMMA TextOfIs ==
  ASSUME NEW doc, NEW key, NEW depth, NEW seen, NEW below
  PROVE  TextOf(doc, key, depth, seen, below) =
           IF key \in seen THEN Failed("cycle", depth, key)
           ELSE IF key \notin DOMAIN doc THEN Failed("missing", depth, key)
           ELSE TextUpTo(doc, key, depth, below[seen \cup {key}])[Len(doc[key])]
<1> DEFINE c1 == key \in seen
           c2 == key \notin DOMAIN doc
           fault == FirstFault(<<<<c1, "cycle">>, <<c2, "missing">>>>)
<1>1. TextOf(doc, key, depth, seen, below) =
        IF fault # "none" THEN Failed(fault, depth, key)
        ELSE TextUpTo(doc, key, depth, below[seen \cup {key}])[Len(doc[key])]
  BY DEF TextOf
<1> HIDE DEF c1, c2
<1>2. fault = IF c1 THEN "cycle" ELSE IF c2 THEN "missing" ELSE "none"
  BY FirstFault2
<1> HIDE DEF fault
<1> QED BY <1>1, <1>2 DEF c1, c2

\* The value of a frame's key.
LEMMA ValueOfIs ==
  ASSUME NEW doc \in Documents, NEW fs, NEW k \in Nat \ {0}, k <= MaxDepth + 2,
         \A j \in 1..k : fs[j].name \in Keys
  PROVE  ValueOf(doc, fs, k) =
           IF k = MaxDepth + 2 THEN Failed("too_deep", k - 1, fs[k].name)
           ELSE IF fs[k].name \in Above(fs, k) THEN Failed("cycle", k - 1, fs[k].name)
           ELSE IF fs[k].name \notin DOMAIN doc THEN Failed("missing", k - 1, fs[k].name)
           ELSE TextBehind(doc, fs, k, Len(doc[fs[k].name]))
<1> DEFINE seen == Above(fs, k)
           key == fs[k].name
           n == MaxDepth + 2 - k
<1>0. MaxDepth \in Nat
  BY ResolverAssumption
<1>1. seen \in SUBSET Keys
  <2>1. \A j \in 1..(k - 1) : j \in 1..k
    OBVIOUS
  <2> QED BY <2>1 DEF Above
<1>2. key \in Keys
  <2>1. k \in 1..k
    OBVIOUS
  <2> QED BY <2>1
<1>3. ValueOf(doc, fs, k) = Values(doc)[n][seen][key]
  BY DEF ValueOf
<1>4. /\ Values(doc)[0][seen][key] = Failed("too_deep", MaxDepth + 1, key)
      /\ \A i \in 1..(MaxDepth + 1) :
           Values(doc)[i][seen][key] =
             TextOf(doc, key, MaxDepth + 1 - i, seen, Values(doc)[i - 1])
  BY <1>1, <1>2, ValueIs
<1>5. CASE k = MaxDepth + 2
  <2>1. n = 0 /\ k - 1 = MaxDepth + 1
    BY <1>0, <1>5
  <2> QED BY <1>3, <1>4, <1>5, <2>1
<1>6. CASE k # MaxDepth + 2
  <2>1. /\ n \in 1..(MaxDepth + 1) /\ MaxDepth + 1 - n = k - 1
        /\ n - 1 = MaxDepth + 1 - k
    BY <1>0, <1>6
  <2>2. ValueOf(doc, fs, k) =
          TextOf(doc, key, k - 1, seen, Values(doc)[MaxDepth + 1 - k])
    <3> HIDE DEF n, seen, key
    <3> QED BY <1>3, <1>4, <2>1
  <2>3. TextBehind(doc, fs, k, Len(doc[key])) =
          TextUpTo(doc, key, k - 1, Values(doc)[MaxDepth + 1 - k][seen \cup {key}])[Len(doc[key])]
    BY DEF TextBehind, Below
  <2> HIDE DEF n, seen, key
  <2>4. ValueOf(doc, fs, k) =
          IF key \in seen THEN Failed("cycle", k - 1, key)
          ELSE IF key \notin DOMAIN doc THEN Failed("missing", k - 1, key)
          ELSE TextBehind(doc, fs, k, Len(doc[key]))
    BY <2>2, <2>3, TextOfIs
  <2> QED BY <1>6, <2>4 DEF seen, key
<1> QED BY <1>5, <1>6

LEMMA DocumentIs ==
  ASSUME NEW doc \in Documents, NEW key \in DOMAIN doc
  PROVE  /\ key \in Keys /\ Len(doc[key]) \in Nat /\ doc[key] \in Seq(Pieces)
         /\ \A i \in 1..Len(doc[key]) : doc[key][i].to \in Keys
                                        /\ doc[key][i].kind \in {"text", "open", "ref"}
<1>1. key \in Keys /\ doc[key] \in Seq(Pieces)
  BY InputAssumption
<1>2. Len(doc[key]) \in Nat /\ \A i \in 1..Len(doc[key]) : doc[key][i] \in Pieces
  BY <1>1
<1> QED BY <1>1, <1>2 DEF Pieces

\* The next piece of the text of a frame's key.
LEMMA NextPiece ==
  ASSUME NEW doc \in Documents, NEW fs, NEW k \in Nat \ {0},
         ResolverFrame(doc, fs, k), fs[k].pc = "text", fs[k].at <= Len(doc[fs[k].name])
  PROVE  /\ TextBehind(doc, fs, k, fs[k].at) =
              After(Completed(0, fs[k].out),
                    PieceValue(doc, fs[k].name, k - 1, Below(doc, fs, k), fs[k].at))
         /\ fs[k].at \in 1..Len(doc[fs[k].name])
<1> DEFINE key == fs[k].name
           at == fs[k].at
           below == Below(doc, fs, k)
           upto == TextUpTo(doc, key, k - 1, below)
<1>1. key \in DOMAIN doc /\ at \in Nat \ {0} /\ at <= Len(doc[key])
      /\ upto[at - 1] = Completed(0, fs[k].out)
  BY DEF ResolverFrame, TextBehind
<1>2. Len(doc[key]) \in Nat
  BY <1>1, DocumentIs
<1>3. at \in 1..Len(doc[key])
  BY <1>1, <1>2
<1>4. \A i \in 1..Len(doc[key]) : upto[i] = After(upto[i - 1], PieceValue(doc, key, k - 1, below, i))
  <2> DEFINE d == k - 1
  <2> HIDE DEF key, at, below, d
  <2>1. \A i \in 1..Len(doc[key]) :
          TextUpTo(doc, key, d, below)[i] =
            After(TextUpTo(doc, key, d, below)[i - 1], PieceValue(doc, key, d, below, i))
    BY <1>2, TextUpToIs
  <2> QED BY <2>1 DEF d
<1>5. upto[at] = After(upto[at - 1], PieceValue(doc, key, k - 1, below, at))
  BY <1>3, <1>4
<1> QED BY <1>1, <1>3, <1>5 DEF TextBehind

\* If it fails, so does the key.
LEMMA PieceFails ==
  ASSUME NEW doc \in Documents, NEW fs, NEW k \in Nat \ {0},
         \A j \in 1..k : ResolverFrame(doc, fs, j),
         fs[k].pc = "text", fs[k].at <= Len(doc[fs[k].name]), NEW v, ~v.ok,
         PieceValue(doc, fs[k].name, k - 1, Below(doc, fs, k), fs[k].at) = v
  PROVE  ValueOf(doc, fs, k) = v
<1> DEFINE key == fs[k].name
           at == fs[k].at
<1>0. MaxDepth \in Nat /\ k \in 1..k
  BY ResolverAssumption
<1>1. ResolverFrame(doc, fs, k)
  BY <1>0
<1>2. /\ key \in DOMAIN doc /\ key \notin Above(fs, k) /\ k <= MaxDepth + 1
  BY <1>1 DEF ResolverFrame
<1>3. /\ TextBehind(doc, fs, k, at) = After(Completed(0, fs[k].out), v)
      /\ at \in 1..Len(doc[key])
  BY <1>1, NextPiece
<1>4. TextBehind(doc, fs, k, at) = v
  BY <1>3, CompletedIs DEF After
<1>5. Len(doc[key]) \in Nat
  BY <1>2, DocumentIs
<1>6. TextBehind(doc, fs, k, Len(doc[key])) = v
  <2>1. ~TextUpTo(doc, key, k - 1, Below(doc, fs, k))[at].ok
    BY <1>4 DEF TextBehind
  <2>2. at \in 0..Len(doc[key])
    BY <1>3
  <2> HIDE DEF key, at
  <2>3. TextUpTo(doc, key, k - 1, Below(doc, fs, k))[Len(doc[key])] =
          TextUpTo(doc, key, k - 1, Below(doc, fs, k))[at]
    BY <1>5, <2>1, <2>2, TextStays
  <2> QED BY <1>4, <2>3 DEF TextBehind, key
<1>7. \A j \in 1..k : fs[j].name \in Keys
  BY DEF ResolverFrame
<1>8. k # MaxDepth + 2 /\ k <= MaxDepth + 2
  BY <1>0, <1>2
<1> HIDE DEF key
<1>9. ValueOf(doc, fs, k) = TextBehind(doc, fs, k, Len(doc[key]))
  BY <1>2, <1>7, <1>8, ValueOfIs DEF key
<1> QED BY <1>6, <1>9

\* What a waiting frame waits for is the value of the next frame's key.
LEMMA WaitsFor ==
  ASSUME NEW doc, NEW fs, NEW k \in Nat \ {0}, Waits(doc, fs, k)
  PROVE  PieceValue(doc, fs[k].name, k - 1, Below(doc, fs, k), fs[k].at) =
           ValueOf(doc, fs, k + 1)
<1>0. MaxDepth \in Nat
  BY ResolverAssumption
<1>1. Above(fs, k + 1) = Above(fs, k) \cup {fs[k].name}
  <2>1. (k + 1) - 1 = k
    OBVIOUS
  <2>2. \A j : j \in 1..k <=> j \in 1..(k - 1) \/ j = k
    OBVIOUS
  <2> QED BY <2>1, <2>2 DEF Above
<1>2. MaxDepth + 2 - (k + 1) = MaxDepth + 1 - k
  BY <1>0
<1>3. ValueOf(doc, fs, k + 1) = Below(doc, fs, k)[fs[k + 1].name]
  BY <1>1, <1>2 DEF ValueOf, Below
<1>4. PieceValue(doc, fs[k].name, k - 1, Below(doc, fs, k), fs[k].at) =
        Below(doc, fs, k)[fs[k + 1].name]
  BY DEF PieceValue, Waits
<1> QED BY <1>3, <1>4

\* A failure of the innermost key is the failure of the key asked for.
LEMMA ResolverFails ==
  ASSUME NEW doc \in Documents, NEW key, NEW fs, Len(fs) \in Nat \ {0},
         ResolverDescent(doc, key, fs), NEW v, ~v.ok, ValueOf(doc, fs, Len(fs)) = v
  PROVE  ResolverVerdict(doc, key) = v
<1> DEFINE n == Len(fs)
           Bad == {i \in 0..(n - 1) : ValueOf(doc, fs, n - i) # v}
<1>0. MaxDepth \in Nat
  BY ResolverAssumption
<1>a. /\ \A k \in 1..n : ResolverFrame(doc, fs, k)
      /\ \A k \in 1..(n - 1) : Waits(doc, fs, k)
      /\ fs[1].name = key
  BY DEF ResolverDescent
<1>b. n \in Nat \ {0} /\ ValueOf(doc, fs, n) = v
  OBVIOUS
<1> HIDE DEF n
<1>1. Bad = {}
  <2> SUFFICES ASSUME Bad # {} PROVE FALSE
    OBVIOUS
  <2>1. Bad \subseteq Nat
    OBVIOUS
  <2>2. PICK i \in Bad : \A j \in Bad : i <= j
    BY <2>1, LeastNat
  <2>3. i \in 0..(n - 1) /\ ValueOf(doc, fs, n - i) # v
    OBVIOUS
  <2> HIDE DEF Bad
  <2>4. i # 0
    <3>1. n - 0 = n
      BY <1>b
    <3> QED BY <1>b, <2>3, <3>1
  <2> DEFINE k == n - i
  <2>5. k \in 1..(n - 1) /\ k \in Nat \ {0} /\ i - 1 \in 0..(n - 1) /\ n - (i - 1) = k + 1
    BY <1>b, <2>3, <2>4
  <2>6. i - 1 \notin Bad
    BY <2>2, <2>3, <2>5
  <2>7. ValueOf(doc, fs, k + 1) = v
    BY <2>5, <2>6 DEF Bad
  <2> HIDE DEF k
  <2>8. Waits(doc, fs, k) /\ \A j \in 1..k : ResolverFrame(doc, fs, j)
    <3>1. \A j \in 1..k : j \in 1..n
      BY <1>b, <2>5
    <3> QED BY <1>a, <2>5, <3>1
  <2>9. PieceValue(doc, fs[k].name, k - 1, Below(doc, fs, k), fs[k].at) = v
    BY <2>5, <2>7, <2>8, WaitsFor
  <2>10. ValueOf(doc, fs, k) = v
    BY <2>5, <2>8, <2>9, PieceFails DEF Waits
  <2> QED BY <2>3, <2>10 DEF k
<1>2. n - 1 \in 0..(n - 1) /\ n - (n - 1) = 1
  BY <1>b
<1>3. ValueOf(doc, fs, 1) = v
  BY <1>1, <1>2
<1>4. Above(fs, 1) = {} /\ MaxDepth + 2 - 1 = MaxDepth + 1
  BY <1>0 DEF Above
<1> QED BY <1>3, <1>4, <1>a DEF ValueOf, ResolverVerdict

\* What is known of a frame depends on the names above it only.
LEMMA SameFrame ==
  ASSUME NEW doc, NEW fs, NEW gs, NEW k \in Nat, gs[k] = fs[k],
         \A j \in 1..(k - 1) : gs[j].name = fs[j].name,
         ResolverFrame(doc, fs, k)
  PROVE  ResolverFrame(doc, gs, k)
<1>1. Above(gs, k) = Above(fs, k)
  BY DEF Above
<1>2. \A i : TextBehind(doc, gs, k, i) = TextBehind(doc, fs, k, i)
  BY <1>1 DEF TextBehind, Below
<1> QED BY <1>1, <1>2 DEF ResolverFrame

LEMMA SameWaits ==
  ASSUME NEW doc, NEW fs, NEW gs, NEW k, gs[k] = fs[k], gs[k + 1].name = fs[k + 1].name,
         Waits(doc, fs, k)
  PROVE  Waits(doc, gs, k)
BY DEF Waits

LEMMA ResolverTop ==
  ASSUME IInv, ResolverInv, NEW pc, At("resolver", pc)
  PROVE  /\ app = "resolver" /\ mode = "run" /\ frames # <<>>
         /\ input \in Documents
         /\ Len(frames) \in Nat \ {0} /\ IsSeq(frames)
         /\ Top = frames[Len(frames)] /\ IsFrame(Top) /\ Top.pc = pc
         /\ Top.depth = Len(frames) - 1
         /\ Guarded("resolver", Top)
         /\ ResolverDescent(input, call, frames)
         /\ ResolverFrame(input, frames, Len(frames))
         /\ \A k \in 1..Len(frames) : ResolverFrame(input, frames, k)
         /\ \A k \in 1..Len(frames) : frames[k].name \in Keys
         /\ \A k \in 1..(Len(frames) - 1) : Waits(input, frames, k)
         /\ frames[1].name = call
         /\ Len(frames) <= MaxDepth + 2
<1> DEFINE a == "resolver"
<1>a. a \in Guarding
  BY DEF Guarding
<1> HIDE DEF a
<1>b. At(a, pc)
  BY DEF a
<1>1. /\ app = a /\ mode = "run" /\ frames # <<>>
      /\ Stack(a, frames, path, held)
      /\ IsSeq(frames) /\ Len(frames) \in Nat \ {0}
      /\ Top = frames[Len(frames)]
      /\ IsFrame(Top) /\ Guarded(a, Top) /\ Top.pc = pc
      /\ Top.depth = Len(frames) - 1
  BY <1>a, <1>b, RunTop
<1>2. input \in Documents /\ ResolverDescent(input, call, frames)
  BY <1>1 DEF ResolverInv, a
<1>3. /\ \A k \in 1..Len(frames) : ResolverFrame(input, frames, k)
      /\ \A k \in 1..(Len(frames) - 1) : Waits(input, frames, k)
      /\ frames[1].name = call
  BY <1>2 DEF ResolverDescent
<1>4. Len(frames) \in 1..Len(frames)
  BY <1>1
<1>5. ResolverFrame(input, frames, Len(frames))
  BY <1>3, <1>4
<1>6. Len(frames) <= MaxDepth + 2
  BY <1>5 DEF ResolverFrame
<1>7. \A k \in 1..Len(frames) : frames[k].name \in Keys
  BY <1>3 DEF ResolverFrame
<1> QED BY <1>1, <1>2, <1>3, <1>5, <1>6, <1>7 DEF a

LEMMA ResolverEject ==
  ASSUME IInv, ResolverInv, NEW pc, At("resolver", pc), NEW f, NEW n, NEW d,
         Eject(f, n, d), ValueOf(input, frames, Len(frames)) = Failed(f, d, n)
  PROVE  ResolverInv'
<1>1. /\ app = "resolver" /\ input \in Documents /\ Len(frames) \in Nat \ {0}
      /\ ResolverDescent(input, call, frames)
  BY ResolverTop
<1>2. ~Failed(f, d, n).ok
  BY FailedIs
<1>3. ResolverVerdict(input, call) = Failed(f, d, n)
  BY <1>1, <1>2, ResolverFails
<1>4. /\ app' = "resolver" /\ input' = input /\ call' = call /\ mode' = "escape"
      /\ payload' = [fault |-> f, depth |-> d, hops |-> 0] /\ fault_name' = n
  BY <1>1 DEF Eject, Raise
<1>5. Underway' = Failed(f, d, n) /\ payload'.hops = 0
  BY <1>4 DEF Underway
<1> QED BY <1>1, <1>3, <1>4, <1>5 DEF ResolverInv

\* The descent goes on in frame m; the frames above it stay as they are.
LEMMA ResolverRuns ==
  ASSUME IInv, ResolverInv, NEW pc, At("resolver", pc),
         NEW m \in 1..(Len(frames) + 1), Len(frames') = m,
         \A j \in 1..(m - 1) : frames'[j] = frames[j],
         ResolverFrame(input, frames', m),
         m > 1 => Waits(input, frames', m - 1),
         frames'[1].name = call,
         app' = app, input' = input, call' = call, mode' = mode
  PROVE  ResolverInv'
<1>1. /\ app = "resolver" /\ input \in Documents /\ Len(frames) \in Nat \ {0}
      /\ mode = "run"
      /\ \A k \in 1..Len(frames) : ResolverFrame(input, frames, k)
      /\ \A k \in 1..(Len(frames) - 1) : Waits(input, frames, k)
  BY ResolverTop
<1>2. ASSUME NEW k \in 1..m PROVE ResolverFrame(input, frames', k)
  <2>1. CASE k = m BY <2>1
  <2>2. CASE k # m
    <3>1. k \in Nat /\ k \in 1..(m - 1) /\ k \in 1..Len(frames)
      BY <1>1, <2>2
    <3>2. frames'[k] = frames[k] /\ ResolverFrame(input, frames, k)
      BY <1>1, <3>1
    <3>3. \A j \in 1..(k - 1) : frames'[j].name = frames[j].name
      <4> TAKE j \in 1..(k - 1)
      <4>1. j \in 1..(m - 1)
        BY <3>1
      <4> QED BY <4>1
    <3> QED BY <3>1, <3>2, <3>3, SameFrame
  <2> QED BY <2>1, <2>2
<1>3. ASSUME NEW k \in 1..(m - 1) PROVE Waits(input, frames', k)
  <2>1. CASE k = m - 1
    <3>1. m > 1
      BY <2>1
    <3> QED BY <2>1, <3>1
  <2>2. CASE k # m - 1
    <3>1. k \in 1..(m - 1) /\ k + 1 \in 1..(m - 1) /\ k \in 1..(Len(frames) - 1)
      BY <1>1, <2>2
    <3>2. /\ frames'[k] = frames[k] /\ frames'[k + 1].name = frames[k + 1].name
          /\ Waits(input, frames, k)
      BY <1>1, <3>1
    <3> QED BY <3>2, SameWaits
  <2> QED BY <2>1, <2>2
<1>4. ResolverDescent(input, call, frames')
  BY <1>2, <1>3 DEF ResolverDescent
<1> QED BY <1>1, <1>4 DEF ResolverInv

\* The innermost frame goes on as f.
LEMMA ResolverGoes ==
  ASSUME IInv, ResolverInv, NEW pc, At("resolver", pc), NEW f, Go(f),
         f.name = Top.name,
         ResolverFrame(input, frames', Len(frames))
  PROVE  ResolverInv'
<1> DEFINE n == Len(frames)
<1>1. /\ n \in Nat \ {0} /\ IsSeq(frames) /\ frames # <<>> /\ Top = frames[n]
      /\ frames[1].name = call
      /\ \A k \in 1..(n - 1) : Waits(input, frames, k)
  BY ResolverTop
<1>2. /\ app' = app /\ input' = input /\ call' = call /\ mode' = mode
      /\ Tops(frames, frames', f)
  BY <1>1, GoTops DEF Go
<1>3. /\ Len(frames') = n /\ frames'[n] = f
      /\ \A i \in 1..(n - 1) : frames'[i] = frames[i]
  BY <1>2 DEF Tops
<1>a. ResolverFrame(input, frames', n)
  OBVIOUS
<1>b. n \in 1..(Len(frames) + 1)
  BY <1>1
<1> HIDE DEF n
<1>4. frames'[1].name = call
  <2>1. CASE n = 1
    BY <1>1, <1>3, <2>1
  <2>2. CASE n # 1
    <3>1. 1 \in 1..(n - 1)
      BY <1>1, <2>2
    <3> QED BY <1>1, <1>3, <3>1
  <2> QED BY <2>1, <2>2
<1>5. ASSUME n > 1 PROVE Waits(input, frames', n - 1)
  <2>1. n - 1 \in 1..(n - 1) /\ (n - 1) + 1 = n
    BY <1>1, <1>5
  <2>2. frames'[n - 1] = frames[n - 1] /\ Waits(input, frames, n - 1)
        /\ frames'[(n - 1) + 1].name = frames[(n - 1) + 1].name
    BY <1>1, <1>3, <2>1
  <2> QED BY <2>2, SameWaits
<1> QED BY <1>2, <1>3, <1>4, <1>5, <1>a, <1>b, ResolverRuns

LEMMA NewFrameBlank ==
  ASSUME NEW name, NEW depth, NEW at
  PROVE  NewFrame(name, depth, at).out = <<>>
BY DEF NewFrame

LEMMA ConfigResolveExact ==
  ASSUME IInv, ResolverInv, ConfigResolve
  PROVE  ResolverInv'
<1>0. MaxDepth \in Nat
  BY ResolverAssumption
<1>1. app = "resolver" /\ input \in Documents
  BY DEF ConfigResolve, ResolverInv
<1>2. PICK key \in Keys : ResolveKey(key)
  BY DEF ConfigResolve
<1> DEFINE f == NewFrame(key, 0, 1)
<1>3. /\ app' = app /\ input' = input /\ call' = key /\ mode' = "run" /\ frames' = <<f>>
  BY <1>2 DEF ResolveKey, Begin
<1>4. f.name = key /\ f.pc = "enter" /\ f.at = 1 /\ f.out = <<>>
  BY NewFrameIs, NewFrameBlank
<1> HIDE DEF f
<1>5. Len(frames') = 1 /\ frames'[1] = f
  BY <1>3
<1>6. key \in Keys
  BY <1>2
<1>7. ResolverFrame(input, frames', 1)
  <2>1. <<>> \in Seq(Keys) /\ 1 <= MaxDepth + 2 /\ 1 \in Nat \ {0}
    BY <1>0
  <2> QED BY <1>4, <1>5, <1>6, <2>1 DEF ResolverFrame
<1>8. ResolverDescent(input, key, frames')
  BY <1>4, <1>5, <1>7 DEF ResolverDescent
<1> QED BY <1>1, <1>3, <1>8 DEF ResolverInv

\* The names on the path are those of the frames above the innermost.
LEMMA ResolverSeen ==
  ASSUME IInv, ResolverInv, At("resolver", "enter")
  PROVE  Elements(path) = Above(frames, Len(frames))
<1>1. /\ app = "resolver" /\ IsSeq(frames) /\ Len(frames) \in Nat \ {0}
      /\ Top = frames[Len(frames)] /\ Guarded("resolver", Top) /\ Top.pc = "enter"
      /\ frames # <<>>
  BY ResolverTop
<1>2. Stack("resolver", frames, path, held)
  BY <1>1 DEF IInv, Shape, Guarding
<1>3. OnStack(frames, path) /\ ~frames[Len(frames)].marks
  BY <1>1, <1>2 DEF Stack, Guarded
<1>4. /\ Len(path) = Len(frames) - 1
      /\ \A i \in 1..Len(path) : path[i] = frames[i].name
  BY <1>1, <1>3 DEF OnStack
<1> QED BY <1>4 DEF Elements, Above

LEMMA ResolveExact ==
  ASSUME IInv, ResolverInv, Resolve
  PROVE  ResolverInv'
<1> DEFINE n == Len(frames)
<1>0. At("resolver", "enter") /\ MaxDepth \in Nat
  BY ResolverAssumption DEF Resolve
<1>1. /\ n \in Nat \ {0} /\ n <= MaxDepth + 2 /\ IsFrame(Top) /\ Top.pc = "enter"
      /\ ResolverFrame(input, frames, n) /\ Top = frames[n] /\ Top.depth = n - 1
      /\ input \in Documents /\ IsSeq(frames) /\ frames # <<>>
      /\ \A k \in 1..n : frames[k].name \in Keys
  BY <1>0, ResolverTop
<1>2. OnPath(Top.name) <=> Top.name \in Above(frames, n)
  BY <1>0, ResolverSeen DEF OnPath
<1>3. ValueOf(input, frames, n) =
        IF n = MaxDepth + 2 THEN Failed("too_deep", n - 1, frames[n].name)
        ELSE IF frames[n].name \in Above(frames, n) THEN Failed("cycle", n - 1, frames[n].name)
        ELSE IF frames[n].name \notin DOMAIN input THEN Failed("missing", n - 1, frames[n].name)
        ELSE TextBehind(input, frames, n, Len(input[frames[n].name]))
  BY <1>1, ValueOfIs
<1>4. Top.depth > MaxDepth <=> n = MaxDepth + 2
  BY <1>0, <1>1
<1> HIDE DEF n
<1>5. CASE Top.depth > MaxDepth
  <2>1. Eject("too_deep", Top.name, Top.depth)
    BY <1>5 DEF Resolve
  <2>2. ValueOf(input, frames, n) = Failed("too_deep", Top.depth, Top.name)
    BY <1>1, <1>3, <1>4, <1>5
  <2> QED BY <1>0, <2>1, <2>2, ResolverEject DEF n
<1>6. CASE ~(Top.depth > MaxDepth) /\ OnPath(Top.name)
  <2>1. Eject("cycle", Top.name, Top.depth)
    BY <1>6 DEF Resolve
  <2>2. ValueOf(input, frames, n) = Failed("cycle", Top.depth, Top.name)
    BY <1>1, <1>2, <1>3, <1>4, <1>6
  <2> QED BY <1>0, <2>1, <2>2, ResolverEject DEF n
<1>7. CASE ~(Top.depth > MaxDepth) /\ ~OnPath(Top.name)
  <2> DEFINE f == [Top EXCEPT !.marks = TRUE, !.pc = "value"]
  <2>1. Go(f)
    BY <1>7 DEF Resolve
  <2>2. f.name = Top.name /\ f.pc = "value" /\ f.at = Top.at /\ f.out = Top.out
    BY <1>1 DEF IsFrame, FrameFields
  <2> HIDE DEF f
  <2>3. Tops(frames, frames', f)
    BY <1>1, <2>1, GoTops DEF Go
  <2>4. frames'[n] = f /\ \A i \in 1..(n - 1) : frames'[i] = frames[i]
    BY <2>3 DEF Tops, n
  <2>5. Above(frames', n) = Above(frames, n)
    BY <2>4 DEF Above
  <2>6. Top.name \in Keys /\ Top.at = 1 /\ Top.out = <<>> /\ Top.at \in Nat \ {0}
        /\ Top.out \in Seq(Keys)
    BY <1>1 DEF ResolverFrame
  <2>7. n <= MaxDepth + 1
    BY <1>0, <1>1, <1>4, <1>7
  <2>8. ResolverFrame(input, frames', n)
    BY <1>1, <1>2, <1>7, <2>2, <2>4, <2>5, <2>6, <2>7 DEF ResolverFrame
  <2> QED BY <1>0, <2>1, <2>2, <2>8, ResolverGoes DEF n
<1> QED BY <1>5, <1>6, <1>7

LEMMA LookUpExact ==
  ASSUME IInv, ResolverInv, LookUp
  PROVE  ResolverInv'
<1> DEFINE n == Len(frames)
<1>0. At("resolver", "value") /\ MaxDepth \in Nat
  BY ResolverAssumption DEF LookUp
<1>1. /\ n \in Nat \ {0} /\ n <= MaxDepth + 2 /\ IsFrame(Top) /\ Top.pc = "value"
      /\ ResolverFrame(input, frames, n) /\ Top = frames[n] /\ Top.depth = n - 1
      /\ input \in Documents /\ IsSeq(frames) /\ frames # <<>>
      /\ \A k \in 1..n : frames[k].name \in Keys
  BY <1>0, ResolverTop
<1>3. ValueOf(input, frames, n) =
        IF n = MaxDepth + 2 THEN Failed("too_deep", n - 1, frames[n].name)
        ELSE IF frames[n].name \in Above(frames, n) THEN Failed("cycle", n - 1, frames[n].name)
        ELSE IF frames[n].name \notin DOMAIN input THEN Failed("missing", n - 1, frames[n].name)
        ELSE TextBehind(input, frames, n, Len(input[frames[n].name]))
  BY <1>1, ValueOfIs
<1> HIDE DEF n
<1>4. /\ Top.name \in Keys /\ Top.at = 1 /\ Top.out = <<>> /\ Top.out \in Seq(Keys)
      /\ Top.name \notin Above(frames, n) /\ n <= MaxDepth + 1 /\ n # MaxDepth + 2
  BY <1>0, <1>1 DEF ResolverFrame
<1>5. CASE Top.name \notin DOMAIN input
  <2>1. Eject("missing", Top.name, Top.depth)
    BY <1>5 DEF LookUp
  <2>2. ValueOf(input, frames, n) = Failed("missing", Top.depth, Top.name)
    BY <1>1, <1>3, <1>4, <1>5
  <2> QED BY <1>0, <2>1, <2>2, ResolverEject DEF n
<1>6. CASE Top.name \in DOMAIN input
  <2> DEFINE f == [Top EXCEPT !.pc = "text"]
  <2>1. Go(f)
    BY <1>6 DEF LookUp
  <2>2. f.name = Top.name /\ f.pc = "text" /\ f.at = Top.at /\ f.out = Top.out
    BY <1>1 DEF IsFrame, FrameFields
  <2> HIDE DEF f
  <2>3. Tops(frames, frames', f)
    BY <1>1, <2>1, GoTops DEF Go
  <2>4. frames'[n] = f /\ \A i \in 1..(n - 1) : frames'[i] = frames[i]
    BY <2>3 DEF Tops, n
  <2>5. Above(frames', n) = Above(frames, n)
    BY <2>4 DEF Above
  <2>6. Len(input[f.name]) \in Nat
    BY <1>1, <1>6, <2>2, DocumentIs
  <2>7. TextBehind(input, frames', n, 0) = Completed(0, <<>>)
    <3> DEFINE key == f.name
               d == n - 1
               below == Below(input, frames', n)
    <3>1. Len(input[key]) \in Nat
      BY <2>6
    <3> HIDE DEF key, d, below
    <3>2. TextUpTo(input, key, d, below)[0] = Completed(0, <<>>)
      BY <3>1, TextUpToIs
    <3> QED BY <2>4, <3>2 DEF TextBehind, key, d, below
  <2>8. f.at - 1 = 0 /\ f.at \in Nat \ {0} /\ f.at <= Len(input[f.name]) + 1
    BY <1>4, <2>2, <2>6
  <2>9. ResolverFrame(input, frames', n)
    BY <1>1, <1>4, <1>6, <2>2, <2>4, <2>5, <2>7, <2>8 DEF ResolverFrame
  <2> QED BY <1>0, <2>1, <2>2, <2>9, ResolverGoes DEF n
<1> QED BY <1>5, <1>6

LEMMA ResolveUnwindExact ==
  ASSUME IInv, ResolverInv, ResolveUnwind
  PROVE  ResolverInv'
<1>1. /\ app = "resolver" /\ mode = "escape" /\ app' = app /\ input' = input
      /\ mode' = mode /\ call' = call /\ fault_name' = fault_name /\ payload' = payload
  BY DEF ResolveUnwind, Leave
<1>2. Underway' = Underway
  BY <1>1 DEF Underway
<1> QED BY <1>1, <1>2 DEF ResolverInv

LEMMA ResolveLandExact ==
  ASSUME IInv, ResolverInv, ResolveLand
  PROVE  ResolverInv'
<1>1. /\ app = "resolver" /\ mode \in {"escape", "fail"} /\ app' = app /\ input' = input
      /\ mode' = "idle" /\ call' = call
      /\ verdict' = [NoVerdict EXCEPT !.fault = payload.fault, !.depth = payload.depth,
                        !.hops = payload.hops, !.name = fault_name]
  BY DEF ResolveLand, Land, LandAs, Failure
<1>2. ResolverVerdict(input, call) = Underway /\ payload.hops = 0 /\ input \in Documents
  BY <1>1 DEF ResolverInv
<1>3. verdict' = Underway
  BY <1>1, <1>2, LandedIs DEF Underway
<1> QED BY <1>1, <1>2, <1>3 DEF ResolverInv

\* The text behind a frame goes on with what a piece came to.
LEMMA TextGoesOn ==
  ASSUME NEW doc \in Documents, NEW fs, NEW k \in Nat \ {0},
         ResolverFrame(doc, fs, k), fs[k].pc = "text", fs[k].at <= Len(doc[fs[k].name]),
         NEW more, more \in Seq(Keys),
         PieceValue(doc, fs[k].name, k - 1, Below(doc, fs, k), fs[k].at) = Completed(0, more),
         NEW gs, \A j \in 1..(k - 1) : gs[j] = fs[j],
         gs[k].name = fs[k].name, gs[k].pc = "text", gs[k].at = fs[k].at + 1,
         gs[k].out = fs[k].out \o more
  PROVE  ResolverFrame(doc, gs, k)
<1> DEFINE key == fs[k].name
           at == fs[k].at
<1>1. /\ TextBehind(doc, fs, k, at) = After(Completed(0, fs[k].out), Completed(0, more))
      /\ at \in 1..Len(doc[key])
  BY NextPiece
<1>2. TextBehind(doc, fs, k, at) = Completed(0, fs[k].out \o more)
  BY <1>1, CompletedIs DEF After
<1>3. Above(gs, k) = Above(fs, k)
  BY DEF Above
<1>4. TextBehind(doc, gs, k, at) = TextBehind(doc, fs, k, at)
  BY <1>3 DEF TextBehind, Below
<1>5. /\ key \in Keys /\ k <= MaxDepth + 2 /\ key \notin Above(fs, k) /\ k <= MaxDepth + 1
      /\ key \in DOMAIN doc /\ at \in Nat \ {0} /\ fs[k].out \in Seq(Keys)
  BY DEF ResolverFrame
<1>6. fs[k].out \o more \in Seq(Keys)
  BY <1>5
<1>7. Len(doc[key]) \in Nat
  BY <1>5, DocumentIs
<1>8. gs[k].at \in Nat \ {0} /\ gs[k].at - 1 = at /\ gs[k].at <= Len(doc[key]) + 1
  <2> DEFINE x == gs[k].at
             l == Len(doc[key])
  <2>1. x = at + 1 /\ at \in 1..l /\ l \in Nat
    BY <1>1, <1>7
  <2> HIDE DEF x, l, at
  <2>2. x \in Nat \ {0} /\ x - 1 = at /\ x <= l + 1
    BY <2>1
  <2> QED BY <2>2 DEF x, l
<1>9. gs[k].out \in Seq(Keys)
  BY <1>6
<1> QED BY <1>2, <1>3, <1>4, <1>5, <1>8, <1>9 DEF ResolverFrame

LEMMA InterpolateExact ==
  ASSUME IInv, ResolverInv, Interpolate
  PROVE  ResolverInv'
<1> DEFINE n == Len(frames)
           piece == input[Top.name][Top.at]
<1>0. At("resolver", "text") /\ MaxDepth \in Nat /\ Top.at <= Len(input[Top.name])
  BY ResolverAssumption DEF Interpolate
<1>1. /\ n \in Nat \ {0} /\ n <= MaxDepth + 2 /\ IsFrame(Top) /\ Top.pc = "text"
      /\ ResolverFrame(input, frames, n) /\ Top = frames[n] /\ Top.depth = n - 1
      /\ input \in Documents /\ IsSeq(frames) /\ frames # <<>>
      /\ \A k \in 1..n : ResolverFrame(input, frames, k)
      /\ frames[1].name = call
  BY <1>0, ResolverTop
<1>2. /\ Top.name \in DOMAIN input /\ n <= MaxDepth + 1 /\ Top.out \in Seq(Keys)
      /\ Top.at \in Nat \ {0} /\ Top.name \in Keys
  BY <1>1 DEF ResolverFrame
<1>3. Top.at \in 1..Len(input[Top.name])
  BY <1>0, <1>1, NextPiece
<1>4. piece.to \in Keys /\ piece.kind \in {"text", "open", "ref"}
  BY <1>1, <1>2, <1>3, DocumentIs
<1>a. \/ piece.kind = "text" /\ Go([Top EXCEPT !.at = Top.at + 1, !.out = Append(Top.out, Top.name)])
      \/ piece.kind = "open" /\ Eject("malformed", RawText, Top.depth)
      \/ piece.kind = "ref" /\ Enter(Top, NewFrame(piece.to, Top.depth + 1, 1))
  BY DEF Interpolate
<1> DEFINE pv == PieceValue(input, Top.name, n - 1, Below(input, frames, n), Top.at)
<1>5. /\ piece.kind = "text" => pv = Completed(0, <<Top.name>>)
      /\ piece.kind = "open" => pv = Failed("malformed", n - 1, RawText)
  BY DEF PieceValue
<1> HIDE DEF n, piece, pv
<1>6. CASE piece.kind = "text"
  <2> DEFINE f == [Top EXCEPT !.at = Top.at + 1, !.out = Append(Top.out, Top.name)]
  <2>1. Go(f)
    BY <1>6, <1>a
  <2>2. f.name = Top.name /\ f.pc = "text" /\ f.at = Top.at + 1
        /\ f.out = Append(Top.out, Top.name)
    BY <1>1 DEF IsFrame, FrameFields
  <2> HIDE DEF f
  <2>3. Tops(frames, frames', f)
    BY <1>1, <2>1, GoTops DEF Go
  <2>4. frames'[n] = f /\ \A i \in 1..(n - 1) : frames'[i] = frames[i]
    BY <2>3 DEF Tops, n
  <2>5. f.out = Top.out \o <<Top.name>>
    BY <1>2, <2>2, AppendIsConcat
  <2>6. <<Top.name>> \in Seq(Keys)
    BY <1>2
  <2>7. PieceValue(input, frames[n].name, n - 1, Below(input, frames, n), frames[n].at)
          = Completed(0, <<Top.name>>)
    BY <1>1, <1>5, <1>6 DEF pv
  <2>8. ResolverFrame(input, frames', n)
    BY <1>0, <1>1, <2>2, <2>4, <2>5, <2>6, <2>7, TextGoesOn
  <2> QED BY <1>0, <2>1, <2>2, <2>8, ResolverGoes DEF n
<1>7. CASE piece.kind = "open"
  <2>1. Eject("malformed", RawText, Top.depth)
    BY <1>7, <1>a
  <2>2. pv = Failed("malformed", Top.depth, RawText)
    BY <1>1, <1>5, <1>7
  <2>3. ~pv.ok
    BY <2>2, FailedIs
  <2>4. ValueOf(input, frames, n) = pv
    BY <1>0, <1>1, <2>3, PieceFails DEF pv
  <2> QED BY <1>0, <2>1, <2>2, <2>4, ResolverEject DEF n
<1>8. CASE piece.kind = "ref"
  <2> DEFINE g == NewFrame(piece.to, Top.depth + 1, 1)
  <2>1. Enter(Top, g)
    BY <1>8, <1>a
  <2>2. g.name = piece.to /\ g.pc = "enter" /\ g.at = 1 /\ g.out = <<>>
    BY NewFrameIs, NewFrameBlank
  <2> HIDE DEF g
  <2>3. /\ app' = app /\ input' = input /\ call' = call /\ mode' = mode
        /\ Entered(frames, frames', Top, g)
    BY <1>1, <2>1, EnterStack DEF Enter
  <2>4. /\ Len(frames') = n + 1 /\ frames'[n + 1] = g /\ frames'[n] = Top
        /\ \A i \in 1..(n - 1) : frames'[i] = frames[i]
    BY <2>3 DEF Entered, n
  <2>5. \A j \in 1..((n + 1) - 1) : frames'[j] = frames[j]
    <3> TAKE j \in 1..((n + 1) - 1)
    <3>1. CASE j = n BY <1>1, <2>4, <3>1
    <3>2. CASE j # n
      <4>1. j \in 1..(n - 1)
        BY <1>1, <3>2
      <4> QED BY <2>4, <4>1
    <3> QED BY <3>1, <3>2
  <2>6. ResolverFrame(input, frames', n + 1)
    <3>1. <<>> \in Seq(Keys) /\ n + 1 <= MaxDepth + 2 /\ 1 \in Nat \ {0}
      BY <1>0, <1>1, <1>2
    <3> QED BY <1>4, <2>2, <2>4, <3>1 DEF ResolverFrame
  <2>7. Waits(input, frames', (n + 1) - 1)
    <3>1. (n + 1) - 1 = n
      BY <1>1
    <3>2. Waits(input, frames', n)
      BY <1>0, <1>1, <1>8, <2>2, <2>4 DEF Waits, piece
    <3> QED BY <3>1, <3>2
  <2>8. frames'[1].name = call
    <3>1. 1 \in 1..((n + 1) - 1)
      BY <1>1
    <3> QED BY <1>1, <2>5, <3>1
  <2>9. n + 1 \in 1..(Len(frames) + 1)
    BY <1>1 DEF n
  <2> QED BY <1>0, <2>3, <2>4, <2>5, <2>6, <2>7, <2>8, <2>9, ResolverRuns
<1> QED BY <1>4, <1>6, <1>7, <1>8

LEMMA ResolveReturnExact ==
  ASSUME IInv, ResolverInv, ResolveReturn
  PROVE  ResolverInv'
<1> DEFINE n == Len(frames)
<1>0. At("resolver", "text") /\ MaxDepth \in Nat /\ Top.at > Len(input[Top.name])
  BY ResolverAssumption DEF ResolveReturn
<1>1. /\ n \in Nat \ {0} /\ n <= MaxDepth + 2 /\ IsFrame(Top) /\ Top.pc = "text"
      /\ ResolverFrame(input, frames, n) /\ Top = frames[n] /\ Top.depth = n - 1
      /\ input \in Documents /\ IsSeq(frames) /\ frames # <<>>
      /\ \A k \in 1..n : ResolverFrame(input, frames, k)
      /\ \A k \in 1..n : frames[k].name \in Keys
      /\ \A k \in 1..(n - 1) : Waits(input, frames, k)
      /\ frames[1].name = call /\ app = "resolver" /\ mode = "run"
  BY <1>0, ResolverTop
<1>2. /\ Top.name \in DOMAIN input /\ n <= MaxDepth + 1 /\ Top.out \in Seq(Keys)
      /\ Top.at \in Nat \ {0} /\ Top.name \in Keys /\ Top.name \notin Above(frames, n)
      /\ Top.at <= Len(input[Top.name]) + 1
      /\ TextBehind(input, frames, n, Top.at - 1) = Completed(0, Top.out)
  BY <1>1 DEF ResolverFrame
<1>3. Len(input[Top.name]) \in Nat
  BY <1>1, <1>2, DocumentIs
<1>4. Top.at - 1 = Len(input[Top.name])
  BY <1>0, <1>2, <1>3
<1>5. ValueOf(input, frames, n) = Completed(0, Top.out)
  <2>1. n # MaxDepth + 2
    BY <1>0, <1>1, <1>2
  <2>2. ValueOf(input, frames, n) =
        IF n = MaxDepth + 2 THEN Failed("too_deep", n - 1, frames[n].name)
        ELSE IF frames[n].name \in Above(frames, n) THEN Failed("cycle", n - 1, frames[n].name)
        ELSE IF frames[n].name \notin DOMAIN input THEN Failed("missing", n - 1, frames[n].name)
        ELSE TextBehind(input, frames, n, Len(input[frames[n].name]))
    BY <1>1, ValueOfIs
  <2> HIDE DEF n
  <2> QED BY <1>1, <1>2, <1>4, <2>1, <2>2
<1>6. CASE Succeed(0, Top.out)
  <2>1. /\ app' = app /\ input' = input /\ call' = call /\ mode' = "idle" /\ n = 1
        /\ verdict' = Completed(0, Top.out)
    BY <1>6 DEF Succeed, SucceedAs, Success, Completed
  <2>2. Above(frames, 1) = {} /\ MaxDepth + 2 - 1 = MaxDepth + 1
    BY <1>0 DEF Above
  <2>3. ResolverVerdict(input, call) = ValueOf(input, frames, 1)
    BY <1>1, <2>2 DEF ValueOf, ResolverVerdict
  <2> QED BY <1>1, <1>5, <2>1, <2>3 DEF ResolverInv
<1>7. CASE ReturnTo([Caller EXCEPT !.at = @ + 1, !.out = Joined(@, Top.out)])
  <2> DEFINE f == [Caller EXCEPT !.at = Caller.at + 1, !.out = Joined(Caller.out, Top.out)]
             m == n - 1
  <2>1. ReturnTo(f)
    BY <1>7
  <2>2. /\ app' = app /\ input' = input /\ call' = call /\ mode' = mode /\ n > 1
        /\ frames' = Append(Front(Front(frames)), f) /\ Caller = frames[m]
    BY <2>1 DEF ReturnTo, Caller
  <2>a. Levels(frames)
    BY DEF IInv, Shape
  <2>3. IsFrame(Caller)
    BY <2>2, <2>a, CallerIs
  <2>4. f.name = Caller.name /\ f.pc = Caller.pc /\ f.at = Caller.at + 1
        /\ f.out = Caller.out \o Top.out
    BY <2>3 DEF IsFrame, FrameFields, Joined
  <2> HIDE DEF f
  <2>5. Returned(frames, frames', f)
    BY <1>1, <2>2, ReturnStack
  <2>6. /\ Len(frames') = m /\ frames'[m] = f
        /\ \A i \in 1..(n - 2) : frames'[i] = frames[i]
    BY <2>5 DEF Returned
  <2>7. /\ m \in Nat \ {0} /\ m \in 1..n /\ m \in 1..(n - 1) /\ m + 1 = n /\ m - 1 = n - 2
        /\ m \in 1..(Len(frames) + 1)
    BY <1>1, <2>2
  <2>8. Waits(input, frames, m) /\ ResolverFrame(input, frames, m)
    BY <1>1, <2>7
  <2> HIDE DEF n, m
  <2>9. PieceValue(input, frames[m].name, m - 1, Below(input, frames, m), frames[m].at)
          = Completed(0, Top.out)
    BY <1>5, <2>7, <2>8, WaitsFor
  <2>10. /\ frames[m].pc = "text" /\ frames[m].at <= Len(input[frames[m].name])
    BY <2>8 DEF Waits
  <2>12. \A j \in 1..(m - 1) : frames'[j] = frames[j]
    BY <2>6, <2>7
  <2>11. ResolverFrame(input, frames', m)
    <3>1. /\ frames'[m].name = frames[m].name /\ frames'[m].pc = "text"
          /\ frames'[m].at = frames[m].at + 1 /\ frames'[m].out = frames[m].out \o Top.out
      BY <2>2, <2>4, <2>6, <2>10
    <3> QED BY <1>1, <1>2, <2>7, <2>8, <2>9, <2>10, <2>12, <3>1, TextGoesOn
  <2>13. ASSUME m > 1 PROVE Waits(input, frames', m - 1)
    <3>1. m - 1 \in 1..(m - 1) /\ (m - 1) + 1 = m /\ m - 1 \in 1..(n - 1)
      BY <2>7, <2>13
    <3>2. frames'[m - 1] = frames[m - 1] /\ Waits(input, frames, m - 1)
          /\ frames'[(m - 1) + 1].name = frames[(m - 1) + 1].name
      BY <1>1, <2>2, <2>4, <2>6, <2>12, <3>1
    <3> QED BY <3>2, SameWaits
  <2>14. frames'[1].name = call
    <3>1. CASE m = 1
      BY <1>1, <2>2, <2>4, <2>6, <3>1
    <3>2. CASE m # 1
      <4>1. 1 \in 1..(m - 1)
        BY <2>7, <3>2
      <4> QED BY <1>1, <2>12, <4>1
    <3> QED BY <3>1, <3>2
  <2> QED BY <1>0, <2>2, <2>6, <2>7, <2>11, <2>12, <2>13, <2>14, ResolverRuns
<1> QED BY <1>6, <1>7 DEF ResolveReturn

LEMMA ResolverExact ==
  ASSUME IInv, ResolverInv, ResolverNext
  PROVE  ResolverInv'
BY ConfigResolveExact, ResolveExact, LookUpExact, InterpolateExact,
   ResolveReturnExact, ResolveUnwindExact, ResolveLandExact DEF ResolverNext

-----------------------------------------------------------------------------
(* The scene audit.                                                        *)

\* One level of Visits: b holds the visits one level deeper.
VisitLevel(scene, n, b) ==
  [seen \in SUBSET Elements(scene.names) |-> [node \in 1..Len(scene.names) |->
     IF n = 0 THEN Failed("too_deep", Limit(scene.asked) + 1, scene.names[node])
     ELSE NamesBelow(scene, node, Limit(scene.asked) + 1 - n, seen, b)]]

LEMMA SceneIs ==
  ASSUME NEW scene \in Scenes
  PROVE  /\ Limit(scene.asked) \in Nat \ {0}
         /\ Len(scene.names) \in Nat
         /\ scene.names = <<>> <=> Len(scene.names) = 0
         /\ \A node \in 1..Len(scene.names) :
              /\ Len(scene.children[node]) \in Nat
              /\ \A i \in 1..Len(scene.children[node]) :
                   scene.children[node][i] \in 1..Len(scene.names)
              /\ scene.names[node] \in Elements(scene.names)
<1>1. /\ scene.asked \in Int /\ scene.names \in Seq(Keys \cup Reserved)
      /\ \A n \in 1..Len(scene.names) : scene.children[n] \in Seq(1..Len(scene.names))
  BY InputAssumption
<1>2. Limit(scene.asked) \in Nat \ {0}
  BY <1>1, SceneAssumption DEF Limit
<1>3. Len(scene.names) \in Nat /\ (scene.names = <<>> <=> Len(scene.names) = 0)
  BY <1>1, IsSeqOf
<1>4. ASSUME NEW node \in 1..Len(scene.names)
      PROVE  /\ Len(scene.children[node]) \in Nat
             /\ \A i \in 1..Len(scene.children[node]) :
                   scene.children[node][i] \in 1..Len(scene.names)
  <2> DEFINE c == scene.children[node]
             N == 1..Len(scene.names)
  <2>1. c \in Seq(N)
    BY <1>1
  <2> HIDE DEF c, N
  <2>2. Len(c) \in Nat /\ \A i \in 1..Len(c) : c[i] \in N
    BY <2>1
  <2> QED BY <2>2 DEF c, N
<1>5. \A node \in 1..Len(scene.names) : scene.names[node] \in Elements(scene.names)
  BY DEF Elements
<1> QED BY <1>2, <1>3, <1>4, <1>5

LEMMA VisitsIs ==
  ASSUME NEW scene \in Scenes
  PROVE  \A n \in 0..(Limit(scene.asked) + 1) :
           Visits(scene)[n] = VisitLevel(scene, n, Visits(scene)[n - 1])
<1> DEFINE Is(f, k) == f = [n \in 0..k |-> VisitLevel(scene, n, f[n - 1])]
           Bad == {k \in Nat : ~\E f : Is(f, k)}
<1>0. \A b, c : VisitLevel(scene, 0, b) = VisitLevel(scene, 0, c)
  BY DEF VisitLevel
<1>1. Bad = {}
  <2> SUFFICES ASSUME Bad # {} PROVE FALSE
    OBVIOUS
  <2>1. PICK k \in Bad : \A j \in Bad : k <= j
    <3> HIDE DEF Bad
    <3>1. Bad \subseteq Nat
      BY DEF Bad
    <3> QED BY <3>1, LeastNat
  <2>2. k \in Nat /\ ~\E f : Is(f, k)
    BY <2>1
  <2>3. k # 0
    <3> DEFINE f == [n \in 0..0 |-> VisitLevel(scene, 0, 0)]
    <3>1. Is(f, 0)
      <4>1. ASSUME NEW n \in 0..0 PROVE f[n] = VisitLevel(scene, n, f[n - 1])
        <5>1. n = 0
          OBVIOUS
        <5>2. f[n] = VisitLevel(scene, 0, 0)
          OBVIOUS
        <5> HIDE DEF f
        <5> QED BY <1>0, <5>1, <5>2
      <4>2. f = [n \in 0..0 |-> f[n]]
        OBVIOUS
      <4> HIDE DEF f
      <4> QED BY <4>1, <4>2
    <3> QED BY <2>2, <3>1
  <2>4. k - 1 \in Nat /\ k - 1 \notin Bad
    <3> HIDE DEF Bad
    <3> QED BY <2>1, <2>2, <2>3
  <2>5. PICK g : Is(g, k - 1)
    BY <2>4
  <2> DEFINE f == [n \in 0..k |-> VisitLevel(scene, n, g[n - 1])]
  <2>6. ASSUME NEW n \in 0..k PROVE f[n] = VisitLevel(scene, n, f[n - 1])
    <3>1. f[n] = VisitLevel(scene, n, g[n - 1])
      OBVIOUS
    <3>2. CASE n = 0
      <4> HIDE DEF f
      <4> QED BY <1>0, <3>1, <3>2
    <3>3. CASE n # 0
      <4>1. n - 1 \in 0..(k - 1) /\ n - 1 \in 0..k
        BY <2>2, <3>3
      <4>2. g[n - 1] = VisitLevel(scene, n - 1, g[(n - 1) - 1])
        BY <2>5, <4>1
      <4>3. f[n - 1] = VisitLevel(scene, n - 1, g[(n - 1) - 1])
        BY <4>1
      <4> HIDE DEF f
      <4> QED BY <3>1, <4>2, <4>3
    <3> QED BY <3>2, <3>3
  <2>7. Is(f, k)
    <3>1. f = [n \in 0..k |-> f[n]]
      OBVIOUS
    <3> HIDE DEF f
    <3> QED BY <2>6, <3>1
  <2> QED BY <2>2, <2>7
<1> DEFINE visit == Visits(scene)
           l == Limit(scene.asked) + 1
<1>2. l \in Nat
  BY SceneIs
<1> HIDE DEF l
<1>3. \E f : Is(f, l)
  BY <1>1, <1>2
<1>4. Is(visit, l)
  BY <1>3 DEF Visits, VisitLevel, l
<1> HIDE DEF visit
<1>5. \A n \in 0..l : visit[n] = VisitLevel(scene, n, visit[n - 1])
  BY <1>4
<1> QED BY <1>5 DEF visit, l

\* A visit: too deep at the last level, the names below the node above it.
LEMMA VisitIs ==
  ASSUME NEW scene \in Scenes, NEW seen \in SUBSET Elements(scene.names),
         NEW node \in 1..Len(scene.names)
  PROVE  /\ Visits(scene)[0][seen][node] =
              Failed("too_deep", Limit(scene.asked) + 1, scene.names[node])
         /\ \A n \in 1..(Limit(scene.asked) + 1) :
              Visits(scene)[n][seen][node] =
                NamesBelow(scene, node, Limit(scene.asked) + 1 - n, seen,
                           Visits(scene)[n - 1])
<1> DEFINE visit == Visits(scene)
           l == Limit(scene.asked)
<1>0. l \in Nat
  BY SceneIs
<1>1. \A n \in 0..(l + 1) : visit[n] = VisitLevel(scene, n, visit[n - 1])
  BY VisitsIs
<1>a. \A n, b : VisitLevel(scene, n, b)[seen][node] =
             IF n = 0 THEN Failed("too_deep", l + 1, scene.names[node])
             ELSE NamesBelow(scene, node, l + 1 - n, seen, b)
  BY DEF VisitLevel
<1> HIDE DEF visit, l
<1>2. visit[0][seen][node] = Failed("too_deep", l + 1, scene.names[node])
  <2>1. visit[0] = VisitLevel(scene, 0, visit[0 - 1])
    BY <1>0, <1>1
  <2> QED BY <1>a, <2>1
<1>3. ASSUME NEW n \in 1..(l + 1)
      PROVE  visit[n][seen][node] =
               NamesBelow(scene, node, l + 1 - n, seen, visit[n - 1])
  <2>1. visit[n] = VisitLevel(scene, n, visit[n - 1]) /\ n # 0
    BY <1>0, <1>1
  <2> QED BY <1>a, <2>1
<1> QED BY <1>2, <1>3 DEF visit, l

\* The names up to child i of a node, b those up to the child before it.
NextNames(scene, node, seen, below, b, i) ==
  After(b, below[seen \cup Elements(b.out)][scene.children[node][i]])
OwnName(scene, node) == Completed(0, <<scene.names[node]>>)

LEMMA NamesUpToIs ==
  ASSUME NEW scene, NEW node, Len(scene.children[node]) \in Nat, NEW seen, NEW below
  PROVE  /\ NamesUpTo(scene, node, seen, below)[0] = OwnName(scene, node)
         /\ \A j \in 1..Len(scene.children[node]) :
              NamesUpTo(scene, node, seen, below)[j] =
                NextNames(scene, node, seen, below,
                          NamesUpTo(scene, node, seen, below)[j - 1], j)
<1> DEFINE Step(b, i) == NextNames(scene, node, seen, below, b, i)
           own == OwnName(scene, node)
           Is(f, k) == f = [i \in 0..k |-> IF i = 0 THEN own ELSE Step(f[i - 1], i)]
           Bad == {k \in Nat : ~\E f : Is(f, k)}
<1> HIDE DEF Step, own
<1>1. Bad = {}
  <2> SUFFICES ASSUME Bad # {} PROVE FALSE
    OBVIOUS
  <2>1. PICK k \in Bad : \A j \in Bad : k <= j
    <3> HIDE DEF Bad
    <3>1. Bad \subseteq Nat
      BY DEF Bad
    <3> QED BY <3>1, LeastNat
  <2>2. k \in Nat /\ ~\E f : Is(f, k)
    BY <2>1
  <2>3. k # 0
    <3> DEFINE f == [i \in 0..0 |-> own]
    <3>1. Is(f, 0)
      OBVIOUS
    <3> QED BY <2>2, <3>1
  <2>4. k - 1 \in Nat /\ k - 1 \notin Bad
    <3> HIDE DEF Bad
    <3> QED BY <2>1, <2>2, <2>3
  <2>5. PICK g : Is(g, k - 1)
    BY <2>4
  <2> DEFINE f == [i \in 0..k |-> IF i = 0 THEN own ELSE Step(g[i - 1], i)]
  <2>6. ASSUME NEW i \in 0..k, i # 0 PROVE f[i - 1] = g[i - 1]
    <3>1. i - 1 \in 0..(k - 1) /\ i - 1 \in 0..k
      BY <2>2, <2>6
    <3>2. g[i - 1] = IF i - 1 = 0 THEN own ELSE Step(g[(i - 1) - 1], i - 1)
      BY <2>5, <3>1
    <3> QED BY <3>1, <3>2
  <2>7. Is(f, k)
    <3> HIDE DEF f
    <3>1. \A i \in 0..k : f[i] = IF i = 0 THEN own ELSE Step(f[i - 1], i)
      BY <2>6 DEF f
    <3>2. f = [i \in 0..k |-> f[i]]
      BY DEF f
    <3> QED BY <3>1, <3>2
  <2> QED BY <2>2, <2>7
<1> DEFINE upto == NamesUpTo(scene, node, seen, below)
<1>3. \E f : Is(f, Len(scene.children[node]))
  BY <1>1
<1>4. Is(upto, Len(scene.children[node]))
  BY <1>3 DEF NamesUpTo, NextNames, OwnName, Step, own
<1> HIDE DEF upto
<1>5. upto[0] = own
  BY <1>4
<1>6. \A i \in 1..Len(scene.children[node]) : upto[i] = Step(upto[i - 1], i)
  BY <1>4
<1> QED BY <1>5, <1>6 DEF upto, Step, own

\* A failure on the way stays.
LEMMA NamesStay ==
  ASSUME NEW scene, NEW node, Len(scene.children[node]) \in Nat, NEW seen, NEW below,
         NEW i \in 0..Len(scene.children[node]),
         ~NamesUpTo(scene, node, seen, below)[i].ok
  PROVE  NamesUpTo(scene, node, seen, below)[Len(scene.children[node])] =
           NamesUpTo(scene, node, seen, below)[i]
<1> DEFINE upto == NamesUpTo(scene, node, seen, below)
           n == Len(scene.children[node])
           Bad == {j \in i..n : upto[j] # upto[i]}
<1>1. \A j \in 1..n : upto[j] = NextNames(scene, node, seen, below, upto[j - 1], j)
  BY NamesUpToIs
<1>2. ~upto[i].ok /\ n \in Nat
  OBVIOUS
<1> HIDE DEF upto, n
<1>3. Bad = {}
  <2> SUFFICES ASSUME Bad # {} PROVE FALSE
    OBVIOUS
  <2>1. Bad \subseteq Nat
    OBVIOUS
  <2>2. PICK j \in Bad : \A k \in Bad : j <= k
    BY <2>1, LeastNat
  <2>3. j # i /\ j \in i..n
    OBVIOUS
  <2>4. j - 1 \in i..n /\ j - 1 \notin Bad /\ j \in 1..n
    BY <1>2, <2>2, <2>3
  <2>5. upto[j - 1] = upto[i]
    BY <2>4
  <2>6. upto[j] = upto[i]
    BY <1>1, <1>2, <2>4, <2>5 DEF After, NextNames
  <2> QED BY <2>6
<1>4. n \in i..n
  BY <1>2 DEF n
<1> QED BY <1>3, <1>4 DEF upto, n

\* The early returns of a visit.
Unsound(name, seen) ==
  IF name = NoName THEN "empty_name"
  ELSE IF name \in Reserved THEN "reserved_prefix"
  ELSE IF name \in seen THEN "duplicate_name" ELSE "none"

LEMMA NamesBelowIs ==
  ASSUME NEW scene, NEW node, NEW depth, NEW seen, NEW below
  PROVE  NamesBelow(scene, node, depth, seen, below) =
           LET fault == Unsound(scene.names[node], seen)
           IN  IF fault # "none" THEN Failed(fault, depth, scene.names[node])
               ELSE NamesUpTo(scene, node, seen, below)[Len(scene.children[node])]
<1> DEFINE name == scene.names[node]
           c1 == name = NoName
           c2 == name \in Reserved
           c3 == name \in seen
           fault == FirstFault(<<<<c1, "empty_name">>, <<c2, "reserved_prefix">>,
                                 <<c3, "duplicate_name">>>>)
<1>1. NamesBelow(scene, node, depth, seen, below) =
        IF fault # "none" THEN Failed(fault, depth, name)
        ELSE NamesUpTo(scene, node, seen, below)[Len(scene.children[node])]
  BY DEF NamesBelow
<1> HIDE DEF c1, c2, c3
<1>2. fault = IF c1 THEN "empty_name" ELSE IF c2 THEN "reserved_prefix"
              ELSE IF c3 THEN "duplicate_name" ELSE "none"
  BY FirstFault3
<1> HIDE DEF fault
<1>3. fault = Unsound(name, seen)
  BY <1>2 DEF Unsound, c1, c2, c3
<1> QED BY <1>1, <1>3

LEMMA NameFaultIs ==
  ASSUME NEW name
  PROVE  NameFault(name) = Unsound(name, Elements(path))
<1> DEFINE c1 == name = NoName
           c2 == name \in Reserved
           c3 == name \in Elements(path)
<1>1. NameFault(name) =
        FirstFault(<<<<c1, "empty_name">>, <<c2, "reserved_prefix">>, <<c3, "duplicate_name">>>>)
  BY DEF NameFault
<1> HIDE DEF c1, c2, c3
<1>2. NameFault(name) = IF c1 THEN "empty_name" ELSE IF c2 THEN "reserved_prefix"
              ELSE IF c3 THEN "duplicate_name" ELSE "none"
  BY <1>1, FirstFault3
<1> QED BY <1>2 DEF Unsound, c1, c2, c3

LEMMA ElementsJoined ==
  ASSUME NEW S, NEW s \in Seq(S), NEW t \in Seq(S)
  PROVE  /\ Elements(s \o t) = Elements(s) \cup Elements(t)
         /\ s \o t \in Seq(S) /\ Len(s \o t) = Len(s) + Len(t)
         /\ Elements(s) \subseteq S
<1> DEFINE u == s \o t
<1>1. /\ u \in Seq(S) /\ Len(u) = Len(s) + Len(t)
      /\ \A i \in 1..(Len(s) + Len(t)) : u[i] = IF i <= Len(s) THEN s[i] ELSE t[i - Len(s)]
  BY ConcatProperties
<1>2. Len(s) \in Nat /\ Len(t) \in Nat
  OBVIOUS
<1> HIDE DEF u
<1>3. Elements(u) \subseteq Elements(s) \cup Elements(t)
  <2> SUFFICES ASSUME NEW i \in 1..Len(u) PROVE u[i] \in Elements(s) \cup Elements(t)
    BY DEF Elements
  <2>1. CASE i <= Len(s)
    BY <1>1, <1>2, <2>1 DEF Elements
  <2>2. CASE ~(i <= Len(s))
    <3>1. i - Len(s) \in 1..Len(t) /\ u[i] = t[i - Len(s)]
      BY <1>1, <1>2, <2>2
    <3> QED BY <3>1 DEF Elements
  <2> QED BY <2>1, <2>2
<1>4. Elements(s) \subseteq Elements(u)
  <2> SUFFICES ASSUME NEW i \in 1..Len(s) PROVE s[i] \in Elements(u)
    BY DEF Elements
  <2>1. i \in 1..Len(u) /\ u[i] = s[i]
    BY <1>1, <1>2
  <2> QED BY <2>1 DEF Elements
<1>5. Elements(t) \subseteq Elements(u)
  <2> SUFFICES ASSUME NEW i \in 1..Len(t) PROVE t[i] \in Elements(u)
    BY DEF Elements
  <2>1. i + Len(s) \in 1..Len(u) /\ (i + Len(s)) - Len(s) = i /\ ~(i + Len(s) <= Len(s))
    BY <1>1, <1>2
  <2>2. u[i + Len(s)] = t[i]
    BY <1>1, <2>1
  <2> QED BY <2>1, <2>2 DEF Elements
<1>6. Elements(s) \subseteq S
  BY DEF Elements
<1> QED BY <1>1, <1>3, <1>4, <1>5, <1>6 DEF u

\* The names of a scene; what a visit of frame k's node must come to, when the
\* names in before[k] were seen before it; and the names behind frame k.
TreeNames(scene) == Elements(scene.names)
VisitOf(scene, fs, before, k) ==
  Visits(scene)[Limit(scene.asked) + 2 - k][Elements(before[k])][fs[k].name]
NamesBehind(scene, fs, before, k, i) ==
  NamesUpTo(scene, fs[k].name, Elements(before[k]), Visits(scene)[Limit(scene.asked) + 1 - k])[i]

\* Frame k, which has seen the names own[k] itself.
SceneFrame(scene, fs, before, own, k) ==
  /\ fs[k].name \in 1..Len(scene.names)
  /\ k <= Limit(scene.asked) + 2
  /\ fs[k].at \in Nat \ {0}
  /\ fs[k].pc \in {"enter", "children"}
  /\ before[k] \in Seq(TreeNames(scene))
  /\ own[k] \in Seq(TreeNames(scene))
  /\ before[k + 1] = before[k] \o own[k]
  /\ fs[k].pc = "enter" => own[k] = <<>> /\ fs[k].at = 1
  /\ fs[k].pc = "children" =>
       /\ k <= Limit(scene.asked) + 1
       /\ Unsound(scene.names[fs[k].name], Elements(before[k])) = "none"
       /\ fs[k].at <= Len(scene.children[fs[k].name]) + 1

\* The innermost frame is about to visit a child.
SceneFront(scene, fs, before, own, k) ==
  fs[k].pc = "children" =>
    NamesBehind(scene, fs, before, k, fs[k].at - 1) = Completed(0, own[k])

\* A frame that waits has gone on from the child the next frame visits.
Visiting(scene, fs, before, own, k) ==
  /\ fs[k].pc = "children"
  /\ fs[k].at >= 2
  /\ NamesBehind(scene, fs, before, k, fs[k].at - 2) = Completed(0, own[k])
  /\ scene.children[fs[k].name][fs[k].at - 1] = fs[k + 1].name

SceneDescent(scene, fs, before, own, p) ==
  /\ fs[1].name = 1
  /\ before[1] = <<>>
  /\ \A k \in 1..Len(fs) : SceneFrame(scene, fs, before, own, k)
  /\ \A k \in 1..(Len(fs) - 1) : Visiting(scene, fs, before, own, k)
  /\ SceneFront(scene, fs, before, own, Len(fs))
  /\ before[Len(fs) + 1] = p

SceneInv ==
  app = "scene" =>
    /\ mode # "idle" \/ verdict # NoVerdict => input \in Scenes
    /\ mode = "begin" => input.names = <<>>
    /\ mode = "run" =>
         /\ input.names # <<>>
         /\ count = Len(path)
         /\ \E before, own : SceneDescent(input, frames, before, own, path)
    /\ mode = "fail" => SceneVerdict(input) = Returning /\ IsPayload(payload)
    /\ mode # "escape"
    /\ mode = "idle" /\ verdict # NoVerdict => verdict = SceneVerdict(input)

\* What a visit of a frame's node comes to.
LEMMA VisitOfIs ==
  ASSUME NEW scene \in Scenes, NEW fs, NEW before, NEW k \in Nat \ {0},
         k <= Limit(scene.asked) + 2, fs[k].name \in 1..Len(scene.names),
         before[k] \in Seq(TreeNames(scene))
  PROVE  VisitOf(scene, fs, before, k) =
           LET name == scene.names[fs[k].name]
               fault == Unsound(name, Elements(before[k]))
           IN  IF k = Limit(scene.asked) + 2 THEN Failed("too_deep", k - 1, name)
               ELSE IF fault # "none" THEN Failed(fault, k - 1, name)
               ELSE NamesBehind(scene, fs, before, k, Len(scene.children[fs[k].name]))
<1> DEFINE seen == Elements(before[k])
           node == fs[k].name
           name == scene.names[node]
           fault == Unsound(name, seen)
           l == Limit(scene.asked)
           n == l + 2 - k
<1>0. l \in Nat
  BY SceneIs
<1>1. seen \in SUBSET Elements(scene.names)
  <2>1. Elements(before[k]) \subseteq TreeNames(scene)
    <3> DEFINE s == before[k]
               T == TreeNames(scene)
    <3>1. s \in Seq(T)
      OBVIOUS
    <3> HIDE DEF s, T
    <3>2. Elements(s) \subseteq T
      BY <3>1, ElementsJoined
    <3> QED BY <3>2 DEF s, T
  <2> QED BY <2>1 DEF TreeNames
<1>2. node \in 1..Len(scene.names)
  OBVIOUS
<1>3. VisitOf(scene, fs, before, k) = Visits(scene)[n][seen][node]
  BY DEF VisitOf
<1>a. NamesBehind(scene, fs, before, k, Len(scene.children[node])) =
        NamesUpTo(scene, node, seen, Visits(scene)[l + 1 - k])[Len(scene.children[node])]
  BY DEF NamesBehind
<1>b. k \in Nat \ {0} /\ k <= l + 2
  OBVIOUS
<1> HIDE DEF seen, node
<1>4. /\ Visits(scene)[0][seen][node] = Failed("too_deep", l + 1, name)
      /\ \A i \in 1..(l + 1) :
           Visits(scene)[i][seen][node] =
             NamesBelow(scene, node, l + 1 - i, seen, Visits(scene)[i - 1])
  BY <1>1, <1>2, VisitIs
<1> HIDE DEF l
<1>5. CASE k = l + 2
  <2>1. n = 0 /\ k - 1 = l + 1
    BY <1>0, <1>5
  <2> QED BY <1>3, <1>4, <1>5, <2>1 DEF node, l
<1>6. CASE k # l + 2
  <2>1. n \in 1..(l + 1) /\ l + 1 - n = k - 1 /\ n - 1 = l + 1 - k
    BY <1>0, <1>6, <1>b
  <2>2. VisitOf(scene, fs, before, k) =
          NamesBelow(scene, node, k - 1, seen, Visits(scene)[l + 1 - k])
    <3> HIDE DEF n
    <3> QED BY <1>3, <1>4, <2>1
  <2> DEFINE d == k - 1
             below == Visits(scene)[l + 1 - k]
  <2>3. VisitOf(scene, fs, before, k) = NamesBelow(scene, node, d, seen, below)
    BY <2>2
  <2> HIDE DEF d, below
  <2>4. VisitOf(scene, fs, before, k) =
          IF fault # "none" THEN Failed(fault, d, name)
          ELSE NamesUpTo(scene, node, seen, below)[Len(scene.children[node])]
    BY <2>3, NamesBelowIs
  <2>5. NamesBehind(scene, fs, before, k, Len(scene.children[node])) =
          NamesUpTo(scene, node, seen, below)[Len(scene.children[node])]
    BY <1>a DEF below
  <2> QED BY <1>6, <2>4, <2>5 DEF d, node, seen, l
<1> QED BY <1>5, <1>6

\* The next child of a frame's node, the names in o being those behind it.
ChildVisit(scene, fs, before, k, o, i) ==
  Visits(scene)[Limit(scene.asked) + 1 - k]
    [Elements(before[k]) \cup Elements(o)][scene.children[fs[k].name][i]]

LEMMA NextChild ==
  ASSUME NEW scene \in Scenes, NEW fs, NEW before, NEW k \in Nat \ {0},
         fs[k].name \in 1..Len(scene.names), NEW o,
         NEW i \in 1..Len(scene.children[fs[k].name]),
         NamesBehind(scene, fs, before, k, i - 1) = Completed(0, o)
  PROVE  NamesBehind(scene, fs, before, k, i) =
           After(Completed(0, o), ChildVisit(scene, fs, before, k, o, i))
<1> DEFINE node == fs[k].name
           seen == Elements(before[k])
           below == Visits(scene)[Limit(scene.asked) + 1 - k]
           upto == NamesUpTo(scene, node, seen, below)
<1>1. Len(scene.children[node]) \in Nat
  BY SceneIs
<1>2. i \in 1..Len(scene.children[node])
  OBVIOUS
<1>3. upto[i - 1] = Completed(0, o) /\ NamesBehind(scene, fs, before, k, i) = upto[i]
  BY DEF NamesBehind
<1>4. Completed(0, o).out = o
  BY CompletedIs
<1> SUFFICES upto[i] = After(Completed(0, o), below[seen \cup Elements(o)][scene.children[node][i]])
  BY <1>3 DEF ChildVisit
<1> HIDE DEF node, seen, below
<1>5. upto[i] = NextNames(scene, node, seen, below, upto[i - 1], i)
  BY <1>1, <1>2, NamesUpToIs
<1> HIDE DEF upto
<1>6. upto[i] = NextNames(scene, node, seen, below, Completed(0, o), i)
  BY <1>3, <1>5
<1> QED BY <1>4, <1>6 DEF NextNames

\* What a waiting frame waits for is the visit of the next frame's node.
LEMMA VisitingFor ==
  ASSUME NEW scene \in Scenes, NEW fs, NEW before, NEW own, NEW k \in Nat \ {0},
         SceneFrame(scene, fs, before, own, k), Visiting(scene, fs, before, own, k)
  PROVE  /\ NamesBehind(scene, fs, before, k, fs[k].at - 1) =
              After(Completed(0, own[k]), VisitOf(scene, fs, before, k + 1))
         /\ fs[k].at - 1 \in 1..Len(scene.children[fs[k].name])
<1> DEFINE node == fs[k].name
           i == fs[k].at - 1
           l == Limit(scene.asked)
<1>0. l \in Nat
  BY SceneIs
<1>1. /\ node \in 1..Len(scene.names) /\ fs[k].at \in Nat \ {0} /\ fs[k].pc = "children"
      /\ before[k] \in Seq(TreeNames(scene)) /\ own[k] \in Seq(TreeNames(scene))
      /\ before[k + 1] = before[k] \o own[k]
      /\ fs[k].at <= Len(scene.children[node]) + 1
      /\ fs[k].at >= 2
      /\ NamesBehind(scene, fs, before, k, fs[k].at - 2) = Completed(0, own[k])
      /\ scene.children[node][i] = fs[k + 1].name
  BY DEF SceneFrame, Visiting
<1>2. Len(scene.children[node]) \in Nat
  BY <1>1, SceneIs
<1>3. i \in 1..Len(scene.children[node]) /\ i - 1 = fs[k].at - 2
  <2> DEFINE at == fs[k].at
             c == Len(scene.children[node])
  <2>1. at \in Nat \ {0} /\ at <= c + 1 /\ at >= 2 /\ c \in Nat
    BY <1>1, <1>2
  <2> HIDE DEF at, c
  <2>2. at - 1 \in 1..c /\ (at - 1) - 1 = at - 2
    BY <2>1
  <2> QED BY <2>2 DEF at, c
<1>4. Elements(before[k + 1]) = Elements(before[k]) \cup Elements(own[k])
  BY <1>1, ElementsJoined
<1>5. l + 2 - (k + 1) = l + 1 - k
  BY <1>0
<1>6. VisitOf(scene, fs, before, k + 1) =
        Visits(scene)[l + 1 - k][Elements(before[k]) \cup Elements(own[k])][fs[k + 1].name]
  BY <1>4, <1>5 DEF VisitOf
<1>7. NamesBehind(scene, fs, before, k, i - 1) = Completed(0, own[k])
  BY <1>1, <1>3
<1> HIDE DEF i
<1>8. NamesBehind(scene, fs, before, k, i) =
        After(Completed(0, own[k]),
              Visits(scene)[l + 1 - k][Elements(before[k]) \cup Elements(own[k])]
                [scene.children[node][i]])
  <2> DEFINE o == own[k]
  <2>1. /\ fs[k].name \in 1..Len(scene.names)
        /\ i \in 1..Len(scene.children[fs[k].name])
        /\ NamesBehind(scene, fs, before, k, i - 1) = Completed(0, o)
    BY <1>1, <1>3, <1>7
  <2> HIDE DEF o
  <2>2. NamesBehind(scene, fs, before, k, i) =
          After(Completed(0, o), ChildVisit(scene, fs, before, k, o, i))
    BY <2>1, NextChild
  <2> QED BY <2>2 DEF o, ChildVisit
<1> QED BY <1>1, <1>3, <1>6, <1>8 DEF i

\* If that fails, so does the waiting frame's.
LEMMA ChildFails ==
  ASSUME NEW scene \in Scenes, NEW fs, NEW before, NEW own, NEW k \in Nat \ {0},
         SceneFrame(scene, fs, before, own, k), Visiting(scene, fs, before, own, k),
         NEW v, ~v.ok, VisitOf(scene, fs, before, k + 1) = v
  PROVE  VisitOf(scene, fs, before, k) = v
<1> DEFINE node == fs[k].name
           i == fs[k].at - 1
           l == Limit(scene.asked)
           c == Len(scene.children[node])
<1>0. l \in Nat
  BY SceneIs
<1>1. /\ NamesBehind(scene, fs, before, k, i) = After(Completed(0, own[k]), v)
      /\ i \in 1..c
  BY VisitingFor
<1>2. NamesBehind(scene, fs, before, k, i) = v
  BY <1>1, CompletedIs DEF After
<1>3. /\ node \in 1..Len(scene.names) /\ k <= l + 1
      /\ before[k] \in Seq(TreeNames(scene))
      /\ Unsound(scene.names[node], Elements(before[k])) = "none"
  BY DEF SceneFrame, Visiting
<1>4. c \in Nat
  BY <1>3, SceneIs
<1>5. NamesBehind(scene, fs, before, k, c) = v
  <2> DEFINE seen == Elements(before[k])
             below == Visits(scene)[l + 1 - k]
  <2>1. NamesUpTo(scene, node, seen, below)[i] = v
    BY <1>2 DEF NamesBehind
  <2>2. i \in 0..c
    BY <1>1, <1>4
  <2>a. Len(scene.children[node]) \in Nat /\ i \in 0..Len(scene.children[node])
    BY <1>4, <2>2
  <2> HIDE DEF node, i, seen, below
  <2>3. NamesUpTo(scene, node, seen, below)[Len(scene.children[node])] =
          NamesUpTo(scene, node, seen, below)[i]
    BY <2>1, <2>a, NamesStay
  <2> QED BY <2>1, <2>3 DEF NamesBehind, node, seen, below
<1>6. k # l + 2 /\ k <= l + 2
  BY <1>0, <1>3
<1>7. VisitOf(scene, fs, before, k) =
        LET name == scene.names[fs[k].name]
            fault == Unsound(name, Elements(before[k]))
        IN  IF k = l + 2 THEN Failed("too_deep", k - 1, name)
            ELSE IF fault # "none" THEN Failed(fault, k - 1, name)
            ELSE NamesBehind(scene, fs, before, k, c)
  BY <1>3, <1>6, VisitOfIs
<1> HIDE DEF c, l
<1> QED BY <1>3, <1>5, <1>6, <1>7

\* A failure of the innermost visit is the failure of the root's.
LEMMA SceneFails ==
  ASSUME NEW scene \in Scenes, NEW fs, NEW before, NEW own, NEW p, Len(fs) \in Nat \ {0},
         SceneDescent(scene, fs, before, own, p), NEW v, ~v.ok,
         VisitOf(scene, fs, before, Len(fs)) = v
  PROVE  Visits(scene)[Limit(scene.asked) + 1][{}][1] = v
<1> DEFINE n == Len(fs)
           Bad == {i \in 0..(n - 1) : VisitOf(scene, fs, before, n - i) # v}
           l == Limit(scene.asked)
<1>0. l \in Nat
  BY SceneIs
<1>a. /\ \A k \in 1..n : SceneFrame(scene, fs, before, own, k)
      /\ \A k \in 1..(n - 1) : Visiting(scene, fs, before, own, k)
      /\ fs[1].name = 1 /\ before[1] = <<>>
  BY DEF SceneDescent
<1>b. n \in Nat \ {0} /\ VisitOf(scene, fs, before, n) = v
  OBVIOUS
<1> HIDE DEF n
<1>1. Bad = {}
  <2> SUFFICES ASSUME Bad # {} PROVE FALSE
    OBVIOUS
  <2>1. Bad \subseteq Nat
    OBVIOUS
  <2>2. PICK i \in Bad : \A j \in Bad : i <= j
    BY <2>1, LeastNat
  <2>3. i \in 0..(n - 1) /\ VisitOf(scene, fs, before, n - i) # v
    OBVIOUS
  <2> HIDE DEF Bad
  <2>4. i # 0
    <3>1. n - 0 = n
      BY <1>b
    <3> QED BY <1>b, <2>3, <3>1
  <2> DEFINE k == n - i
  <2>5. k \in 1..n /\ k \in 1..(n - 1) /\ k \in Nat \ {0} /\ i - 1 \in 0..(n - 1)
        /\ n - (i - 1) = k + 1
    BY <1>b, <2>3, <2>4
  <2>6. i - 1 \notin Bad
    BY <2>2, <2>3, <2>5
  <2>7. VisitOf(scene, fs, before, k + 1) = v
    BY <2>5, <2>6 DEF Bad
  <2> HIDE DEF k
  <2>8. Visiting(scene, fs, before, own, k) /\ SceneFrame(scene, fs, before, own, k)
    BY <1>a, <2>5
  <2>9. VisitOf(scene, fs, before, k) = v
    BY <2>5, <2>7, <2>8, ChildFails
  <2> QED BY <2>3, <2>9 DEF k
<1>2. n - 1 \in 0..(n - 1) /\ n - (n - 1) = 1
  BY <1>b
<1>3. VisitOf(scene, fs, before, 1) = v
  BY <1>1, <1>2
<1>4. Elements(before[1]) = {} /\ l + 2 - 1 = l + 1
  BY <1>0, <1>a, EmptyIsSeq DEF Elements
<1> QED BY <1>3, <1>4, <1>a DEF VisitOf

LEMMA SceneReported ==
  ASSUME NEW scene, scene.names # <<>>, NEW f, NEW d, NEW n,
         Visits(scene)[Limit(scene.asked) + 1][{}][1] = Failed(f, d, n)
  PROVE  SceneVerdict(scene) =
           Reported(f, n, IF scene.record
                          THEN Shorter(IF f = "too_deep" THEN d ELSE d + 1)
                          ELSE NoContext)
<1> DEFINE all == Visits(scene)[Limit(scene.asked) + 1][{}][1]
<1>1. ~all.ok /\ all.fault = f /\ all.depth = d /\ all.name = n
  BY FailedIs
<1> HIDE DEF all
<1>2. SceneVerdict(scene) =
        [Failed(all.fault, 0, all.name)
           EXCEPT !.hops = IF scene.record
                           THEN Shorter(IF all.fault = "too_deep" THEN all.depth
                                        ELSE all.depth + 1)
                           ELSE NoContext]
  BY <1>1 DEF SceneVerdict, all
<1> QED BY <1>1, <1>2 DEF Reported

LEMMA SceneCompletes ==
  ASSUME NEW scene, scene.names # <<>>, NEW o,
         Visits(scene)[Limit(scene.asked) + 1][{}][1] = Completed(0, o)
  PROVE  SceneVerdict(scene) = Completed(Len(o), <<>>)
<1> DEFINE all == Visits(scene)[Limit(scene.asked) + 1][{}][1]
<1>1. all.ok /\ all.out = o
  BY CompletedIs
<1> HIDE DEF all
<1>2. SceneVerdict(scene) = Completed(Len(all.out), <<>>)
  BY <1>1 DEF SceneVerdict, all
<1> QED BY <1>1, <1>2

LEMMA AuditExact ==
  ASSUME IInv, SceneInv, NEW s \in Scenes, Audit(s)
  PROVE  SceneInv'
<1>1. /\ app = "scene" /\ app' = app /\ mode = "idle" /\ input' = s /\ path' = path
      /\ frames' = (IF s.names = <<>> THEN <<>> ELSE <<NewFrame(1, 0, 1)>>)
      /\ mode' = (IF s.names = <<>> THEN "begin" ELSE "run") /\ count' = 0
  BY DEF Audit, Begin
<1>2. path' = <<>>
  BY <1>1 DEF IInv, Shape
<1>3. CASE s.names = <<>>
  BY <1>1, <1>3 DEF SceneInv
<1>4. CASE s.names # <<>>
  <2> DEFINE f == NewFrame(1, 0, 1)
             before == [k \in 1..2 |-> <<>>]
             own == [k \in 1..1 |-> <<>>]
  <2>1. f.name = 1 /\ f.pc = "enter" /\ f.at = 1
    BY NewFrameIs
  <2> HIDE DEF f
  <2>2. frames' = <<f>>
    BY <1>1, <1>4 DEF f
  <2>3. Len(frames') = 1 /\ frames'[1] = f
    BY <2>2
  <2>4. Limit(s.asked) \in Nat \ {0} /\ 1 \in 1..Len(s.names)
    BY <1>4, SceneIs
  <2>5. <<>> \in Seq(TreeNames(s))
    OBVIOUS
  <2>6. before[1] = <<>> /\ before[2] = <<>> /\ own[1] = <<>>
    OBVIOUS
  <2> HIDE DEF before, own
  <2>7. <<>> \o <<>> = <<>>
    BY <2>5, ConcatEmptySeq
  <2>8. before[1 + 1] = before[1] \o own[1]
    <3>1. 1 + 1 = 2
      OBVIOUS
    <3> QED BY <2>6, <2>7, <3>1
  <2>9. SceneFrame(s, frames', before, own, 1)
    <3>1. 1 <= Limit(s.asked) + 2 /\ 1 \in Nat \ {0}
      BY <2>4
    <3> QED BY <2>1, <2>3, <2>4, <2>5, <2>6, <2>8, <3>1 DEF SceneFrame
  <2>10. SceneDescent(s, frames', before, own, path')
    <3>1. SceneFront(s, frames', before, own, 1)
      BY <2>1, <2>3 DEF SceneFront
    <3>2. \A k \in 1..(1 - 1) : Visiting(s, frames', before, own, k)
      OBVIOUS
    <3>3. before[1 + 1] = path'
      BY <1>2, <2>6, <2>7, <2>8
    <3>4. \A k \in 1..1 : SceneFrame(s, frames', before, own, k)
      BY <2>9
    <3> QED BY <2>1, <2>3, <2>6, <3>1, <3>2, <3>3, <3>4 DEF SceneDescent
  <2>11. count' = Len(path')
    BY <1>1, <1>2, EmptyIsSeq
  <2> QED BY <1>1, <1>4, <2>10, <2>11 DEF SceneInv
<1> QED BY <1>3, <1>4

LEMMA EmptyTreeExact ==
  ASSUME IInv, SceneInv, EmptyTree
  PROVE  SceneInv'
<1>1. /\ app = "scene" /\ mode = "begin" /\ app' = app /\ input' = input /\ mode' = "idle"
      /\ verdict' = [NoVerdict EXCEPT !.fault = "empty_tree", !.hops = NoContext]
  BY DEF EmptyTree
<1>2. input \in Scenes /\ input.names = <<>>
  BY <1>1 DEF SceneInv
<1> DEFINE u == [NoVerdict EXCEPT !.fault = "empty_tree", !.hops = NoContext]
           w == Failed("empty_tree", 0, NoName)
           v == [w EXCEPT !.hops = NoContext]
<1>3. /\ IsVerdict(u) /\ u.ok = NoVerdict.ok /\ u.fault = "empty_tree" /\ u.depth = 0
      /\ u.hops = NoContext /\ u.name = NoName /\ u.count = 0 /\ u.out = <<>>
  BY NoVerdictIs DEF IsVerdict, VerdictFields
<1>4. /\ IsVerdict(w) /\ w.ok = NoVerdict.ok /\ w.fault = "empty_tree" /\ w.depth = 0
      /\ w.hops = 0 /\ w.name = NoName /\ w.count = 0 /\ w.out = <<>>
  BY FailedIs
<1>a. SceneVerdict(input) = v
  BY <1>2 DEF SceneVerdict
<1> HIDE DEF w
<1>5. /\ IsVerdict(v) /\ v.ok = NoVerdict.ok /\ v.fault = "empty_tree" /\ v.depth = 0
      /\ v.hops = NoContext /\ v.name = NoName /\ v.count = 0 /\ v.out = <<>>
  BY <1>4 DEF IsVerdict, VerdictFields
<1>b. verdict' = u
  BY <1>1
<1> HIDE DEF u, v
<1>6. u = v
  BY <1>3, <1>5, SameVerdict
<1>7. verdict' = SceneVerdict(input)
  BY <1>6, <1>a, <1>b
<1> QED BY <1>1, <1>2, <1>7 DEF SceneInv

LEMMA SceneTop ==
  ASSUME IInv, SceneInv, NEW pc, At("scene", pc)
  PROVE  /\ app = "scene" /\ mode = "run" /\ frames # <<>>
         /\ input \in Scenes /\ input.names # <<>>
         /\ Len(frames) \in Nat \ {0} /\ IsSeq(frames)
         /\ Top = frames[Len(frames)] /\ IsFrame(Top) /\ Top.pc = pc
         /\ Top.depth = Len(frames) - 1
         /\ count = Len(path)
         /\ \E before, own : SceneDescent(input, frames, before, own, path)
<1>1. app = "scene" /\ mode = "run" /\ frames # <<>> /\ Top.pc = pc
  BY DEF At
<1>2. Levels(frames)
  BY DEF IInv, Shape
<1>3. /\ IsSeq(frames) /\ Len(frames) \in Nat /\ Len(frames) # 0
      /\ IsFrame(frames[Len(frames)]) /\ frames[Len(frames)].depth = Len(frames) - 1
  BY <1>1, <1>2, LevelsLength
<1>4. /\ input \in Scenes /\ input.names # <<>> /\ count = Len(path)
      /\ \E before, own : SceneDescent(input, frames, before, own, path)
  BY <1>1 DEF SceneInv
<1> QED BY <1>1, <1>3, <1>4 DEF Top

\* The innermost visit fails, as the code reports it.
LEMMA SceneRaises ==
  ASSUME IInv, SceneInv, NEW pc, At("scene", pc), NEW before, NEW own,
         SceneDescent(input, frames, before, own, path), NEW f, NEW name,
         VisitOf(input, frames, before, Len(frames)) = Failed(f, Len(frames) - 1, name),
         app' = app, input' = input, mode' = "fail", NEW d,
         payload' = [fault |-> f, depth |-> d, hops |-> 0],
         fault_name' = name, held' = Recorded,
         Len(frames') = IF f = "too_deep" THEN Len(frames) - 1 ELSE Len(frames)
  PROVE  SceneInv'
<1> DEFINE n == Len(frames)
<1>0. MaxChain \in Nat
  BY SceneAssumption
<1>1. app = "scene" /\ input \in Scenes /\ input.names # <<>> /\ n \in Nat \ {0}
  BY SceneTop
<1>2. ~Failed(f, n - 1, name).ok
  BY FailedIs
<1>3. Visits(input)[Limit(input.asked) + 1][{}][1] = Failed(f, n - 1, name)
  BY <1>1, <1>2, SceneFails
<1> DEFINE m == n - 1
           h == IF input.record THEN Shorter(IF f = "too_deep" THEN m ELSE m + 1)
                ELSE NoContext
<1>a. Visits(input)[Limit(input.asked) + 1][{}][1] = Failed(f, m, name)
  BY <1>3
<1>b. m = n - 1 /\ Len(frames') = (IF f = "too_deep" THEN n - 1 ELSE n)
  OBVIOUS
<1> HIDE DEF m, n
<1>4. SceneVerdict(input) = Reported(f, name, h)
  BY <1>1, <1>a, SceneReported
<1>5. payload'.fault = f /\ payload'.hops = 0 /\ payload'.depth = d
  OBVIOUS
<1>6. IsPayload(payload')
  BY <1>0, <1>5 DEF IsPayload
<1>7. held' = 1 <=> input.record
  BY DEF Recorded
<1>8. payload'.hops + Len(frames') = IF f = "too_deep" THEN m ELSE m + 1
  BY <1>1, <1>5, <1>b
<1>9. h = IF held' = 1 THEN Shorter(payload'.hops + Len(frames')) ELSE NoContext
  BY <1>7, <1>8
<1> HIDE DEF h
<1>10. Returning' = Reported(f, name, h)
  BY <1>5, <1>9 DEF Returning
<1> QED BY <1>1, <1>4, <1>6, <1>10 DEF SceneInv

LEMMA VisitFailsExact ==
  ASSUME IInv, SceneInv, VisitFails
  PROVE  SceneInv'
<1>1. /\ app = "scene" /\ mode = "fail" /\ TryReturns(MaxChain) /\ app' = app
      /\ input' = input /\ mode' = mode
  BY DEF VisitFails, TryReturns, Leave
<1>2. SceneVerdict(input) = Returning /\ IsPayload(payload) /\ input \in Scenes
  BY <1>1 DEF SceneInv
<1>3. Returning' = Returning /\ IsPayload(payload')
  BY <1>1, <1>2, TryExact
<1> QED BY <1>1, <1>2, <1>3 DEF SceneInv

LEMMA AuditLandExact ==
  ASSUME IInv, SceneInv, AuditLand
  PROVE  SceneInv'
<1>1. /\ app = "scene" /\ mode = "fail" /\ frames = <<>> /\ app' = app /\ input' = input
      /\ mode' = "idle"
      /\ verdict' = [NoVerdict EXCEPT !.fault = payload.fault, !.name = fault_name,
                       !.hops = IF held = 1 THEN payload.hops ELSE NoContext]
  BY DEF AuditLand
<1>2. SceneVerdict(input) = Returning /\ IsPayload(payload) /\ input \in Scenes
  BY <1>1 DEF SceneInv
<1>3. verdict' = Returning
  BY <1>1, <1>2, ReturnedExact
<1> QED BY <1>1, <1>2, <1>3 DEF SceneInv

\* What is known of a frame depends on it and on the names seen before it.
LEMMA SameSceneFrame ==
  ASSUME NEW scene, NEW fs, NEW gs, NEW b1, NEW b2, NEW o1, NEW o2, NEW k \in Nat,
         gs[k] = fs[k], b2[k] = b1[k], b2[k + 1] = b1[k + 1], o2[k] = o1[k],
         SceneFrame(scene, fs, b1, o1, k)
  PROVE  SceneFrame(scene, gs, b2, o2, k)
BY DEF SceneFrame

LEMMA SameVisiting ==
  ASSUME NEW scene, NEW fs, NEW gs, NEW b1, NEW b2, NEW o1, NEW o2, NEW k \in Nat,
         gs[k] = fs[k], gs[k + 1].name = fs[k + 1].name, b2[k] = b1[k], o2[k] = o1[k],
         Visiting(scene, fs, b1, o1, k)
  PROVE  Visiting(scene, gs, b2, o2, k)
<1>1. \A i : NamesBehind(scene, gs, b2, k, i) = NamesBehind(scene, fs, b1, k, i)
  BY DEF NamesBehind
<1> QED BY <1>1 DEF Visiting

\* The names seen, with those of frame m replaced; and what stays of the frames
\* above frame m when it goes on (Cut) or is entered (Kept).
Replaces(b1, o1, m, o, p, b2, o2) ==
  /\ \A j \in 1..m : b2[j] = b1[j]
  /\ \A j \in 1..(m - 1) : o2[j] = o1[j]
  /\ o2[m] = o
  /\ b2[m + 1] = p
Cut(fs, gs, m) ==
  /\ Len(gs) = m
  /\ \A j \in 1..(m - 1) : gs[j] = fs[j]
  /\ gs[m].name = fs[m].name
Kept(fs, gs, m) ==
  /\ Len(gs) = m
  /\ \A j \in 1..(m - 2) : gs[j] = fs[j]
  /\ m > 1 => gs[m - 1].name = fs[m - 1].name

\* The descent goes on in frame m, which has seen o itself.
LEMMA SceneRuns ==
  ASSUME IInv, SceneInv, NEW pc, At("scene", pc), NEW b1, NEW o1,
         SceneDescent(input, frames, b1, o1, path),
         NEW m \in 1..(Len(frames) + 1), Kept(frames, frames', m),
         NEW b2, NEW o2, NEW o, Replaces(b1, o1, m, o, path', b2, o2),
         m > 1 => /\ SceneFrame(input, frames', b2, o2, m - 1)
                  /\ Visiting(input, frames', b2, o2, m - 1),
         SceneFrame(input, frames', b2, o2, m),
         SceneFront(input, frames', b2, o2, m),
         frames'[1].name = 1, count' = Len(path'),
         app' = app, input' = input, mode' = mode
  PROVE  SceneInv'
<1> DEFINE n == Len(frames)
<1>1. /\ app = "scene" /\ mode = "run" /\ input \in Scenes /\ input.names # <<>>
      /\ n \in Nat \ {0}
  BY SceneTop
<1>2. /\ \A k \in 1..n : SceneFrame(input, frames, b1, o1, k)
      /\ \A k \in 1..(n - 1) : Visiting(input, frames, b1, o1, k)
      /\ b1[1] = <<>>
  BY DEF SceneDescent
<1>a. m \in 1..(n + 1)
  OBVIOUS
<1>b. /\ Len(frames') = m
      /\ \A j \in 1..(m - 2) : frames'[j] = frames[j]
      /\ m > 1 => frames'[m - 1].name = frames[m - 1].name
  BY DEF Kept
<1>c. /\ \A j \in 1..m : b2[j] = b1[j]
      /\ \A j \in 1..(m - 1) : o2[j] = o1[j]
      /\ b2[m + 1] = path'
  BY DEF Replaces
<1> HIDE DEF n
<1>3. ASSUME NEW k \in 1..m PROVE SceneFrame(input, frames', b2, o2, k)
  <2>1. CASE k = m BY <2>1
  <2>2. CASE k = m - 1
    <3>1. m > 1
      BY <2>2
    <3> QED BY <2>2, <3>1
  <2>3. CASE k # m /\ k # m - 1
    <3>1. k \in Nat /\ k \in 1..(m - 2) /\ k \in 1..n /\ k \in 1..m /\ k + 1 \in 1..m
          /\ k \in 1..(m - 1)
      BY <1>1, <1>a, <2>3
    <3>2. /\ frames'[k] = frames[k] /\ b2[k] = b1[k] /\ b2[k + 1] = b1[k + 1]
          /\ o2[k] = o1[k] /\ SceneFrame(input, frames, b1, o1, k)
      BY <1>2, <1>b, <1>c, <3>1
    <3> QED BY <3>1, <3>2, SameSceneFrame
  <2> QED BY <2>1, <2>2, <2>3
<1>4. ASSUME NEW k \in 1..(m - 1) PROVE Visiting(input, frames', b2, o2, k)
  <2>1. CASE k = m - 1
    <3>1. m > 1
      BY <2>1
    <3> QED BY <2>1, <3>1
  <2>2. CASE k # m - 1
    <3>1. /\ k \in Nat /\ k \in 1..(m - 2) /\ k \in 1..(n - 1) /\ k \in 1..m
          /\ k \in 1..(m - 1) /\ m > 1 /\ (k + 1 = m - 1 \/ k + 1 \in 1..(m - 2))
      BY <1>1, <1>a, <2>2
    <3>2. frames'[k + 1].name = frames[k + 1].name
      <4>1. CASE k + 1 = m - 1
        BY <1>b, <3>1, <4>1
      <4>2. CASE k + 1 \in 1..(m - 2)
        BY <1>b, <4>2
      <4> QED BY <3>1, <4>1, <4>2
    <3>3. /\ frames'[k] = frames[k] /\ b2[k] = b1[k] /\ o2[k] = o1[k]
          /\ Visiting(input, frames, b1, o1, k)
      BY <1>2, <1>b, <1>c, <3>1
    <3> QED BY <3>1, <3>2, <3>3, SameVisiting
  <2> QED BY <2>1, <2>2
<1>5. b2[1] = <<>>
  <2>1. 1 \in 1..m
    BY <1>1, <1>a
  <2> QED BY <1>2, <1>c, <2>1
<1>6. SceneDescent(input, frames', b2, o2, path')
  BY <1>3, <1>4, <1>5, <1>b, <1>c DEF SceneDescent
<1> QED BY <1>1, <1>6 DEF SceneInv

\* The same, when the frames above it stay as they are.
LEMMA SceneGoes ==
  ASSUME IInv, SceneInv, NEW pc, At("scene", pc), NEW b1, NEW o1,
         SceneDescent(input, frames, b1, o1, path),
         NEW m \in 1..Len(frames), Cut(frames, frames', m),
         NEW b2, NEW o2, NEW o, Replaces(b1, o1, m, o, path', b2, o2),
         SceneFrame(input, frames', b2, o2, m),
         SceneFront(input, frames', b2, o2, m),
         count' = Len(path'), app' = app, input' = input, mode' = mode
  PROVE  SceneInv'
<1> DEFINE n == Len(frames)
<1>1. n \in Nat \ {0}
  BY SceneTop
<1>2. /\ \A k \in 1..n : SceneFrame(input, frames, b1, o1, k)
      /\ \A k \in 1..(n - 1) : Visiting(input, frames, b1, o1, k)
      /\ frames[1].name = 1
  BY DEF SceneDescent
<1>a. m \in 1..n /\ m \in 1..(Len(frames) + 1)
  BY <1>1
<1>b. /\ Len(frames') = m /\ frames'[m].name = frames[m].name
      /\ \A j \in 1..(m - 1) : frames'[j] = frames[j]
      /\ \A j \in 1..m : b2[j] = b1[j]
      /\ \A j \in 1..(m - 1) : o2[j] = o1[j]
  BY DEF Cut, Replaces
<1> HIDE DEF n
<1>3. ASSUME m > 1
      PROVE  /\ SceneFrame(input, frames', b2, o2, m - 1)
             /\ Visiting(input, frames', b2, o2, m - 1)
             /\ frames'[m - 1].name = frames[m - 1].name
  <2> DEFINE k == m - 1
  <2>1. /\ k \in Nat /\ k \in 1..n /\ k \in 1..(n - 1) /\ k \in 1..m /\ k + 1 \in 1..m
        /\ k \in 1..(m - 1) /\ k + 1 = m
    BY <1>1, <1>3, <1>a
  <2> HIDE DEF k
  <2>2. /\ frames'[k] = frames[k] /\ b2[k] = b1[k] /\ b2[k + 1] = b1[k + 1]
        /\ o2[k] = o1[k] /\ SceneFrame(input, frames, b1, o1, k)
        /\ Visiting(input, frames, b1, o1, k)
        /\ frames'[k + 1].name = frames[k + 1].name
    BY <1>2, <1>b, <2>1
  <2>3. SceneFrame(input, frames', b2, o2, k)
    BY <2>1, <2>2, SameSceneFrame
  <2>4. Visiting(input, frames', b2, o2, k)
    BY <2>1, <2>2, SameVisiting
  <2> QED BY <2>2, <2>3, <2>4 DEF k
<1>4. frames'[1].name = 1
  <2>1. CASE m = 1
    BY <1>2, <1>b, <2>1
  <2>2. CASE m # 1
    <3>1. 1 \in 1..(m - 1)
      BY <1>1, <1>a, <2>2
    <3> QED BY <1>2, <1>b, <3>1
  <2> QED BY <2>1, <2>2
<1>5. \A j \in 1..(m - 2) : frames'[j] = frames[j]
  <2> TAKE j \in 1..(m - 2)
  <2>1. j \in 1..(m - 1)
    BY <1>1, <1>a
  <2> QED BY <1>b, <2>1
<1>6. Kept(frames, frames', m)
  BY <1>3, <1>5, <1>b DEF Kept
<1> QED BY <1>3, <1>4, <1>6, <1>a, SceneRuns

LEMMA SeenFrom ==
  ASSUME NEW b1, NEW o1, NEW m \in Nat \ {0}, NEW o, NEW p
  PROVE  \E b2, o2 : Replaces(b1, o1, m, o, p, b2, o2)
<1> DEFINE b2 == [j \in 1..(m + 1) |-> IF j = m + 1 THEN p ELSE b1[j]]
           o2 == [j \in 1..m |-> IF j = m THEN o ELSE o1[j]]
<1>1. \A j \in 1..m : b2[j] = b1[j]
  <2> TAKE j \in 1..m
  <2>1. j \in 1..(m + 1) /\ j # m + 1
    OBVIOUS
  <2> QED BY <2>1
<1>2. \A j \in 1..(m - 1) : o2[j] = o1[j]
  <2> TAKE j \in 1..(m - 1)
  <2>1. j \in 1..m /\ j # m
    OBVIOUS
  <2> QED BY <2>1
<1>3. o2[m] = o /\ b2[m + 1] = p
  <2>1. m \in 1..m /\ m + 1 \in 1..(m + 1)
    OBVIOUS
  <2> QED BY <2>1
<1> HIDE DEF b2, o2
<1> QED BY <1>1, <1>2, <1>3 DEF Replaces

\* The innermost frame of a descent.
LEMMA InnermostIs ==
  ASSUME IInv, SceneInv, NEW pc, At("scene", pc), NEW before, NEW own,
         SceneDescent(input, frames, before, own, path), NEW n, n = Len(frames)
  PROVE  /\ SceneFrame(input, frames, before, own, n)
         /\ SceneFront(input, frames, before, own, n)
         /\ n \in 1..n /\ n \in Nat \ {0}
         /\ path = before[n] \o own[n] /\ path = before[n + 1]
         /\ before[n] \in Seq(TreeNames(input)) /\ own[n] \in Seq(TreeNames(input))
         /\ path \in Seq(TreeNames(input))
<1>1. Len(frames) \in Nat \ {0}
  BY SceneTop
<1>2. n \in 1..n /\ n \in Nat \ {0}
  BY <1>1
<1>3. SceneFrame(input, frames, before, own, n) /\ SceneFront(input, frames, before, own, n)
      /\ path = before[n + 1]
  BY <1>2 DEF SceneDescent
<1>4. /\ before[n] \in Seq(TreeNames(input)) /\ own[n] \in Seq(TreeNames(input))
      /\ before[n + 1] = before[n] \o own[n]
  BY <1>3 DEF SceneFrame
<1>5. path \in Seq(TreeNames(input))
  BY <1>3, <1>4, ElementsJoined
<1> QED BY <1>2, <1>3, <1>4, <1>5

LEMMA VisitNodeExact ==
  ASSUME IInv, SceneInv, VisitNode
  PROVE  SceneInv'
<1> DEFINE n == Len(frames)
           l == Limit(input.asked)
           name == input.names[Top.name]
           fault == NameFault(name)
<1>0. At("scene", "enter")
  BY DEF VisitNode
<1>1. /\ app = "scene" /\ mode = "run" /\ frames # <<>>
      /\ input \in Scenes /\ input.names # <<>>
      /\ n \in Nat \ {0} /\ IsSeq(frames)
      /\ Top = frames[n] /\ IsFrame(Top) /\ Top.pc = "enter"
      /\ Top.depth = n - 1 /\ count = Len(path)
      /\ \E before, own : SceneDescent(input, frames, before, own, path)
  BY <1>0, SceneTop
<1>2. PICK before, own : SceneDescent(input, frames, before, own, path)
  BY <1>1
<1>3. /\ SceneFrame(input, frames, before, own, n)
      /\ path = before[n] \o own[n]
      /\ before[n] \in Seq(TreeNames(input)) /\ path \in Seq(TreeNames(input))
  BY <1>0, <1>2, InnermostIs
<1>4. /\ Top.name \in 1..Len(input.names) /\ n <= l + 2 /\ own[n] = <<>> /\ Top.at = 1
  BY <1>1, <1>3 DEF SceneFrame
<1>5. l \in Nat /\ Len(input.children[Top.name]) \in Nat /\ name \in TreeNames(input)
  BY <1>1, <1>4, SceneIs DEF TreeNames
<1>6. path = before[n]
  BY <1>3, <1>4, ConcatEmptySeq
<1>7. fault = Unsound(name, Elements(before[n]))
  BY <1>6, NameFaultIs
<1>8. VisitOf(input, frames, before, n) =
        IF n = l + 2 THEN Failed("too_deep", n - 1, name)
        ELSE IF fault # "none" THEN Failed(fault, n - 1, name)
        ELSE NamesBehind(input, frames, before, n, Len(input.children[Top.name]))
  <2>1. n <= Limit(input.asked) + 2 /\ frames[n].name \in 1..Len(input.names)
    BY <1>1, <1>4
  <2> HIDE DEF n, fault
  <2>2. VisitOf(input, frames, before, n) =
           LET nm == input.names[frames[n].name]
               ft == Unsound(nm, Elements(before[n]))
           IN  IF n = Limit(input.asked) + 2 THEN Failed("too_deep", n - 1, nm)
               ELSE IF ft # "none" THEN Failed(ft, n - 1, nm)
               ELSE NamesBehind(input, frames, before, n, Len(input.children[frames[n].name]))
    BY <1>1, <1>3, <2>1, VisitOfIs
  <2> QED BY <1>1, <1>7, <2>2
<1>9. TooDeep(Top.depth) <=> n = l + 2
  BY <1>1, <1>4, <1>5 DEF TooDeep
<1>a. \/ TooDeep(Top.depth) /\ FailHere("too_deep", name, Top.depth, Recorded)
      \/ /\ ~TooDeep(Top.depth) /\ fault # "none"
         /\ FailBelow(fault, name, Top.depth, Recorded)
      \/ /\ ~TooDeep(Top.depth) /\ fault = "none"
         /\ path' = Append(path, name) /\ count' = count + 1
         /\ frames' = [frames EXCEPT ![Len(frames)].pc = "children"]
         /\ UNCHANGED <<app, input, mode>>
  BY DEF VisitNode
<1>b. fault # "too_deep"
  BY <1>7 DEF Unsound
<1> HIDE DEF fault, name, l
<1>c. CASE TooDeep(Top.depth) /\ FailHere("too_deep", name, Top.depth, Recorded)
  <2>1. /\ app' = app /\ input' = input /\ mode' = "fail" /\ fault_name' = name
        /\ payload' = [fault |-> "too_deep", depth |-> Top.depth, hops |-> 0]
        /\ held' = Recorded /\ frames' = Front(frames)
    BY <1>c DEF FailHere
  <2>2. Len(frames') = n - 1
    BY <1>1, <2>1, FrontOf
  <2>3. VisitOf(input, frames, before, Len(frames)) = Failed("too_deep", Len(frames) - 1, name)
    BY <1>8, <1>9, <1>c
  <2> QED BY <1>0, <1>2, <2>1, <2>2, <2>3, SceneRaises
<1>d. CASE /\ ~TooDeep(Top.depth) /\ fault # "none"
           /\ FailBelow(fault, name, Top.depth, Recorded)
  <2>1. /\ app' = app /\ input' = input /\ mode' = "fail" /\ fault_name' = name
        /\ payload' = [fault |-> fault, depth |-> Top.depth, hops |-> 0]
        /\ held' = Recorded /\ frames' = frames
    BY <1>d DEF FailBelow, Raise
  <2>2. VisitOf(input, frames, before, Len(frames)) = Failed(fault, Len(frames) - 1, name)
    BY <1>8, <1>9, <1>d
  <2>3. Len(frames') = IF fault = "too_deep" THEN Len(frames) - 1 ELSE Len(frames)
    BY <1>b, <2>1
  <2> QED BY <1>0, <1>2, <2>1, <2>2, <2>3, SceneRaises
<1>e. CASE /\ ~TooDeep(Top.depth) /\ fault = "none"
           /\ path' = Append(path, name) /\ count' = count + 1
           /\ frames' = [frames EXCEPT ![Len(frames)].pc = "children"]
           /\ UNCHANGED <<app, input, mode>>
  <2> DEFINE f == [Top EXCEPT !.pc = "children"]
             o == <<name>>
  <2>1. frames' = [frames EXCEPT ![Len(frames)] = f]
    BY <1>1, <1>e DEF IsSeq
  <2>2. f.name = Top.name /\ f.pc = "children" /\ f.at = 1
    BY <1>1, <1>4 DEF IsFrame, FrameFields
  <2> HIDE DEF f
  <2>3. Tops(frames, frames', f)
    BY <1>1, <2>1, GoTops
  <2>4. /\ frames'[n] = f /\ Len(frames') = n
        /\ \A i \in 1..(n - 1) : frames'[i] = frames[i]
    BY <2>3 DEF Tops
  <2>a. PICK b2, o2 : Replaces(before, own, n, o, path', b2, o2)
    <3> HIDE DEF n, o
    <3> QED BY <1>1, SeenFrom
  <2>5. /\ \A j \in 1..n : b2[j] = before[j]
        /\ \A j \in 1..(n - 1) : o2[j] = own[j]
        /\ o2[n] = o /\ b2[n + 1] = path'
    BY <2>a DEF Replaces
  <2>6. n \in 1..n
    BY <1>1
  <2>7. o \in Seq(TreeNames(input))
    BY <1>5
  <2>8. path' = before[n] \o o /\ count' = Len(path')
    <3> DEFINE T == TreeNames(input)
    <3>1. path \in Seq(T) /\ name \in T /\ path' = Append(path, name)
      BY <1>3, <1>5, <1>e
    <3> HIDE DEF T
    <3>2. Append(path, name) = path \o <<name>>
      BY <3>1, AppendIsConcat
    <3>3. Len(Append(path, name)) = Len(path) + 1
      BY <3>1
    <3> QED BY <1>1, <1>6, <1>e, <3>1, <3>2, <3>3
  <2>b. n \in Nat /\ l \in Nat /\ n <= l + 2 /\ n # l + 2
    BY <1>1, <1>4, <1>5, <1>9, <1>e
  <2>9. b2[n] = before[n] /\ n <= l + 1
    <3> HIDE DEF n
    <3>1. b2[n] = before[n]
      BY <2>5, <2>6
    <3>2. n <= l + 1
      BY <2>b
    <3> QED BY <3>1, <3>2
  <2> HIDE DEF n, o
  <2>10. SceneFrame(input, frames', b2, o2, n)
    <3>1. 1 \in Nat \ {0} /\ 1 <= Len(input.children[Top.name]) + 1 /\ n <= l + 2
      BY <1>4, <1>5
    <3>2. Unsound(input.names[f.name], Elements(b2[n])) = "none"
      BY <1>7, <1>e, <2>2, <2>9 DEF name
    <3>3. n <= Limit(input.asked) + 1 /\ n <= Limit(input.asked) + 2
      BY <2>9, <3>1 DEF l
    <3> QED BY <1>3, <1>4, <2>2, <2>4, <2>5, <2>7, <2>8, <2>9, <3>1, <3>2, <3>3 DEF SceneFrame
  <2>11. SceneFront(input, frames', b2, o2, n)
    <3> DEFINE node == f.name
               seen == Elements(b2[n])
               below == Visits(input)[Limit(input.asked) + 1 - n]
    <3>1. NamesBehind(input, frames', b2, n, f.at - 1) = NamesUpTo(input, node, seen, below)[0]
      BY <2>2, <2>4 DEF NamesBehind
    <3>2. Len(input.children[node]) \in Nat
      BY <1>5, <2>2
    <3>3. OwnName(input, node) = Completed(0, o)
      BY <2>2 DEF OwnName, o, name
    <3> HIDE DEF node, seen, below
    <3>4. NamesUpTo(input, node, seen, below)[0] = OwnName(input, node)
      BY <3>2, NamesUpToIs
    <3> QED BY <2>4, <2>5, <3>1, <3>3, <3>4 DEF SceneFront
  <2>12. /\ frames'[n].name = frames[n].name /\ n \in 1..Len(frames)
         /\ app' = app /\ input' = input /\ mode' = mode
    BY <1>1, <1>e, <2>2, <2>4, <2>6 DEF n
  <2>13. Cut(frames, frames', n)
    BY <2>4, <2>12 DEF Cut
  <2> QED BY <1>0, <1>2, <2>8, <2>10, <2>11, <2>12, <2>13, <2>a, SceneGoes
<1> QED BY <1>a, <1>c, <1>d, <1>e

LEMMA VisitChildExact ==
  ASSUME IInv, SceneInv, VisitChild
  PROVE  SceneInv'
<1> DEFINE n == Len(frames)
           m == n + 1
           l == Limit(input.asked)
           child == input.children[Top.name][Top.at]
<1>0. At("scene", "children") /\ Top.at <= Len(input.children[Top.name])
  BY DEF VisitChild
<1>1. /\ app = "scene" /\ mode = "run" /\ frames # <<>>
      /\ input \in Scenes /\ input.names # <<>>
      /\ n \in Nat \ {0} /\ IsSeq(frames)
      /\ Top = frames[n] /\ IsFrame(Top) /\ Top.pc = "children"
      /\ Top.depth = n - 1 /\ count = Len(path)
      /\ \E before, own : SceneDescent(input, frames, before, own, path)
  BY <1>0, SceneTop
<1>2. PICK before, own : SceneDescent(input, frames, before, own, path)
  BY <1>1
<1>3. /\ SceneFrame(input, frames, before, own, n)
      /\ SceneFront(input, frames, before, own, n)
      /\ path = before[n] \o own[n] /\ path = before[n + 1]
      /\ path \in Seq(TreeNames(input))
  BY <1>0, <1>2, InnermostIs
<1>a. frames[1].name = 1
  BY <1>2 DEF SceneDescent
<1>4. /\ Top.name \in 1..Len(input.names) /\ n <= l + 1 /\ Top.at \in Nat \ {0}
      /\ NamesBehind(input, frames, before, n, Top.at - 1) = Completed(0, own[n])
  BY <1>1, <1>3 DEF SceneFrame, SceneFront
<1>5. l \in Nat /\ Len(input.children[Top.name]) \in Nat
      /\ \A i \in 1..Len(input.children[Top.name]) :
           input.children[Top.name][i] \in 1..Len(input.names)
  BY <1>1, <1>4, SceneIs
<1>6. child \in 1..Len(input.names)
  <2>1. Top.at \in 1..Len(input.children[Top.name])
    BY <1>0, <1>4, <1>5
  <2> QED BY <1>5, <2>1
<1> DEFINE f == [Top EXCEPT !.at = Top.at + 1]
           g == NewFrame(child, Top.depth + 1, 1)
<1>7. /\ Enter(f, g) /\ path' = path /\ count' = count
  BY DEF VisitChild
<1>8. f.name = Top.name /\ f.pc = "children" /\ f.at = Top.at + 1
  BY <1>1 DEF IsFrame, FrameFields
<1>9. g.name = child /\ g.pc = "enter" /\ g.at = 1
  BY NewFrameIs
<1> HIDE DEF f, g
<1>10. /\ app' = app /\ input' = input /\ mode' = mode
       /\ Entered(frames, frames', f, g)
  BY <1>1, <1>7, EnterStack DEF Enter
<1>11. /\ Len(frames') = m /\ frames'[m] = g /\ frames'[n] = f
       /\ \A i \in 1..(n - 1) : frames'[i] = frames[i]
  BY <1>10 DEF Entered
<1>12. /\ m \in Nat \ {0} /\ m - 1 = n /\ m - 2 = n - 1 /\ m > 1 /\ m = n + 1 /\ n \in 1..m
       /\ m \in 1..(Len(frames) + 1) /\ n \in 1..(m - 1) /\ m \in 1..m
  BY <1>1
<1> HIDE DEF m
<1>c. PICK b2, o2 : Replaces(before, own, m, <<>>, path', b2, o2)
  BY <1>12, SeenFrom
<1>13. /\ \A j \in 1..m : b2[j] = before[j]
       /\ \A j \in 1..(m - 1) : o2[j] = own[j]
       /\ o2[m] = <<>> /\ b2[m + 1] = path'
  BY <1>c DEF Replaces
<1>14. b2[n] = before[n] /\ o2[n] = own[n] /\ b2[n + 1] = before[n + 1] /\ b2[m] = path
  BY <1>3, <1>12, <1>13
<1> HIDE DEF n, child
<1>15. SceneFrame(input, frames', b2, o2, m)
  <2>1. 1 \in Nat \ {0} /\ m <= l + 2
    BY <1>1, <1>4, <1>5, <1>12
  <2>2. m <= Limit(input.asked) + 2
    BY <2>1
  <2>3. b2[m + 1] = b2[m] \o o2[m]
    <3>1. path \o <<>> = path
      BY <1>3, ConcatEmptySeq
    <3> QED BY <1>7, <1>13, <1>14, <3>1
  <2>4. <<>> \in Seq(TreeNames(input))
    OBVIOUS
  <2> HIDE DEF l
  <2> QED BY <1>3, <1>6, <1>9, <1>11, <1>13, <1>14, <2>1, <2>2, <2>3, <2>4 DEF SceneFrame
<1>b. f.at \in Nat \ {0} /\ f.at >= 2 /\ f.at <= Len(input.children[Top.name]) + 1
      /\ f.at - 2 = Top.at - 1 /\ f.at - 1 = Top.at
  <2> DEFINE x == f.at
             y == Top.at
             c == Len(input.children[Top.name])
  <2>1. x = y + 1 /\ y \in Nat \ {0} /\ y <= c /\ c \in Nat
    BY <1>0, <1>4, <1>5, <1>8
  <2> HIDE DEF x, y, c
  <2>2. x \in Nat \ {0} /\ x >= 2 /\ x <= c + 1 /\ x - 2 = y - 1 /\ x - 1 = y
    BY <2>1
  <2> QED BY <2>2 DEF x, y, c
<1>16. SceneFrame(input, frames', b2, o2, n)
  BY <1>1, <1>3, <1>8, <1>11, <1>14, <1>b DEF SceneFrame
<1>17. Visiting(input, frames', b2, o2, n)
  <2>1. NamesBehind(input, frames', b2, n, f.at - 2) =
          NamesBehind(input, frames, before, n, Top.at - 1)
    BY <1>1, <1>8, <1>11, <1>14, <1>b DEF NamesBehind
  <2>2. input.children[f.name][f.at - 1] = frames'[n + 1].name
    BY <1>8, <1>9, <1>11, <1>12, <1>b DEF child
  <2> QED BY <1>4, <1>8, <1>11, <1>14, <1>b, <2>1, <2>2 DEF Visiting
<1>18. SceneFront(input, frames', b2, o2, m)
  BY <1>9, <1>11 DEF SceneFront
<1>19. frames'[1].name = 1
  <2>1. CASE n = 1
    BY <1>1, <1>8, <1>11, <1>a, <2>1
  <2>2. CASE n # 1
    <3>1. 1 \in 1..(n - 1)
      BY <1>1, <2>2
    <3> QED BY <1>11, <1>a, <3>1
  <2> QED BY <2>1, <2>2
<1>20. /\ \A j \in 1..(m - 2) : frames'[j] = frames[j]
       /\ frames'[m - 1].name = frames[m - 1].name
       /\ count' = Len(path')
  BY <1>1, <1>7, <1>8, <1>11, <1>12
<1>21. /\ SceneFrame(input, frames', b2, o2, m - 1)
       /\ Visiting(input, frames', b2, o2, m - 1)
  BY <1>12, <1>16, <1>17
<1>22. Kept(frames, frames', m)
  BY <1>11, <1>20 DEF Kept
<1> QED BY <1>0, <1>2, <1>10, <1>12, <1>c, <1>15, <1>18, <1>19, <1>20, <1>21, <1>22, SceneRuns

LEMMA VisitReturnExact ==
  ASSUME IInv, SceneInv, VisitReturn
  PROVE  SceneInv'
<1> DEFINE n == Len(frames)
           l == Limit(input.asked)
<1>0. At("scene", "children") /\ Top.at > Len(input.children[Top.name]) /\ count' = count
  BY DEF VisitReturn
<1>1. /\ app = "scene" /\ mode = "run" /\ frames # <<>>
      /\ input \in Scenes /\ input.names # <<>>
      /\ n \in Nat \ {0} /\ IsSeq(frames)
      /\ Top = frames[n] /\ IsFrame(Top) /\ Top.pc = "children"
      /\ Top.depth = n - 1 /\ count = Len(path)
      /\ \E before, own : SceneDescent(input, frames, before, own, path)
  BY <1>0, SceneTop
<1>2. PICK before, own : SceneDescent(input, frames, before, own, path)
  BY <1>1
<1>3. /\ SceneFrame(input, frames, before, own, n)
      /\ SceneFront(input, frames, before, own, n)
      /\ path = before[n] \o own[n] /\ path = before[n + 1]
      /\ path \in Seq(TreeNames(input)) /\ own[n] \in Seq(TreeNames(input))
      /\ before[n] \in Seq(TreeNames(input))
  BY <1>0, <1>2, InnermostIs
<1>4. /\ Top.name \in 1..Len(input.names) /\ n <= l + 1 /\ Top.at \in Nat \ {0}
      /\ Top.at <= Len(input.children[Top.name]) + 1
      /\ Unsound(input.names[Top.name], Elements(before[n])) = "none"
      /\ NamesBehind(input, frames, before, n, Top.at - 1) = Completed(0, own[n])
  BY <1>1, <1>3 DEF SceneFrame, SceneFront
<1>5. l \in Nat /\ Len(input.children[Top.name]) \in Nat
  BY <1>1, <1>4, SceneIs
<1>6. Top.at - 1 = Len(input.children[Top.name]) /\ n # l + 2 /\ n <= l + 2
  <2> DEFINE y == Top.at
             c == Len(input.children[Top.name])
  <2>1. y \in Nat \ {0} /\ y <= c + 1 /\ y > c /\ c \in Nat
    BY <1>0, <1>4, <1>5
  <2>2. n \in Nat \ {0} /\ l \in Nat /\ n <= l + 1
    BY <1>1, <1>4, <1>5
  <2> HIDE DEF y, c, n, l
  <2>3. y - 1 = c /\ n # l + 2 /\ n <= l + 2
    BY <2>1, <2>2
  <2> QED BY <2>3 DEF y, c
<1>7. VisitOf(input, frames, before, n) = Completed(0, own[n])
  <2>1. n <= Limit(input.asked) + 2 /\ frames[n].name \in 1..Len(input.names)
    BY <1>1, <1>4, <1>6
  <2> HIDE DEF n
  <2>2. VisitOf(input, frames, before, n) =
           LET nm == input.names[frames[n].name]
               ft == Unsound(nm, Elements(before[n]))
           IN  IF n = Limit(input.asked) + 2 THEN Failed("too_deep", n - 1, nm)
               ELSE IF ft # "none" THEN Failed(ft, n - 1, nm)
               ELSE NamesBehind(input, frames, before, n, Len(input.children[frames[n].name]))
    BY <1>1, <1>3, <2>1, VisitOfIs
  <2> QED BY <1>1, <1>4, <1>6, <2>2
<1>8. /\ \A k \in 1..n : SceneFrame(input, frames, before, own, k)
      /\ \A k \in 1..(n - 1) : Visiting(input, frames, before, own, k)
      /\ frames[1].name = 1 /\ before[1] = <<>>
  BY <1>2 DEF SceneDescent
<1>9. CASE Succeed(count, <<>>)
  <2>1. /\ app' = app /\ input' = input /\ mode' = "idle" /\ n = 1
        /\ verdict' = Completed(count, <<>>)
    BY <1>9 DEF Succeed, SucceedAs, Success, Completed
  <2>2. Elements(before[1]) = {} /\ l + 2 - 1 = l + 1
    BY <1>5, <1>8, EmptyIsSeq DEF Elements
  <2>3. Visits(input)[Limit(input.asked) + 1][{}][1] = Completed(0, own[1])
    BY <1>7, <1>8, <2>1, <2>2 DEF VisitOf
  <2>4. SceneVerdict(input) = Completed(Len(own[1]), <<>>)
    BY <1>1, <2>3, SceneCompletes
  <2>5. path = own[1]
    BY <1>3, <1>8, <2>1, ConcatEmptySeq
  <2> QED BY <1>1, <2>1, <2>4, <2>5 DEF SceneInv
<1>10. CASE ReturnTo(Caller) /\ path' = path
  <2> DEFINE m == n - 1
             o == own[m] \o own[n]
  <2>1. /\ app' = app /\ input' = input /\ mode' = mode /\ n > 1
        /\ frames' = Append(Front(Front(frames)), Caller) /\ Caller = frames[m]
    BY <1>10 DEF ReturnTo, Caller
  <2>2. Returned(frames, frames', Caller)
    BY <1>1, <2>1, ReturnStack
  <2>3. /\ Len(frames') = m /\ frames'[m] = frames[m]
        /\ \A i \in 1..(n - 2) : frames'[i] = frames[i]
    BY <2>1, <2>2 DEF Returned
  <2>4. /\ m \in Nat \ {0} /\ m \in 1..n /\ m \in 1..(n - 1) /\ m + 1 = n /\ m - 1 = n - 2
        /\ m \in 1..Len(frames) /\ m \in 1..m
    BY <1>1, <2>1
  <2>5. Visiting(input, frames, before, own, m) /\ SceneFrame(input, frames, before, own, m)
    BY <1>8, <2>4
  <2> HIDE DEF n, m
  <2>6. /\ NamesBehind(input, frames, before, m, frames[m].at - 1) =
             After(Completed(0, own[m]), VisitOf(input, frames, before, m + 1))
    BY <1>1, <2>4, <2>5, VisitingFor
  <2>7. NamesBehind(input, frames, before, m, frames[m].at - 1) = Completed(0, o)
    <3>1. After(Completed(0, own[m]), Completed(0, own[n])) = Completed(0, o)
      BY CompletedIs DEF After
    <3> HIDE DEF o
    <3> QED BY <1>7, <2>4, <2>6, <3>1
  <2>a. PICK b2, o2 : Replaces(before, own, m, o, path', b2, o2)
    <3> HIDE DEF o
    <3> QED BY <2>4, SeenFrom
  <2>8. /\ \A j \in 1..m : b2[j] = before[j]
        /\ \A j \in 1..(m - 1) : o2[j] = own[j]
        /\ o2[m] = o /\ b2[m + 1] = path'
    BY <2>a DEF Replaces
  <2>9. /\ before[m] \in Seq(TreeNames(input)) /\ own[m] \in Seq(TreeNames(input))
        /\ before[m + 1] = before[m] \o own[m]
    BY <2>5 DEF SceneFrame
  <2>10. o \in Seq(TreeNames(input)) /\ path = before[m] \o o
    <3>1. o \in Seq(TreeNames(input))
      BY <1>3, <2>9, ElementsJoined
    <3>2. path = (before[m] \o own[m]) \o own[n]
      BY <1>3, <2>4, <2>9
    <3>3. (before[m] \o own[m]) \o own[n] = before[m] \o (own[m] \o own[n])
      <4> DEFINE x == before[m]
                 y == own[m]
                 z == own[n]
                 T == TreeNames(input)
      <4>1. x \in Seq(T) /\ y \in Seq(T) /\ z \in Seq(T)
        BY <1>3, <2>9
      <4> HIDE DEF x, y, z, T
      <4>2. (x \o y) \o z = x \o (y \o z)
        BY <4>1, ConcatAssociative
      <4> QED BY <4>2 DEF x, y, z
    <3> QED BY <3>1, <3>2, <3>3
  <2> HIDE DEF o
  <2>11. b2[m] = before[m]
    BY <2>4, <2>8
  <2>12. SceneFrame(input, frames', b2, o2, m)
    <3>1. b2[m + 1] = b2[m] \o o2[m]
      BY <1>10, <2>8, <2>10, <2>11
    <3>2. frames[m].pc = "children"
      BY <2>5 DEF Visiting
    <3> QED BY <2>3, <2>5, <2>8, <2>10, <2>11, <3>1, <3>2 DEF SceneFrame
  <2>13. SceneFront(input, frames', b2, o2, m)
    <3>1. NamesBehind(input, frames', b2, m, frames[m].at - 1) =
            NamesBehind(input, frames, before, m, frames[m].at - 1)
      BY <2>3, <2>11 DEF NamesBehind
    <3> QED BY <2>3, <2>7, <2>8, <3>1 DEF SceneFront
  <2>14. /\ \A j \in 1..(m - 1) : frames'[j] = frames[j]
         /\ frames'[m].name = frames[m].name
         /\ count' = Len(path')
    BY <1>0, <1>1, <1>10, <2>3, <2>4
  <2>15. Cut(frames, frames', m)
    BY <2>3, <2>14 DEF Cut
  <2> QED BY <1>0, <1>2, <2>1, <2>4, <2>12, <2>13, <2>14, <2>15, <2>a, SceneGoes
<1> QED BY <1>9, <1>10 DEF VisitReturn

LEMMA SceneExact ==
  ASSUME IInv, SceneInv, SceneNext
  PROVE  SceneInv'
BY EmptyTreeExact, VisitNodeExact, VisitChildExact, VisitReturnExact, VisitFailsExact,
   AuditLandExact DEF SceneNext

-----------------------------------------------------------------------------
(* All the applications.                                                   *)

VInv == ResolverInv /\ StoreInv /\ ManifestInv /\ SceneInv /\ ConfigInv

\* A step of one application is none of the others'.
LEMMA ResolverOnly ==
  ASSUME ResolverNext
  PROVE  app = "resolver" /\ app' = "resolver"
BY DEF ResolverNext, ConfigResolve, ResolveKey, Begin, Resolve, LookUp, Interpolate,
       ResolveReturn, ResolveUnwind, ResolveLand, At, Eject, Raise, Go, Enter, Succeed, SucceedAs, Success,
       ReturnTo, Leave, Land, LandAs, Failure

LEMMA StoreOnly ==
  ASSUME StoreCheckNext
  PROVE  app = "store" /\ app' = "store"
<1>1. CASE app = "store" /\ \E entry \in input.asked : CheckImage(entry)
  BY <1>1 DEF CheckImage, Begin
<1>2. CASE MountFailed \/ Visit \/ OpenFile
  BY <1>2 DEF MountFailed, Visit, OpenFile, At, Eject, Raise, Go, Enter
<1>3. CASE ReadRecord \/ FollowRef \/ CheckReturn
  BY <1>3 DEF ReadRecord, FollowRef, CheckReturn, At, Eject, Raise, Go, Enter, Succeed, SucceedAs, Success, ReturnTo
<1>4. CASE CheckUnwind \/ CheckLand
  BY <1>4 DEF CheckUnwind, CheckLand, Leave, Land, LandAs, Failure
<1> QED BY <1>1, <1>2, <1>3, <1>4 DEF StoreCheckNext

LEMMA ManifestOnly ==
  ASSUME ManifestNext
  PROVE  app = "manifest" /\ app' = "manifest"
<1>1. CASE VerifyHeader \/ VisitEntry \/ AllocateDigest
  BY <1>1 DEF VerifyHeader, VisitEntry, AllocateDigest, At, Eject, Raise, Go, Enter
<1>2. CASE ParseEntry \/ VerifyImage
  BY <1>2 DEF ParseEntry, VerifyImage, At, Eject, Raise, Go, Enter, Succeed, SucceedAs, Success, ReturnTo
<1>3. CASE EntryUnwind \/ ManifestLand
  BY <1>3 DEF EntryUnwind, ManifestLand, Leave, Land, LandAs, Failure
<1> QED BY <1>1, <1>2, <1>3 DEF ManifestNext

LEMMA SceneOnly ==
  ASSUME SceneNext
  PROVE  app = "scene" /\ app' = "scene"
<1>1. CASE EmptyTree \/ VisitNode \/ AuditLand
  BY <1>1 DEF EmptyTree, VisitNode, AuditLand, At, FailHere, FailBelow, Raise
<1>2. CASE VisitChild \/ VisitReturn \/ VisitFails
  BY <1>2 DEF VisitChild, VisitReturn, VisitFails, At, Enter, Succeed, SucceedAs, Success, ReturnTo, TryReturns, Leave
<1> QED BY <1>1, <1>2 DEF SceneNext

LEMMA ConfigOnly ==
  ASSUME ConfigNext
  PROVE  app = "config" /\ app' = "config"
<1>1. CASE ParseFile \/ ValidateField \/ FieldInt
  BY <1>1 DEF ParseFile, ValidateField, FieldInt, At, FailHere, FailBelow, Raise, Go, Enter,
     ReturnTo
<1>2. CASE CheckLimits \/ CheckPolicy
  BY <1>2 DEF CheckLimits, CheckPolicy, At, FailHere, FailBelow, Raise, Go, Enter,
     ReturnTo, Succeed, SucceedAs, Success
<1>3. CASE ValidateFails \/ Report
  BY <1>3 DEF ValidateFails, Report, TryReturns, Leave
<1> QED BY <1>1, <1>2, <1>3 DEF ConfigNext

LEMMA InitVInv == Init => VInv
<1> SUFFICES ASSUME Init PROVE VInv
  OBVIOUS
<1>1. mode = "idle" /\ verdict = NoVerdict
  BY DEF Init
<1>2. app = "resolver" => input \in Documents
  BY DEF Init
<1>3. app = "store" => input \in Images
  BY DEF Init
<1>4. ResolverInv /\ StoreInv
  BY <1>1, <1>2, <1>3 DEF ResolverInv, StoreInv
<1>5. ManifestInv /\ SceneInv /\ ConfigInv
  BY <1>1 DEF ManifestInv, SceneInv, ConfigInv
<1> QED BY <1>4, <1>5 DEF VInv

LEMMA ForgetExact ==
  ASSUME Forget
  PROVE  VInv'
<1>1. /\ app' = app /\ app \in {"manifest", "scene", "config"} /\ mode' = "idle"
      /\ verdict' = NoVerdict
  BY DEF Forget
<1>2. ResolverInv' /\ StoreInv'
  BY <1>1 DEF ResolverInv, StoreInv
<1>3. ManifestInv' /\ SceneInv' /\ ConfigInv'
  BY <1>1 DEF ManifestInv, SceneInv, ConfigInv
<1> QED BY <1>2, <1>3 DEF VInv

\* What is said of the other applications holds of this one's process.
LEMMA OthersHold ==
  ASSUME NEW a
  PROVE  /\ app' = a /\ a # "resolver" => ResolverInv'
         /\ app' = a /\ a # "store" => StoreInv'
         /\ app' = a /\ a # "manifest" => ManifestInv'
         /\ app' = a /\ a # "scene" => SceneInv'
         /\ app' = a /\ a # "config" => ConfigInv'
BY DEF ResolverInv, StoreInv, ManifestInv, SceneInv, ConfigInv

LEMMA StutterExact ==
  ASSUME VInv, UNCHANGED vars
  PROVE  VInv'
<1>1. /\ app' = app /\ input' = input /\ mode' = mode /\ call' = call /\ frames' = frames
      /\ path' = path /\ held' = held /\ payload' = payload /\ fault_name' = fault_name
      /\ count' = count /\ verdict' = verdict
  BY DEF vars
<1>2. Underway' = Underway /\ Returning' = Returning
  BY <1>1 DEF Underway, Returning
<1>3. ResolverInv'
  BY <1>1, <1>2 DEF VInv, ResolverInv
<1>4. StoreInv'
  BY <1>1, <1>2 DEF VInv, StoreInv
<1>5. ManifestInv'
  BY <1>1, <1>2 DEF VInv, ManifestInv
<1>6. SceneInv'
  BY <1>1, <1>2 DEF VInv, SceneInv
<1>7. ConfigInv'
  BY <1>1, <1>2 DEF VInv, ConfigInv
<1> QED BY <1>3, <1>4, <1>5, <1>6, <1>7 DEF VInv

LEMMA NextVInv == IInv /\ VInv /\ [Next]_vars => VInv'
<1> SUFFICES ASSUME IInv, VInv, [Next]_vars PROVE VInv'
  OBVIOUS
<1>0. ResolverInv /\ StoreInv /\ ManifestInv /\ SceneInv /\ ConfigInv
  BY DEF VInv
<1>1. CASE ResolverNext
  <2>1. ResolverInv' /\ app' = "resolver"
    BY <1>0, <1>1, ResolverExact, ResolverOnly
  <2> QED BY <2>1, OthersHold DEF VInv
<1>2. CASE StoreCheckNext
  <2>1. StoreInv' /\ app' = "store"
    BY <1>0, <1>2, StoreExact, StoreOnly
  <2> QED BY <2>1, OthersHold DEF VInv
<1>3. CASE ManifestNext
  <2>1. ManifestInv' /\ app' = "manifest"
    BY <1>0, <1>3, ManifestExact, ManifestOnly
  <2> QED BY <2>1, OthersHold DEF VInv
<1>4. CASE SceneNext
  <2>1. SceneInv' /\ app' = "scene"
    BY <1>0, <1>4, SceneExact, SceneOnly
  <2> QED BY <2>1, OthersHold DEF VInv
<1>5. CASE ConfigNext
  <2>1. ConfigInv' /\ app' = "config"
    BY <1>0, <1>5, ConfigExact, ConfigOnly
  <2> QED BY <2>1, OthersHold DEF VInv
<1>6. CASE app = "manifest" /\ \E m \in Manifests : VerifyManifest(m)
  <2>1. ManifestInv'
    BY <1>0, <1>6, VerifyManifestExact
  <2>2. app' = "manifest"
    BY <1>6 DEF VerifyManifest, Begin
  <2> QED BY <2>1, <2>2, OthersHold DEF VInv
<1>7. CASE app = "scene" /\ \E s \in Scenes : Audit(s)
  <2>1. SceneInv'
    BY <1>0, <1>7, AuditExact
  <2>2. app' = "scene"
    BY <1>7 DEF Audit, Begin
  <2> QED BY <2>1, <2>2, OthersHold DEF VInv
<1>8. CASE app = "config" /\ \E f \in Files : Load(f)
  <2>1. ConfigInv'
    BY <1>0, <1>8, LoadExact
  <2>2. app' = "config"
    BY <1>8 DEF Load, Begin
  <2> QED BY <2>1, <2>2, OthersHold DEF VInv
<1>9. CASE Forget
  BY <1>9, ForgetExact
<1>10. CASE UNCHANGED vars
  BY <1>10, StutterExact
<1> QED BY <1>1, <1>2, <1>3, <1>4, <1>5, <1>6, <1>7, <1>8, <1>9, <1>10 DEF Next

LEMMA VInvExact == IInv /\ VInv => VerdictExact
<1> SUFFICES ASSUME IInv, VInv, mode = "idle", verdict # NoVerdict
             PROVE  verdict = CASE app = "resolver" -> ResolverVerdict(input, call)
                                [] app = "store" -> StoreVerdict(input, call)
                                [] app = "manifest" -> ManifestVerdict(input)
                                [] app = "scene" -> SceneVerdict(input)
                                [] app = "config" -> ConfigVerdict(input)
  BY DEF VerdictExact
<1>1. app \in {"resolver", "store", "manifest", "scene", "config"}
  BY DEF IInv, Control
<1>2. /\ app = "resolver" => verdict = ResolverVerdict(input, call)
      /\ app = "store" => verdict = StoreVerdict(input, call)
      /\ app = "manifest" => verdict = ManifestVerdict(input)
      /\ app = "scene" => verdict = SceneVerdict(input)
      /\ app = "config" => verdict = ConfigVerdict(input)
  BY DEF VInv, ResolverInv, StoreInv, ManifestInv, SceneInv, ConfigInv
<1>3. CASE app = "resolver"
  BY <1>2, <1>3
<1>4. CASE app = "store"
  BY <1>2, <1>4
<1>5. CASE app = "manifest"
  BY <1>2, <1>5
<1>6. CASE app = "scene"
  BY <1>2, <1>6
<1>7. CASE app = "config"
  BY <1>2, <1>7
<1> QED BY <1>1, <1>3, <1>4, <1>5, <1>6, <1>7

\* The verdict of a call depends on its input and the name it was given alone,
\* whatever calls came before it and however they failed: the fault, its depth,
\* the name reported, the number checked, the text and the hops recorded are
\* those of the reference (resolve.hpp:52, store_check.cpp:279,
\* manifest_ta.cpp:314, scene_audit.cpp:85, config_validate.cpp:89).
THEOREM VerdictsExact == Spec => []VerdictExact
<1>1. Spec => [](IInv /\ VInv)
  <2>1. Init => IInv /\ VInv
    BY InitIInv, InitVInv
  <2>2. (IInv /\ VInv) /\ [Next]_vars => (IInv /\ VInv)'
    BY NextIInv, NextVInv
  <2> QED BY <2>1, <2>2, PTL DEF Spec
<1>2. IInv /\ VInv => VerdictExact
  BY VInvExact
<1> QED BY <1>1, <1>2, PTL
=============================================================================
