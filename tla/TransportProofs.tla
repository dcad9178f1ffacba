-------------------------- MODULE TransportProofs --------------------------
(***************************************************************************)
(* Proofs about Transport for every number of results and every kind of    *)
(* element type: a result is never valueless, no union member is touched   *)
(* while it is not the live one, and a cross-state assignment delivers.    *)
(***************************************************************************)
EXTENDS Transport, TLAPS

-----------------------------------------------------------------------------
(* The inductive invariant.                                                 *)

\* The member has_ names is the one that is there.
Whole(x) == x.alive => x.elem.alt = Alt(x.has)
AllWhole(R) == \A r \in Results : Whole(R[r])

\* An assignment under way: its target is a live result outside any value, its
\* local variable holds the other alternative until it is placed, and its type
\* has moves that do not throw.
JobInv ==
  job.step # "idle" =>
    /\ job.dst \notin Nested
    /\ res[job.dst].alive
    /\ job.want.alt = Alt(~res[job.dst].has)
    /\ type.move = {}
    /\ job.step # "placed" => job.incoming = job.want
    /\ job.step = "placed" => res[job.dst].elem = job.want

IInv == TypeOK /\ NeverValueless /\ NoFault /\ JobInv

-----------------------------------------------------------------------------
(* Elements and results.                                                    *)

\* Copying and moving keep the alternative, on both sides.
LEMMA ElemOps ==
  ASSUME NEW e \in Elem, NEW how
  PROVE  /\ Taken(e, how) \in Elem /\ Taken(e, how).alt = e.alt
         /\ Left(e, how) \in Elem /\ Left(e, how).alt = e.alt
BY DEF Elem, Taken, Left

\* The empty element and the empty storage are well typed.
LEMMA Empties == Gone \in Elem /\ NoResult \in Result /\ Whole(NoResult)
BY DEF Gone, Elem, NoResult, Result, Whole

\* Destroying the results a value owns keeps the others as they are.
LEMMA WithoutKeeps ==
  ASSUME NEW R \in [Results -> Result], NEW kids
  PROVE  /\ Without(R, kids) \in [Results -> Result]
         /\ AllWhole(R) => AllWhole(Without(R, kids))
         /\ \A r \in Results : r \notin kids => Without(R, kids)[r] = R[r]
BY Empties DEF Without, AllWhole

\* The data reachable from an element are numbers.
LEMMA DataType ==
  ASSUME NEW R \in [Results -> Result], NEW e \in Elem
  PROVE  DataOf(R, e) \in SUBSET Nat
<1>1. \A k \in e.kids : k \in Results
  BY TransportAssumption DEF Elem
<1>2. \A k \in e.kids : R[k].elem.datum \in Nat
  BY <1>1 DEF Result, Elem
<1>3. e.datum \in Nat
  BY DEF Elem
<1>4. QED BY <1>2, <1>3 DEF DataOf

\* A new result is whole.
LEMMA NewType ==
  ASSUME made \in Nat, NEW has \in BOOLEAN
  PROVE  New(has) \in Result /\ Whole(New(has)) /\ New(has).alive
BY DEF New, Result, Elem, Whole, Alt

\* Using members that are live ones is no fault.
LEMMA UsesLive ==
  ASSUME NEW pairs, fault = FALSE, Uses(pairs),
         \A p \in pairs : Holds(p[1], p[2])
  PROVE  fault' = FALSE
BY DEF Uses

\* In a settled state every live result holds the member has_ selects.
LEMMA LiveMember ==
  ASSUME AllWhole(res), NEW r \in Results, res[r].alive
  PROVE  Holds(r, Alt(res[r].has))
BY DEF AllWhole, Whole, Holds

\* Replacing the element of a result by one of the same alternative.
LEMMA SwapElem ==
  ASSUME NEW R \in [Results -> Result], NEW r \in Results, NEW e \in Elem,
         e.alt = R[r].elem.alt
  PROVE  /\ [R EXCEPT ![r].elem = e] \in [Results -> Result]
         /\ AllWhole(R) => AllWhole([R EXCEPT ![r].elem = e])
BY DEF Result, AllWhole, Whole

\* Putting a whole result into a storage.
LEMMA PutResult ==
  ASSUME NEW R \in [Results -> Result], NEW r \in Results, NEW x \in Result,
         Whole(x)
  PROVE  /\ [R EXCEPT ![r] = x] \in [Results -> Result]
         /\ AllWhole(R) => AllWhole([R EXCEPT ![r] = x])
BY DEF AllWhole

-----------------------------------------------------------------------------
(* Every statement of the program, except the first step of a cross-state   *)
(* assignment, starts and ends with every result whole.                     *)

Settled == TypeOK /\ AllWhole(res) /\ NoFault /\ job.step = "idle"

\* Outside an assignment the invariant says that every result is whole.
LEMMA SettledInv ==
  ASSUME IInv, job.step = "idle"
  PROVE  Settled
BY DEF IInv, Settled, NeverValueless, AllWhole, Whole, Changing

\* A settled state satisfies the invariant.
LEMMA InvSettled == Settled => IInv
BY DEF IInv, Settled, NeverValueless, AllWhole, Whole, JobInv

\* Constructing a result from a value or an error.
LEMMA ConstructSettled ==
  ASSUME Settled, NEW r \in Results, NEW has \in BOOLEAN, Construct(r, has)
  PROVE  Settled'
<1>1. res \in [Results -> Result] /\ made \in Nat /\ ops \in Nat
  BY DEF Settled, TypeOK
<1>2. New(has) \in Result /\ Whole(New(has))
  BY <1>1, NewType
<1>3. res' \in [Results -> Result] /\ AllWhole(res)' 
  BY <1>1, <1>2, PutResult DEF Settled, Construct, AllWhole, Whole, Alt
<1>4. ops' \in Nat /\ made' \in Nat
  BY <1>1 DEF Construct, Perform
<1>5. QED BY <1>3, <1>4 DEF Settled, TypeOK, NoFault, Construct, Perform

\* Constructing a result inside the value of another.
LEMMA ConstructInsideSettled ==
  ASSUME Settled, NEW n \in Results, NEW h \in Results, NEW has \in BOOLEAN,
         ConstructInside(n, h, has)
  PROVE  Settled'
<1>1. res \in [Results -> Result] /\ made \in Nat /\ ops \in Nat
  BY DEF Settled, TypeOK
<1>2. New(has) \in Result /\ Whole(New(has))
  BY <1>1, NewType
<1> DEFINE R == [res EXCEPT ![n] = New(has)]
           e == [R[h].elem EXCEPT !.kids = @ \cup {n}]
<1>3. R \in [Results -> Result] /\ AllWhole(R)
  BY <1>1, <1>2, PutResult DEF Settled
<1>4. n \in Nested
  BY DEF ConstructInside
<1>5. e \in Elem /\ e.alt = R[h].elem.alt
  <2>1. R[h].elem \in Elem
    BY <1>3 DEF Result
  <2>2. QED BY <2>1, <1>4 DEF Elem
<1>6. res' = [R EXCEPT ![h].elem = e]
  BY <1>1 DEF ConstructInside, Result
<1> HIDE DEF R, e
<1>7. res' \in [Results -> Result] /\ AllWhole(res')
  BY <1>3, <1>5, <1>6, SwapElem
<1>8. ops' \in Nat /\ made' \in Nat
  BY <1>1 DEF ConstructInside, Perform
<1>9. QED
  BY <1>7, <1>8 DEF Settled, TypeOK, NoFault, ConstructInside, Perform,
                    AllWhole, Whole, Alt

\* The step common to the copy and move constructors and to PassOn: a result is
\* built at r from the one at s.
LEMMA Transfer ==
  ASSUME Settled, NEW r \in Results, NEW s \in Results, NEW how,
         res[s].alive, r # s,
         res' = [res EXCEPT
                   ![r] = [alive |-> TRUE, has |-> res[s].has,
                           elem |-> Taken(res[s].elem, how)],
                   ![s].elem = Left(res[s].elem, how)]
  PROVE  res' \in [Results -> Result] /\ AllWhole(res')
<1>1. res \in [Results -> Result]
  BY DEF Settled, TypeOK
<1> DEFINE x == [alive |-> TRUE, has |-> res[s].has,
                 elem |-> Taken(res[s].elem, how)]
           R == [res EXCEPT ![r] = x]
           e == Left(res[s].elem, how)
<1>2. res[s].elem \in Elem /\ res[s].has \in BOOLEAN
  BY <1>1 DEF Result
<1>3. x \in Result /\ Whole(x)
  <2>1. Taken(res[s].elem, how) \in Elem
        /\ Taken(res[s].elem, how).alt = res[s].elem.alt
    BY <1>2, ElemOps
  <2>2. res[s].elem.alt = Alt(res[s].has)
    BY DEF Settled, AllWhole, Whole
  <2>3. QED BY <1>2, <2>1, <2>2 DEF Result, Whole
<1>4. R \in [Results -> Result] /\ AllWhole(R)
  <2> HIDE DEF x
  <2>1. QED BY <1>1, <1>3, PutResult DEF Settled
<1>5. e \in Elem /\ e.alt = R[s].elem.alt
  <2>1. R[s] = res[s]
    BY <1>1
  <2> HIDE DEF R
  <2>2. QED BY <1>2, <2>1, ElemOps
<1>6. res' = [R EXCEPT ![s].elem = e]
  <2> HIDE DEF x, e
  <2>1. QED BY <1>1 DEF x, e
<1> HIDE DEF R, e
<1>7. [R EXCEPT ![s].elem = e] \in [Results -> Result]
      /\ AllWhole([R EXCEPT ![s].elem = e])
  BY <1>4, <1>5, SwapElem
<1>8. QED BY <1>6, <1>7, Zenon

\* The copy and move constructors.
LEMMA ConstructFromSettled ==
  ASSUME Settled, NEW r \in Results, NEW s \in Results, NEW how,
         ConstructFrom(r, s, how)
  PROVE  Settled'
<1>1. Holds(s, Alt(res[s].has))
  BY LiveMember DEF Settled, ConstructFrom
<1>2. fault' = FALSE
  BY <1>1, UsesLive DEF ConstructFrom, Settled, NoFault, TypeOK, Uses
<1>3. res' \in [Results -> Result] /\ AllWhole(res')
  <2>1. CASE UNCHANGED res
    BY <2>1 DEF Settled, TypeOK
  <2>2. CASE res' = [res EXCEPT
                   ![r] = [alive |-> TRUE, has |-> res[s].has,
                           elem |-> Taken(res[s].elem, how)],
                   ![s].elem = Left(res[s].elem, how)]
    <3>1. r # s /\ res[s].alive
      BY DEF ConstructFrom
    <3>2. QED BY <2>2, <3>1, Transfer
  <2>3. QED BY <2>1, <2>2 DEF ConstructFrom
<1>4. ops' \in Nat
  BY DEF ConstructFrom, Perform, Settled, TypeOK
<1>5. QED
  BY <1>2, <1>3, <1>4 DEF Settled, TypeOK, NoFault, ConstructFrom, Perform,
                          AllWhole, Whole, Alt

\* The destructor, with the results the value owns.
LEMMA DestroySettled ==
  ASSUME Settled, NEW r \in Results, Destroy(r)
  PROVE  Settled'
<1>1. Holds(r, Alt(res[r].has))
  BY LiveMember DEF Settled, Destroy
<1>2. fault' = FALSE
  BY <1>1, UsesLive DEF Destroy, Settled, NoFault, TypeOK, Uses
<1>3. res \in [Results -> Result] /\ used \in SUBSET Nat
  BY DEF Settled, TypeOK
<1>4. res' \in [Results -> Result] /\ AllWhole(res')
  <2>1. [res EXCEPT ![r] = NoResult] \in [Results -> Result]
        /\ AllWhole([res EXCEPT ![r] = NoResult])
    BY <1>3, Empties, PutResult DEF Settled
  <2>2. QED BY <2>1, WithoutKeeps DEF Destroy
<1>5. used' \in SUBSET Nat
  <2>1. res[r].elem \in Elem
    BY <1>3 DEF Result
  <2>2. DataOf(res, res[r].elem) \in SUBSET Nat
    BY <1>3, <2>1, DataType
  <2>3. QED BY <1>3, <2>2 DEF Destroy
<1>6. ops' \in Nat
  BY DEF Destroy, Perform, Settled, TypeOK
<1>7. QED
  BY <1>2, <1>4, <1>5, <1>6 DEF Settled, TypeOK, NoFault, Destroy, Perform,
                                AllWhole, Whole, Alt

\* Damage leaves every result whole.
LEMMA DamageSettled ==
  ASSUME Settled, NEW rs \in SUBSET Results, Damage(rs)
  PROVE  /\ res' \in [Results -> Result] /\ AllWhole(res')
         /\ used' \in SUBSET Nat
<1>1. res \in [Results -> Result] /\ used \in SUBSET Nat /\ AllWhole(res)
  BY DEF Settled, TypeOK
<1>2. PICK hurt \in SUBSET rs :
        /\ res' = Without([r \in Results |->
             IF r \in hurt THEN [res[r] EXCEPT !.elem = Left(@, "move")]
                           ELSE res[r]],
             UNION {res[r].elem.kids : r \in hurt})
        /\ used' = used \cup UNION {DataOf(res, res[r].elem) : r \in hurt}
  BY DEF Damage
<1> DEFINE R == [r \in Results |->
             IF r \in hurt THEN [res[r] EXCEPT !.elem = Left(@, "move")]
                           ELSE res[r]]
<1>3. ASSUME NEW r \in Results
      PROVE  R[r] \in Result /\ Whole(R[r])
  <2>1. res[r] \in Result /\ res[r].elem \in Elem /\ Whole(res[r])
    BY <1>1 DEF Result, AllWhole
  <2> DEFINE e == Left(res[r].elem, "move")
  <2>2. e \in Elem /\ e.alt = res[r].elem.alt
    BY <2>1, ElemOps
  <2> HIDE DEF e
  <2>3. [res[r] EXCEPT !.elem = e] \in Result /\ Whole([res[r] EXCEPT !.elem = e])
    BY <2>1, <2>2 DEF Result, Whole
  <2>4. R[r] = IF r \in hurt THEN [res[r] EXCEPT !.elem = e] ELSE res[r]
    BY DEF e
  <2> HIDE DEF R
  <2>5. QED BY <2>1, <2>3, <2>4
<1>4. R \in [Results -> Result] /\ AllWhole(R)
  <2>1. AllWhole(R)
    BY <1>3 DEF AllWhole
  <2>2. \A r \in Results : R[r] \in Result
    BY <1>3
  <2>3. R = [r \in Results |-> R[r]]
    OBVIOUS
  <2> HIDE DEF R
  <2>4. QED BY <2>1, <2>2, <2>3
<1> HIDE DEF R
<1>5. \A r \in hurt : DataOf(res, res[r].elem) \in SUBSET Nat
  <2> SUFFICES ASSUME NEW r \in hurt
               PROVE  DataOf(res, res[r].elem) \in SUBSET Nat
    OBVIOUS
  <2>1. res[r].elem \in Elem
    BY <1>1 DEF Result
  <2>2. QED BY <1>1, <2>1, DataType
<1>6. used' \in SUBSET Nat
  BY <1>1, <1>2, <1>5
<1>7. QED BY <1>2, <1>4, <1>6, WithoutKeeps DEF R

\* Assignment between results in the same state.
LEMMA AssignSameSettled ==
  ASSUME Settled, NEW r \in Results, NEW s \in Results, NEW how,
         AssignSame(r, s, how)
  PROVE  Settled'
<1>1. res \in [Results -> Result] /\ used \in SUBSET Nat /\ AllWhole(res)
  BY DEF Settled, TypeOK
<1> USE DEF AssignSame
<1>2. r # s /\ res[r].alive /\ res[s].alive /\ res[r].has = res[s].has
  OBVIOUS
<1>3. Holds(r, Alt(res[r].has)) /\ Holds(s, Alt(res[r].has))
  BY <1>1, <1>2, LiveMember
<1>4. fault' = FALSE
  BY <1>3, UsesLive DEF Settled, NoFault, TypeOK, Uses
<1> DEFINE a == Taken(res[s].elem, how)
           b == Left(res[s].elem, how)
           S == [res EXCEPT ![s].elem = b]
           next == [S EXCEPT ![r].elem = a]
<1>5. res[r].elem \in Elem /\ res[s].elem \in Elem
  BY <1>1 DEF Result
<1>6. a \in Elem /\ b \in Elem /\ a.alt = res[s].elem.alt
      /\ b.alt = res[s].elem.alt
  BY <1>5, ElemOps
<1>7. S \in [Results -> Result] /\ AllWhole(S)
  <2> HIDE DEF b
  <2>1. QED BY <1>1, <1>6, SwapElem
<1>8. a.alt = S[r].elem.alt
  <2>1. S[r] = res[r]
    BY <1>1, <1>2
  <2>2. QED BY <2>1, <1>3, <1>6 DEF Holds
<1>9. next \in [Results -> Result] /\ AllWhole(next)
  <2> HIDE DEF S, a
  <2>1. QED BY <1>6, <1>7, <1>8, SwapElem
<1>10. CASE /\ res' = Without(next, res[r].elem.kids)
            /\ used' = used \cup DataOf(next, res[r].elem)
  <2> HIDE DEF next
  <2>1. res' \in [Results -> Result] /\ AllWhole(res')
    BY <1>9, <1>10, WithoutKeeps
  <2>2. DataOf(next, res[r].elem) \in SUBSET Nat
    BY <1>5, <1>9, DataType
  <2>3. used' \in SUBSET Nat
    BY <1>1, <1>10, <2>2
  <2>4. ops' \in Nat
    BY DEF Perform, Settled, TypeOK
  <2>5. QED
    BY <1>4, <2>1, <2>3, <2>4 DEF Settled, TypeOK, NoFault, Perform, AllWhole,
                                  Whole, Alt
<1>11. CASE Damage({r} \cup (IF how = "move" THEN {s} ELSE {}))
  <2>1. ({r} \cup (IF how = "move" THEN {s} ELSE {})) \in SUBSET Results
    OBVIOUS
  <2>2. /\ res' \in [Results -> Result] /\ AllWhole(res')
        /\ used' \in SUBSET Nat
    BY <1>11, <2>1, DamageSettled
  <2>3. ops' \in Nat
    BY DEF Perform, Settled, TypeOK
  <2>4. QED
    BY <1>4, <2>2, <2>3 DEF Settled, TypeOK, NoFault, Perform, AllWhole,
                            Whole, Alt
<1>12. [res EXCEPT ![s].elem = Left(@, how), ![r].elem = Taken(res[s].elem, how)]
         = next
  BY <1>1, <1>2
<1>13. QED BY <1>10, <1>11, <1>12

\* Assignment of a result to itself.
LEMMA AssignSelfSettled ==
  ASSUME Settled, NEW r \in Results, NEW how, AssignSelf(r, how)
  PROVE  Settled'
<1>1. Holds(r, Alt(res[r].has))
  BY LiveMember DEF Settled, AssignSelf
<1>2. fault' = FALSE
  BY <1>1, UsesLive DEF AssignSelf, Settled, NoFault, TypeOK, Uses
<1>3. /\ res' \in [Results -> Result] /\ AllWhole(res')
      /\ used' \in SUBSET Nat
  <2>1. CASE how = "move"
    BY <2>1, DamageSettled DEF AssignSelf
  <2>2. CASE how # "move"
    BY <2>2 DEF AssignSelf, Settled, TypeOK
  <2>3. QED BY <2>1, <2>2
<1>4. ops' \in Nat
  BY DEF AssignSelf, Perform, Settled, TypeOK
<1>5. QED
  BY <1>2, <1>3, <1>4 DEF Settled, TypeOK, NoFault, AssignSelf, Perform,
                          AllWhole, Whole, Alt

\* Giving a member away leaves every result whole.
LEMMA GiveAwaySettled ==
  ASSUME Settled, NEW r \in Results, NEW how, GiveAway(r, how)
  PROVE  /\ res' \in [Results -> Result] /\ AllWhole(res')
         /\ used' \in SUBSET Nat
<1>1. res \in [Results -> Result] /\ used \in SUBSET Nat /\ AllWhole(res)
  BY DEF Settled, TypeOK
<1>2. CASE how # "move"
  BY <1>1, <1>2 DEF GiveAway
<1>3. CASE how = "move"
  <2> DEFINE e == Left(res[r].elem, how)
             R == [res EXCEPT ![r].elem = e]
  <2>1. res[r].elem \in Elem
    BY <1>1 DEF Result
  <2>2. e \in Elem /\ e.alt = res[r].elem.alt
    BY <2>1, ElemOps
  <2>3. res' = Without(R, res[r].elem.kids)
        /\ used' = used \cup DataOf(res, res[r].elem)
    BY <1>3 DEF GiveAway
  <2>4. R \in [Results -> Result] /\ AllWhole(R)
    <3> HIDE DEF e
    <3>1. QED BY <1>1, <2>2, SwapElem
  <2>5. DataOf(res, res[r].elem) \in SUBSET Nat
    BY <1>1, <2>1, DataType
  <2> HIDE DEF R, e
  <2>6. QED BY <1>1, <2>3, <2>4, <2>5, WithoutKeeps
<1>4. QED BY <1>2, <1>3

\* value() and error(), by reference and by move.
LEMMA AccessSettled ==
  ASSUME Settled, NEW r \in Results, NEW want, NEW checked, NEW how,
         Access(r, want, checked, how)
  PROVE  Settled'
<1>1. Holds(r, Alt(res[r].has))
  BY LiveMember DEF Settled, Access
<1>2. ops' \in Nat
  BY DEF Access, Perform, Settled, TypeOK
<1>3. CASE Alt(res[r].has) = want
  <2>1. fault' = FALSE
    BY <1>1, <1>3, UsesLive DEF Access, Settled, NoFault, TypeOK, Uses
  <2>2. /\ res' \in [Results -> Result] /\ AllWhole(res')
        /\ used' \in SUBSET Nat
    BY <1>3, GiveAwaySettled DEF Access
  <2>3. QED
    BY <1>2, <1>3, <2>1, <2>2 DEF Settled, TypeOK, NoFault, Access, Perform,
                                  AllWhole, Whole, Alt
<1>4. CASE Alt(res[r].has) # want
  BY <1>2, <1>4 DEF Settled, TypeOK, NoFault, Access, Perform, AllWhole,
                    Whole, Alt
<1>5. QED BY <1>3, <1>4

\* value_or() and error_or().
LEMMA AccessOrSettled ==
  ASSUME Settled, NEW r \in Results, NEW want, NEW how, AccessOr(r, want, how)
  PROVE  Settled'
<1>1. Holds(r, Alt(res[r].has))
  BY LiveMember DEF Settled, AccessOr
<1>2. ops' \in Nat
  BY DEF AccessOr, Perform, Settled, TypeOK
<1>3. CASE Alt(res[r].has) = want
  <2>1. fault' = FALSE
    BY <1>1, <1>3, UsesLive DEF AccessOr, Settled, NoFault, TypeOK, Uses
  <2>2. GiveAway(r, how) \/ UNCHANGED <<res, used>>
    BY <1>3 DEF AccessOr
  <2>3. /\ res' \in [Results -> Result] /\ AllWhole(res')
        /\ used' \in SUBSET Nat
    BY <2>2, GiveAwaySettled DEF Settled, TypeOK
  <2>4. QED
    BY <1>2, <1>3, <2>1, <2>3 DEF Settled, TypeOK, NoFault, AccessOr, Perform,
                                  AllWhole, Whole, Alt
<1>4. CASE Alt(res[r].has) # want
  BY <1>2, <1>4 DEF Settled, TypeOK, NoFault, AccessOr, Perform, AllWhole,
                    Whole, Alt
<1>5. QED BY <1>3, <1>4

\* The comparison operators.
LEMMA CompareSettled ==
  ASSUME Settled, NEW r \in Results, NEW s \in Results, Compare(r, s)
  PROVE  Settled'
<1>1. Holds(r, Alt(res[r].has)) /\ Holds(s, Alt(res[s].has))
  BY LiveMember DEF Settled, Compare
<1>2. fault' = FALSE
  <2>1. CASE res[r].has = res[s].has
    BY <1>1, <2>1, UsesLive DEF Compare, Settled, NoFault, TypeOK, Uses
  <2>2. CASE res[r].has # res[s].has
    BY <2>2 DEF Compare, Settled, NoFault, TypeOK
  <2>3. QED BY <2>1, <2>2
<1>3. ops' \in Nat
  BY DEF Compare, Perform, Settled, TypeOK
<1>4. QED
  BY <1>2, <1>3 DEF Settled, TypeOK, NoFault, Compare, Perform, AllWhole,
                    Whole, Alt

\* Passing on leaves every result whole, thrown or not.
LEMMA PassOnSettled ==
  ASSUME Settled, NEW r \in Results, NEW s \in Results, NEW how,
         ~res[r].alive, res[s].alive, PassOn(r, s, how)
  PROVE  /\ res' \in [Results -> Result] /\ AllWhole(res')
         /\ used' \in SUBSET Nat
<1>1. CASE /\ res' = [res EXCEPT
                   ![r] = [alive |-> TRUE, has |-> res[s].has,
                           elem |-> Taken(res[s].elem, how)],
                   ![s].elem = Left(res[s].elem, how)]
           /\ UNCHANGED used
  <2>1. r # s
    OBVIOUS
  <2>2. res' \in [Results -> Result] /\ AllWhole(res')
    BY <1>1, <2>1, Transfer
  <2>3. QED BY <1>1, <2>2 DEF Settled, TypeOK
<1>2. CASE UNCHANGED <<res, used>>
  BY <1>2 DEF Settled, TypeOK
<1>3. CASE GiveAway(s, how)
  BY <1>3, GiveAwaySettled
<1>4. QED BY <1>1, <1>2, <1>3 DEF PassOn, LoseInFailure

\* JMPXX_TRY: the failure is passed on, or the value given away.
LEMMA TrySettled ==
  ASSUME Settled, NEW r \in Results, NEW s \in Results, NEW how,
         Try(r, s, how)
  PROVE  Settled'
<1>1. ~res[r].alive /\ res[s].alive
  BY DEF Try
<1>2. fault' = FALSE
  <2>1. Holds(s, Alt(res[s].has))
    BY <1>1, LiveMember DEF Settled
  <2>2. QED BY <2>1, UsesLive DEF Try, Settled, NoFault, TypeOK, Uses
<1>3. /\ res' \in [Results -> Result] /\ AllWhole(res')
      /\ used' \in SUBSET Nat
  <2>1. PassOn(r, s, how) \/ GiveAway(s, how) \/ UNCHANGED <<res, used>>
    BY DEF Try
  <2>2. QED BY <1>1, <2>1, PassOnSettled, GiveAwaySettled DEF Settled, TypeOK
<1>4. ops' \in Nat
  BY DEF Try, Perform, Settled, TypeOK
<1>5. QED
  BY <1>2, <1>3, <1>4 DEF Settled, TypeOK, NoFault, Try, Perform, AllWhole,
                          Whole, Alt

\* The four combinators.
LEMMA ComposeSettled ==
  ASSUME Settled, NEW op, NEW r \in Results, NEW s \in Results, NEW how,
         Compose(op, r, s, how)
  PROVE  Settled'
<1>1. ~res[r].alive /\ res[s].alive /\ r # s
  BY DEF Compose
<1>2. fault' = FALSE
  <2>1. Holds(s, Alt(res[s].has))
    BY <1>1, LiveMember DEF Settled
  <2>2. QED BY <2>1, UsesLive DEF Compose, Settled, NoFault, TypeOK, Uses
<1>3. ops' \in Nat
  BY DEF Compose, Perform, Settled, TypeOK
<1>4. res \in [Results -> Result] /\ used \in SUBSET Nat /\ made \in Nat
      /\ AllWhole(res)
  BY DEF Settled, TypeOK
<1>5. /\ res' \in [Results -> Result] /\ AllWhole(res')
      /\ used' \in SUBSET Nat /\ made' \in Nat
  <2>1. CASE PassOn(r, s, how) /\ UNCHANGED made
    BY <1>1, <1>4, <2>1, PassOnSettled
  <2>2. CASE GiveAway(s, how) /\ UNCHANGED made
    BY <1>4, <2>2, GiveAwaySettled
  <2>3. ASSUME /\ made' = made + 1
               /\ used' = used \cup (IF how = "move"
                                     THEN DataOf(res, res[s].elem) ELSE {}),
               NEW has \in BOOLEAN, NEW given,
               res' = Without([res EXCEPT ![s].elem = Left(@, how),
                                          ![r] = New(has)], given)
        PROVE  /\ res' \in [Results -> Result] /\ AllWhole(res')
               /\ used' \in SUBSET Nat /\ made' \in Nat
    <3> DEFINE e == Left(res[s].elem, how)
               S == [res EXCEPT ![s].elem = e]
               R == [S EXCEPT ![r] = New(has)]
    <3>1. res[s].elem \in Elem
      BY <1>4 DEF Result
    <3>2. e \in Elem /\ e.alt = res[s].elem.alt
      BY <3>1, ElemOps
    <3>3. S \in [Results -> Result] /\ AllWhole(S)
      <4> HIDE DEF e
      <4>1. QED BY <1>4, <3>2, SwapElem
    <3>4. New(has) \in Result /\ Whole(New(has))
      BY <1>4, NewType
    <3>5. R \in [Results -> Result] /\ AllWhole(R)
      <4> HIDE DEF S
      <4>1. QED BY <3>3, <3>4, PutResult
    <3>6. [res EXCEPT ![s].elem = Left(@, how), ![r] = New(has)] = R
      BY <1>1, <1>4
    <3>7. DataOf(res, res[s].elem) \in SUBSET Nat
      BY <1>4, <3>1, DataType
    <3> HIDE DEF R
    <3>8. Without(R, given) \in [Results -> Result]
          /\ AllWhole(Without(R, given))
      BY <3>5, WithoutKeeps
    <3>9. res' = Without(R, given)
      BY <2>3, <3>6, Zenon
    <3>10. res' \in [Results -> Result] /\ AllWhole(res')
      BY <3>8, <3>9, Zenon
    <3>11. used' \in SUBSET Nat /\ made' \in Nat
      BY <1>4, <2>3, <3>7
    <3>12. QED BY <3>10, <3>11
  <2>4. Answers(op) \subseteq BOOLEAN
    BY DEF Answers
  <2>5. QED BY <2>1, <2>2, <2>3, <2>4 DEF Compose
<1>6. QED
  BY <1>2, <1>3, <1>5 DEF Settled, TypeOK, NoFault, Compose, Perform,
                          AllWhole, Whole, Alt

-----------------------------------------------------------------------------
(* Cross-state assignment.                                                  *)

\* First step: the incoming element is built in a local, and may throw.
LEMMA BuildIncomingInv ==
  ASSUME Settled, NEW r \in Results, NEW s \in Results, NEW how,
         BuildIncoming(r, s, how)
  PROVE  IInv'
<1>1. res \in [Results -> Result] /\ AllWhole(res) /\ ops \in Nat
  BY DEF Settled, TypeOK
<1>2. res[r].alive /\ res[s].alive /\ res[r].has # res[s].has /\ r \notin Nested
      /\ type.move = {}
  BY DEF BuildIncoming, can_assign
<1>3. fault' = FALSE
  <2>1. Holds(s, Alt(res[s].has))
    BY <1>1, <1>2, LiveMember
  <2>2. QED BY <2>1, UsesLive DEF BuildIncoming, Settled, NoFault, TypeOK, Uses
<1>4. ops' \in Nat
  BY <1>1 DEF BuildIncoming, Perform
<1>5. CASE UNCHANGED <<job, res>>
  <2>1. Settled'
    BY <1>3, <1>4, <1>5 DEF Settled, TypeOK, NoFault, BuildIncoming, Perform,
                            AllWhole, Whole, Alt
  <2>2. QED
    BY <2>1 DEF IInv, Settled, NeverValueless, AllWhole, Whole, JobInv, TypeOK,
                NoFault, Alt, Changing
<1> DEFINE a == Taken(res[s].elem, how)
           b == Left(res[s].elem, how)
<1>6. CASE /\ job' = [step |-> "built", dst |-> r, incoming |-> a, want |-> a]
           /\ res' = [res EXCEPT ![s].elem = b]
  <2>1. res[s].elem \in Elem /\ res[s].has \in BOOLEAN /\ res[r].has \in BOOLEAN
    BY <1>1 DEF Result
  <2>2. a \in Elem /\ b \in Elem /\ a.alt = res[s].elem.alt
        /\ b.alt = res[s].elem.alt
    BY <2>1, ElemOps
  <2> HIDE DEF a, b
  <2>3. [res EXCEPT ![s].elem = b] \in [Results -> Result]
        /\ AllWhole([res EXCEPT ![s].elem = b])
    BY <1>1, <2>2, SwapElem
  <2>4. res' \in [Results -> Result] /\ AllWhole(res')
    BY <1>6, <2>3, Zenon
  <2>5. job' \in Job
    BY <1>6, <2>2 DEF Job
  <2>6. TypeOK'
    BY <1>3, <1>4, <2>4, <2>5 DEF TypeOK, Settled, BuildIncoming, Perform
  <2>7. res'[r].alive /\ res'[r].has = res[r].has
    BY <1>1, <1>2, <1>6 DEF Result
  <2>8. a.alt = Alt(~res[r].has)
    <3>1. res[s].elem.alt = Alt(res[s].has)
      BY <1>1, <1>2 DEF AllWhole, Whole
    <3>2. res[s].has = ~res[r].has
      BY <1>2, <2>1
    <3>3. QED BY <2>2, <3>1, <3>2
  <2>9. /\ job'.step = "built" /\ job'.dst = r /\ job'.incoming = a
        /\ job'.want = a
    BY <1>6
  <2>10. JobInv'
    <3>1. type' = type
      BY DEF BuildIncoming, Perform
    <3>2. Alt(~res'[r].has) = Alt(~res[r].has)
      BY <2>7
    <3>3. QED BY <1>2, <2>7, <2>8, <2>9, <3>1, <3>2 DEF JobInv, Alt
  <2>11. NeverValueless'
    BY <2>4 DEF NeverValueless, AllWhole, Whole, Alt
  <2>12. QED BY <1>3, <2>6, <2>10, <2>11 DEF IInv, NoFault
<1>7. QED BY <1>5, <1>6 DEF BuildIncoming

\* Second step: the outgoing element dies, with the results it owns.
LEMMA DestroyOutgoingInv ==
  ASSUME IInv, DestroyOutgoing
  PROVE  IInv'
<1> DEFINE r == job.dst
           R == [res EXCEPT ![r].elem = Gone]
<1>1. /\ res \in [Results -> Result] /\ r \in Results /\ used \in SUBSET Nat
      /\ job \in Job
  BY DEF IInv, TypeOK, Job
<1>2. job.step = "built" /\ res[r].alive /\ r \notin Nested
  BY DEF IInv, JobInv, DestroyOutgoing
<1>3. AllWhole(res)
  BY <1>2 DEF IInv, NeverValueless, Changing, AllWhole, Whole
<1>4. fault' = FALSE
  <2>1. Holds(r, Alt(res[r].has))
    BY <1>1, <1>2, <1>3, LiveMember
  <2>2. QED BY <2>1 DEF DestroyOutgoing, IInv, NoFault, TypeOK, Uses
<1>5. res[r].elem \in Elem
  BY <1>1 DEF Result
<1>6. R \in [Results -> Result]
  BY <1>1, Empties DEF Result
<1>7. /\ R[r] = [res[r] EXCEPT !.elem = Gone]
      /\ \A q \in Results \ {r} : R[q] = res[q]
  BY <1>1
<1>8. res' = Without(R, res[r].elem.kids)
  BY DEF DestroyOutgoing
<1>9. r \notin res[r].elem.kids
  BY <1>2, <1>5 DEF Elem
<1> HIDE DEF R
<1>10. res' \in [Results -> Result]
  BY <1>6, <1>8, WithoutKeeps
<1>11. res'[r] = R[r]
  BY <1>1, <1>6, <1>8, <1>9, WithoutKeeps
<1>12. res'[r].alive /\ res'[r].has = res[r].has
  BY <1>1, <1>2, <1>7, <1>11 DEF Result
<1>13. \A q \in Results \ {r} : Whole(res'[q])
  <2> SUFFICES ASSUME NEW q \in Results \ {r}
               PROVE  Whole(res'[q])
    OBVIOUS
  <2>1. res'[q] = NoResult \/ res'[q] = res[q]
    BY <1>7, <1>8 DEF Without
  <2>2. QED BY <1>3, <2>1, Empties DEF AllWhole
<1>14. job' \in Job /\ job'.step = "empty" /\ job'.dst = r
       /\ job'.incoming = job.incoming /\ job'.want = job.want
  BY <1>1 DEF DestroyOutgoing, Job
<1>15. used' \in SUBSET Nat
  <2>1. DataOf(res, res[r].elem) \in SUBSET Nat
    BY <1>1, <1>5, DataType
  <2>2. QED BY <1>1, <2>1 DEF DestroyOutgoing
<1>16. TypeOK'
  BY <1>4, <1>10, <1>14, <1>15 DEF TypeOK, IInv, DestroyOutgoing
<1>17. NeverValueless'
  BY <1>13, <1>14 DEF NeverValueless, Changing, Whole, Alt
<1>18. JobInv'
  <2>1. type' = type
    BY DEF DestroyOutgoing
  <2>2. /\ job.want.alt = Alt(~res[r].has) /\ type.move = {}
        /\ job.incoming = job.want
    BY <1>2 DEF IInv, JobInv
  <2> HIDE DEF r
  <2>3. QED BY <1>2, <1>12, <1>14, <2>1, <2>2 DEF JobInv, Alt
<1>19. QED BY <1>4, <1>16, <1>17, <1>18 DEF IInv, NoFault

\* Third step: the local is moved into the empty storage; type rules out a throw.
LEMMA PlaceIncomingInv ==
  ASSUME IInv, PlaceIncoming
  PROVE  IInv'
<1> DEFINE r == job.dst
           e == job.incoming
<1>1. /\ res \in [Results -> Result] /\ r \in Results /\ job \in Job
      /\ e \in Elem /\ job.want \in Elem
  BY DEF IInv, TypeOK, Job
<1>2. /\ job.step = "empty" /\ res[r].alive /\ r \notin Nested
      /\ job.want.alt = Alt(~res[r].has) /\ type.move = {} /\ e = job.want
  BY DEF IInv, JobInv, PlaceIncoming
<1>3. /\ res' = [res EXCEPT ![r].elem = e]
      /\ job' = [job EXCEPT !.step = "placed", !.incoming = Left(e, "move")]
  BY <1>2 DEF PlaceIncoming
<1>4. Left(e, "move") \in Elem
  BY <1>1, ElemOps
<1>5. job' \in Job /\ job'.step = "placed" /\ job'.dst = r
      /\ job'.want = job.want
  <2> HIDE DEF e
  <2>1. QED BY <1>1, <1>3, <1>4 DEF Job
<1>6. /\ res' \in [Results -> Result]
      /\ res'[r] = [res[r] EXCEPT !.elem = e]
      /\ \A q \in Results \ {r} : res'[q] = res[q]
  <2> HIDE DEF r, e
  <2>1. QED BY <1>1, <1>3 DEF Result
<1>7. res'[r].alive /\ res'[r].has = res[r].has /\ res'[r].elem = e
  <2> HIDE DEF r, e
  <2>1. QED BY <1>1, <1>2, <1>6 DEF Result
<1>8. TypeOK'
  BY <1>5, <1>6 DEF TypeOK, IInv, PlaceIncoming
<1>9. NeverValueless'
  <2> SUFFICES ASSUME NEW q \in Results, q # r
               PROVE  res'[q].alive => res'[q].elem.alt = Alt(res'[q].has)
    BY <1>5 DEF NeverValueless, Changing, Alt
  <2>1. res[q].alive => res[q].elem.alt = Alt(res[q].has)
    BY DEF IInv, NeverValueless, Changing
  <2>2. QED BY <1>6, <2>1
<1>10. JobInv'
  <2>1. type' = type
    BY DEF PlaceIncoming
  <2> HIDE DEF r, e
  <2>2. QED BY <1>2, <1>5, <1>7, <2>1 DEF JobInv, Alt
<1>11. NoFault'
  BY DEF IInv, NoFault, PlaceIncoming
<1>12. QED BY <1>8, <1>9, <1>10, <1>11 DEF IInv

\* The last step of an assignment leaves the target whole, with the element wanted.
LEMMA CommitDelivers ==
  ASSUME IInv, CommitState
  PROVE  /\ Settled'
         /\ res'[job.dst].alive
         /\ res'[job.dst].elem = job.want
         /\ res'[job.dst].has = (job.want.alt = "V")
<1> DEFINE r == job.dst
<1>1. res \in [Results -> Result] /\ r \in Results /\ job \in Job
  BY DEF IInv, TypeOK, Job
<1>2. /\ job.step = "placed" /\ res[r].alive
      /\ job.want.alt = Alt(~res[r].has) /\ res[r].elem = job.want
  BY DEF IInv, JobInv, CommitState
<1>3. res' = [res EXCEPT ![r].has = ~@] /\ job' = Done(job)
  BY DEF CommitState
<1>4. job' \in Job /\ job'.step = "idle"
  BY <1>1, <1>3, Empties DEF Job, Done
<1>5. res[r] \in Result /\ res[r].has \in BOOLEAN
  BY <1>1 DEF Result
<1> HIDE DEF r
<1>6. /\ res'[r] = [res[r] EXCEPT !.has = ~@]
      /\ \A q \in Results \ {r} : res'[q] = res[q]
      /\ res' \in [Results -> Result]
  BY <1>1, <1>3, <1>5 DEF Result
<1>7. res'[r].alive /\ res'[r].elem = job.want /\ res'[r].has = ~res[r].has
  BY <1>2, <1>5, <1>6 DEF Result
<1>8. AllWhole(res')
  <2> SUFFICES ASSUME NEW q \in Results
               PROVE  Whole(res'[q])
    BY DEF AllWhole
  <2>1. CASE q = r
    BY <1>2, <1>7, <2>1 DEF Whole
  <2>2. CASE q # r
    <3>1. res[q].alive => res[q].elem.alt = Alt(res[q].has)
      BY <2>2 DEF IInv, NeverValueless, Changing, r
    <3>2. QED BY <1>6, <2>2, <3>1 DEF Whole
  <2>3. QED BY <2>1, <2>2
<1>9. res'[r].has = (job.want.alt = "V")
  BY <1>2, <1>5, <1>7 DEF Alt
<1>10. Settled'
  BY <1>4, <1>6, <1>8 DEF Settled, TypeOK, IInv, NoFault, CommitState, AllWhole,
                          Whole, Alt
<1>11. QED BY <1>7, <1>9, <1>10 DEF r

-----------------------------------------------------------------------------
(* The theorems.                                                            *)

\* The initial state satisfies the invariant.
LEMMA InvInit == Init => IInv
<1> SUFFICES ASSUME Init PROVE IInv
  OBVIOUS
<1>1. res \in [Results -> Result] /\ AllWhole(res)
  BY Empties DEF Init, AllWhole
<1>2. job \in Job /\ job.step = "idle"
  BY Empties DEF Init, Job, Done
<1>3. Settled
  BY <1>1, <1>2, TransportAssumption DEF Init, Settled, TypeOK, NoFault
<1>4. QED BY <1>3, InvSettled

\* Every step preserves the invariant.
LEMMA InvStep ==
  ASSUME IInv, [Next]_vars
  PROVE  IInv'
<1> USE DEF Perform
<1>1. Settled' => IInv'
  BY DEF IInv, Settled, NeverValueless, AllWhole, Whole, JobInv, TypeOK,
         NoFault, Alt, Changing
<1>2. ASSUME NEW r \in Results, NEW has \in BOOLEAN, Construct(r, has)
      PROVE  IInv'
  BY <1>1, <1>2, SettledInv, ConstructSettled DEF Construct
<1>3. ASSUME NEW n \in Results, NEW h \in Results, NEW has \in BOOLEAN,
             ConstructInside(n, h, has)
      PROVE  IInv'
  BY <1>1, <1>3, SettledInv, ConstructInsideSettled DEF ConstructInside
<1>4. ASSUME NEW r \in Results, NEW s \in Results, NEW how,
             ConstructFrom(r, s, how)
      PROVE  IInv'
  BY <1>1, <1>4, SettledInv, ConstructFromSettled DEF ConstructFrom
<1>5. ASSUME NEW r \in Results, Destroy(r)
      PROVE  IInv'
  BY <1>1, <1>5, SettledInv, DestroySettled DEF Destroy
<1>6. ASSUME NEW r \in Results, NEW s \in Results, NEW how,
             AssignSame(r, s, how)
      PROVE  IInv'
  BY <1>1, <1>6, SettledInv, AssignSameSettled DEF AssignSame
<1>7. ASSUME NEW r \in Results, NEW how, AssignSelf(r, how)
      PROVE  IInv'
  BY <1>1, <1>7, SettledInv, AssignSelfSettled DEF AssignSelf
<1>8. ASSUME NEW r \in Results, NEW s \in Results, NEW how,
             BuildIncoming(r, s, how)
      PROVE  IInv'
  BY <1>8, SettledInv, BuildIncomingInv DEF BuildIncoming
<1>9. ASSUME NEW r \in Results, NEW want, NEW checked, NEW how,
             Access(r, want, checked, how)
      PROVE  IInv'
  BY <1>1, <1>9, SettledInv, AccessSettled DEF Access
<1>10. ASSUME NEW r \in Results, NEW s \in Results, Compare(r, s)
       PROVE  IInv'
  BY <1>1, <1>10, SettledInv, CompareSettled DEF Compare
<1>11. ASSUME NEW op, NEW r \in Results, NEW s \in Results, NEW how,
              Compose(op, r, s, how)
       PROVE  IInv'
  BY <1>1, <1>11, SettledInv, ComposeSettled DEF Compose
<1>12. ASSUME NEW r \in Results, NEW s \in Results, NEW how, Try(r, s, how)
       PROVE  IInv'
  BY <1>1, <1>12, SettledInv, TrySettled DEF Try
<1>13. CASE CommitState
  BY <1>1, <1>13, CommitDelivers
<1>14. ASSUME NEW r \in Results, NEW want, NEW how, AccessOr(r, want, how)
       PROVE  IInv'
  BY <1>1, <1>14, SettledInv, AccessOrSettled DEF AccessOr
<1>15. CASE UNCHANGED vars
  BY <1>15 DEF vars, IInv, TypeOK, NeverValueless, NoFault, JobInv, Changing,
               Alt
<1>16. QED
  BY <1>2, <1>3, <1>4, <1>5, <1>6, <1>7, <1>8, <1>9, <1>10, <1>11, <1>12,
     <1>13, <1>14, <1>15, DestroyOutgoingInv, PlaceIncomingInv DEF Next

\* The invariant holds in every reachable state.
THEOREM Invariance == Spec => []IInv
BY InvInit, InvStep, PTL DEF Spec

\* NeverValueless for every instance: whatever constructors, assignments and
\* callbacks throw, a result that can be looked at holds the alternative has_ names
\* (transport.hpp: assign_from and the constraints on assignment).
THEOREM ResultsAreWhole == Spec => []NeverValueless
<1>1. IInv => NeverValueless
  BY DEF IInv
<1>2. QED BY <1>1, Invariance, PTL

\* NoFault for every instance: no union member is read, assigned or destroyed
\* while it is not the live one, also where the source of an assignment dies with
\* the value that owned it.
THEOREM MembersAreLive == Spec => []NoFault
<1>1. IInv => NoFault
  BY DEF IInv
<1>2. QED BY <1>1, Invariance, PTL

\* AssignDelivers for every instance: once the outgoing element is destroyed, the
\* assignment ends with the source's element in place and has_ switched.
THEOREM AssignmentsDeliver == Spec => AssignDelivers
<1> DEFINE A == (job.step = "placed" \/ job.step = "empty") /\ job'.step = "idle"
       => /\ res'[job.dst].alive
          /\ res'[job.dst].elem = job.want
          /\ res'[job.dst].has = (job.want.alt = "V")
<1>1. IInv /\ [Next]_vars => [A]_vars
  <2> SUFFICES ASSUME IInv, Next, job.step = "placed" \/ job.step = "empty",
                      job'.step = "idle"
               PROVE  /\ res'[job.dst].alive
                      /\ res'[job.dst].elem = job.want
                      /\ res'[job.dst].has = (job.want.alt = "V")
    OBVIOUS
  <2>1. CASE CommitState
    BY <2>1, CommitDelivers
  <2>2. CASE PlaceIncoming
    <3>1. job.step = "empty" /\ type.move = {} /\ job \in Job
      BY <2>2 DEF PlaceIncoming, IInv, JobInv, TypeOK
    <3>2. job' = [job EXCEPT !.step = "placed",
                             !.incoming = Left(job.incoming, "move")]
      BY <2>2, <3>1 DEF PlaceIncoming
    <3>3. QED BY <3>1, <3>2 DEF Job
  <2>3. job.step # "idle" /\ ~DestroyOutgoing
    BY DEF DestroyOutgoing
  <2>4. CommitState \/ PlaceIncoming
    <3>1. ~Perform
      BY <2>3 DEF Perform
    <3>2. ASSUME NEW r, NEW s
          PROVE  /\ \A has : ~Construct(r, has) /\ ~ConstructInside(r, s, has)
                 /\ ~Destroy(r) /\ ~Compare(r, s)
      BY <3>1 DEF Construct, ConstructInside, Destroy, Compare
    <3>3. ASSUME NEW r, NEW s, NEW how
          PROVE  /\ ~ConstructFrom(r, s, how) /\ ~AssignSame(r, s, how)
                 /\ ~AssignSelf(r, how) /\ ~BuildIncoming(r, s, how)
      BY <3>1 DEF ConstructFrom, AssignSame, AssignSelf, BuildIncoming
    <3>4. ASSUME NEW r, NEW want, NEW checked, NEW how
          PROVE  ~Access(r, want, checked, how) /\ ~AccessOr(r, want, how)
      BY <3>1 DEF Access, AccessOr
    <3>5. ASSUME NEW op, NEW r, NEW s, NEW how
          PROVE  ~Compose(op, r, s, how) /\ ~Try(r, s, how)
      BY <3>1 DEF Compose, Try
    <3>6. QED BY <2>3, <3>2, <3>3, <3>4, <3>5 DEF Next
  <2>5. QED BY <2>1, <2>2, <2>4
<1>2. QED BY <1>1, Invariance, PTL DEF Spec, AssignDelivers
=============================================================================
