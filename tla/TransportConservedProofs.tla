----------------------- MODULE TransportConservedProofs -----------------------
(***************************************************************************)
(* The proof that move-only values and errors are conserved: for every     *)
(* number of results and data, each datum the program made is in exactly   *)
(* one result, or in the local variable of the assignment under way, until *)
(* the program takes it out, overwrites it or destroys it.                 *)
(***************************************************************************)
EXTENDS TransportProofs, FiniteSetTheorems

-----------------------------------------------------------------------------
(* The inductive invariant.                                                 *)

\* The datum in each storage; storage without a result has none.
Data(R) == [r \in Results |-> R[r].elem.datum]
DeadEmpty(R) == \A r \in Results : ~R[r].alive => R[r].elem.datum = 0

\* D are the data in the results, i the one in the local variable, U the ones
\* used up, of 1..m: no datum is in two of these, and each is in one.
Holding(D, i, U, m) ==
  /\ U \subseteq 1..m
  /\ i \in 0..m
  /\ D \in [Results -> 0..m]
  /\ \A r, s \in Results : D[r] = D[s] /\ D[r] # 0 => r = s
  /\ \A r \in Results : D[r] # 0 => D[r] # i /\ D[r] \notin U
  /\ i \notin U
  /\ \A d \in 1..m : d \in U \/ i = d \/ \E r \in Results : D[r] = d

\* The local variable of an assignment holds a datum only between the steps that
\* build and that place it, and the union is empty when it is placed.
Kept ==
  /\ Holding(Data(res), job.incoming.datum, used, made)
  /\ DeadEmpty(res)
  /\ job.step \in {"idle", "placed"} => job.incoming.datum = 0
  /\ job.step = "empty" => res[job.dst].elem.datum = 0

MoveOnly == type.hows = {"move"}
CInv == MoveOnly => Kept

-----------------------------------------------------------------------------
(* Moving data about.                                                       *)

\* Data X are used up: the results that held them hold none.
LEMMA Drops ==
  ASSUME NEW D, NEW i, NEW U, NEW m \in Nat, Holding(D, i, U, m),
         NEW E, E \in [Results -> Nat], NEW X,
         \A r \in Results : E[r] = D[r] \/ (E[r] = 0 /\ (D[r] = 0 \/ D[r] \in X)),
         \A x \in X : x # 0 /\ \E r \in Results : D[r] = x /\ E[r] = 0
  PROVE  Holding(E, i, U \cup X, m)
<1>1. E \in [Results -> 0..m] /\ X \subseteq 1..m
  BY DEF Holding
<1>2. \A r \in Results : E[r] # 0 => E[r] = D[r]
  OBVIOUS
<1>3. i \notin X
  <2>1. ASSUME i \in X PROVE FALSE
    BY <2>1 DEF Holding
  <2>2. QED BY <2>1
<1>4. \A r \in Results : E[r] # 0 => E[r] \notin X
  <2> SUFFICES ASSUME NEW r \in Results, E[r] # 0, E[r] \in X PROVE FALSE
    OBVIOUS
  <2>1. PICK s \in Results : D[s] = E[r] /\ E[s] = 0
    OBVIOUS
  <2>2. s = r
    BY <1>2, <2>1 DEF Holding
  <2>3. QED BY <2>1, <2>2
<1>5. \A d \in 1..m : d \in U \cup X \/ i = d \/ \E r \in Results : E[r] = d
  <2> SUFFICES ASSUME NEW d \in 1..m, d \notin U, i # d
               PROVE  d \in X \/ \E r \in Results : E[r] = d
    OBVIOUS
  <2>1. PICK r \in Results : D[r] = d
    BY DEF Holding
  <2>2. QED BY <2>1
<1>6. \A r, s \in Results : E[r] = E[s] /\ E[r] # 0 => r = s
  BY <1>2 DEF Holding
<1>7. QED BY <1>1, <1>2, <1>3, <1>4, <1>5, <1>6 DEF Holding

\* A datum moves from the result at s to the one at r, which had none.
LEMMA Moves ==
  ASSUME NEW D, NEW i, NEW U, NEW m \in Nat, Holding(D, i, U, m),
         NEW r \in Results, NEW s \in Results, r # s, D[r] = 0,
         NEW E, E \in [Results -> Nat],
         E[r] = D[s], E[s] = 0, \A q \in Results \ {r, s} : E[q] = D[q]
  PROVE  Holding(E, i, U, m)
<1>1. D \in [Results -> 0..m] /\ \A q \in Results : E[q] \in 0..m
  BY DEF Holding
<1>2. \A q \in Results : E[q] # 0 => q # s /\ E[q] = IF q = r THEN D[s] ELSE D[q]
  OBVIOUS
<1>3. \A p, q \in Results : E[p] = E[q] /\ E[p] # 0 => p = q
  BY <1>2 DEF Holding
<1>4. \A d \in 1..m : d \in U \/ i = d \/ \E q \in Results : E[q] = d
  <2> SUFFICES ASSUME NEW d \in 1..m, d \notin U, i # d
               PROVE  \E q \in Results : E[q] = d
    OBVIOUS
  <2>1. PICK q \in Results : D[q] = d
    BY DEF Holding
  <2>2. CASE q = s
    BY <2>1, <2>2
  <2>3. CASE q = r
    BY <2>1, <2>3
  <2>4. CASE q # s /\ q # r
    BY <2>1, <2>4
  <2>5. QED BY <2>2, <2>3, <2>4
<1>5. \A q \in Results : E[q] # 0 => E[q] # i /\ E[q] \notin U
  BY <1>2 DEF Holding
<1>6. QED BY <1>1, <1>3, <1>4, <1>5 DEF Holding

\* A new datum is made in the result at r, which had none.
LEMMA Makes ==
  ASSUME NEW D, NEW i, NEW U, NEW m \in Nat, Holding(D, i, U, m),
         NEW r \in Results, D[r] = 0,
         NEW E, E \in [Results -> Nat],
         E[r] = m + 1, \A q \in Results \ {r} : E[q] = D[q]
  PROVE  Holding(E, i, U, m + 1)
<1>1. D \in [Results -> 0..m] /\ \A q \in Results : E[q] \in 0..(m + 1)
  BY DEF Holding
<1>2. \A p, q \in Results : E[p] = E[q] /\ E[p] # 0 => p = q
  BY <1>1 DEF Holding
<1>3. \A d \in 1..(m + 1) : d \in U \/ i = d \/ \E q \in Results : E[q] = d
  <2> SUFFICES ASSUME NEW d \in 1..(m + 1), d \notin U, i # d, d # m + 1
               PROVE  \E q \in Results : E[q] = d
    OBVIOUS
  <2>1. PICK q \in Results : D[q] = d
    BY DEF Holding
  <2>2. q # r
    BY <2>1
  <2>3. QED BY <2>1, <2>2
<1>4. \A q \in Results : E[q] # 0 => E[q] # i /\ E[q] \notin U
  BY <1>1 DEF Holding
<1>5. QED BY <1>1, <1>2, <1>3, <1>4 DEF Holding

\* A datum moves from the result at s to the local variable.
LEMMA Builds ==
  ASSUME NEW D, NEW U, NEW m \in Nat, Holding(D, 0, U, m), NEW s \in Results,
         NEW E, E \in [Results -> Nat],
         E[s] = 0, \A q \in Results \ {s} : E[q] = D[q]
  PROVE  Holding(E, D[s], U, m)
<1>1. D \in [Results -> 0..m] /\ \A q \in Results : E[q] \in 0..m
  BY DEF Holding
<1>2. \A d \in 1..m : d \in U \/ D[s] = d \/ \E q \in Results : E[q] = d
  <2> SUFFICES ASSUME NEW d \in 1..m, d \notin U, D[s] # d
               PROVE  \E q \in Results : E[q] = d
    OBVIOUS
  <2>1. PICK q \in Results : D[q] = d
    BY DEF Holding
  <2>2. QED BY <2>1
<1>3. QED BY <1>1, <1>2 DEF Holding

\* The datum of the local variable is placed in the result at r, which had none.
LEMMA PlacesIt ==
  ASSUME NEW D, NEW i, NEW U, NEW m \in Nat, Holding(D, i, U, m),
         NEW r \in Results, D[r] = 0,
         NEW E, E \in [Results -> Nat],
         E[r] = i, \A q \in Results \ {r} : E[q] = D[q]
  PROVE  Holding(E, 0, U, m)
<1>1. D \in [Results -> 0..m] /\ \A q \in Results : E[q] \in 0..m
  BY DEF Holding
<1>2. \A d \in 1..m : d \in U \/ 0 = d \/ \E q \in Results : E[q] = d
  <2> SUFFICES ASSUME NEW d \in 1..m, d \notin U
               PROVE  \E q \in Results : E[q] = d
    OBVIOUS
  <2>1. CASE i = d
    BY <2>1
  <2>2. CASE i # d
    <3>1. PICK q \in Results : D[q] = d
      BY <2>2 DEF Holding
    <3>2. q # r
      BY <3>1
    <3>3. QED BY <3>1, <3>2
  <2>3. QED BY <2>1, <2>2
<1>3. \A p, q \in Results : E[p] = E[q] /\ E[p] # 0 => p = q
  BY <1>1 DEF Holding
<1>4. \A q \in Results : E[q] # 0 => E[q] \notin U
  BY <1>1 DEF Holding
<1>5. 0 \notin U
  BY DEF Holding
<1>6. QED BY <1>1, <1>2, <1>3, <1>4, <1>5 DEF Holding

-----------------------------------------------------------------------------
(* Data in results.                                                         *)

\* Each storage holds a number.
LEMMA DataIs ==
  ASSUME NEW R \in [Results -> Result]
  PROVE  /\ Data(R) \in [Results -> Nat]
         /\ \A r \in Results : Data(R)[r] = R[r].elem.datum
BY DEF Data, Result, Elem

\* A move takes the datum along and leaves none.
LEMMA MoveData ==
  ASSUME NEW e \in Elem
  PROVE  /\ Taken(e, "move") = e
         /\ Left(e, "move").datum = 0 /\ Left(e, "move") \in Elem
BY DEF Taken, Left, Elem

\* The results at hurt lose their elements, and with them the results these own:
\* exactly the data that go with the elements are used up.
LEMMA HurtDrops ==
  ASSUME NEW Q \in [Results -> Result], NEW R \in [Results -> Result],
         NEW i, NEW U, NEW m \in Nat, Holding(Data(Q), i, U, m),
         NEW hurt \in SUBSET Results,
         \A r \in Results : R[r].elem.datum = IF r \in hurt THEN 0
                                              ELSE Q[r].elem.datum
  PROVE  Holding(Data(Without(R, UNION {Q[r].elem.kids : r \in hurt})), i,
                 U \cup UNION {DataOf(Q, Q[r].elem) : r \in hurt}, m)
<1> DEFINE gone == UNION {Q[r].elem.kids : r \in hurt}
           X == UNION {DataOf(Q, Q[r].elem) : r \in hurt}
           W == Without(R, gone)
           D == Data(Q)
           E == Data(W)
<1>1. \A r \in hurt : Q[r].elem.kids \subseteq Results
  BY TransportAssumption DEF Result, Elem
<1>2. W \in [Results -> Result]
  BY WithoutKeeps
<1>3. /\ E \in [Results -> Nat] /\ \A r \in Results : E[r] = W[r].elem.datum
      /\ \A r \in Results : D[r] = Q[r].elem.datum
  BY <1>2, DataIs
<1>4. \A r \in Results : W[r] = IF r \in gone THEN NoResult ELSE R[r]
  BY DEF Without
<1>5. \A r \in Results : E[r] = IF r \in hurt \/ r \in gone THEN 0 ELSE D[r]
  <2>1. NoResult.elem.datum = 0
    BY DEF NoResult, Gone
  <2> HIDE DEF gone, W, D, E
  <2>2. QED BY <1>3, <1>4, <2>1
<1>6. \A x : x \in X <=> \E r \in hurt : x \in DataOf(Q, Q[r].elem)
  OBVIOUS
<1>7. \A r \in Results : r \in gone <=> \E h \in hurt : r \in Q[h].elem.kids
  OBVIOUS
<1>8. ASSUME NEW r \in Results, r \in hurt \/ r \in gone, D[r] # 0
      PROVE  D[r] \in X
  <2>1. CASE r \in hurt
    <3>1. D[r] \in DataOf(Q, Q[r].elem)
      BY <1>3, <1>8 DEF DataOf
    <3>2. QED BY <1>6, <2>1, <3>1
  <2>2. CASE r \in gone
    <3>1. PICK h \in hurt : r \in Q[h].elem.kids
      BY <1>7, <2>2
    <3>2. D[r] \in DataOf(Q, Q[h].elem)
      BY <1>3, <1>8, <3>1 DEF DataOf
    <3>3. QED BY <1>6, <3>2
  <2>3. QED BY <1>8, <2>1, <2>2
<1>9. ASSUME NEW x \in X
      PROVE  x # 0 /\ \E r \in Results : D[r] = x /\ E[r] = 0
  <2>1. PICK h \in hurt : x \in DataOf(Q, Q[h].elem)
    BY <1>6
  <2>2. x # 0 /\ (x = Q[h].elem.datum \/ \E k \in Q[h].elem.kids : x = Q[k].elem.datum)
    BY <2>1 DEF DataOf
  <2>3. CASE x = Q[h].elem.datum
    BY <1>3, <1>5, <2>2, <2>3
  <2>4. ASSUME NEW k \in Q[h].elem.kids, x = Q[k].elem.datum
        PROVE  \E r \in Results : D[r] = x /\ E[r] = 0
    <3>1. k \in Results /\ k \in gone
      BY <1>1, <1>7
    <3>2. QED BY <1>3, <1>5, <2>4, <3>1
  <2>5. QED BY <2>2, <2>3, <2>4
<1> HIDE DEF D, E, X, gone, W
<1>10. Holding(D, i, U, m)
  BY DEF D
<1>11. \A r \in Results : E[r] = D[r] \/ (E[r] = 0 /\ (D[r] = 0 \/ D[r] \in X))
  <2> SUFFICES ASSUME NEW r \in Results
               PROVE  E[r] = D[r] \/ (E[r] = 0 /\ (D[r] = 0 \/ D[r] \in X))
    OBVIOUS
  <2>1. CASE r \in hurt \/ r \in gone
    BY <1>5, <1>8, <2>1
  <2>2. CASE ~(r \in hurt \/ r \in gone)
    BY <1>5, <2>2
  <2>3. QED BY <2>1, <2>2
<1>12. \A x \in X : x # 0 /\ \E r \in Results : D[r] = x /\ E[r] = 0
  BY <1>9
<1>13. E \in [Results -> Nat]
  BY <1>3
<1>14. Holding(E, i, U \cup X, m)
  BY <1>10, <1>11, <1>12, <1>13, Drops
<1>15. QED BY <1>14 DEF E, X, gone, W

\* Destroying results leaves storage without a datum.
LEMMA WithoutEmpty ==
  ASSUME NEW R \in [Results -> Result], DeadEmpty(R), NEW kids
  PROVE  DeadEmpty(Without(R, kids))
BY DEF DeadEmpty, Without, NoResult, Gone

\* What the proofs use of a state between two statements.
Still == Settled /\ MoveOnly /\ Kept

LEMMA StillIs ==
  ASSUME Still
  PROVE  /\ res \in [Results -> Result] /\ made \in Nat /\ used \in SUBSET Nat
         /\ job \in Job /\ job.step = "idle" /\ job.incoming.datum = 0
         /\ Holding(Data(res), 0, used, made) /\ DeadEmpty(res)
         /\ \A r \in Results : res[r].elem \in Elem /\ res[r].has \in BOOLEAN
BY DEF Still, Settled, TypeOK, Kept, Result

\* A statement that leaves the assignment's state alone.
LEMMA KeptIdle ==
  ASSUME Still, job' = job, Holding(Data(res'), 0, used', made'), DeadEmpty(res')
  PROVE  Kept'
<1>1. job.step = "idle" /\ job.incoming.datum = 0
  BY StillIs
<1>2. Data(res)' = Data(res')
  BY DEF Data
<1>3. DeadEmpty(res)'
  BY DEF DeadEmpty
<1>4. QED BY <1>1, <1>2, <1>3 DEF Kept

\* The program takes the element at r, or destroys the result there.
LEMMA GiveUpKept ==
  ASSUME res \in [Results -> Result], made \in Nat,
         NEW i, Holding(Data(res), i, used, made),
         NEW r \in Results, NEW R \in [Results -> Result], DeadEmpty(R),
         R[r].elem.datum = 0,
         \A q \in Results \ {r} : R[q].elem.datum = res[q].elem.datum
  PROVE  /\ Holding(Data(Without(R, res[r].elem.kids)), i,
                    used \cup DataOf(res, res[r].elem), made)
         /\ DeadEmpty(Without(R, res[r].elem.kids))
<1>2. \A q \in Results : R[q].elem.datum = IF q \in {r} THEN 0 ELSE res[q].elem.datum
  OBVIOUS
<1>3. Holding(Data(Without(R, UNION {res[q].elem.kids : q \in {r}})), i,
              used \cup UNION {DataOf(res, res[q].elem) : q \in {r}}, made)
  BY <1>2, HurtDrops
<1>4. /\ UNION {res[q].elem.kids : q \in {r}} = res[r].elem.kids
      /\ UNION {DataOf(res, res[q].elem) : q \in {r}} = DataOf(res, res[r].elem)
  OBVIOUS
<1>5. QED BY <1>3, <1>4, WithoutEmpty

\* Putting a result into a storage, data considered.
LEMMA PutData ==
  ASSUME NEW R \in [Results -> Result], DeadEmpty(R), NEW r \in Results,
         NEW x \in Result, x.alive \/ x.elem.datum = 0,
         NEW T, T = [R EXCEPT ![r] = x]
  PROVE  /\ T \in [Results -> Result] /\ DeadEmpty(T)
         /\ T[r] = x
         /\ \A q \in Results \ {r} : T[q] = R[q]
BY DEF DeadEmpty

-----------------------------------------------------------------------------
(* Every statement of the program conserves the data.                       *)

\* A new result, in a value of another or not.
LEMMA ConstructKept ==
  ASSUME Still, NEW r \in Results, NEW has \in BOOLEAN, Construct(r, has)
  PROVE  Kept'
<1>1. /\ res \in [Results -> Result] /\ made \in Nat
      /\ Holding(Data(res), 0, used, made) /\ DeadEmpty(res)
  BY StillIs
<1>2. ~res[r].alive /\ res' = [res EXCEPT ![r] = New(has)] /\ made' = made + 1
      /\ UNCHANGED <<job, used>>
  BY DEF Construct
<1>3. New(has) \in Result /\ New(has).alive /\ New(has).elem.datum = made + 1
  BY <1>1, NewType DEF New
<1> DEFINE x == New(has)
<1> HIDE DEF x
<1>4. /\ res' \in [Results -> Result] /\ DeadEmpty(res') /\ res'[r] = x
      /\ \A q \in Results \ {r} : res'[q] = res[q]
  <2>1. x \in Result /\ x.alive /\ res' = [res EXCEPT ![r] = x]
    BY <1>2, <1>3 DEF x
  <2>2. QED BY <1>1, <2>1, PutData
<1>5. Data(res)[r] = 0
  BY <1>1, <1>2, DataIs DEF DeadEmpty
<1>6. /\ Data(res') \in [Results -> Nat] /\ Data(res')[r] = made + 1
      /\ \A q \in Results \ {r} : Data(res')[q] = Data(res)[q]
  BY <1>1, <1>3, <1>4, DataIs DEF x
<1>7. Holding(Data(res'), 0, used, made + 1)
  BY <1>1, <1>5, <1>6, Makes
<1>8. QED BY <1>2, <1>4, <1>7, KeptIdle

LEMMA ConstructInsideKept ==
  ASSUME Still, NEW n \in Results, NEW h \in Results, NEW has \in BOOLEAN,
         ConstructInside(n, h, has)
  PROVE  Kept'
<1> DEFINE x == New(has)
           R == [res EXCEPT ![n] = x]
           e == [R[h].elem EXCEPT !.kids = @ \cup {n}]
<1>1. /\ res \in [Results -> Result] /\ made \in Nat
      /\ Holding(Data(res), 0, used, made) /\ DeadEmpty(res)
  BY StillIs
<1>2. /\ ~res[n].alive /\ n # h /\ n \in Nested /\ res[h].alive
      /\ made' = made + 1 /\ UNCHANGED <<job, used>>
  BY DEF ConstructInside, Holds
<1>3. x \in Result /\ x.alive /\ x.elem.datum = made + 1
  BY <1>1, NewType DEF New
<1>4. R \in [Results -> Result] /\ R[h].elem \in Elem
  BY <1>1, <1>3 DEF Result
<1>5. res' = [R EXCEPT ![h].elem = e]
  <2>1. res' = [res EXCEPT ![n] = x, ![h].elem.kids = @ \cup {n}]
    BY DEF ConstructInside
  <2> HIDE DEF x
  <2>2. QED BY <1>1, <1>2, <2>1 DEF Result
<1> HIDE DEF x
<1>6. DeadEmpty(R) /\ R[n] = x /\ \A q \in Results \ {n} : R[q] = res[q]
  BY <1>1, <1>3, PutData
<1> HIDE DEF R
<1>7. e \in Elem /\ e.datum = R[h].elem.datum
  BY <1>2, <1>4 DEF Elem
<1> HIDE DEF e
<1>8. R[h].alive
  BY <1>2, <1>6
<1>9. /\ res' \in [Results -> Result] /\ DeadEmpty(res') /\ res'[h].elem = e
      /\ \A q \in Results \ {h} : res'[q] = R[q]
  <2> DEFINE y == [R[h] EXCEPT !.elem = e]
  <2>1. y \in Result /\ y.alive /\ y.elem = e
    BY <1>4, <1>7, <1>8 DEF Result
  <2>2. res' = [R EXCEPT ![h] = y]
    BY <1>5
  <2> HIDE DEF y
  <2>3. QED BY <1>4, <1>6, <2>1, <2>2, PutData
<1>10. Data(res)[n] = 0
  BY <1>1, <1>2, DataIs DEF DeadEmpty
<1>11. res'[n].elem.datum = made + 1
  BY <1>2, <1>3, <1>6, <1>9
<1>12. \A q \in Results \ {n} : res'[q].elem.datum = res[q].elem.datum
  BY <1>2, <1>6, <1>7, <1>9
<1>13. /\ Data(res') \in [Results -> Nat] /\ Data(res')[n] = made + 1
       /\ \A q \in Results \ {n} : Data(res')[q] = Data(res)[q]
  BY <1>1, <1>9, <1>11, <1>12, DataIs
<1>14. Holding(Data(res'), 0, used, made + 1)
  BY <1>1, <1>10, <1>13, Makes
<1>15. QED BY <1>2, <1>9, <1>14, KeptIdle

\* An element moves to storage without a result.
LEMMA TransferKept ==
  ASSUME Still, NEW r \in Results, NEW s \in Results,
         ~res[r].alive, res[s].alive,
         res' = [res EXCEPT
                   ![r] = [alive |-> TRUE, has |-> res[s].has,
                           elem |-> Taken(res[s].elem, "move")],
                   ![s].elem = Left(res[s].elem, "move")]
  PROVE  Holding(Data(res'), 0, used, made) /\ DeadEmpty(res')
<1> DEFINE x == [alive |-> TRUE, has |-> res[s].has,
                 elem |-> Taken(res[s].elem, "move")]
           R == [res EXCEPT ![r] = x]
           e == Left(res[s].elem, "move")
<1>1. /\ res \in [Results -> Result] /\ made \in Nat
      /\ Holding(Data(res), 0, used, made) /\ DeadEmpty(res)
      /\ res[s].elem \in Elem /\ res[s].has \in BOOLEAN
  BY StillIs
<1>2. /\ Taken(res[s].elem, "move") = res[s].elem
      /\ e \in Elem /\ e.datum = 0
  BY <1>1, MoveData
<1>3. x \in Result /\ x.alive /\ x.elem = res[s].elem
  BY <1>1, <1>2 DEF Result
<1>4. r # s
  OBVIOUS
<1>5. res' = [R EXCEPT ![s].elem = e]
  <2> HIDE DEF x, e
  <2>1. QED BY <1>1, <1>4 DEF x, e
<1> HIDE DEF x, e
<1>6. /\ R \in [Results -> Result] /\ DeadEmpty(R) /\ R[r] = x
      /\ \A q \in Results \ {r} : R[q] = res[q]
  BY <1>1, <1>3, PutData
<1> HIDE DEF R
<1>7. /\ res' \in [Results -> Result] /\ DeadEmpty(res') /\ res'[s].elem = e
      /\ \A q \in Results \ {s} : res'[q] = R[q]
  <2>1. res' \in [Results -> Result]
    BY <1>4, Transfer DEF Still
  <2>2. res'[s].elem = e /\ res'[s].alive = R[s].alive
    BY <1>2, <1>5, <1>6 DEF Result
  <2>3. \A q \in Results \ {s} : res'[q] = R[q]
    BY <1>5, <1>6
  <2>4. DeadEmpty(res')
    BY <1>2, <1>6, <2>2, <2>3 DEF DeadEmpty
  <2>5. QED BY <2>1, <2>2, <2>3, <2>4
<1>8. Data(res)[r] = 0
  BY <1>1, DataIs DEF DeadEmpty
<1>9. /\ res'[r].elem.datum = res[s].elem.datum /\ res'[s].elem.datum = 0
      /\ \A q \in Results \ {r, s} : res'[q].elem.datum = res[q].elem.datum
  BY <1>2, <1>3, <1>4, <1>6, <1>7
<1>10. /\ Data(res') \in [Results -> Nat] /\ Data(res')[r] = Data(res)[s]
       /\ Data(res')[s] = 0
       /\ \A q \in Results \ {r, s} : Data(res')[q] = Data(res)[q]
  <2>1. /\ Data(res') \in [Results -> Nat]
        /\ \A q \in Results : Data(res')[q] = res'[q].elem.datum
    BY <1>7, DataIs
  <2>2. \A q \in Results : Data(res)[q] = res[q].elem.datum
    BY <1>1, DataIs
  <2>3. QED BY <1>9, <2>1, <2>2
<1> DEFINE D == Data(res)
           E == Data(res')
<1>11. Holding(E, 0, used, made)
  <2>1. /\ E \in [Results -> Nat] /\ E[r] = D[s] /\ E[s] = 0 /\ D[r] = 0
        /\ \A q \in Results \ {r, s} : E[q] = D[q]
    BY <1>8, <1>10
  <2>2. Holding(D, 0, used, made) /\ made \in Nat
    BY <1>1
  <2> HIDE DEF D, E
  <2>3. QED BY <1>4, <2>1, <2>2, Moves
<1>12. QED BY <1>7, <1>11

\* Nothing happened to the results.
LEMMA IdleKept ==
  ASSUME Still, UNCHANGED <<res, job, used, made>>
  PROVE  Kept'
BY StillIs, KeptIdle

LEMMA ConstructFromKept ==
  ASSUME Still, NEW r \in Results, NEW s \in Results, ConstructFrom(r, s, "move")
  PROVE  Kept'
<1>1. ~res[r].alive /\ res[s].alive /\ UNCHANGED <<job, made, used>>
  BY DEF ConstructFrom
<1>2. CASE UNCHANGED res
  BY <1>1, <1>2, IdleKept
<1>3. CASE res' = [res EXCEPT
                ![r] = [alive |-> TRUE, has |-> res[s].has,
                        elem |-> Taken(res[s].elem, "move")],
                ![s].elem = Left(res[s].elem, "move")]
  BY <1>1, <1>3, TransferKept, KeptIdle
<1>4. QED BY <1>2, <1>3 DEF ConstructFrom

\* The destructor.
LEMMA DestroyKept ==
  ASSUME Still, NEW r \in Results, Destroy(r)
  PROVE  Kept'
<1> DEFINE R == [res EXCEPT ![r] = NoResult]
<1>1. /\ res' = Without(R, res[r].elem.kids)
      /\ used' = used \cup DataOf(res, res[r].elem)
      /\ UNCHANGED <<job, made>>
  BY DEF Destroy
<1>2. NoResult.elem.datum = 0
  BY DEF NoResult, Gone
<1>3. /\ R \in [Results -> Result] /\ DeadEmpty(R) /\ R[r] = NoResult
      /\ \A q \in Results \ {r} : R[q] = res[q]
  BY <1>2, StillIs, Empties, PutData
<1> HIDE DEF R
<1>4. Holding(Data(res'), 0, used', made) /\ DeadEmpty(res')
  BY <1>1, <1>2, <1>3, StillIs, GiveUpKept
<1>5. QED BY <1>1, <1>4, KeptIdle

\* The program takes the element out.
LEMMA GiveAwayKept ==
  ASSUME Still, NEW r \in Results, GiveAway(r, "move")
  PROVE  Holding(Data(res'), 0, used', made) /\ DeadEmpty(res')
<1> DEFINE e == Left(res[r].elem, "move")
           R == [res EXCEPT ![r].elem = e]
<1>1. /\ res' = Without(R, res[r].elem.kids)
      /\ used' = used \cup DataOf(res, res[r].elem)
  BY DEF GiveAway
<1>2. e \in Elem /\ e.datum = 0
  BY StillIs, MoveData
<1> HIDE DEF e
<1>3. /\ R \in [Results -> Result] /\ DeadEmpty(R) /\ R[r].elem = e
      /\ \A q \in Results \ {r} : R[q] = res[q]
  <2> DEFINE y == [res[r] EXCEPT !.elem = e]
  <2>1. res \in [Results -> Result] /\ DeadEmpty(res)
    BY StillIs
  <2>2. y \in Result /\ y.elem = e
    BY <1>2, <2>1 DEF Result
  <2>3. R = [res EXCEPT ![r] = y]
    OBVIOUS
  <2> HIDE DEF y, R
  <2>4. QED BY <1>2, <2>1, <2>2, <2>3, PutData
<1> HIDE DEF R
<1>4. QED BY <1>1, <1>2, <1>3, StillIs, GiveUpKept

\* An assignment operator that throws leaves some elements without their data.
LEMMA DamageKept ==
  ASSUME Still, NEW rs \in SUBSET Results, Damage(rs)
  PROVE  Holding(Data(res'), 0, used', made) /\ DeadEmpty(res')
<1>1. /\ res \in [Results -> Result] /\ made \in Nat
      /\ Holding(Data(res), 0, used, made) /\ DeadEmpty(res)
      /\ \A r \in Results : res[r].elem \in Elem
  BY StillIs
<1>2. PICK hurt \in SUBSET rs :
        /\ res' = Without([r \in Results |->
             IF r \in hurt THEN [res[r] EXCEPT !.elem = Left(@, "move")]
                           ELSE res[r]],
             UNION {res[r].elem.kids : r \in hurt})
        /\ used' = used \cup UNION {DataOf(res, res[r].elem) : r \in hurt}
  BY DEF Damage
<1> DEFINE R == [r \in Results |->
             IF r \in hurt THEN [res[r] EXCEPT !.elem = Left(@, "move")]
                           ELSE res[r]]
           gone == UNION {res[r].elem.kids : r \in hurt}
           X == UNION {DataOf(res, res[r].elem) : r \in hurt}
<1>3. ASSUME NEW r \in Results
      PROVE  /\ R[r] \in Result /\ R[r].alive = res[r].alive
             /\ R[r].elem.datum = IF r \in hurt THEN 0 ELSE res[r].elem.datum
  <2> DEFINE e == Left(res[r].elem, "move")
  <2>1. e \in Elem /\ e.datum = 0 /\ res[r] \in Result
    BY <1>1, MoveData
  <2>2. R[r] = IF r \in hurt THEN [res[r] EXCEPT !.elem = e] ELSE res[r]
    OBVIOUS
  <2> HIDE DEF e, R
  <2>3. QED BY <2>1, <2>2 DEF Result
<1>4. R \in [Results -> Result]
  <2>1. \A r \in Results : R[r] \in Result
    BY <1>3
  <2>2. R = [r \in Results |-> R[r]]
    OBVIOUS
  <2> HIDE DEF R
  <2>3. QED BY <2>1, <2>2
<1>5. res' = Without(R, gone) /\ used' = used \cup X
  BY <1>2
<1> HIDE DEF R
<1>6. \A r \in Results :
        R[r].elem.datum = IF r \in hurt THEN 0 ELSE res[r].elem.datum
  BY <1>3
<1>7. Holding(Data(Without(R, gone)), 0, used \cup X, made)
  <2>1. hurt \in SUBSET Results
    OBVIOUS
  <2>2. QED BY <1>1, <1>4, <1>6, <2>1, HurtDrops
<1>8. DeadEmpty(R)
  BY <1>1, <1>3 DEF DeadEmpty
<1> HIDE DEF gone, X
<1>9. QED BY <1>4, <1>5, <1>7, <1>8, WithoutEmpty

\* Assignment of an element to one of the same alternative: the old datum goes, the
\* new one takes its place, and what the old value owned goes last.
LEMMA AssignSameKept ==
  ASSUME Still, NEW r \in Results, NEW s \in Results, AssignSame(r, s, "move")
  PROVE  Kept'
<1> DEFINE a == Taken(res[s].elem, "move")
           b == Left(res[s].elem, "move")
           old == res[r].elem
           next == [res EXCEPT ![s].elem = Left(@, "move"), ![r].elem = a]
<1>1. /\ res \in [Results -> Result] /\ made \in Nat
      /\ Holding(Data(res), 0, used, made) /\ DeadEmpty(res)
      /\ res[s].elem \in Elem /\ old \in Elem
      /\ res[s] \in Result /\ res[r] \in Result
  BY StillIs
<1>2. /\ r # s /\ res[r].alive /\ res[s].alive /\ UNCHANGED <<job, made>>
  BY DEF AssignSame
<1>3. CASE res' = Without(next, old.kids) /\ used' = used \cup DataOf(next, old)
  <2>1. a = res[s].elem /\ b \in Elem /\ b.datum = 0
    BY <1>1, MoveData
  <2> DEFINE x == [res[r] EXCEPT !.elem = a]
             y == [res[s] EXCEPT !.elem = b]
             S == [res EXCEPT ![s] = y]
  <2>2. next = [S EXCEPT ![r] = x]
    BY <1>1, <1>2
  <2>3. /\ x \in Result /\ x.elem = a /\ x.alive
        /\ y \in Result /\ y.elem = b /\ y.alive
    <3> HIDE DEF a, b
    <3>1. a \in Elem
      BY <1>1, <2>1
    <3>2. QED BY <1>1, <1>2, <2>1, <3>1 DEF Result
  <2> HIDE DEF x, y, a, b
  <2>4. /\ S \in [Results -> Result] /\ DeadEmpty(S) /\ S[s] = y
        /\ \A q \in Results \ {s} : S[q] = res[q]
    BY <1>1, <2>3, PutData
  <2> HIDE DEF S
  <2>5. /\ next \in [Results -> Result] /\ DeadEmpty(next) /\ next[r] = x
        /\ \A q \in Results \ {r} : next[q] = S[q]
    <3> HIDE DEF next
    <3>1. QED BY <2>2, <2>3, <2>4, PutData
  <2> HIDE DEF next
  <2>6. /\ next[r].elem.datum = res[s].elem.datum /\ next[s].elem.datum = 0
        /\ \A q \in Results \ {r, s} : next[q].elem.datum = res[q].elem.datum
    BY <1>2, <2>1, <2>3, <2>4, <2>5
  <2> DEFINE D == Data(res)
             E == [D EXCEPT ![r] = 0]
             F == Data(next)
             X == {old.datum} \ {0}
             Y == {next[k].elem.datum : k \in old.kids} \ {0}
  <2>7. /\ D \in [Results -> Nat] /\ \A q \in Results : D[q] = res[q].elem.datum
        /\ F \in [Results -> Nat] /\ \A q \in Results : F[q] = next[q].elem.datum
    BY <1>1, <2>5, DataIs
  <2>8. Holding(D, 0, used, made)
    BY <1>1
  <2> HIDE DEF D, F
  <2>9. Holding(E, 0, used \cup X, made)
    <3>1. E \in [Results -> Nat] /\ E[r] = 0 /\ \A q \in Results \ {r} : E[q] = D[q]
      BY <2>7
    <3>2. D[r] = old.datum
      BY <2>7
    <3> HIDE DEF E, old
    <3>3. \A q \in Results : E[q] = D[q] \/ (E[q] = 0 /\ (D[q] = 0 \/ D[q] \in X))
      BY <3>1, <3>2
    <3>4. \A z \in X : z # 0 /\ \E q \in Results : D[q] = z /\ E[q] = 0
      BY <3>1, <3>2
    <3> HIDE DEF X
    <3>5. QED BY <1>1, <2>8, <3>1, <3>3, <3>4, Drops
  <2>10. Holding(F, 0, used \cup X, made)
    <3>1. E[r] = 0 /\ \A q \in Results \ {r} : E[q] = D[q]
      BY <2>7
    <3>2. F[r] = E[s] /\ F[s] = 0 /\ \A q \in Results \ {r, s} : F[q] = E[q]
      BY <1>2, <2>6, <2>7, <3>1
    <3> HIDE DEF E, X
    <3>3. QED BY <1>1, <1>2, <2>7, <2>9, <3>1, <3>2, Moves
  <2>11. Holding(Data(Without(next, old.kids)), 0, (used \cup X) \cup Y, made)
    <3> DEFINE W == Without(next, old.kids)
               G == Data(W)
    <3>1. W \in [Results -> Result]
          /\ \A q \in Results : W[q] = IF q \in old.kids THEN NoResult ELSE next[q]
      BY <2>5, WithoutKeeps DEF Without
    <3>2. G \in [Results -> Nat] /\ \A q \in Results : G[q] = W[q].elem.datum
      BY <3>1, DataIs
    <3>3. NoResult.elem.datum = 0
      BY DEF NoResult, Gone
    <3> HIDE DEF G, W, old
    <3>4. \A q \in Results : G[q] = IF q \in old.kids THEN 0 ELSE F[q]
      BY <2>7, <3>1, <3>2, <3>3
    <3>5. old.kids \subseteq Results
      BY <1>1, TransportAssumption DEF Elem
    <3>6. \A q \in Results : G[q] = F[q] \/ (G[q] = 0 /\ (F[q] = 0 \/ F[q] \in Y))
      BY <2>7, <3>4
    <3>7. \A z \in Y : z # 0 /\ \E q \in Results : F[q] = z /\ G[q] = 0
      BY <2>7, <3>4, <3>5
    <3> HIDE DEF X, Y
    <3>8. Holding(G, 0, (used \cup X) \cup Y, made)
      BY <1>1, <2>10, <3>2, <3>6, <3>7, Drops
    <3>9. QED BY <3>8 DEF G, W
  <2>12. used' = (used \cup X) \cup Y
    BY <1>3 DEF DataOf
  <2>13. DeadEmpty(res')
    BY <1>3, <2>5, WithoutEmpty
  <2>14. Holding(Data(res'), 0, used', made')
    BY <1>2, <1>3, <2>11, <2>12
  <2>15. QED BY <1>2, <2>13, <2>14, KeptIdle
<1>4. CASE Damage({r} \cup {s})
  <2>1. {r} \cup {s} \in SUBSET Results
    OBVIOUS
  <2>2. QED BY <1>2, <1>4, <2>1, DamageKept, KeptIdle
<1>5. QED BY <1>3, <1>4 DEF AssignSame

\* x = x.
LEMMA AssignSelfKept ==
  ASSUME Still, NEW r \in Results, AssignSelf(r, "move")
  PROVE  Kept'
<1>1. Damage({r}) /\ UNCHANGED <<job, made>>
  BY DEF AssignSelf
<1>2. {r} \in SUBSET Results
  OBVIOUS
<1>3. QED BY <1>1, <1>2, DamageKept, KeptIdle

\* The accessors.
LEMMA AccessKept ==
  ASSUME Still, NEW r \in Results, NEW want, NEW checked,
         Access(r, want, checked, "move")
  PROVE  Kept'
<1>1. UNCHANGED <<job, made>> /\ (GiveAway(r, "move") \/ UNCHANGED <<res, used>>)
  BY DEF Access
<1>2. CASE GiveAway(r, "move")
  BY <1>1, <1>2, GiveAwayKept, KeptIdle
<1>3. CASE UNCHANGED <<res, used>>
  BY <1>1, <1>3, IdleKept
<1>4. QED BY <1>1, <1>2, <1>3

LEMMA AccessOrKept ==
  ASSUME Still, NEW r \in Results, NEW want, AccessOr(r, want, "move")
  PROVE  Kept'
<1>1. UNCHANGED <<job, made>> /\ (GiveAway(r, "move") \/ UNCHANGED <<res, used>>)
  BY DEF AccessOr
<1>2. CASE GiveAway(r, "move")
  BY <1>1, <1>2, GiveAwayKept, KeptIdle
<1>3. CASE UNCHANGED <<res, used>>
  BY <1>1, <1>3, IdleKept
<1>4. QED BY <1>1, <1>2, <1>3

\* A failure or a value passed on, whole or not at all.
LEMMA PassOnKept ==
  ASSUME Still, NEW r \in Results, NEW s \in Results, ~res[r].alive, res[s].alive,
         PassOn(r, s, "move"), UNCHANGED <<job, made>>
  PROVE  Kept'
<1>1. CASE /\ res' = [res EXCEPT
                  ![r] = [alive |-> TRUE, has |-> res[s].has,
                          elem |-> Taken(res[s].elem, "move")],
                  ![s].elem = Left(res[s].elem, "move")]
           /\ UNCHANGED used
  BY <1>1, TransferKept, KeptIdle
<1>2. CASE UNCHANGED <<res, used>>
  BY <1>2, IdleKept
<1>3. CASE GiveAway(s, "move")
  BY <1>3, GiveAwayKept, KeptIdle
<1>4. QED BY <1>1, <1>2, <1>3 DEF PassOn, LoseInFailure

\* JMPXX_TRY and its kin.
LEMMA TryKept ==
  ASSUME Still, NEW r \in Results, NEW s \in Results, Try(r, s, "move")
  PROVE  Kept'
<1>1. /\ ~res[r].alive /\ res[s].alive /\ UNCHANGED <<job, made>>
      /\ PassOn(r, s, "move") \/ GiveAway(s, "move") \/ UNCHANGED <<res, used>>
  BY DEF Try
<1>2. CASE PassOn(r, s, "move")
  BY <1>1, <1>2, PassOnKept
<1>3. CASE GiveAway(s, "move")
  BY <1>1, <1>3, GiveAwayKept, KeptIdle
<1>4. CASE UNCHANGED <<res, used>>
  BY <1>1, <1>4, IdleKept
<1>5. QED BY <1>1, <1>2, <1>3, <1>4

\* The combinators: the element is given to the callback, which answers with a
\* new one.
LEMMA ComposeKept ==
  ASSUME Still, NEW op, NEW r \in Results, NEW s \in Results,
         Compose(op, r, s, "move")
  PROVE  Kept'
<1> DEFINE given == res[s].elem.kids
           e == Left(res[s].elem, "move")
<1>1. ~res[r].alive /\ res[s].alive /\ r \notin Nested /\ UNCHANGED job
  BY DEF Compose
<1>2. CASE PassOn(r, s, "move") /\ UNCHANGED made
  BY <1>1, <1>2, PassOnKept
<1>3. CASE GiveAway(s, "move") /\ UNCHANGED made
  BY <1>1, <1>3, GiveAwayKept, KeptIdle
<1>4. ASSUME NEW has \in BOOLEAN, made' = made + 1,
             used' = used \cup DataOf(res, res[s].elem),
             res' = Without([res EXCEPT ![s].elem = e, ![r] = New(has)], given)
      PROVE  Kept'
  <2> DEFINE x == New(has)
             y == [res[s] EXCEPT !.elem = e]
             R == [res EXCEPT ![s] = y]
             T == [R EXCEPT ![r] = x]
             V == Without(R, given)
  <2>1. /\ res \in [Results -> Result] /\ made \in Nat /\ DeadEmpty(res)
        /\ Holding(Data(res), 0, used, made)
        /\ res[s].elem \in Elem /\ res[s] \in Result
    BY StillIs
  <2>2. e \in Elem /\ e.datum = 0
    BY <2>1, MoveData
  <2>3. res' = Without(T, given)
    BY <1>4
  <2>4. x \in Result /\ x.alive /\ x.elem.datum = made + 1
    BY <2>1, NewType DEF New
  <2>5. y \in Result /\ y.elem = e
    <3> HIDE DEF e
    <3>1. QED BY <2>1, <2>2 DEF Result
  <2>6. r \notin given /\ r # s
    BY <1>1, <2>1 DEF Elem
  <2> HIDE DEF x, y, e
  <2>7. /\ R \in [Results -> Result] /\ DeadEmpty(R) /\ R[s] = y
        /\ \A q \in Results \ {s} : R[q] = res[q]
    BY <2>1, <2>2, <2>5, PutData
  <2> HIDE DEF R
  <2>8. /\ T \in [Results -> Result] /\ DeadEmpty(T) /\ T[r] = x
        /\ \A q \in Results \ {r} : T[q] = R[q]
    BY <2>4, <2>7, PutData
  <2> HIDE DEF T
  <2>9. /\ Holding(Data(V), 0, used', made) /\ DeadEmpty(V)
    <3>1. R[s].elem.datum = 0
      BY <2>2, <2>5, <2>7
    <3>2. \A q \in Results \ {s} : R[q].elem.datum = res[q].elem.datum
      BY <2>7
    <3>3. QED BY <1>4, <2>1, <2>7, <3>1, <3>2, GiveUpKept
  <2>10. V \in [Results -> Result]
         /\ \A q \in Results : V[q] = IF q \in given THEN NoResult ELSE R[q]
    <3>1. V \in [Results -> Result]
      BY <2>7, WithoutKeeps
    <3>2. \A q \in Results : V[q] = IF q \in given THEN NoResult ELSE R[q]
      BY DEF Without
    <3>3. QED BY <3>1, <3>2
  <2>11. res' \in [Results -> Result]
         /\ \A q \in Results : res'[q] = IF q \in given THEN NoResult ELSE T[q]
    <3>1. res' \in [Results -> Result]
      BY <2>3, <2>8, WithoutKeeps
    <3>2. \A q \in Results : res'[q] = IF q \in given THEN NoResult ELSE T[q]
      BY <2>3 DEF Without
    <3>3. QED BY <3>1, <3>2
  <2> HIDE DEF V, given
  <2> DEFINE D == Data(V)
             E == Data(res')
  <2>12. /\ D \in [Results -> Nat] /\ \A q \in Results : D[q] = V[q].elem.datum
         /\ E \in [Results -> Nat] /\ \A q \in Results : E[q] = res'[q].elem.datum
    BY <2>10, <2>11, DataIs
  <2>13. V[r].elem.datum = 0 /\ res'[r].elem.datum = made + 1
    BY <1>1, <2>1, <2>4, <2>6, <2>7, <2>8, <2>10, <2>11 DEF DeadEmpty
  <2>14. \A q \in Results \ {r} : res'[q] = V[q]
    BY <2>8, <2>10, <2>11
  <2> HIDE DEF D, E
  <2>15. /\ D[r] = 0 /\ E[r] = made + 1 /\ \A q \in Results \ {r} : E[q] = D[q]
    BY <2>12, <2>13, <2>14
  <2>16. Holding(E, 0, used', made + 1)
    <3>1. Holding(D, 0, used', made)
      BY <2>9 DEF D
    <3>2. QED BY <2>1, <2>12, <2>15, <3>1, Makes
  <2>17. DeadEmpty(res')
    BY <2>3, <2>8, WithoutEmpty
  <2>18. Holding(Data(res'), 0, used', made')
    BY <1>4, <2>16 DEF E
  <2>19. QED BY <1>1, <2>17, <2>18, KeptIdle
<1>5. \A has \in Answers(op) : has \in BOOLEAN
  BY DEF Answers
<1>6. QED BY <1>2, <1>3, <1>4, <1>5 DEF Compose

-----------------------------------------------------------------------------
(* A cross-state assignment conserves the data, step by step.               *)

\* What Kept says after a step, with the primes on the variables.
LEMMA KeptNext ==
  ASSUME Holding(Data(res'), job'.incoming.datum, used', made'), DeadEmpty(res'),
         job'.step \in {"idle", "placed"} => job'.incoming.datum = 0,
         job'.step = "empty" => res'[job'.dst].elem.datum = 0
  PROVE  Kept'
<1>1. Data(res)' = Data(res')
  BY DEF Data
<1>2. DeadEmpty(res)'
  BY DEF DeadEmpty
<1>3. QED BY <1>1, <1>2 DEF Kept

LEMMA BuildIncomingKept ==
  ASSUME Still, NEW r \in Results, NEW s \in Results, BuildIncoming(r, s, "move")
  PROVE  Kept'
<1> DEFINE e == res[s].elem
           b == Left(e, "move")
           y == [res[s] EXCEPT !.elem = b]
<1>1. /\ res \in [Results -> Result] /\ made \in Nat /\ DeadEmpty(res)
      /\ Holding(Data(res), 0, used, made) /\ e \in Elem /\ res[s] \in Result
  BY StillIs
<1>2. UNCHANGED <<made, used>>
  BY DEF BuildIncoming
<1>3. CASE UNCHANGED <<job, res>>
  BY <1>2, <1>3, IdleKept
<1>4. CASE /\ job' = [step |-> "built", dst |-> r,
                      incoming |-> Taken(e, "move"), want |-> Taken(e, "move")]
           /\ res' = [res EXCEPT ![s].elem = b]
  <2>1. Taken(e, "move") = e /\ b \in Elem /\ b.datum = 0
    BY <1>1, MoveData
  <2>2. job'.step = "built" /\ job'.incoming.datum = e.datum
    BY <1>4, <2>1
  <2>3. res' = [res EXCEPT ![s] = y]
    BY <1>4
  <2>4. y \in Result /\ y.elem = b
    <3> HIDE DEF b
    <3>1. QED BY <1>1, <2>1 DEF Result
  <2> HIDE DEF y, b
  <2>5. /\ res' \in [Results -> Result] /\ DeadEmpty(res') /\ res'[s] = y
        /\ \A q \in Results \ {s} : res'[q] = res[q]
    BY <1>1, <2>1, <2>3, <2>4, PutData
  <2> DEFINE D == Data(res)
             E == Data(res')
  <2>6. /\ D \in [Results -> Nat] /\ \A q \in Results : D[q] = res[q].elem.datum
        /\ E \in [Results -> Nat] /\ \A q \in Results : E[q] = res'[q].elem.datum
    BY <1>1, <2>5, DataIs
  <2>7. E[s] = 0 /\ D[s] = e.datum /\ \A q \in Results \ {s} : E[q] = D[q]
    BY <2>1, <2>4, <2>5, <2>6
  <2>8. Holding(D, 0, used, made)
    BY <1>1
  <2> HIDE DEF D, E
  <2>9. Holding(E, D[s], used, made)
    BY <1>1, <2>6, <2>7, <2>8, Builds
  <2>10. Holding(Data(res'), job'.incoming.datum, used', made')
    BY <1>2, <2>2, <2>7, <2>9 DEF E
  <2>11. QED BY <2>2, <2>5, <2>10, KeptNext
<1>5. QED BY <1>3, <1>4 DEF BuildIncoming

LEMMA DestroyOutgoingKept ==
  ASSUME IInv, Kept, DestroyOutgoing
  PROVE  Kept'
<1> DEFINE r == job.dst
           y == [res[r] EXCEPT !.elem = Gone]
           R == [res EXCEPT ![r] = y]
<1>1. /\ res \in [Results -> Result] /\ made \in Nat /\ job \in Job /\ r \in Results
      /\ res[r] \in Result /\ res[r].elem \in Elem
  BY DEF IInv, TypeOK, Job, Result
<1>2. Holding(Data(res), job.incoming.datum, used, made) /\ DeadEmpty(res)
  BY DEF Kept
<1>3. /\ job.step = "built"
      /\ used' = used \cup DataOf(res, res[r].elem)
      /\ res' = Without(R, res[r].elem.kids)
      /\ job' = [job EXCEPT !.step = "empty"]
      /\ UNCHANGED made
  BY DEF DestroyOutgoing
<1>4. job'.step = "empty" /\ job'.dst = r /\ job'.incoming = job.incoming
  BY <1>1, <1>3 DEF Job
<1>5. Gone \in Elem /\ Gone.datum = 0 /\ NoResult.elem.datum = 0
  BY DEF Gone, Elem, NoResult
<1>6. y \in Result /\ y.elem.datum = 0
  BY <1>1, <1>5 DEF Result
<1> HIDE DEF y, r
<1>7. /\ R \in [Results -> Result] /\ DeadEmpty(R) /\ R[r] = y
      /\ \A q \in Results \ {r} : R[q] = res[q]
  BY <1>1, <1>2, <1>6, PutData
<1> HIDE DEF R
<1>8. /\ Holding(Data(res'), job.incoming.datum, used', made)
      /\ DeadEmpty(res')
  <2>1. \A q \in Results \ {r} : R[q].elem.datum = res[q].elem.datum
    BY <1>7
  <2>2. R[r].elem.datum = 0
    BY <1>6, <1>7
  <2>3. QED BY <1>1, <1>2, <1>3, <1>7, <2>1, <2>2, GiveUpKept
<1>9. res'[r].elem.datum = 0
  BY <1>1, <1>3, <1>5, <1>6, <1>7 DEF Without
<1>10. QED BY <1>3, <1>4, <1>8, <1>9, KeptNext

LEMMA PlaceIncomingKept ==
  ASSUME IInv, Kept, PlaceIncoming
  PROVE  Kept'
<1> DEFINE r == job.dst
           e == job.incoming
           y == [res[r] EXCEPT !.elem = e]
<1>1. /\ res \in [Results -> Result] /\ made \in Nat /\ job \in Job /\ r \in Results
      /\ res[r] \in Result /\ e \in Elem
  BY DEF IInv, TypeOK, Job
<1>2. job.step = "empty" /\ UNCHANGED <<made, used>>
  BY DEF PlaceIncoming
<1>3. /\ Holding(Data(res), e.datum, used, made) /\ DeadEmpty(res)
      /\ res[r].elem.datum = 0
  BY <1>2 DEF Kept
<1>4. type.move = {} /\ res[r].alive
  BY <1>2 DEF IInv, JobInv
<1>5. /\ res' = [res EXCEPT ![r].elem = e]
      /\ job' = [job EXCEPT !.step = "placed", !.incoming = Left(e, "move")]
  BY <1>4 DEF PlaceIncoming
<1>6. job'.step = "placed" /\ job'.incoming.datum = 0
  <2>1. Left(e, "move").datum = 0
    BY <1>1, MoveData
  <2>2. QED BY <1>1, <1>5, <2>1 DEF Job
<1>7. res' = [res EXCEPT ![r] = y]
  BY <1>5
<1>8. y \in Result /\ y.elem = e /\ y.alive
  BY <1>1, <1>4 DEF Result
<1> HIDE DEF y
<1>9. /\ res' \in [Results -> Result] /\ DeadEmpty(res') /\ res'[r] = y
      /\ \A q \in Results \ {r} : res'[q] = res[q]
  <2> HIDE DEF r
  <2>1. QED BY <1>1, <1>3, <1>7, <1>8, PutData
<1> DEFINE D == Data(res)
           E == Data(res')
<1>10. /\ D \in [Results -> Nat] /\ \A q \in Results : D[q] = res[q].elem.datum
       /\ E \in [Results -> Nat] /\ \A q \in Results : E[q] = res'[q].elem.datum
  BY <1>1, <1>9, DataIs
<1>11. E[r] = e.datum /\ D[r] = 0 /\ \A q \in Results \ {r} : E[q] = D[q]
  BY <1>1, <1>3, <1>8, <1>9, <1>10
<1>12. Holding(D, e.datum, used, made)
  BY <1>3
<1> HIDE DEF D, E, r, e
<1>13. Holding(E, 0, used, made)
  BY <1>1, <1>10, <1>11, <1>12, PlacesIt
<1>14. Holding(Data(res'), job'.incoming.datum, used', made')
  BY <1>2, <1>6, <1>13 DEF E
<1>15. QED BY <1>6, <1>9, <1>14, KeptNext

LEMMA CommitStateKept ==
  ASSUME IInv, Kept, CommitState
  PROVE  Kept'
<1> DEFINE r == job.dst
           y == [res[r] EXCEPT !.has = ~@]
<1>1. /\ res \in [Results -> Result] /\ job \in Job /\ r \in Results
      /\ res[r] \in Result
  BY DEF IInv, TypeOK, Job
<1>2. /\ job.step = "placed" /\ res' = [res EXCEPT ![r] = y]
      /\ job' = Done(job) /\ UNCHANGED <<made, used>>
  BY DEF CommitState
<1>3. /\ Holding(Data(res), 0, used, made) /\ DeadEmpty(res)
  BY <1>2 DEF Kept
<1>4. job'.step = "idle" /\ job'.incoming.datum = 0
  BY <1>1, <1>2 DEF Done, Job, Gone
<1>5. y.elem = res[r].elem /\ y.alive = res[r].alive /\ y \in Result
  BY <1>1 DEF Result
<1> HIDE DEF y, r
<1>6. /\ \A q \in Results : res'[q].elem = res[q].elem /\ res'[q].alive = res[q].alive
  BY <1>1, <1>2, <1>5
<1>7. DeadEmpty(res') /\ Data(res') = Data(res)
  BY <1>3, <1>6 DEF DeadEmpty, Data
<1>8. QED BY <1>2, <1>3, <1>4, <1>7, KeptNext

-----------------------------------------------------------------------------
(* The invariant is inductive, and gives Conserved.                         *)

\* Before the first statement there are no data.
LEMMA InitKept == Init => CInv
<1> SUFFICES ASSUME Init PROVE Kept
  BY DEF CInv
<1>1. /\ res = [r \in Results |-> NoResult] /\ made = 0 /\ used = {}
      /\ job.step = "idle" /\ job.incoming.datum = 0
  <2>1. ASSUME NEW j \in Job PROVE Done(j).step = "idle" /\ Done(j).incoming = Gone
    BY DEF Done, Job
  <2>2. Gone \in Elem /\ Gone.datum = 0
    BY DEF Gone, Elem
  <2>3. PICK r \in Results : job = Done([step |-> "idle", dst |-> r,
                                         incoming |-> Gone, want |-> Gone])
    BY DEF Init
  <2> DEFINE j == [step |-> "idle", dst |-> r, incoming |-> Gone, want |-> Gone]
  <2>4. j \in Job /\ job = Done(j)
    BY <2>2, <2>3 DEF Job
  <2> HIDE DEF j
  <2>5. QED BY <2>1, <2>2, <2>4 DEF Init
<1>2. NoResult.elem.datum = 0
  BY DEF NoResult, Gone
<1>3. DeadEmpty(res) /\ Data(res) = [r \in Results |-> 0]
  BY <1>1, <1>2 DEF DeadEmpty, Data
<1>4. Holding([r \in Results |-> 0], 0, {}, 0)
  BY DEF Holding
<1>5. QED BY <1>1, <1>3, <1>4 DEF Kept

\* Every step conserves the data of move-only types.
LEMMA StepKept ==
  ASSUME IInv, CInv, [Next]_vars
  PROVE  CInv'
<1>1. type' = type
  BY DEF Next, vars, Perform, Construct, ConstructInside, ConstructFrom, Destroy,
         AssignSame, AssignSelf, BuildIncoming, DestroyOutgoing, PlaceIncoming,
         CommitState, Access, AccessOr, Compare, Compose, Try
<1>2. SUFFICES ASSUME MoveOnly PROVE Kept'
  BY <1>1 DEF CInv, MoveOnly
<1>3. Kept
  BY <1>2 DEF CInv
<1>4. \A how \in type.hows : how = "move"
  BY <1>2 DEF MoveOnly
<1>5. CASE job.step # "idle" /\ Next
  <2>1. DestroyOutgoing \/ PlaceIncoming \/ CommitState
    BY <1>5 DEF Next, Perform, Construct, ConstructInside, ConstructFrom, Destroy,
                AssignSame, AssignSelf, BuildIncoming, Access, AccessOr, Compare,
                Compose, Try
  <2>2. QED
    BY <1>3, <2>1, DestroyOutgoingKept, PlaceIncomingKept, CommitStateKept
<1>6. CASE job.step = "idle" /\ Next
  <2>1. Still
    BY <1>2, <1>3, <1>6, SettledInv DEF Still
  <2>2. ASSUME NEW r \in Results, NEW has \in BOOLEAN, Construct(r, has)
        PROVE  Kept'
    BY <2>1, <2>2, ConstructKept
  <2>3. ASSUME NEW n \in Results, NEW h \in Results, NEW has \in BOOLEAN,
               ConstructInside(n, h, has)
        PROVE  Kept'
    BY <2>1, <2>3, ConstructInsideKept
  <2>4. ASSUME NEW r \in Results, NEW s \in Results, ConstructFrom(r, s, "move")
        PROVE  Kept'
    BY <2>1, <2>4, ConstructFromKept
  <2>5. ASSUME NEW r \in Results, Destroy(r)
        PROVE  Kept'
    BY <2>1, <2>5, DestroyKept
  <2>6. ASSUME NEW r \in Results, NEW s \in Results, AssignSame(r, s, "move")
        PROVE  Kept'
    BY <2>1, <2>6, AssignSameKept
  <2>7. ASSUME NEW r \in Results, AssignSelf(r, "move")
        PROVE  Kept'
    BY <2>1, <2>7, AssignSelfKept
  <2>8. ASSUME NEW r \in Results, NEW s \in Results, BuildIncoming(r, s, "move")
        PROVE  Kept'
    BY <2>1, <2>8, BuildIncomingKept
  <2>9. ASSUME NEW r \in Results, NEW want, NEW checked,
               Access(r, want, checked, "move")
        PROVE  Kept'
    BY <2>1, <2>9, AccessKept
  <2>10. ASSUME NEW r, NEW s, Compare(r, s)
         PROVE  Kept'
    BY <2>1, <2>10, IdleKept DEF Compare
  <2>11. ASSUME NEW op, NEW r \in Results, NEW s \in Results,
                Compose(op, r, s, "move")
         PROVE  Kept'
    BY <2>1, <2>11, ComposeKept
  <2>12. ASSUME NEW r \in Results, NEW s \in Results, Try(r, s, "move")
         PROVE  Kept'
    BY <2>1, <2>12, TryKept
  <2>13. ASSUME NEW r \in Results, NEW want, AccessOr(r, want, "move")
         PROVE  Kept'
    BY <2>1, <2>13, AccessOrKept
  <2>14. ~DestroyOutgoing /\ ~PlaceIncoming /\ ~CommitState
    BY <1>6 DEF DestroyOutgoing, PlaceIncoming, CommitState
  <2>15. QED
    BY <1>4, <1>6, <2>2, <2>3, <2>4, <2>5, <2>6, <2>7, <2>8, <2>9, <2>10, <2>11,
       <2>12, <2>13, <2>14 DEF Next
<1>7. CASE UNCHANGED vars
  <2>1. UNCHANGED <<res, job, used, made>>
    BY <1>7 DEF vars
  <2>2. QED BY <1>3, <2>1, KeptNext DEF Kept
<1>8. QED BY <1>5, <1>6, <1>7

\* Each datum in one place at most, and in one unless it was used up.
LEMMA KeptConserved ==
  ASSUME TypeOK, Kept, NEW d \in 1..made
  PROVE  Cardinality(Places(d)) = IF d \in used THEN 0 ELSE 1
<1>1. /\ res \in [Results -> Result] /\ made \in Nat /\ DeadEmpty(res)
      /\ Holding(Data(res), job.incoming.datum, used, made)
  BY DEF TypeOK, Kept
<1>2. /\ \A r \in Results : Data(res)[r] = res[r].elem.datum
      /\ Data(res) \in [Results -> Nat]
  BY <1>1, DataIs
<1>3. d # 0
  BY <1>1
<1>4. \A r \in Results : res[r].elem.datum = d => res[r].alive
  BY <1>1, <1>3 DEF DeadEmpty
<1>5. CASE d \in used
  <2>1. \A r \in Results : res[r].elem.datum # d
    BY <1>1, <1>2, <1>3, <1>5 DEF Holding
  <2>2. job.incoming.datum # d
    BY <1>1, <1>5 DEF Holding
  <2>3. Places(d) = {}
    BY <2>1, <2>2 DEF Places
  <2>4. QED BY <1>5, <2>3, FS_EmptySet
<1>6. CASE d \notin used
  <2>1. CASE job.incoming.datum = d
    <3>1. \A r \in Results : res[r].elem.datum # d
      BY <1>1, <1>2, <1>3, <2>1 DEF Holding
    <3>2. Places(d) = {"incoming"}
      BY <2>1, <3>1 DEF Places
    <3>3. QED BY <1>6, <3>2, FS_Singleton
  <2>2. CASE job.incoming.datum # d
    <3>1. PICK r \in Results : res[r].elem.datum = d
      BY <1>1, <1>2, <1>6, <2>2 DEF Holding
    <3>2. \A q \in Results : res[q].elem.datum = d => q = r
      BY <1>1, <1>2, <1>3, <3>1 DEF Holding
    <3>3. Places(d) = {r}
      BY <1>4, <2>2, <3>1, <3>2 DEF Places
    <3>4. QED BY <1>6, <3>3, FS_Singleton
  <2>3. QED BY <2>1, <2>2
<1>7. QED BY <1>5, <1>6

\* Conserved for every instance: whatever constructors and assignments throw and
\* however results are moved, nested, composed and propagated, no datum of a
\* move-only type is lost or duplicated (transport.hpp, propagation.hpp).
THEOREM DataAreConserved == Spec => []Conserved
<1>1. IInv /\ CInv => Conserved
  BY KeptConserved DEF IInv, CInv, MoveOnly, Conserved
<1>2. IInv /\ CInv /\ [Next]_vars => CInv'
  BY StepKept
<1>3. QED BY <1>1, <1>2, InitKept, Invariance, PTL DEF Spec

=============================================================================
