----------------------- MODULE DiagnosticStoreProofs -----------------------
(***************************************************************************)
(* Proofs about DiagnosticStore for every number of threads, errors and    *)
(* landings, every capacity and every width of the handle.                 *)
(***************************************************************************)
EXTENDS DiagnosticStore, TLAPS

-----------------------------------------------------------------------------
(* The inductive invariant.                                                 *)

\* Until the counter wraps, the handle issued next is the creation number of
\* the next failure.
CounterInv ==
  \A t \in Threads : opened[t] <= IdRange - 2 => next_id[t] = opened[t] + 1

\* Live records are stacked in creation order, and their handles are their
\* creation numbers as far as those fit the handle.
StackInv ==
  \A t \in Threads : \A i \in Live(t) :
    /\ records[t][i].origin \in 1..opened[t]
    /\ records[t][i].origin < IdRange
         => records[t][i].id = records[t][i].origin
    /\ \A j \in Live(t) :
         i < j => records[t][i].origin < records[t][j].origin

\* A rich_error names a failure its home thread created, or none.
ErrorInv ==
  \A e \in Errors :
    /\ err[e].origin \in 0..opened[err[e].home]
    /\ err[e].origin < IdRange => err[e].handle = err[e].origin
    /\ ~Migrates => err[e].at = err[e].home

\* Snapshots are not in the future, and cover only newer records.
MarkInv ==
  /\ \A l \in Landings :
       landing[l].status = "open" => landing[l].since <= opened[landing[l].thread]
  /\ LandingKeepsOlder

\* While landings nest, no open landing's mark is above the arena's depth,
\* everything below a mark is older than it, and marks grow with time.
NestInv ==
  Scoped => \A l \in Landings : landing[l].status = "open" =>
    LET t == landing[l].thread IN
    /\ landing[l].mark <= depth[t]
    /\ \A i \in Live(t) :
         i <= landing[l].mark => records[t][i].origin <= landing[l].since
    /\ \A k \in Landings :
         (landing[k].status = "open" /\ landing[k].thread = t
            /\ landing[k].since <= landing[l].since)
           => landing[k].mark <= landing[l].mark

IInv == TypeOK /\ CounterInv /\ StackInv /\ ErrorInv /\ MarkInv /\ NestInv

-----------------------------------------------------------------------------
\* Appending to a sequence of sites gives one.
LEMMA AppendType ==
  ASSUME NEW q \in Seq(Sites), NEW s \in Sites
  PROVE  Append(q, s) \in Seq(Sites)
OBVIOUS

\* add_hop keeps a record a record.
LEMMA HopType ==
  ASSUME NEW r \in Record, NEW s \in Sites
  PROVE  Hop(r, s) \in Record
<1>1. r.hops \in Seq(Sites)
  BY DEF Record
<1>2. Append(r.hops, s) \in Seq(Sites)
  BY <1>1, AppendType
<1> DEFINE q == Append(r.hops, s)
<1>3. q \in Seq(Sites)
  BY <1>2
<1>4. [r EXCEPT !.truncated = TRUE] \in Record
  BY DEF Record
<1> HIDE DEF q
<1>5. [r EXCEPT !.hops = q] \in Record
  BY <1>3 DEF Record
<1>6. QED BY <1>4, <1>5 DEF Hop, q

\* Extending the propagation history keeps a record a record.
LEMMA TrailType ==
  ASSUME NEW r \in Record, NEW s \in Sites
  PROVE  [r EXCEPT !.trail = Append(@, s)] \in Record
<1> DEFINE q == Append(r.trail, s)
<1>1. r.trail \in Seq(Sites)
  BY DEF Record
<1>2. q \in Seq(Sites)
  BY <1>1, AppendType
<1> HIDE DEF q
<1>3. [r EXCEPT !.trail = q] \in Record
  BY <1>2 DEF Record
<1>4. QED BY <1>3 DEF q

-----------------------------------------------------------------------------
\* What a program is.
LEMMA ProgramIs ==
  ASSUME TypeOK
  PROVE  /\ program.threads \subseteq Threads
         /\ program.sites \subseteq Sites
         /\ Scoped \in BOOLEAN /\ Migrates \in BOOLEAN
         /\ max_inflight \in Nat /\ max_inflight <= MaxInflight
<1>1. program \in Program
  BY StoreAssumption DEF TypeOK
<1>2. QED
  BY <1>1, StoreAssumption DEF Program, Scoped, Migrates, max_inflight

\* A step is one of the operations, of the program's own threads and sites; the
\* program stays the same.
Steps ==
  \/ \E t \in Threads, e \in Errors : Fail(t, e)
  \/ \E e, f \in Errors : Copy(e, f)
  \/ \E e \in Errors, t \in Threads : HandOff(e, t)
  \/ \E e \in Errors, s \in Sites : Propagate(e, s)
  \/ \E t \in Threads, l \in Landings : EnterLanding(t, l)
  \/ \E l \in Landings : LeaveLanding(l)
  \/ \E l \in Landings : SkipLanding(l)
LEMMA StepIs ==
  ASSUME TypeOK, [Next]_vars
  PROVE  /\ Steps \/ UNCHANGED vars
         /\ UNCHANGED <<program, Scoped, Migrates>>
<1>1. UNCHANGED program
  BY DEF Next, vars
<1>2. UNCHANGED <<Scoped, Migrates>>
  BY <1>1 DEF Scoped, Migrates
<1>3. Steps \/ UNCHANGED vars
  BY ProgramIs DEF Next, Step, Steps
<1>4. QED BY <1>1, <1>2, <1>3

\* Every step keeps the types.
LEMMA TypeStep == TypeOK /\ [Next]_vars => TypeOK'
<1> USE StoreAssumption
<1> SUFFICES ASSUME TypeOK, [Next]_vars PROVE TypeOK'
  OBVIOUS
<1>0. program' = program /\ max_inflight \in Nat /\ max_inflight <= MaxInflight
  BY StepIs, ProgramIs
<1> USE <1>0
<1>1. ASSUME NEW t \in Threads, NEW e \in Errors, Fail(t, e) PROVE TypeOK'
  <2>1. IdAfter(next_id[t]) \in Handle \ {0}
    BY DEF TypeOK, IdAfter, Handle
  <2>2. /\ next_id' \in [Threads -> Handle \ {0}]
        /\ opened' \in [Threads -> Nat]
    BY <1>1, <2>1 DEF TypeOK, Fail, open
  <2>3. /\ err' \in [Errors -> RichError]
        /\ landing' \in [Landings -> Landing]
    <3>1. [at |-> t, home |-> t, origin |-> opened[t] + 1,
           handle |-> next_id[t]] \in RichError
      BY DEF TypeOK, RichError
    <3>2. QED BY <1>1, <3>1 DEF TypeOK, Fail
  <2>4. /\ records' \in [Threads -> [Slots -> Record]]
        /\ depth' \in [Threads -> 0..MaxInflight]
    <3>1. CASE depth[t] >= max_inflight
      BY <1>1, <3>1 DEF TypeOK, Fail, open
    <3>2. CASE ~(depth[t] >= max_inflight)
      <4>1. Fresh(next_id[t], opened[t] + 1) \in Record
        BY DEF TypeOK, Fresh, Record, Handle
      <4>2. depth[t] + 1 \in Slots
        BY <3>2 DEF TypeOK, Slots
      <4>3. records' = [records EXCEPT ![t] =
              [@ EXCEPT ![depth[t] + 1] = Fresh(next_id[t], opened[t] + 1)]]
        BY <1>1, <3>2 DEF Fail, open
      <4>4. QED BY <1>1, <3>2, <4>1, <4>2, <4>3 DEF TypeOK, Fail, open
    <3>3. QED BY <3>1, <3>2
  <2>5. QED BY <2>2, <2>3, <2>4 DEF TypeOK
<1>2. ASSUME NEW e \in Errors, NEW f \in Errors, Copy(e, f) PROVE TypeOK'
  BY <1>2 DEF TypeOK, Copy
<1>3. ASSUME NEW e \in Errors, NEW t \in Threads, HandOff(e, t) PROVE TypeOK'
  BY <1>3 DEF TypeOK, HandOff, RichError
<1>4. ASSUME NEW e \in Errors, NEW s \in Sites, Propagate(e, s) PROVE TypeOK'
  <2>1. ASSUME NEW r \in Record
        PROVE  Hop(r, s) \in Record
    BY HopType
  <2>2. ASSUME NEW r \in Record
        PROVE  [r EXCEPT !.trail = Append(@, s)] \in Record
    BY TrailType
  <2>3. err[e].at \in Threads
    BY DEF TypeOK, RichError
  <2>4. records' \in [Threads -> [Slots -> Record]]
    BY <1>4, <2>1, <2>2, <2>3 DEF TypeOK, Propagate
  <2>5. QED BY <1>4, <2>4 DEF TypeOK, Propagate
<1>5. ASSUME NEW t \in Threads, NEW l \in Landings, EnterLanding(t, l)
      PROVE  TypeOK'
  BY <1>5 DEF TypeOK, EnterLanding, Landing
<1>6. ASSUME NEW l \in Landings, LeaveLanding(l) PROVE TypeOK'
  BY <1>6 DEF TypeOK, LeaveLanding, Landing, Truncated
<1>7. ASSUME NEW l \in Landings, SkipLanding(l) PROVE TypeOK'
  BY <1>7 DEF TypeOK, SkipLanding, Landing
<1>8. CASE UNCHANGED vars
  BY <1>8 DEF TypeOK, vars
<1>9. QED
  BY <1>1, <1>2, <1>3, <1>4, <1>5, <1>6, <1>7, <1>8, StepIs DEF Steps

\* The types hold initially.
LEMMA InitType == Init => TypeOK
<1> SUFFICES ASSUME Init PROVE TypeOK
  OBVIOUS
<1>1. program.threads \subseteq Threads
  BY StoreAssumption DEF Init, Program
<1>2. QED
  BY <1>1, StoreAssumption DEF Init, TypeOK, Slots, Handle, Record, RichError,
         Landing, NoRecord, Fresh, DefaultError

\* Type correctness of the diagnostic store.
THEOREM TypeCorrect == Spec => []TypeOK
<1>1. Init => TypeOK
  BY InitType
<1>2. QED BY <1>1, TypeStep, PTL DEF Spec

-----------------------------------------------------------------------------
\* A propagation never changes which failures the live records belong to.
LEMMA PropagateKeepsIdentity ==
  ASSUME TypeOK, NEW e \in Errors, NEW s \in Sites, Propagate(e, s),
         NEW t \in Threads, NEW i \in Slots
  PROVE  /\ records'[t][i].id = records[t][i].id
         /\ records'[t][i].origin = records[t][i].origin
<1>1. records[t][i] \in Record
  BY DEF TypeOK
<1>2. ASSUME NEW r \in Record
      PROVE  /\ Hop(r, s).id = r.id
             /\ Hop(r, s).origin = r.origin
             /\ [r EXCEPT !.trail = Append(@, s)].id = r.id
             /\ [r EXCEPT !.trail = Append(@, s)].origin = r.origin
             /\ [Hop(r, s) EXCEPT !.trail = Append(@, s)].id = r.id
             /\ [Hop(r, s) EXCEPT !.trail = Append(@, s)].origin = r.origin
  <2>1. Hop(r, s) \in Record
    BY HopType
  <2>2. Hop(r, s).id = r.id /\ Hop(r, s).origin = r.origin
    BY DEF Hop, Record
  <2>3. ASSUME NEW q \in Record
        PROVE  /\ [q EXCEPT !.trail = Append(@, s)].id = q.id
               /\ [q EXCEPT !.trail = Append(@, s)].origin = q.origin
    BY DEF Record
  <2>4. QED BY <2>1, <2>2, <2>3
<1>3. CASE t = err[e].at
  BY <1>1, <1>2, <1>3 DEF Propagate, TypeOK
<1>4. CASE t # err[e].at
  BY <1>4 DEF Propagate, TypeOK
<1>5. QED BY <1>3, <1>4

\* The counter steps by one until the last handle, after which it is 1 again.
LEMMA IdAfterValue ==
  ASSUME NEW id \in Handle
  PROVE  IdAfter(id) = IF id = IdRange - 1 THEN 1 ELSE id + 1
<1> USE StoreAssumption
<1>1. CASE id = IdRange - 1
  <2>1. (id + 1) % IdRange = 0
    BY <1>1
  <2>2. QED BY <1>1, <2>1 DEF IdAfter
<1>2. CASE id # IdRange - 1
  <2>1. id + 1 \in 1..(IdRange - 1)
    BY <1>2 DEF Handle
  <2>2. (id + 1) % IdRange = id + 1
    BY <2>1
  <2>3. QED BY <1>2, <2>1, <2>2 DEF IdAfter
<1>3. QED BY <1>1, <1>2

\* The inductive invariant holds initially.
LEMMA InvInit == Init => IInv
<1> SUFFICES ASSUME Init PROVE IInv
  OBVIOUS
<1> USE StoreAssumption
<1>1. TypeOK
  BY InitType
<1>2. \A t \in Threads : depth[t] = 0
  BY DEF Init
<1>3. CounterInv /\ StackInv
  BY <1>2 DEF Init, CounterInv, StackInv, Live
<1>4. ErrorInv
  BY <1>1, ProgramIs DEF Init, ErrorInv, DefaultError
<1>5. \A l \in Landings : landing[l].status # "open"
  BY DEF Init
<1>6. MarkInv /\ NestInv
  BY <1>5 DEF MarkInv, LandingKeepsOlder, NestInv
<1>7. QED BY <1>1, <1>3, <1>4, <1>6 DEF IInv

\* Creating a failure preserves the invariant: the new record is on top, newer
\* than every other, and above every mark.
LEMMA FailInv ==
  ASSUME IInv, TypeOK', UNCHANGED <<Scoped, Migrates>>,
         NEW t \in Threads, NEW e \in Errors, Fail(t, e)
  PROVE  IInv'
<1> USE StoreAssumption DEF IInv, Live
<1>0. max_inflight \in Nat /\ max_inflight <= MaxInflight
  BY ProgramIs
<1>1. /\ opened' = [opened EXCEPT ![t] = @ + 1]
      /\ next_id' = [next_id EXCEPT ![t] = IdAfter(@)]
      /\ landing' = landing
      /\ \A u \in Threads : opened[u] \in Nat /\ opened'[u] >= opened[u]
      /\ \A u \in Threads \ {t} : opened'[u] = opened[u]
      /\ opened'[t] = opened[t] + 1
  BY DEF Fail, open, TypeOK
<1>2. CounterInv'
  <2>1. opened[t] + 1 <= IdRange - 2 => IdAfter(next_id[t]) = opened[t] + 2
    <3>1. next_id[t] \in Handle
      BY DEF TypeOK
    <3>2. QED BY <1>1, <3>1, IdAfterValue DEF CounterInv
  <2>2. QED BY <1>1, <2>1 DEF CounterInv, TypeOK
<1>3. ErrorInv'
  <2>1. opened[t] + 1 < IdRange => next_id[t] = opened[t] + 1
    BY <1>1 DEF CounterInv
  <2>2. err' = [err EXCEPT ![e] = [at |-> t, home |-> t,
                  origin |-> opened[t] + 1, handle |-> next_id[t]]]
    BY DEF Fail
  <2>3. \A f \in Errors : err[f].home \in Threads
    BY DEF TypeOK, RichError
  <2>4. ASSUME NEW f \in Errors, f # e
        PROVE  /\ err'[f] = err[f]
               /\ err[f].origin \in 0..opened'[err[f].home]
    <3>1. err[f].home \in Threads /\ err[f].origin \in Nat
      BY DEF TypeOK, RichError
    <3>2. opened'[err[f].home] \in Nat /\ opened'[err[f].home] >= opened[err[f].home]
      BY <1>1, <3>1
    <3>3. QED BY <2>2, <2>4, <3>1, <3>2 DEF ErrorInv, TypeOK
  <2>5. err'[e] = [at |-> t, home |-> t,
                   origin |-> opened[t] + 1, handle |-> next_id[t]]
    BY <2>2 DEF TypeOK
  <2>6. QED BY <1>1, <2>1, <2>4, <2>5 DEF ErrorInv
<1>4. CASE depth[t] >= max_inflight
  <2>1. records' = records /\ depth' = depth
    BY <1>4 DEF Fail, open
  <2>2. StackInv'
    BY <1>1, <2>1 DEF StackInv, TypeOK
  <2>3. MarkInv'
    <3>1. ASSUME NEW l \in Landings, landing[l].status = "open"
          PROVE  landing[l].since <= opened'[landing[l].thread]
      BY <1>1, <3>1 DEF MarkInv, TypeOK, Landing
    <3>2. QED BY <1>1, <2>1, <3>1 DEF MarkInv, LandingKeepsOlder
  <2>4. NestInv'
    BY <1>1, <2>1 DEF NestInv
  <2>5. QED BY <1>2, <1>3, <2>2, <2>3, <2>4
<1>5. CASE ~(depth[t] >= max_inflight)
  <2> DEFINE n == depth[t] + 1
  <2>1. n \in Slots /\ depth[t] \in Nat
    BY <1>0, <1>5 DEF TypeOK, Slots
  <2>2. /\ depth' = [depth EXCEPT ![t] = n]
        /\ records' = [records EXCEPT ![t] =
             [@ EXCEPT ![n] = Fresh(next_id[t], opened[t] + 1)]]
    BY <1>5 DEF Fail, open
  <2>3. /\ depth'[t] = n
        /\ \A u \in Threads \ {t} : depth'[u] = depth[u]
        /\ \A u \in Threads : 1..depth[u] \subseteq Slots
    BY <2>1, <2>2 DEF TypeOK, Slots
  <2>4. /\ records'[t][n].origin = opened[t] + 1
        /\ records'[t][n].id = next_id[t]
        /\ \A i \in 1..depth[t] : records'[t][i] = records[t][i]
        /\ \A u \in Threads \ {t} : records'[u] = records[u]
    BY <2>1, <2>2, <2>3 DEF TypeOK, Fresh, Slots
  <2>5. StackInv'
    <3>1. opened[t] + 1 < IdRange => next_id[t] = opened[t] + 1
      BY <1>1 DEF CounterInv
    <3>2. ASSUME NEW i \in 1..n
          PROVE  /\ records'[t][i].origin \in 1..opened'[t]
                 /\ records'[t][i].origin < IdRange
                      => records'[t][i].id = records'[t][i].origin
                 /\ \A j \in 1..n :
                      i < j => records'[t][i].origin < records'[t][j].origin
      BY <1>1, <2>1, <2>3, <2>4, <3>1 DEF StackInv
    <3>3. QED BY <1>1, <2>3, <2>4, <3>2 DEF StackInv
  <2>6. MarkInv'
    <3>1. ASSUME NEW l \in Landings, landing[l].status = "open"
          PROVE  /\ landing[l].thread \in Threads
                 /\ landing[l].since \in Nat
                 /\ landing[l].since <= opened[landing[l].thread]
                 /\ landing[l].since <= opened'[landing[l].thread]
      BY <1>1, <3>1 DEF MarkInv, TypeOK, Landing
    <3>2. ASSUME NEW l \in Landings, landing[l].status = "open",
                 NEW i \in 1..depth'[landing[l].thread], landing[l].mark < i
          PROVE  records'[landing[l].thread][i].origin > landing[l].since
      <4>1. CASE landing[l].thread = t /\ i = n
        BY <3>1, <3>2, <4>1, <2>4, <1>1
      <4>2. CASE landing[l].thread = t /\ i # n
        <5>1. i \in 1..depth[t]
          BY <2>1, <2>3, <3>2, <4>2
        <5>2. QED BY <3>2, <4>2, <5>1, <2>4 DEF MarkInv, LandingKeepsOlder
      <4>3. CASE landing[l].thread # t
        BY <3>1, <3>2, <4>3, <2>3, <2>4 DEF MarkInv, LandingKeepsOlder
      <4>4. QED BY <4>1, <4>2, <4>3
    <3>3. QED BY <1>1, <3>1, <3>2 DEF MarkInv, LandingKeepsOlder
  <2>7. NestInv'
    <3> SUFFICES ASSUME Scoped, NEW l \in Landings, landing[l].status = "open"
                 PROVE  /\ landing[l].mark <= depth'[landing[l].thread]
                        /\ \A i \in 1..depth'[landing[l].thread] :
                             i <= landing[l].mark
                               => records'[landing[l].thread][i].origin
                                    <= landing[l].since
      BY <1>1 DEF NestInv
    <3>1. /\ landing[l].thread \in Threads
          /\ landing[l].mark \in Nat
          /\ landing[l].mark <= depth[landing[l].thread]
      BY DEF NestInv, TypeOK, Landing
    <3>2. CASE landing[l].thread = t
      <4>1. landing[l].mark <= depth'[t]
        BY <2>1, <2>3, <3>1, <3>2
      <4>2. ASSUME NEW i \in 1..depth'[t], i <= landing[l].mark
            PROVE  records'[t][i].origin <= landing[l].since
        <5>1. i \in 1..depth[t]
          BY <2>1, <3>1, <3>2, <4>2
        <5>2. QED BY <2>4, <3>2, <4>2, <5>1 DEF NestInv
      <4>3. QED BY <3>2, <4>1, <4>2
    <3>3. CASE landing[l].thread # t
      BY <3>1, <3>3, <2>2, <2>3, <2>4 DEF NestInv, TypeOK
    <3>4. QED BY <3>2, <3>3
  <2>8. QED BY <1>2, <1>3, <2>5, <2>6, <2>7
<1>6. QED BY <1>4, <1>5

\* Copying or handing off a rich_error changes no arena.
LEMMA CopyInv ==
  ASSUME IInv, TypeOK', UNCHANGED <<Scoped, Migrates>>,
         NEW e \in Errors, NEW f \in Errors, Copy(e, f)
  PROVE  IInv'
<1> USE DEF IInv, Live
<1>1. /\ UNCHANGED <<records, depth, next_id, opened, landing>>
      /\ err' = [err EXCEPT ![f] = err[e]]
  BY DEF Copy
<1>2. ErrorInv'
  BY <1>1 DEF ErrorInv, TypeOK
<1>3. CounterInv' /\ StackInv' /\ MarkInv' /\ NestInv'
  BY <1>1 DEF CounterInv, StackInv, MarkInv, NestInv, LandingKeepsOlder
<1>4. QED BY <1>2, <1>3

\* Handing a rich_error to another thread changes no arena.
LEMMA HandOffInv ==
  ASSUME IInv, TypeOK', UNCHANGED <<Scoped, Migrates>>,
         NEW e \in Errors, NEW t \in Threads, HandOff(e, t)
  PROVE  IInv'
<1> USE DEF IInv, Live
<1>1. /\ UNCHANGED <<records, depth, next_id, opened, landing>>
      /\ err' = [err EXCEPT ![e].at = t]
      /\ Migrates
  BY DEF HandOff
<1>2. \A g \in Errors : /\ err'[g].home = err[g].home
                         /\ err'[g].origin = err[g].origin
                         /\ err'[g].handle = err[g].handle
  BY <1>1 DEF TypeOK, RichError
<1>3. ErrorInv'
  BY <1>1, <1>2 DEF ErrorInv
<1>4. CounterInv' /\ StackInv' /\ MarkInv' /\ NestInv'
  BY <1>1 DEF CounterInv, StackInv, MarkInv, NestInv, LandingKeepsOlder
<1>5. QED BY <1>3, <1>4

\* A hop changes no identity, so no part of the invariant.
LEMMA PropagateInv ==
  ASSUME IInv, TypeOK', UNCHANGED <<Scoped, Migrates>>,
         NEW e \in Errors, NEW s \in Sites, Propagate(e, s)
  PROVE  IInv'
<1> USE DEF IInv, Live
<1>1. UNCHANGED <<depth, next_id, opened, landing, err>>
  BY DEF Propagate
<1>2. \A t \in Threads : \A i \in 1..depth[t] :
        /\ records'[t][i].id = records[t][i].id
        /\ records'[t][i].origin = records[t][i].origin
  <2>1. \A t \in Threads : 1..depth[t] \subseteq Slots
    BY StoreAssumption DEF TypeOK, Slots
  <2>2. QED BY <2>1, PropagateKeepsIdentity
<1>3. CounterInv' /\ ErrorInv'
  BY <1>1 DEF CounterInv, ErrorInv
<1>4. StackInv'
  BY <1>1, <1>2 DEF StackInv
<1>5. \A l \in Landings : landing[l].thread \in Threads
  BY DEF TypeOK, Landing
<1>6. MarkInv'
  BY <1>1, <1>2, <1>5 DEF MarkInv, LandingKeepsOlder
<1>7. NestInv'
  BY <1>1, <1>2, <1>5 DEF NestInv
<1>8. QED BY <1>3, <1>4, <1>6, <1>7

\* A new landing's mark is the depth: every live record is older than it.
LEMMA EnterInv ==
  ASSUME IInv, TypeOK', UNCHANGED <<Scoped, Migrates>>,
         NEW t \in Threads, NEW l \in Landings,
         EnterLanding(t, l)
  PROVE  IInv'
<1> USE DEF IInv, Live
<1>1. /\ UNCHANGED <<records, depth, next_id, opened, err>>
      /\ landing' = [landing EXCEPT ![l] = [status |-> "open", thread |-> t,
                       mark |-> depth[t], since |-> opened[t]]]
  BY DEF EnterLanding
<1>2. /\ landing'[l].thread = t
      /\ landing'[l].mark = depth[t]
      /\ landing'[l].since = opened[t]
      /\ landing'[l].status = "open"
      /\ \A k \in Landings \ {l} : landing'[k] = landing[k]
  BY <1>1 DEF TypeOK
<1>3. CounterInv' /\ ErrorInv' /\ StackInv'
  BY <1>1 DEF CounterInv, ErrorInv, StackInv
<1>4. depth[t] \in Nat /\ opened[t] \in Nat
  BY StoreAssumption DEF TypeOK
<1>5. MarkInv'
  BY <1>1, <1>2, <1>4 DEF MarkInv, LandingKeepsOlder
<1>6. NestInv'
  <2> SUFFICES ASSUME Scoped PROVE NestInv'
    BY DEF NestInv
  <2>1. ASSUME NEW k \in Landings \ {l}, landing[k].status = "open",
               landing[k].thread = t
        PROVE  /\ landing[k].mark <= depth[t]
               /\ landing[k].since >= opened[t] => landing[k].mark = depth[t]
    <3>1. /\ landing[k].mark \in Nat /\ landing[k].since \in Nat
          /\ landing[k].mark <= depth[t]
      BY <2>1 DEF NestInv, TypeOK, Landing
    <3>2. CASE landing[k].mark < depth[t]
      <4>1. depth[t] \in 1..depth[t]
        BY <1>4, <3>1, <3>2
      <4>2. /\ records[t][depth[t]].origin > landing[k].since
            /\ records[t][depth[t]].origin \in 1..opened[t]
        BY <2>1, <3>2, <4>1 DEF MarkInv, LandingKeepsOlder, StackInv
      <4>3. QED BY <1>4, <3>1, <3>2, <4>2
    <3>3. QED BY <1>4, <3>1, <3>2
  <2>2. \A i \in 1..depth[t] : records[t][i].origin <= opened[t]
    BY DEF StackInv
  <2>3. ASSUME NEW k \in Landings, landing'[k].status = "open"
        PROVE  /\ landing'[k].mark <= depth[landing'[k].thread]
               /\ \A i \in 1..depth[landing'[k].thread] :
                    i <= landing'[k].mark =>
                      records[landing'[k].thread][i].origin <= landing'[k].since
    BY <1>2, <1>4, <2>2, <2>3 DEF NestInv
  <2>4. ASSUME NEW k \in Landings, landing'[k].status = "open",
               NEW j \in Landings, landing'[j].status = "open",
               landing'[j].thread = landing'[k].thread,
               landing'[j].since <= landing'[k].since
        PROVE  landing'[j].mark <= landing'[k].mark
    <3>1. CASE k = l /\ j = l
      BY <1>2, <1>4, <3>1
    <3>2. CASE k = l /\ j # l
      BY <1>2, <2>1, <2>4, <3>2
    <3>3. CASE k # l /\ j = l
      <4>1. landing[k].since >= opened[t]
        BY <1>2, <1>4, <2>4, <3>3 DEF TypeOK, Landing
      <4>2. QED BY <1>2, <1>4, <2>1, <2>4, <3>3, <4>1
    <3>4. CASE k # l /\ j # l
      BY <1>2, <2>4, <3>4 DEF NestInv
    <3>5. QED BY <3>1, <3>2, <3>3, <3>4
  <2>5. QED BY <1>1, <2>3, <2>4 DEF NestInv
<1>7. QED BY <1>3, <1>5, <1>6

\* Ending a landing only shrinks the arena, and while landings nest not below
\* the mark of another open one.
LEMMA LeaveInv ==
  ASSUME IInv, TypeOK', UNCHANGED <<Scoped, Migrates>>,
         NEW l \in Landings, LeaveLanding(l)
  PROVE  IInv'
<1> USE DEF IInv, Live
<1> DEFINE t == landing[l].thread
<1>1. /\ UNCHANGED <<records, next_id, opened, err>>
      /\ landing' = [landing EXCEPT ![l].status = "none"]
      /\ depth' = [depth EXCEPT ![t] = Truncated(@, landing[l].mark)]
  BY DEF LeaveLanding
<1>2. t \in Threads /\ landing[l].mark \in Nat /\ depth[t] \in Nat
  BY StoreAssumption DEF TypeOK, Landing
<1>3. /\ \A u \in Threads : depth'[u] <= depth[u] /\ depth[u] \in Nat
                              /\ depth'[u] \in Nat
      /\ \A u \in Threads \ {t} : depth'[u] = depth[u]
      /\ depth'[t] = IF landing[l].mark < depth[t]
                     THEN landing[l].mark ELSE depth[t]
  BY <1>1, <1>2, StoreAssumption DEF TypeOK, Truncated
<1>4. \A k \in Landings :
        /\ landing'[k].thread = landing[k].thread
        /\ landing'[k].mark = landing[k].mark
        /\ landing'[k].since = landing[k].since
        /\ landing'[k].status = "open" => landing[k].status = "open"
        /\ landing[k].thread \in Threads
        /\ landing[k].mark \in Nat
  BY <1>1 DEF TypeOK, Landing
<1>5. \A u \in Threads : 1..depth'[u] \subseteq 1..depth[u]
  BY <1>3
<1>6. CounterInv' /\ ErrorInv'
  BY <1>1 DEF CounterInv, ErrorInv
<1>7. StackInv'
  BY <1>1, <1>5 DEF StackInv
<1>8. MarkInv'
  BY <1>1, <1>4, <1>5 DEF MarkInv, LandingKeepsOlder
<1>9. NestInv'
  <2> SUFFICES ASSUME Scoped, NEW k \in Landings, landing'[k].status = "open"
               PROVE  landing[k].mark <= depth'[landing[k].thread]
    BY <1>1, <1>4, <1>5 DEF NestInv
  <2>1. landing[k].mark <= depth[landing[k].thread]
    BY <1>4 DEF NestInv
  <2>2. CASE landing[k].thread = t
    <3>1. landing[l].status = "open" /\ landing[k].status = "open"
          /\ landing[k].since <= landing[l].since
      BY <1>4, <2>2 DEF LeaveLanding, MayEnd
    <3>2. landing[k].mark <= landing[l].mark
      BY <2>2, <3>1 DEF NestInv
    <3>3. QED BY <1>2, <1>3, <1>4, <2>1, <2>2, <3>2
  <2>3. CASE landing[k].thread # t
    BY <1>3, <1>4, <2>1, <2>3
  <2>4. QED BY <2>2, <2>3
<1>10. QED BY <1>6, <1>7, <1>8, <1>9

\* A skipped landing leaves every arena alone.
LEMMA SkipInv ==
  ASSUME IInv, TypeOK', UNCHANGED <<Scoped, Migrates>>,
         NEW l \in Landings, SkipLanding(l)
  PROVE  IInv'
<1> USE DEF IInv, Live
<1>1. /\ UNCHANGED <<records, depth, next_id, opened, err>>
      /\ landing' = [landing EXCEPT ![l].status = "skipped"]
  BY DEF SkipLanding
<1>2. \A k \in Landings :
        /\ landing'[k].thread = landing[k].thread
        /\ landing'[k].mark = landing[k].mark
        /\ landing'[k].since = landing[k].since
        /\ landing'[k].status = "open" => landing[k].status = "open"
  BY <1>1 DEF TypeOK, Landing
<1>3. CounterInv' /\ ErrorInv' /\ StackInv'
  BY <1>1 DEF CounterInv, ErrorInv, StackInv
<1>4. MarkInv' /\ NestInv'
  BY <1>1, <1>2 DEF MarkInv, LandingKeepsOlder, NestInv
<1>5. QED BY <1>3, <1>4

\* Every step preserves the inductive invariant.
LEMMA InvStep == IInv /\ [Next]_vars => IInv'
<1> SUFFICES ASSUME IInv, [Next]_vars PROVE IInv'
  OBVIOUS
<1>1. TypeOK' /\ UNCHANGED <<Scoped, Migrates>>
  BY TypeStep, StepIs DEF IInv
<1>2. CASE UNCHANGED vars
  BY <1>1, <1>2 DEF vars, IInv, TypeOK, CounterInv, StackInv, ErrorInv, MarkInv,
              NestInv, LandingKeepsOlder, Live
<1>3. QED
  BY <1>1, <1>2, FailInv, CopyInv, HandOffInv, PropagateInv, EnterInv,
     LeaveInv, SkipInv, StepIs DEF IInv, Steps

\* The inductive invariant holds in every reachable state.
THEOREM Invariance == Spec => []IInv
BY InvInit, InvStep, PTL DEF Spec

-----------------------------------------------------------------------------
(* What the invariant gives.                                                *)

\* Until the counter wraps, a handle read at home finds exactly its record.
LEMMA FindExact ==
  ASSUME IInv, NEW e \in Errors, Unwrapped(err[e].home)
  PROVE  find(err[e].home, err[e].handle) = Own(e)
<1> DEFINE t == err[e].home
<1> USE DEF IInv, Live
<1>1. /\ t \in Threads /\ err[e].origin \in Nat /\ opened[t] \in Nat
      /\ opened[t] < IdRange /\ IdRange \in Nat
  BY StoreAssumption DEF TypeOK, RichError, Unwrapped
<1>2. err[e].handle = err[e].origin
  BY <1>1 DEF ErrorInv
<1>3. \A i \in 1..depth[t] : /\ records[t][i].origin \in 1..opened[t]
                              /\ records[t][i].id = records[t][i].origin
  BY <1>1 DEF StackInv
<1>4. \A i, j \in 1..depth[t] :
        records[t][i].origin = records[t][j].origin => i = j
  <2>1. depth[t] \in Nat
    BY <1>1, StoreAssumption DEF TypeOK
  <2>2. QED BY <1>1, <1>3, <2>1 DEF StackInv
<1>5. CASE err[e].handle = 0
  BY <1>2, <1>3, <1>5 DEF find, Own
<1>6. CASE err[e].handle # 0
  <2>1. \A i, j \in 1..depth[t] :
          records[t][i].id = err[e].handle /\ records[t][j].id = err[e].handle
            => j <= i
    BY <1>1, <1>2, <1>3, <1>4, StoreAssumption DEF TypeOK
  <2>2. QED BY <1>2, <1>3, <1>6, <2>1 DEF find, Own
<1>7. QED BY <1>5, <1>6

\* ContextExact for every instance: a rich_error inspected on its own thread
\* resolves to its own record or to nothing until 2^32 failures were created
\* there (store::find, diagnostic::inspect).
THEOREM ContextIsExact == Spec => []ContextExact
<1>1. IInv => ContextExact
  BY FindExact DEF ContextExact
<1>2. QED BY <1>1, Invariance, PTL

\* LandingKeepsOlder for every instance: whatever order landings end in, none
\* releases a context older than itself (store::truncate, landing::~landing).
THEOREM LandingsKeepOlder == Spec => []LandingKeepsOlder
<1>1. IInv => LandingKeepsOlder
  BY DEF IInv, MarkInv
<1>2. QED BY <1>1, Invariance, PTL

\* LandingOwnsExactly for every instance: in a program whose landings nest, ending
\* a landing releases exactly the failures created under it.
THEOREM LandingsOwnExactly == Spec => []LandingOwnsExactly
<1>1. IInv => LandingOwnsExactly
  <2> SUFFICES ASSUME IInv, Scoped, NEW l \in Landings, landing[l].status = "open",
                      NEW i \in Live(landing[l].thread)
               PROVE  (landing[l].mark < i) <=>
                      (records[landing[l].thread][i].origin > landing[l].since)
    BY DEF LandingOwnsExactly
  <2> DEFINE t == landing[l].thread
  <2>1. t \in Threads /\ landing[l].since \in Nat /\ landing[l].mark \in Nat
    BY DEF IInv, TypeOK, Landing
  <2>2. i \in Int /\ records[t][i].origin \in Int
    BY <2>1 DEF IInv, StackInv, Live
  <2>3. landing[l].mark < i => records[t][i].origin > landing[l].since
    BY DEF IInv, MarkInv, LandingKeepsOlder
  <2>4. i <= landing[l].mark => records[t][i].origin <= landing[l].since
    BY DEF IInv, NestInv
  <2>5. QED BY <2>1, <2>2, <2>3, <2>4
<1>2. QED BY <1>1, Invariance, PTL

\* NoResurrection for every instance: a released or dropped context never comes
\* back, even under stale or out-of-order marks (store::truncate).
THEOREM NothingComesBack == Spec => NoResurrection
<1> DEFINE A == \A t \in Threads :
       \A o \in LiveOrigins(t)' : o \in LiveOrigins(t) \/ o > opened[t]
<1>1. IInv /\ [Next]_vars => [A]_vars
  <2> SUFFICES ASSUME IInv, [Next]_vars, NEW t \in Threads,
                      NEW i \in 1..depth'[t]
               PROVE  \/ records'[t][i].origin > opened[t]
                      \/ \E j \in 1..depth[t] :
                           records'[t][i].origin = records[t][j].origin
    BY DEF LiveOrigins, Live
  <2> USE StoreAssumption
  <2>1. /\ opened[t] \in Nat /\ depth[t] \in 0..MaxInflight
        /\ max_inflight \in Nat /\ max_inflight <= MaxInflight
    BY ProgramIs DEF IInv, TypeOK
  <2>2. ASSUME NEW u \in Threads, NEW e \in Errors, Fail(u, e)
        PROVE  \/ records'[t][i].origin > opened[t]
               \/ records'[t][i].origin = records[t][i].origin
                  /\ i \in 1..depth[t]
    <3>1. CASE u = t /\ depth[t] < max_inflight /\ i = depth[t] + 1
      <4>1. records' = [records EXCEPT ![t] =
              [@ EXCEPT ![i] = Fresh(next_id[t], opened[t] + 1)]]
        BY <2>1, <2>2, <3>1 DEF Fail, open
      <4>2. i \in Slots
        BY <2>1, <3>1 DEF Slots
      <4>3. records'[t][i].origin = opened[t] + 1
        BY <4>1, <4>2 DEF IInv, TypeOK, Fresh
      <4>4. QED BY <2>1, <4>3
    <3>2. CASE ~(u = t /\ depth[t] < max_inflight /\ i = depth[t] + 1)
      <4>1. CASE u = t /\ depth[t] < max_inflight
        <5>1. /\ depth' = [depth EXCEPT ![t] = depth[t] + 1]
              /\ records' = [records EXCEPT ![t] = [@ EXCEPT
                   ![depth[t] + 1] = Fresh(next_id[t], opened[t] + 1)]]
          BY <2>1, <2>2, <4>1 DEF Fail, open
        <5>2. depth'[t] = depth[t] + 1
          BY <5>1 DEF IInv, TypeOK
        <5>3. i \in 1..depth[t] /\ i # depth[t] + 1
          BY <2>1, <3>2, <4>1, <5>2
        <5>4. i \in Slots
          BY <2>1, <5>3 DEF Slots
        <5>5. records'[t][i] = records[t][i]
          BY <5>1, <5>3, <5>4 DEF IInv, TypeOK
        <5>6. QED BY <5>3, <5>5
      <4>2. CASE u # t
        BY <2>1, <2>2, <4>2 DEF IInv, TypeOK, Fail, open
      <4>3. CASE depth[u] >= max_inflight
        BY <2>2, <4>3 DEF Fail, open
      <4>4. QED BY <2>1, <4>1, <4>2, <4>3
    <3>3. QED BY <3>1, <3>2
  <2>3. ASSUME NEW e \in Errors, NEW s \in Sites, Propagate(e, s)
        PROVE  records'[t][i].origin = records[t][i].origin
               /\ i \in 1..depth[t]
    <3>1. i \in 1..depth[t] /\ i \in Slots
      BY <2>1, <2>3 DEF Propagate, Slots
    <3>2. QED BY <2>3, <3>1, PropagateKeepsIdentity DEF IInv
  <2>4. ASSUME NEW l \in Landings, LeaveLanding(l)
        PROVE  records' = records /\ i \in 1..depth[t]
    <3>1. depth'[t] <= depth[t] /\ depth'[t] \in Int
      BY <2>1, <2>4 DEF IInv, TypeOK, LeaveLanding, Truncated, Landing
    <3>2. QED BY <2>1, <2>4, <3>1 DEF LeaveLanding
  <2>5. CASE UNCHANGED <<records, depth>>
    BY <2>5
  <2>6. Steps \/ UNCHANGED vars
    BY StepIs DEF IInv
  <2>7. QED
    BY <2>2, <2>3, <2>4, <2>5, <2>6
       DEF Steps, Copy, HandOff, EnterLanding, SkipLanding, vars
<1>2. QED BY <1>1, Invariance, PTL DEF Spec, NoResurrection

-----------------------------------------------------------------------------
\* A fresh record has an empty, untruncated chain.
LEMMA FreshChain ==
  ASSUME NEW id, NEW origin
  PROVE  ChainOf(Fresh(id, origin))
<1> DEFINE f == Fresh(id, origin)
<1>1. f.hops = <<>> /\ f.trail = <<>> /\ f.truncated = FALSE
  BY DEF Fresh
<1> HIDE DEF f
<1>2. Len(f.hops) = 0 /\ Len(f.trail) = 0
  BY <1>1
<1>3. ChainOf(f)
  BY <1>1, <1>2, StoreAssumption DEF ChainOf
<1>4. QED BY <1>3 DEF f

\* One hop and one entry of the history keep a chain faithful.
LEMMA HopChain ==
  ASSUME NEW r \in Record, NEW s \in Sites, ChainOf(r)
  PROVE  ChainOf([Hop(r, s) EXCEPT !.trail = Append(@, s)])
<1> DEFINE h == Hop(r, s)
           q == [h EXCEPT !.trail = Append(@, s)]
<1>1. r.hops \in Seq(Sites) /\ r.trail \in Seq(Sites)
  BY DEF Record
<1>2. h \in Record /\ h.trail = r.trail
  BY HopType DEF Hop, Record
<1>3. q.trail = Append(r.trail, s) /\ q.hops = h.hops
      /\ q.truncated = h.truncated
  BY <1>2 DEF Record
<1>4. /\ Len(q.trail) = Len(r.trail) + 1
      /\ \A k \in 1..Len(r.trail) : q.trail[k] = r.trail[k]
      /\ q.trail[Len(r.trail) + 1] = s
  BY <1>1, <1>3
<1>5. Len(r.hops) \in Nat /\ Len(r.trail) \in Nat
  BY <1>1
<1> SUFFICES ChainOf(q)
  OBVIOUS
<1> HIDE DEF q
<1>6. CASE Len(r.hops) >= MaxChain
  <2>1. h = [r EXCEPT !.truncated = TRUE]
    BY <1>6 DEF Hop
  <2>2. q.hops = r.hops /\ q.truncated = TRUE
    BY <1>3, <2>1 DEF Record
  <2>3. Len(r.hops) = MaxChain /\ Len(r.trail) >= MaxChain
    BY <1>5, <1>6, StoreAssumption DEF ChainOf
  <2>4. ASSUME NEW k \in 1..Len(q.hops)
        PROVE  q.hops[k] = q.trail[k]
    <3>1. k \in 1..Len(r.hops) /\ k \in 1..Len(r.trail)
      BY <1>5, <2>2, <2>3, StoreAssumption
    <3>2. QED BY <1>4, <2>2, <3>1 DEF ChainOf
  <2>5. Len(q.trail) > MaxChain /\ Len(q.hops) = MaxChain
    BY <1>4, <1>5, <2>2, <2>3, StoreAssumption
  <2>6. QED
    BY <1>4, <1>5, <2>2, <2>4, <2>5, StoreAssumption DEF ChainOf
<1>7. CASE Len(r.hops) < MaxChain
  <2>1. h = [r EXCEPT !.hops = Append(@, s)]
    BY <1>5, <1>7, StoreAssumption DEF Hop
  <2>2. q.hops = Append(r.hops, s) /\ q.truncated = r.truncated
    BY <1>3, <2>1 DEF Record
  <2>3. Len(r.hops) = Len(r.trail) /\ r.truncated = FALSE
    BY <1>5, <1>7, StoreAssumption DEF ChainOf, Record
  <2>4. /\ Len(q.hops) = Len(r.hops) + 1
        /\ \A k \in 1..Len(r.hops) : q.hops[k] = r.hops[k]
        /\ q.hops[Len(r.hops) + 1] = s
    BY <1>1, <2>2
  <2>5. ASSUME NEW k \in 1..Len(q.hops)
        PROVE  q.hops[k] = q.trail[k]
    <3>1. CASE k \in 1..Len(r.hops)
      <4>1. r.hops[k] = r.trail[k]
        BY <3>1 DEF ChainOf
      <4>2. q.hops[k] = r.hops[k] /\ q.trail[k] = r.trail[k]
        BY <1>4, <2>3, <2>4, <3>1
      <4>3. QED BY <4>1, <4>2
    <3>2. CASE k = Len(r.hops) + 1
      BY <1>4, <2>3, <2>4, <3>2
    <3>3. QED BY <1>5, <2>4, <3>1, <3>2
  <2>6. QED
    BY <1>4, <1>5, <1>7, <2>2, <2>3, <2>4, <2>5, StoreAssumption DEF ChainOf
<1>8. QED BY <1>5, <1>6, <1>7, StoreAssumption

\* While rich_errors stay on their thread, every step keeps the chains faithful.
LEMMA ChainStep ==
  ASSUME IInv, ChainFaithful, [Next]_vars
  PROVE  ChainFaithful'
<1> USE DEF Live
<1>0. (Steps \/ UNCHANGED vars) /\ UNCHANGED <<Scoped, Migrates>>
  BY StepIs DEF IInv
<1> SUFFICES ASSUME ~Migrates, NEW t \in Threads, Unwrapped(t)', NEW i \in 1..depth'[t]
             PROVE  ChainOf(records'[t][i])
  BY <1>0 DEF ChainFaithful, ChainOf
<1>1. opened[t] \in Nat /\ depth[t] \in 0..MaxInflight /\ IdRange \in Nat
      /\ MaxInflight \in Nat /\ max_inflight \in Nat /\ max_inflight <= MaxInflight
  BY StoreAssumption, ProgramIs DEF IInv, TypeOK
<1>2. ASSUME Unwrapped(t), NEW j \in 1..depth[t]
      PROVE  ChainOf(records[t][j])
  BY <1>2 DEF ChainFaithful
<1>3. ASSUME NEW u \in Threads, NEW e \in Errors, Fail(u, e)
      PROVE  ChainOf(records'[t][i])
  <2>1. Unwrapped(t)
    BY <1>1, <1>3 DEF Unwrapped, Fail, open, IInv, TypeOK
  <2>2. CASE u = t /\ depth[t] < max_inflight
    <3>1. /\ depth' = [depth EXCEPT ![t] = depth[t] + 1]
          /\ records' = [records EXCEPT ![t] = [@ EXCEPT
               ![depth[t] + 1] = Fresh(next_id[t], opened[t] + 1)]]
      BY <1>1, <1>3, <2>2 DEF Fail, open
    <3>2. depth'[t] = depth[t] + 1 /\ i \in Slots
      BY <1>1, <2>2, <3>1 DEF IInv, TypeOK, Slots
    <3>3. CASE i = depth[t] + 1
      <4>1. records'[t][i] = Fresh(next_id[t], opened[t] + 1)
        BY <3>1, <3>2, <3>3 DEF IInv, TypeOK
      <4>2. QED BY <4>1, FreshChain
    <3>4. CASE i # depth[t] + 1
      <4>1. i \in 1..depth[t]
        BY <1>1, <3>2, <3>4
      <4>2. records'[t][i] = records[t][i]
        BY <3>1, <3>2, <3>4 DEF IInv, TypeOK
      <4>3. QED BY <1>2, <2>1, <4>1, <4>2
    <3>5. QED BY <3>3, <3>4
  <2>3. CASE u # t
    <3>1. records'[t] = records[t] /\ depth'[t] = depth[t]
      BY <1>3, <2>3 DEF IInv, TypeOK, Fail, open
    <3>2. QED BY <1>2, <2>1, <3>1
  <2>4. CASE depth[u] >= max_inflight
    <3>1. records' = records /\ depth' = depth
      BY <1>3, <2>4 DEF Fail, open
    <3>2. QED BY <1>2, <2>1, <3>1
  <2>5. QED BY <1>1, <2>2, <2>3, <2>4
<1>4. ASSUME NEW e \in Errors, NEW s \in Sites, Propagate(e, s)
      PROVE  ChainOf(records'[t][i])
  <2>1. /\ Unwrapped(t) /\ i \in 1..depth[t] /\ i \in Slots
        /\ depth'[t] = depth[t]
    BY <1>1, <1>4 DEF Propagate, Unwrapped, Slots
  <2>2. err[e].at = err[e].home /\ err[e].home \in Threads
    BY DEF IInv, ErrorInv, TypeOK, RichError
  <2>3. CASE err[e].at = t
    <3>1. find(t, err[e].handle) = Own(e)
      BY <2>1, <2>2, <2>3, FindExact
    <3>2. records'[t][i] = IF i \in Own(e)
             THEN [Hop(records[t][i], s) EXCEPT !.trail = Append(@, s)]
             ELSE records[t][i]
      BY <1>4, <2>1, <2>2, <2>3, <3>1 DEF Propagate, IInv, TypeOK
    <3>3. records[t][i] \in Record
      BY <2>1 DEF IInv, TypeOK
    <3>4. QED BY <1>2, <2>1, <3>2, <3>3, HopChain
  <2>4. CASE err[e].at # t
    <3>1. records'[t][i] = records[t][i]
      BY <1>4, <2>1, <2>4 DEF Propagate, IInv, TypeOK
    <3>2. QED BY <1>2, <2>1, <3>1
  <2>5. QED BY <2>3, <2>4
<1>5. ASSUME NEW l \in Landings, LeaveLanding(l)
      PROVE  ChainOf(records'[t][i])
  <2>1. depth'[t] <= depth[t] /\ depth'[t] \in Int
    BY <1>1, <1>5, StoreAssumption
       DEF IInv, TypeOK, LeaveLanding, Truncated, Landing
  <2>2. Unwrapped(t) /\ records' = records /\ i \in 1..depth[t]
    BY <1>1, <1>5, <2>1 DEF LeaveLanding, Unwrapped
  <2>3. QED BY <1>2, <2>2
<1>6. CASE UNCHANGED <<records, depth, opened>>
  BY <1>2, <1>6 DEF Unwrapped
<1>7. QED
  BY <1>0, <1>3, <1>4, <1>5, <1>6
     DEF Steps, Copy, HandOff, EnterLanding, SkipLanding, vars

\* ChainFaithful for every instance: in a program whose rich_errors stay on the
\* thread that created them, every chain is its failure's own (store::add_hop,
\* note_propagation).
THEOREM ChainsAreFaithful == Spec => []ChainFaithful
<1>1. Init => ChainFaithful
  BY DEF Init, ChainFaithful, Live
<1>2. IInv /\ ChainFaithful /\ [Next]_vars => ChainFaithful'
  BY ChainStep
<1>3. QED BY <1>1, <1>2, Invariance, PTL DEF Spec
=============================================================================
