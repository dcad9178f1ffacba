------------------------------ MODULE Transport ------------------------------
(***************************************************************************)
(* result<T, E> (include/jmpxx/core/transport.hpp) and the propagation     *)
(* macros (include/jmpxx/core/propagation.hpp): a union of a value and an  *)
(* error with the discriminant has_, whose copies, moves, assignments and  *)
(* combinators run constructors, assignments, destructors and callbacks of *)
(* the program, any of which may throw.                                    *)
(*                                                                         *)
(* Cross-state assignment is modelled statement by statement, since it is  *)
(* the one operation during which the union is empty.  Data are numbered   *)
(* as the program makes them, so that a datum can be followed from result  *)
(* to result.  A value may own further results (a tree of results), which  *)
(* are destroyed with it and may be the source of an assignment to the     *)
(* result that holds them.                                                 *)
(***************************************************************************)
EXTENDS Integers, FiniteSets

CONSTANTS
  Results,       \* storage for result objects
  Nested,        \* the storage that lies inside values of other results
  Types,         \* the kinds of V and E results are instantiated with
  MaxData,       \* bound of the model: data the program makes
  MaxOps         \* bound of the model: operations the program performs

\* Traits of V and E: how the program passes results of this type, the alternatives
\* ("V", "E") whose copy constructor, move constructor and assignment operators may
\* throw, and JMPXX_HARDENING_FAST_ENABLED.
TypeTraits ==
  [hows : SUBSET {"copy", "move"}, copy : SUBSET {"V", "E"},
   move : SUBSET {"V", "E"}, assign : SUBSET {"V", "E"}, hardened : BOOLEAN]

ASSUME TransportAssumption ==
  /\ Nested \subseteq Results
  /\ Types \subseteq TypeTraits
  /\ MaxData \in Nat /\ MaxOps \in Nat

VARIABLES
  type,   \* the kind of V and E of this program's results
  res,    \* res[r]: the result stored at r
  job,    \* the cross-state assignment under way: its target, its local variable
          \* and the element it is to deliver
  made,   \* the data made so far are 1..made
  used,   \* the data the program has taken out, overwritten or destroyed, and
          \* errors that died in a failure whose move constructor threw
  fault,  \* TRUE: a union member was used while it was not the live one
  dead,   \* TRUE: platform::fail_fast ended the process
  ops     \* operations the program may still perform

vars == <<type, res, job, made, used, fault, dead, ops>>

\* One member of a union: which alternative, its datum (0 once moved from) and
\* the results a value owns.
Elem == [alt : {"V", "E", "gone"}, datum : Nat, kids : SUBSET Nested]
Gone == [alt |-> "gone", datum |-> 0, kids |-> {}]

Result == [alive : BOOLEAN, has : BOOLEAN, elem : Elem]
NoResult == [alive |-> FALSE, has |-> FALSE, elem |-> Gone]

Job == [step : {"idle", "built", "empty", "placed"}, dst : Results,
        incoming : Elem, want : Elem]
\* No assignment under way.
Done(j) == [j EXCEPT !.step = "idle", !.incoming = Gone, !.want = Gone]

TypeOK ==
  /\ type \in Types
  /\ res \in [Results -> Result]
  /\ job \in Job
  /\ made \in Nat
  /\ used \in SUBSET Nat
  /\ fault \in BOOLEAN
  /\ dead \in BOOLEAN
  /\ ops \in Nat

-----------------------------------------------------------------------------
(* Elements.                                                                *)

Alt(has) == IF has THEN "V" ELSE "E"

\* The union member a of the result at r is the live one.
Holds(r, a) == res[r].alive /\ res[r].elem.alt = a

\* Uses of union members: each pair <<r, a>> must be a live member.
Uses(pairs) == fault' = (fault \/ \E p \in pairs : ~Holds(p[1], p[2]))

\* What a copy or a move of an element makes, and what it leaves behind.
Taken(e, how) == IF how = "move" THEN e ELSE [e EXCEPT !.kids = {}]
Left(e, how) ==
  IF how = "move" THEN [e EXCEPT !.datum = 0, !.kids = {}] ELSE e

Throws(how) == IF how = "copy" THEN type.copy ELSE type.move

\* The results R after the ones in kids were destroyed with their owner.
Without(R, kids) ==
  [r \in Results |-> IF r \in kids THEN NoResult ELSE R[r]]

\* The data that go with an element when it is destroyed.
DataOf(R, e) == ({e.datum} \cup {R[k].elem.datum : k \in e.kids}) \ {0}

\* can_copy_assign, can_move_assign: assignment exists only if neither move
\* constructor can throw.
can_assign_unconstrained == TRUE
can_assign == type.move = {}

-----------------------------------------------------------------------------
Init ==
  /\ type \in Types
  /\ res = [r \in Results |-> NoResult]
  /\ job \in {Done([step |-> "idle", dst |-> r, incoming |-> Gone,
                    want |-> Gone]) : r \in Results}
  /\ made = 0
  /\ used = {}
  /\ fault = FALSE
  /\ dead = FALSE
  /\ ops = MaxOps

\* The program's next statement.
Perform ==
  /\ ~dead
  /\ job.step = "idle"
  /\ ops > 0
  /\ ops' = ops - 1
  /\ UNCHANGED type

\* A result holding a new datum.
New(has) ==
  [alive |-> TRUE, has |-> has,
   elem |-> [alt |-> Alt(has), datum |-> made + 1, kids |-> {}]]

\* result(U&&), result(in_place, ...), result(failure).
Construct(r, has) ==
  /\ Perform
  /\ r \notin Nested
  /\ ~res[r].alive
  /\ made < MaxData
  /\ res' = [res EXCEPT ![r] = New(has)]
  /\ made' = made + 1
  /\ UNCHANGED <<job, used, fault, dead>>

\* The same, inside the value the result at h holds.
ConstructInside(n, h, has) ==
  /\ Perform
  /\ n \in Nested /\ h \notin Nested
  /\ ~res[n].alive
  /\ Holds(h, "V")
  /\ made < MaxData
  /\ res' = [res EXCEPT ![n] = New(has),
                        ![h].elem.kids = @ \cup {n}]
  /\ made' = made + 1
  /\ UNCHANGED <<job, used, fault, dead>>

\* The copy and move constructors: has_ is copied first and selects the member.
\* A throw leaves the storage without a result.
ConstructFrom(r, s, how) ==
  LET a == Alt(res[s].has)
      e == res[s].elem
  IN  /\ Perform
      /\ r \notin Nested
      /\ ~res[r].alive /\ res[s].alive
      /\ Uses({<<s, a>>})
      /\ \/ res' = [res EXCEPT
              ![r] = [alive |-> TRUE, has |-> res[s].has,
                      elem |-> Taken(e, how)],
              ![s].elem = Left(e, how)]
         \/ a \in Throws(how) /\ UNCHANGED res
      /\ UNCHANGED <<job, made, used, dead>>

\* ~result, destroy(): the member has_ selects, and what it owns.
Destroy(r) ==
  /\ Perform
  /\ r \notin Nested
  /\ res[r].alive
  /\ Uses({<<r, Alt(res[r].has)>>})
  /\ used' = used \cup DataOf(res, res[r].elem)
  /\ res' = Without([res EXCEPT ![r] = NoResult], res[r].elem.kids)
  /\ UNCHANGED <<job, made, dead>>

-----------------------------------------------------------------------------
(* operator=, assign_from.                                                  *)

\* An element operation that gives only the basic guarantee leaves any of the
\* elements at rs without their datum, but alive.
Damage(rs) ==
  \E hurt \in SUBSET rs :
    LET gone == UNION {res[r].elem.kids : r \in hurt}
    IN  /\ res' = Without([r \in Results |->
             IF r \in hurt THEN [res[r] EXCEPT !.elem = Left(@, "move")]
                           ELSE res[r]], gone)
        /\ used' = used \cup UNION {DataOf(res, res[r].elem) : r \in hurt}

\* Nested results are only sources here.  Assigning a bare value or failure is
\* construction of a temporary, its move assignment and its destruction.

\* Both hold the same alternative: the element's own assignment operator.
AssignSame(r, s, how) ==
  LET a == Alt(res[r].has)
      old == res[r].elem
      next == [res EXCEPT ![s].elem = Left(@, how),
                          ![r].elem = Taken(res[s].elem, how)]
  IN  /\ Perform
      /\ can_assign
      /\ r \notin Nested /\ r # s
      /\ res[r].alive /\ res[s].alive
      /\ res[r].has = res[s].has
      /\ Uses({<<r, a>>, <<s, a>>})
      /\ \/ /\ res' = Without(next, old.kids)
            /\ used' = used \cup DataOf(next, old)
         \/ a \in type.assign /\ Damage({r} \cup (IF how = "move" THEN {s} ELSE {}))
      /\ UNCHANGED <<job, made, dead>>

\* x = x takes the same branch; moving an element to itself may damage it.
AssignSelf(r, how) ==
  /\ Perform
  /\ can_assign
  /\ r \notin Nested
  /\ res[r].alive
  /\ Uses({<<r, Alt(res[r].has)>>})
  /\ IF how = "move" THEN Damage({r}) ELSE UNCHANGED <<res, used>>
  /\ UNCHANGED <<job, made, dead>>

\* (Mutant) The outgoing element is destroyed before the incoming one is built.
DestroyThenBuild(r, s, how) ==
  LET after == Without([res EXCEPT ![r].elem = Gone], res[r].elem.kids)
      e == after[s].elem
      a == Alt(res[s].has)
  IN  /\ Perform
      /\ can_assign
      /\ r \notin Nested
      /\ res[r].alive /\ res[s].alive
      /\ res[r].has # res[s].has
      /\ fault' = (fault \/ e.alt # a)
      /\ \/ /\ job' = [step |-> "empty", dst |-> r,
                       incoming |-> Taken(e, how), want |-> Taken(e, how)]
            /\ res' = [after EXCEPT ![s].elem = Left(e, how)]
         \/ a \in Throws(how) /\ res' = after /\ UNCHANGED job
      /\ UNCHANGED <<made, used, dead>>

\* They hold different alternatives: the incoming one is built first, from the
\* source, into a local variable; a throw ends the assignment.
BuildIncoming(r, s, how) ==
  LET e == res[s].elem
      a == Alt(res[s].has)
  IN  /\ Perform
      /\ can_assign
      /\ r \notin Nested
      /\ res[r].alive /\ res[s].alive
      /\ res[r].has # res[s].has
      /\ Uses({<<s, a>>})
      /\ \/ /\ job' = [step |-> "built", dst |-> r,
                       incoming |-> Taken(e, how), want |-> Taken(e, how)]
            /\ res' = [res EXCEPT ![s].elem = Left(e, how)]
         \/ a \in Throws(how) /\ UNCHANGED <<job, res>>
      /\ UNCHANGED <<made, used, dead>>

\* val_.~V() or err_.~E()
DestroyOutgoing ==
  LET r == job.dst
  IN  /\ job.step = "built"
      /\ Uses({<<r, Alt(res[r].has)>>})
      /\ used' = used \cup DataOf(res, res[r].elem)
      /\ res' = Without([res EXCEPT ![r].elem = Gone], res[r].elem.kids)
      /\ job' = [job EXCEPT !.step = "empty"]
      /\ UNCHANGED <<made, dead, ops, type>>

\* Placement new from the local variable; nothing is left to fall back on if its
\* move constructor throws.
PlaceIncoming ==
  LET r == job.dst
      e == job.incoming
  IN  /\ job.step = "empty"
      /\ \E ok \in {TRUE, e.alt \notin type.move} :
           IF ok
           THEN /\ res' = [res EXCEPT ![r].elem = e]
                /\ job' = [job EXCEPT !.step = "placed",
                                      !.incoming = Left(e, "move")]
           ELSE job' = Done(job) /\ UNCHANGED res
      /\ UNCHANGED <<made, used, fault, dead, ops, type>>

\* (Mutant) The discriminant is not switched.
CommitForgotten ==
  /\ job.step = "placed"
  /\ job' = Done(job)
  /\ UNCHANGED <<res, made, used, fault, dead, ops, type>>

\* has_ is set and the local variable destroyed.
CommitState ==
  LET r == job.dst
  IN  /\ job.step = "placed"
      /\ res' = [res EXCEPT ![r].has = ~@]
      /\ job' = Done(job)
      /\ UNCHANGED <<made, used, fault, dead, ops, type>>

-----------------------------------------------------------------------------
(* Access.                                                                  *)

\* The program gets the member of the result at r, for good if it is moved out.
GiveAway(r, how) ==
  LET e == res[r].elem
  IN  IF how = "move"
      THEN /\ res' = Without([res EXCEPT ![r].elem = Left(e, how)], e.kids)
           /\ used' = used \cup DataOf(res, e)
      ELSE UNCHANGED <<res, used>>

\* value, error, operator*, operator-> (checked), assume_value, assume_error
\* (checked in a hardened build, otherwise called only in the right state).  The
\* && forms give the member away.
Access(r, want, checked, how) ==
  LET right == Alt(res[r].has) = want
  IN  /\ Perform
      /\ res[r].alive
      /\ checked \/ type.hardened \/ right
      /\ IF right
         THEN /\ Uses({<<r, want>>})
              /\ GiveAway(r, how)
              /\ UNCHANGED dead
         ELSE dead' = TRUE /\ UNCHANGED <<res, used, fault>>
      /\ UNCHANGED <<job, made>>

\* value_or, and error_or, which has no && form: a copy of the member, or what it
\* is moved into, and the alternative given instead in the other state.  A throw
\* leaves the result as it is.
AccessOr(r, want, how) ==
  /\ Perform
  /\ res[r].alive
  /\ want = "E" => how = "copy"
  /\ IF Alt(res[r].has) = want
     THEN /\ Uses({<<r, want>>})
          /\ \/ GiveAway(r, how)
             \/ want \in Throws(how) /\ UNCHANGED <<res, used>>
     ELSE UNCHANGED <<res, used, fault>>
  /\ UNCHANGED <<job, made, dead>>

\* operator==: members are compared only if both are live.
Compare(r, s) ==
  LET a == Alt(res[r].has)
  IN  /\ Perform
      /\ res[r].alive /\ res[s].alive
      /\ IF res[r].has = res[s].has THEN Uses({<<r, a>>, <<s, a>>})
                                    ELSE UNCHANGED fault
      /\ UNCHANGED <<res, job, made, used, dead>>

-----------------------------------------------------------------------------
(* Composition: the combinators and the propagation macros.                 *)

\* The alternative the callback of a combinator is called with.
Calls(op) == IF op \in {"and_then", "transform"} THEN "V" ELSE "E"

\* What the callback's answer may hold.
Answers(op) ==
  CASE op = "transform"       -> {TRUE}
    [] op = "transform_error" -> {FALSE}
    [] OTHER                  -> {TRUE, FALSE}

\* (Mutant) The error is passed on by value and stays in the source.
PassOnCopy(r, s, how) ==
  /\ res' = [res EXCEPT ![r] = [res[s] EXCEPT !.elem.kids = {}]]
  /\ UNCHANGED used

\* An error travels in a failure, from which it is moved into the new result.  If
\* that second move throws, the failure is destroyed with the error in it: there
\* is no new result, and the source has given the error away.
LoseInFailure(s, how) ==
  /\ res[s].elem.alt = "E"
  /\ "E" \in type.move
  /\ GiveAway(s, how)

\* The new result r gets the alternative the callback is not called with.
PassOn(r, s, how) ==
  LET e == res[s].elem
  IN  \/ /\ res' = [res EXCEPT
              ![r] = [alive |-> TRUE, has |-> res[s].has,
                      elem |-> Taken(e, how)],
              ![s].elem = Left(e, how)]
         /\ UNCHANGED used
      \/ e.alt \in Throws(how) /\ UNCHANGED <<res, used>>
      \/ LoseInFailure(s, how)

\* and_then, transform, or_else, transform_error on the result at s, giving a
\* new result at r; a callback that throws leaves no result.
Compose(op, r, s, how) ==
  LET a == Alt(res[s].has)
      given == IF how = "move" THEN res[s].elem.kids ELSE {}
  IN  /\ Perform
      /\ r \notin Nested
      /\ ~res[r].alive /\ res[s].alive
      /\ Uses({<<s, a>>})
      /\ IF a # Calls(op)
         THEN PassOn(r, s, how) /\ UNCHANGED made
         ELSE \/ GiveAway(s, how) /\ UNCHANGED made
              \/ /\ made < MaxData
                 /\ made' = made + 1
                 /\ used' = used \cup (IF how = "move"
                                       THEN DataOf(res, res[s].elem) ELSE {})
                 /\ \E has \in Answers(op) :
                      res' = Without([res EXCEPT ![s].elem = Left(@, how),
                                                 ![r] = New(has)], given)
      /\ UNCHANGED <<job, dead>>

\* JMPXX_TRY, JMPXX_TRYV, JMPXX_TRYX on the result at s in a function returning
\* into r: the failure is returned, the value is moved into a local variable.  It
\* stays where it is if that move throws, and in JMPXX_TRYV, which ignores it.
Try(r, s, how) ==
  LET a == Alt(res[s].has)
  IN  /\ Perform
      /\ r \notin Nested
      /\ ~res[r].alive /\ res[s].alive
      /\ Uses({<<s, a>>})
      /\ IF a = "E" THEN PassOn(r, s, how)
         ELSE \/ GiveAway(s, how)
              \/ UNCHANGED <<res, used>>
      /\ UNCHANGED <<job, made, dead>>

Combinators == {"and_then", "transform", "or_else", "transform_error"}

Next ==
  \/ \E r \in Results, has \in BOOLEAN : Construct(r, has)
  \/ \E n, h \in Results, has \in BOOLEAN : ConstructInside(n, h, has)
  \/ \E r, s \in Results, how \in type.hows : ConstructFrom(r, s, how)
  \/ \E r \in Results : Destroy(r)
  \/ \E r, s \in Results, how \in type.hows : AssignSame(r, s, how)
  \/ \E r \in Results, how \in type.hows : AssignSelf(r, how)
  \/ \E r, s \in Results, how \in type.hows : BuildIncoming(r, s, how)
  \/ DestroyOutgoing
  \/ PlaceIncoming
  \/ CommitState
  \/ \E r \in Results, want \in {"V", "E"}, checked \in BOOLEAN, how \in type.hows :
       Access(r, want, checked, how)
  \/ \E r \in Results, want \in {"V", "E"}, how \in type.hows : AccessOr(r, want, how)
  \/ \E r, s \in Results : Compare(r, s)
  \/ \E op \in Combinators, r, s \in Results, how \in type.hows :
       Compose(op, r, s, how)
  \/ \E r, s \in Results, how \in type.hows : Try(r, s, how)

Spec == Init /\ [][Next]_vars

-----------------------------------------------------------------------------
(* Properties.                                                              *)

\* The result at r is being reassigned and its union is not settled.
Changing(r) == job.step \in {"empty", "placed"} /\ job.dst = r

\* "It holds exactly one of a value or an error and never presents a third,
\* valueless state" (transport.hpp:4): whatever was thrown on the way, a result
\* the program can look at holds the alternative has_ names.
NeverValueless ==
  \A r \in Results :
    (res[r].alive /\ ~Changing(r)) => res[r].elem.alt = Alt(res[r].has)

\* Every union member is read, assigned or destroyed only while it is the live
\* one: no double destruction, no use of a source that died with the value that
\* owned it, no access to the other alternative.
NoFault == ~fault

\* A cross-state assignment that has destroyed the outgoing element always ends
\* with the source's element delivered and the state switched, whatever died with
\* the outgoing one.
AssignDelivers ==
  [][(job.step = "placed" \/ job.step = "empty") /\ job'.step = "idle"
       => /\ res'[job.dst].alive
          /\ res'[job.dst].elem = job.want
          /\ res'[job.dst].has = (job.want.alt = "V")]_vars

\* Where in the results and the assignment under way a datum is.
Places(d) ==
  {r \in Results : res[r].alive /\ res[r].elem.datum = d}
    \cup (IF job.incoming.datum = d THEN {"incoming"} ELSE {})

\* With move-only values and errors nothing is lost and nothing duplicated: every
\* datum the program made is in exactly one result until the program itself takes
\* it out, overwrites it or destroys it - through moves, assignments, throws,
\* combinators and propagation alike.  The one datum that goes without the program
\* asking for it is an error whose move constructor throws (LoseInFailure).
Conserved ==
  type.hows = {"move"} =>
    \A d \in 1..made : Cardinality(Places(d)) = IF d \in used THEN 0 ELSE 1
=============================================================================
