--------------------------- MODULE DiagnosticStore ---------------------------
(***************************************************************************)
(* The out-of-band diagnostic layer (include/jmpxx/diagnostic/store.hpp    *)
(* and include/jmpxx/diagnostics.hpp).  Every thread keeps a fixed arena   *)
(* of records with a stack discipline; a rich_error carries only a handle  *)
(* into the arena of the thread that created it, and a landing scope       *)
(* releases every record opened since its snapshot.                        *)
(*                                                                         *)
(* A failure is identified by its creation number on its thread, which     *)
(* stands for the source location it was created at: two failures are      *)
(* distinguishable by their origin, their handles need not be.             *)
(***************************************************************************)
EXTENDS Integers, Sequences

CONSTANTS
  Threads,      \* the threads, each with an arena of its own
  Errors,       \* storage for rich_error objects
  Landings,     \* storage for landing objects
  Sites,        \* the source locations of propagation macros
  MaxInflight,  \* the largest max_inflight of a program
  MaxChain,     \* max_chain: hops a record holds
  IdRange,      \* number of values of the handle type (2^32 for uint32_t)
  Programs      \* the programs that use the store

\* A program: its threads and its propagation sites; whether a thread's landings end innermost first;
\* whether rich_errors are handed to other threads; max_inflight, the records
\* an arena holds; and the bounds of the model, failures created per thread
\* and propagations of one failure.
Program == [threads : SUBSET Threads, sites : SUBSET Sites,
            scoped : BOOLEAN, migrates : BOOLEAN,
            max_inflight : 1..MaxInflight, MaxOpens : Nat, MaxTrail : Nat]

ASSUME StoreAssumption ==
  /\ MaxInflight \in Nat \ {0}
  /\ MaxChain \in Nat \ {0}
  /\ IdRange \in Nat /\ IdRange > 2
  /\ Programs \subseteq Program

VARIABLES
  program,   \* the program that runs
  records,   \* records[t][i]: slot i of thread t's arena
  depth,     \* depth[t]: slots in use
  next_id,   \* next_id[t]: the handle the next failure gets
  opened,    \* opened[t]: failures created so far, the next one's origin - 1
  landing,   \* landing[l]: the landing object stored at l
  err        \* err[e]: the rich_error stored at e

vars == <<program, records, depth, next_id, opened, landing, err>>

Scoped == program.scoped
Migrates == program.migrates
max_inflight == program.max_inflight

Slots == 1..MaxInflight
Handle == 0..(IdRange - 1)

\* struct record; trail is the whole propagation history of the failure, which
\* the code does not keep: it is what the bounded chain is compared with.
Record == [id : Handle, origin : Nat, hops : Seq(Sites),
           truncated : BOOLEAN, trail : Seq(Sites)]

\* class rich_error: the handle, and the failure it stands for.
RichError == [at : Threads, home : Threads, origin : Nat, handle : Handle]

\* class landing: the snapshot, and how many failures its thread had created
\* when it was taken.
Landing == [status : {"none", "open", "skipped"}, thread : Threads,
            mark : 0..MaxInflight, since : Nat]

TypeOK ==
  /\ program \in Programs
  /\ records \in [Threads -> [Slots -> Record]]
  /\ depth \in [Threads -> 0..MaxInflight]
  /\ next_id \in [Threads -> Handle \ {0}]
  /\ opened \in [Threads -> Nat]
  /\ landing \in [Landings -> Landing]
  /\ err \in [Errors -> RichError]

-----------------------------------------------------------------------------
(* The operations of class store on the arena of thread t.                  *)

Live(t) == 1..depth[t]

\* (Mutant) The search runs over the whole arena, released slots included.
FindReleased(t, id) ==
  {i \in Slots : id # 0 /\ records[t][i].id = id}

\* store::find: the newest live record with that handle, as a set that is
\* empty where the code returns nullptr.
find(t, id) ==
  LET hits == {i \in Live(t) : records[t][i].id = id}
  IN  IF id = 0 THEN {} ELSE {i \in hits : \A j \in hits : j <= i}

\* The counter after a handle is issued: it wraps and skips zero.
IdAfter(id) == IF (id + 1) % IdRange = 0 THEN 1 ELSE (id + 1) % IdRange

\* The record open() writes into a slot.
Fresh(id, origin) ==
  [id |-> id, origin |-> origin, hops |-> <<>>, truncated |-> FALSE,
   trail |-> <<>>]

\* (Mutant) The capacity check is off by one.
OpenPastEnd(t) ==
  /\ next_id' = [next_id EXCEPT ![t] = IdAfter(@)]
  /\ opened' = [opened EXCEPT ![t] = @ + 1]
  /\ depth' = [depth EXCEPT ![t] = IF @ > max_inflight THEN @ ELSE @ + 1]
  /\ UNCHANGED records

\* store::open: the handle is issued before the capacity check.
open(t) ==
  /\ next_id' = [next_id EXCEPT ![t] = IdAfter(@)]
  /\ opened' = [opened EXCEPT ![t] = @ + 1]
  /\ IF depth[t] >= max_inflight
     THEN UNCHANGED <<records, depth>>
     ELSE /\ depth' = [depth EXCEPT ![t] = @ + 1]
          /\ records' = [records EXCEPT
               ![t][depth[t] + 1] = Fresh(next_id[t], opened[t] + 1)]

\* (Mutant) A hop past the end of the chain is dropped without a mark.
HopDropped(r, s) ==
  IF Len(r.hops) >= MaxChain THEN r ELSE [r EXCEPT !.hops = Append(@, s)]

\* store::add_hop on the record it found.
Hop(r, s) ==
  IF Len(r.hops) >= MaxChain
  THEN [r EXCEPT !.truncated = TRUE]
  ELSE [r EXCEPT !.hops = Append(@, s)]

\* (Mutants) The mark is trusted; the mark is off by one.
TruncatedBlindly(d, m) == m
TruncatedPast(d, m) == IF m > 0 /\ m <= d THEN m - 1 ELSE d

\* store::truncate
Truncated(d, m) == IF m >= 0 /\ m < d THEN m ELSE d

\* The records that belong to the failure e stands for, by identity.
Own(e) == {i \in Live(err[e].home) :
             records[err[e].home][i].origin = err[e].origin}

-----------------------------------------------------------------------------
NoRecord == Fresh(0, 0)

\* rich_error(): no record, handle 0.
DefaultError(t) == [at |-> t, home |-> t, origin |-> 0, handle |-> 0]

Init ==
  /\ program \in Programs
  /\ records = [t \in Threads |-> [i \in Slots |-> NoRecord]]
  /\ depth = [t \in Threads |-> 0]
  /\ next_id = [t \in Threads |-> 1]
  /\ opened = [t \in Threads |-> 0]
  /\ landing \in [Landings -> {[status |-> "none", thread |-> t, mark |-> 0,
                                since |-> 0] : t \in program.threads}]
  /\ err \in [Errors -> {DefaultError(t) : t \in program.threads}]

\* rich_error(code, domain, loc): a failure is created on thread t.
Fail(t, e) ==
  /\ opened[t] < program.MaxOpens
  /\ open(t)
  /\ err' = [err EXCEPT ![e] = [at |-> t, home |-> t,
                                origin |-> opened[t] + 1,
                                handle |-> next_id[t]]]
  /\ UNCHANGED landing

\* A defaulted copy or assignment of a rich_error, handle included.
Copy(e, f) ==
  /\ err[f] # err[e]
  /\ err' = [err EXCEPT ![f] = err[e]]
  /\ UNCHANGED <<records, depth, next_id, opened, landing>>

\* The value is moved to another thread (a queue, a promise).
HandOff(e, t) ==
  /\ Migrates
  /\ err[e].at # t
  /\ err' = [err EXCEPT ![e].at = t]
  /\ UNCHANGED <<records, depth, next_id, opened, landing>>

\* A propagation macro at site s: note_propagation -> add_hop on the arena of
\* the thread that runs it.
Propagate(e, s) ==
  LET t == err[e].at
      mine == IF t = err[e].home THEN Own(e) ELSE {}
      grown(i) == IF i \in find(t, err[e].handle)
                  THEN Hop(records[t][i], s) ELSE records[t][i]
  IN  /\ \A i \in mine : Len(records[t][i].trail) < program.MaxTrail
      /\ records' = [records EXCEPT ![t] = [i \in Slots |->
           IF i \in mine THEN [grown(i) EXCEPT !.trail = Append(@, s)]
                         ELSE grown(i)]]
      /\ UNCHANGED <<depth, next_id, opened, landing, err>>

\* landing::landing
EnterLanding(t, l) ==
  /\ landing[l].status # "open"
  /\ landing' = [landing EXCEPT ![l] =
       [status |-> "open", thread |-> t, mark |-> depth[t],
        since |-> opened[t]]]
  /\ UNCHANGED <<records, depth, next_id, opened, err>>

\* landing l may end now: scopes of one thread nest, so under Scoped no landing
\* of that thread entered after l is open.
MayEnd(l) ==
  /\ landing[l].status = "open"
  /\ Scoped => \A k \in Landings :
       (landing[k].status = "open" /\ landing[k].thread = landing[l].thread)
         => landing[k].since <= landing[l].since

\* landing::~landing
LeaveLanding(l) ==
  /\ MayEnd(l)
  /\ landing' = [landing EXCEPT ![l].status = "none"]
  /\ depth' = [depth EXCEPT ![landing[l].thread] =
                 Truncated(@, landing[l].mark)]
  /\ UNCHANGED <<records, next_id, opened, err>>

\* A stack unwind that runs no destructors (a plain longjmp, a runtime that
\* skips the frame) discards the landing without its truncate.
SkipLanding(l) ==
  /\ MayEnd(l)
  /\ landing' = [landing EXCEPT ![l].status = "skipped"]
  /\ UNCHANGED <<records, depth, next_id, opened, err>>

Step ==
  \/ \E t \in program.threads, e \in Errors : Fail(t, e)
  \/ \E e, f \in Errors : Copy(e, f)
  \/ \E e \in Errors, t \in program.threads : HandOff(e, t)
  \/ \E e \in Errors, s \in program.sites : Propagate(e, s)
  \/ \E t \in program.threads, l \in Landings : EnterLanding(t, l)
  \/ \E l \in Landings : LeaveLanding(l)
  \/ \E l \in Landings : SkipLanding(l)

Next == Step /\ UNCHANGED program

Spec == Init /\ [][Next]_vars

-----------------------------------------------------------------------------
(* Properties.                                                              *)

\* The handle counter of t has not wrapped yet.
Unwrapped(t) == opened[t] < IdRange

\* A rich_error inspected on the thread that created it resolves to exactly the
\* record of its own failure while that record is live, and to nothing once its
\* landing released it, if it was dropped on a full arena, or if it was default
\* constructed - whatever was opened, released and overwritten in between
\* (find, open, truncate; diagnostics.hpp inspect).
ContextExact ==
  \A e \in Errors :
    (err[e].at = err[e].home /\ Unwrapped(err[e].home))
      => find(err[e].home, err[e].handle) = Own(e)

\* While landings nest, ending one releases exactly the failures created under
\* it: a live record sits above the landing's mark if and only if it was opened
\* after the landing began, also after inner landings were skipped by an unwind.
LandingOwnsExactly ==
  Scoped => \A l \in Landings :
    landing[l].status = "open" =>
      \A i \in Live(landing[l].thread) :
        (landing[l].mark < i)
          <=> (records[landing[l].thread][i].origin > landing[l].since)

\* Whatever order landings end in, a landing never releases a context that was
\* there when it began (a stale mark only ever covers newer records).
LandingKeepsOlder ==
  \A l \in Landings :
    landing[l].status = "open" =>
      \A i \in Live(landing[l].thread) :
        (landing[l].mark < i)
          => (records[landing[l].thread][i].origin > landing[l].since)

\* While rich_errors stay on their thread, the recorded chain is the failure's own propagation history, in order and
\* without a gap, cut at MaxChain, and marked truncated exactly when something
\* was cut: no hop is lost, reordered, inherited from the slot's previous user
\* or taken from another failure.
ChainOf(r) ==
  /\ Len(r.hops) = IF Len(r.trail) < MaxChain THEN Len(r.trail) ELSE MaxChain
  /\ \A k \in 1..Len(r.hops) : r.hops[k] = r.trail[k]
  /\ r.truncated <=> (Len(r.trail) > MaxChain)
ChainFaithful ==
  ~Migrates => \A t \in Threads : Unwrapped(t) =>
    \A i \in Live(t) : ChainOf(records[t][i])

\* A context that was released or dropped never comes back: every record live
\* after a step was live before it or belongs to the failure the step created
\* (truncate: an out-of-order or stale mark cannot grow the arena).
LiveOrigins(t) == {records[t][i].origin : i \in Live(t)}
NoResurrection ==
  [][\A t \in Threads :
       \A o \in LiveOrigins(t)' : o \in LiveOrigins(t) \/ o > opened[t]]_vars

\* "one moved to another thread resolves to no context rather than to another
\* thread's" (include/jmpxx/diagnostics.hpp:41).
ForeignResolvesNothing ==
  \A e \in Errors :
    err[e].at # err[e].home => find(err[e].at, err[e].handle) = {}
=============================================================================
