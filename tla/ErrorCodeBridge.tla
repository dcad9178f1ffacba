--------------------------- MODULE ErrorCodeBridge ---------------------------
(***************************************************************************)
(* The bridge to std::error_code (include/jmpxx/interop/error_code.hpp).   *)
(* A jmpxx::error becomes an error_code whose category stands for the      *)
(* domain.  The categories are made on demand in a table that a mutex      *)
(* guards; by_domain finds the category of a domain, by_address tells      *)
(* jmpxx categories from foreign ones and recovers the domain.             *)
(*                                                                         *)
(* A process has one table per binary image it is linked from (Images):    *)
(* the table is a static variable of an inline function, which images      *)
(* built with hidden visibility do not share.  Threads call into any image *)
(* and pass error codes around freely.                                     *)
(***************************************************************************)
EXTENDS Integers

CONSTANTS
  Threads,   \* the threads of the process
  Images,    \* the binary images, each with a table of its own
  Foreign,   \* stands for the makers of other error codes, not an image
  ErrorValues,    \* the codes of errors
  Domains    \* the domains of errors

ASSUME BridgeAssumption ==
  /\ Foreign \notin Images
  /\ ErrorValues \subseteq Int
  /\ Domains \subseteq Int

VARIABLES
  by_domain,   \* by_domain[i]: entries <<domain, category address>>
  by_address,  \* by_address[i]: entries <<category address, domain>>
  holders,     \* holders[i]: the threads that hold the mutex m
  heap,        \* the last address given to a category
  codes,       \* the error codes in the program
  call,        \* call[t]: the call thread t is in
  dead         \* std::terminate was called

categories == <<by_domain, by_address, holders, heap, codes, call, dead>>

\* std::error_code: a value and the address of a category.  maker and domain say
\* what it was made from, which the properties compare with.
Code == [value : Int, cat : Nat, maker : Images \cup {Foreign}, domain : Int]

\* Other categories are one category, at address 0.
ForeignCode(v) == [value |-> v, cat |-> 0, maker |-> Foreign, domain |-> 0]

\* A call of the bridge: fn was called in image on the error <<value, domain>> or
\* on code.  cat is the iterator's category, out what domain_of returned.
Call == [pc : {"idle", "lock", "find", "emplace", "index", "return", "lookup", "done"},
         fn : {"to_error_code", "from_error_code", "is_jmpxx"},
         image : Images \cup {Foreign}, code : Code, cat : Nat, out : Int]

\* The thread is in no call.
NoCall == [pc |-> "idle", fn |-> "to_error_code", image |-> Foreign,
         code |-> ForeignCode(0), cat |-> 0, out |-> 0]

\* The part of a call under the lock_guard.
UnderLock == {"find", "emplace", "index", "return", "lookup"}

\* std::map: the values stored under k, and emplace, which keeps an entry there is.
At(map, k) == {e[2] : e \in {x \in map : x[1] = k}}
emplace(map, k, v) == IF At(map, k) = {} THEN map \cup {<<k, v>>} ELSE map

CodesInit ==
  /\ by_domain = [i \in Images |-> {}]
  /\ by_address = [i \in Images |-> {}]
  /\ holders = [i \in Images |-> {}]
  /\ heap = 0
  /\ codes = {ForeignCode(v) : v \in ErrorValues}
  /\ call = [t \in Threads |-> NoCall]
  /\ dead = FALSE

-----------------------------------------------------------------------------
(* The calls.                                                               *)

\* to_error_code and make_error_code, and error_category for a program that builds
\* the code itself.  Argument: the error <<v, d>>.
ToErrorCode(t, i, v, d) ==
  /\ ~dead
  /\ call[t].pc = "idle"
  /\ call' = [call EXCEPT ![t] =
       [pc |-> "lock", fn |-> "to_error_code", image |-> i, cat |-> 0, out |-> 0,
        code |-> [value |-> v, cat |-> 0, maker |-> i, domain |-> d]]]
  /\ UNCHANGED <<by_domain, by_address, holders, heap, codes, dead>>

\* from_error_code and is_jmpxx on a code c of the program.
Inspect(t, i, fn, c) ==
  /\ ~dead
  /\ call[t].pc = "idle"
  /\ call' = [call EXCEPT ![t] =
       [pc |-> "lock", fn |-> fn, image |-> i, cat |-> 0, out |-> 0, code |-> c]]
  /\ UNCHANGED <<by_domain, by_address, holders, heap, codes, dead>>

\* (Mutant) The mutex is not waited for.
LockAnyway(t) ==
  /\ ~dead
  /\ call[t].pc = "lock"
  /\ holders' = [holders EXCEPT ![call[t].image] = @ \cup {t}]
  /\ call' = [call EXCEPT ![t].pc =
                IF call[t].fn = "to_error_code" THEN "find" ELSE "lookup"]
  /\ UNCHANGED <<by_domain, by_address, heap, codes, dead>>

\* std::lock_guard<std::mutex> lock(m), first statement of get and domain_of.
Lock(t) ==
  /\ ~dead
  /\ call[t].pc = "lock"
  /\ holders[call[t].image] = {}
  /\ holders' = [holders EXCEPT ![call[t].image] = {t}]
  /\ call' = [call EXCEPT ![t].pc =
                IF call[t].fn = "to_error_code" THEN "find" ELSE "lookup"]
  /\ UNCHANGED <<by_domain, by_address, heap, codes, dead>>

-----------------------------------------------------------------------------
(* category_table::get                                                      *)

\* (Mutant) lower_bound in place of find: the next larger domain is taken.
FindAtLeast(t) ==
  LET c    == call[t]
      hits == {e \in by_domain[c.image] : e[1] >= c.code.domain}
  IN  /\ ~dead
      /\ c.pc = "find"
      /\ \/ \E e \in hits :
              /\ \A f \in hits : e[1] <= f[1]
              /\ call' = [call EXCEPT ![t] = [@ EXCEPT !.pc = "return", !.cat = e[2]]]
         \/ hits = {} /\ call' = [call EXCEPT ![t].pc = "emplace"]
      /\ UNCHANGED <<by_domain, by_address, holders, heap, codes, dead>>

\* by_domain.find(domain)
Find(t) ==
  LET c    == call[t]
      hits == At(by_domain[c.image], c.code.domain)
  IN  /\ ~dead
      /\ c.pc = "find"
      /\ \/ \E a \in hits : call' = [call EXCEPT ![t].pc = "return", ![t].cat = a]
         \/ hits = {} /\ call' = [call EXCEPT ![t].pc = "emplace"]
      /\ UNCHANGED <<by_domain, by_address, holders, heap, codes, dead>>

\* by_domain.emplace(domain, make_unique(domain)); it = inserted.first
Emplace(t) ==
  LET i == call[t].image
      d == call[t].code.domain
  IN  /\ ~dead
      /\ call[t].pc = "emplace"
      /\ heap' = heap + 1
      /\ by_domain' = [by_domain EXCEPT ![i] = emplace(@, d, heap + 1)]
      /\ \E a \in At(by_domain'[i], d) :
           call' = [call EXCEPT ![t] = [@ EXCEPT !.pc = "index", !.cat = a]]
      /\ UNCHANGED <<by_address, holders, codes, dead>>

\* by_address.emplace(it->second.get(), domain)
Index(t) ==
  LET c == call[t]
  IN  /\ ~dead
      /\ c.pc = "index"
      /\ by_address' = [by_address EXCEPT ![c.image] =
                          emplace(@, c.cat, c.code.domain)]
      /\ call' = [call EXCEPT ![t].pc = "return"]
      /\ UNCHANGED <<by_domain, holders, heap, codes, dead>>

\* (Mutant) Without noexcept the exception leaves get, which unlocks, and the caller
\* sees a call that failed.
OutOfMemoryThrows(t) ==
  /\ ~dead
  /\ call[t].pc \in {"emplace", "index"}
  /\ holders' = [holders EXCEPT ![call[t].image] = @ \ {t}]
  /\ call' = [call EXCEPT ![t] = NoCall]
  /\ UNCHANGED <<by_domain, by_address, heap, codes, dead>>

\* Either emplace may throw bad_alloc and leave its map as it was; error_category
\* and to_error_code are noexcept.
OutOfMemory(t) ==
  /\ ~dead
  /\ call[t].pc \in {"emplace", "index"}
  /\ dead' = TRUE
  /\ UNCHANGED <<by_domain, by_address, holders, heap, codes, call>>

\* return *it->second, the end of lock, and the code to_error_code returns.
Return(t) ==
  LET c == call[t]
  IN  /\ ~dead
      /\ c.pc = "return"
      /\ holders' = [holders EXCEPT ![c.image] = @ \ {t}]
      /\ codes' = codes \cup {[c.code EXCEPT !.cat = c.cat]}
      /\ call' = [call EXCEPT ![t] = NoCall]
      /\ UNCHANGED <<by_domain, by_address, heap, dead>>

-----------------------------------------------------------------------------
(* category_table::domain_of and its callers                                *)

\* by_address.find(&cat), -1 if there is no entry, and the end of lock.
LookUp(t) ==
  LET c    == call[t]
      hits == At(by_address[c.image], c.code.cat)
  IN  /\ ~dead
      /\ c.pc = "lookup"
      /\ \E d \in IF hits = {} THEN {-1} ELSE hits :
           call' = [call EXCEPT ![t] = [@ EXCEPT !.pc = "done", !.out = d]]
      /\ holders' = [holders EXCEPT ![c.image] = @ \ {t}]
      /\ UNCHANGED <<by_domain, by_address, heap, codes, dead>>

\* What is_jmpxx and from_error_code make of domain_of's answer.
is_jmpxx(out) == out >= 0
from_error_code(c, out) == <<c.value, IF out >= 0 THEN out ELSE 0>>

\* The caller has used the answer.
Answered(t) ==
  /\ ~dead
  /\ call[t].pc = "done"
  /\ call' = [call EXCEPT ![t] = NoCall]
  /\ UNCHANGED <<by_domain, by_address, holders, heap, codes, dead>>

-----------------------------------------------------------------------------
CodesStep(t) ==
  \/ \E i \in Images, v \in ErrorValues, d \in Domains : ToErrorCode(t, i, v, d)
  \/ \E i \in Images, fn \in {"from_error_code", "is_jmpxx"}, c \in codes :
       Inspect(t, i, fn, c)
  \/ Lock(t)
  \/ Find(t)
  \/ Emplace(t)
  \/ Index(t)
  \/ OutOfMemory(t)
  \/ Return(t)
  \/ LookUp(t)
  \/ Answered(t)

\* A terminated process does nothing more.
CodesNext == \E t \in Threads : CodesStep(t)

CodesSpec == CodesInit /\ [][CodesNext]_categories

-----------------------------------------------------------------------------
(* Properties.                                                              *)

CodesTypeOK ==
  /\ by_domain \in [Images -> SUBSET (Domains \X Nat)]
  /\ by_address \in [Images -> SUBSET (Nat \X Domains)]
  /\ holders \in [Images -> SUBSET Threads]
  /\ heap \in Nat
  /\ codes \subseteq Code
  /\ call \in [Threads -> Call]
  /\ dead \in BOOLEAN

\* No two threads are in the maps of one table at once, and a mutex that is held
\* is held by a thread in the maps it guards, where nothing waits: so whoever wants
\* it gets it ("Both are guarded by one mutex": error_code.hpp, category_table).
MapsGuarded ==
  /\ \A t, u \in Threads :
       /\ t # u
       /\ call[t].image = call[u].image
       => ~(call[t].pc \in UnderLock /\ call[u].pc \in UnderLock)
  /\ \A i \in Images : \A t \in holders[i] :
       call[t].image = i /\ call[t].pc \in UnderLock

\* Codes made by one image compare equal exactly if the errors they were made from
\* are equal, whichever threads made them and in whatever order: "repeated
\* conversions share identity" (error_code.hpp, category_table).
CodesFaithful ==
  \A c, d \in codes :
    c.maker = d.maker => (c.cat = d.cat <=> c.domain = d.domain)

\* A code inspected in the image that made it gives back the error it was made from
\* and is recognised as jmpxx's; a foreign one keeps its value, gets the generic
\* domain and is not recognised (error_code.hpp: is_jmpxx, from_error_code).
RoundTrip ==
  \A t \in Threads :
    LET c   == call[t].code
        out == call[t].out
    IN  call[t].pc = "done" =>
          /\ c.maker = call[t].image =>
               is_jmpxx(out) /\ from_error_code(c, out) = <<c.value, c.domain>>
          /\ c.maker = Foreign =>
               ~is_jmpxx(out) /\ from_error_code(c, out) = <<c.value, 0>>
=============================================================================
