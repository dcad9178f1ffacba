------------------------ MODULE ErrorCodeBridgeProofs ------------------------
(***************************************************************************)
(* Proofs about ErrorCodeBridge, for any threads, images, values and       *)
(* domains.  The argument: the mutex admits one thread at a time, so an    *)
(* entry of by_domain lacks its by_address entry only while the thread     *)
(* that made it still holds the mutex; no code names such a category.      *)
(***************************************************************************)
EXTENDS ErrorCodeBridge, TLAPS

\* The mutex of a table is held by the thread in its maps, and by no other.
MutexInv ==
  /\ \A t \in Threads : call[t].pc \in UnderLock => t \in holders[call[t].image]
  /\ \A i \in Images : \A t, u \in holders[i] : t = u
  /\ \A i \in Images : \A t \in holders[i] :
       call[t].image = i /\ call[t].pc \in UnderLock

\* A table maps its domains to categories of their own, in the heap, and by_address
\* is part of the inverse map.
TableInv ==
  \A i \in Images :
    /\ \A e \in by_domain[i] : e[2] > 0 /\ e[2] <= heap
    /\ \A e, f \in by_domain[i] : e[1] = f[1] <=> e[2] = f[2]
    /\ \A e \in by_address[i] : <<e[2], e[1]>> \in by_domain[i]

\* A thread is about to index the category of domain d.
Making(i, d) ==
  \E t \in Threads :
    call[t].pc = "index" /\ call[t].image = i /\ call[t].code.domain = d

\* Only such a category is missing from by_address.
IndexInv ==
  \A i \in Images : \A e \in by_domain[i] :
    <<e[2], e[1]>> \in by_address[i] \/ Making(i, e[1])

\* What a thread knows at each step of get and domain_of.
Knows(t) ==
  LET c == call[t]
      d == c.code.domain
  IN  /\ c.pc # "idle" => c.image \in Images
      /\ c.pc \in {"find", "emplace", "index", "return"} => c.fn = "to_error_code"
      /\ c.pc \in {"lookup", "done"} => c.fn # "to_error_code"
      /\ c.fn = "to_error_code" /\ c.pc # "idle" =>
           c.code.maker = c.image /\ d \in Domains
      /\ c.fn # "to_error_code" => c.code \in codes
      /\ c.pc = "emplace" => \A e \in by_domain[c.image] : e[1] # d
      /\ c.pc = "index" => <<d, c.cat>> \in by_domain[c.image]
      /\ c.pc = "return" => <<c.cat, d>> \in by_address[c.image]

CallInv == \A t \in Threads : Knows(t)

\* A code names a category that its maker has indexed, or a foreign one.
CodesInv ==
  \A c \in codes :
    /\ c.maker \in Images => <<c.cat, c.domain>> \in by_address[c.maker]
    /\ c.maker = Foreign => c.cat = 0 /\ c.domain = 0

\* What domain_of has answered.
AnswerInv ==
  \A t \in Threads : call[t].pc = "done" =>
    /\ call[t].code.maker = call[t].image => call[t].out = call[t].code.domain
    /\ call[t].code.maker = Foreign => call[t].out = -1

IInv == /\ CodesTypeOK /\ MutexInv /\ TableInv /\ IndexInv
        /\ CallInv /\ CodesInv /\ AnswerInv

-----------------------------------------------------------------------------
\* The entries under a key.
LEMMA AtEntries ==
  ASSUME NEW A, NEW B, NEW map \in SUBSET (A \X B), NEW k
  PROVE  \A v : v \in At(map, k) <=> <<k, v>> \in map
<1>1. \A e \in map : e = <<e[1], e[2]>>
  OBVIOUS
<1>2. QED BY <1>1 DEF At

\* emplace adds an entry, or leaves the map as it is.
LEMMA EmplaceEntries ==
  ASSUME NEW A, NEW B, NEW map \in SUBSET (A \X B), NEW k \in A, NEW v \in B
  PROVE  /\ emplace(map, k, v) \in SUBSET (A \X B)
         /\ (\A e \in map : e[1] # k) => emplace(map, k, v) = map \cup {<<k, v>>}
         /\ (\E e \in map : e[1] = k) => emplace(map, k, v) = map
<1>1. At(map, k) = {} <=> \A e \in map : e[1] # k
  BY DEF At
<1>2. QED BY <1>1 DEF emplace

\* Codes of another maker.
LEMMA ForeignCodeIs == \A v \in Int : ForeignCode(v) \in Code
  BY DEF ForeignCode, Code

\* A thread in no call.
LEMMA NoCallIs ==
  NoCall \in Call /\ NoCall.pc = "idle" /\ NoCall.fn = "to_error_code"
  BY ForeignCodeIs DEF NoCall, Call

\* A call is in some image.
LEMMA InImage ==
  ASSUME IInv, NEW t \in Threads, call[t].pc # "idle"
  PROVE  call[t].image \in Images
  BY DEF IInv, CallInv, Knows

\* The initial state satisfies the invariant.
LEMMA InvInit == CodesInit => IInv
<1> SUFFICES ASSUME CodesInit PROVE IInv
  OBVIOUS
<1> USE DEF CodesInit
<1>1. \A v \in ErrorValues : ForeignCode(v) \in Code
  BY BridgeAssumption, ForeignCodeIs
<1>2. CodesTypeOK
  <2>1. call \in [Threads -> Call]
    BY NoCallIs
  <2>2. codes \subseteq Code
    BY <1>1
  <2>3. QED BY <2>1, <2>2 DEF CodesTypeOK
<1>3. MutexInv
  BY NoCallIs DEF MutexInv, UnderLock
<1>4. TableInv /\ IndexInv /\ AnswerInv
  BY NoCallIs DEF TableInv, IndexInv, AnswerInv
<1>5. CallInv
  BY NoCallIs DEF CallInv, Knows
<1>6. CodesInv
  BY BridgeAssumption DEF CodesInv, ForeignCode
<1>7. QED BY <1>2, <1>3, <1>4, <1>5, <1>6 DEF IInv

\* A step that leaves the maps and the thread at "index" alone.
LEMMA IndexKept ==
  ASSUME IInv, UNCHANGED <<by_domain, by_address>>,
         \A u \in Threads : call[u].pc = "index" => call'[u] = call[u]
  PROVE  IndexInv'
<1>1. ASSUME NEW i, NEW d, Making(i, d) PROVE Making(i, d)'
  BY <1>1 DEF Making
<1>2. QED BY <1>1 DEF IInv, IndexInv

\* The beginning of a call, and the end of one that inspected a code.
LEMMA OutsideStep ==
  ASSUME IInv, NEW t \in Threads,
         NEW c \in Call, call' = [call EXCEPT ![t] = c],
         UNCHANGED <<by_domain, by_address, holders, heap, codes, dead>>,
         call[t].pc \notin UnderLock, c.pc \in {"idle", "lock"},
         c.pc # "idle" => c.image \in Images,
         c.fn = "to_error_code" /\ c.pc # "idle" =>
           c.code.maker = c.image /\ c.code.domain \in Domains,
         c.fn # "to_error_code" => c.code \in codes
  PROVE  IInv'
<1>1. CodesTypeOK'
  BY DEF IInv, CodesTypeOK
<1>2. call'[t] = c /\ \A u \in Threads : u # t => call'[u] = call[u]
  BY DEF IInv, CodesTypeOK
<1>3. MutexInv'
  BY <1>2 DEF IInv, CodesTypeOK, MutexInv, UnderLock
<1>4. TableInv'
  BY DEF IInv, TableInv
<1>5. IndexInv'
  BY <1>2, IndexKept DEF UnderLock
<1>6. CallInv'
  BY <1>2 DEF IInv, CallInv, Knows
<1>7. CodesInv'
  BY DEF IInv, CodesInv
<1>8. AnswerInv'
  BY <1>2 DEF IInv, AnswerInv
<1>9. QED BY <1>1, <1>3, <1>4, <1>5, <1>6, <1>7, <1>8 DEF IInv

\* to_error_code is called.
LEMMA ToErrorCodeInv ==
  ASSUME IInv, NEW t \in Threads, NEW i \in Images, NEW v \in ErrorValues,
         NEW d \in Domains, ToErrorCode(t, i, v, d)
  PROVE  IInv'
<1> DEFINE c == [pc |-> "lock", fn |-> "to_error_code", image |-> i, cat |-> 0,
                 out |-> 0,
                 code |-> [value |-> v, cat |-> 0, maker |-> i, domain |-> d]]
<1>1. c \in Call
  BY BridgeAssumption DEF Call, Code
<1>2. call[t].pc \notin UnderLock
  BY DEF ToErrorCode, UnderLock
<1>3. QED BY <1>1, <1>2, OutsideStep DEF ToErrorCode

\* from_error_code or is_jmpxx is called.
LEMMA InspectInv ==
  ASSUME IInv, NEW t \in Threads, NEW i \in Images,
         NEW fn \in {"from_error_code", "is_jmpxx"}, NEW x \in codes,
         Inspect(t, i, fn, x)
  PROVE  IInv'
<1> DEFINE c == [pc |-> "lock", fn |-> fn, image |-> i, cat |-> 0, out |-> 0,
                 code |-> x]
<1>1. c \in Call
  BY DEF Call, IInv, CodesTypeOK
<1>2. call[t].pc \notin UnderLock
  BY DEF Inspect, UnderLock
<1>3. QED BY <1>1, <1>2, OutsideStep DEF Inspect

\* The answer is used.
LEMMA AnsweredInv ==
  ASSUME IInv, NEW t \in Threads, Answered(t)
  PROVE  IInv'
<1>1. call[t].pc \notin UnderLock
  BY DEF Answered, UnderLock
<1>2. QED BY <1>1, NoCallIs, OutsideStep DEF Answered

\* The mutex is taken.
LEMMA LockInv ==
  ASSUME IInv, NEW t \in Threads, Lock(t)
  PROVE  IInv'
<1> DEFINE i == call[t].image
           p == IF call[t].fn = "to_error_code" THEN "find" ELSE "lookup"
<1>1. /\ call'[t] = [call[t] EXCEPT !.pc = p]
      /\ \A u \in Threads : u # t => call'[u] = call[u]
      /\ call' \in [Threads -> Call]
      /\ i \in Images
      /\ call[t] \in Call
      /\ call[t].pc = "lock"
  BY InImage DEF Lock, IInv, CodesTypeOK, Call
<1>2. /\ call'[t].pc = p /\ call'[t].fn = call[t].fn /\ call'[t].image = i
      /\ call'[t].code = call[t].code
  BY <1>1 DEF Call
<1>3. holders' = [holders EXCEPT ![i] = {t}] /\ holders[i] = {}
  BY DEF Lock
<1>4. CodesTypeOK'
  BY <1>1, <1>3 DEF Lock, IInv, CodesTypeOK
<1>5. MutexInv'
  <2>1. /\ holders'[i] = {t}
        /\ \A j \in Images : j # i => holders'[j] = holders[j]
    BY <1>1, <1>3 DEF IInv, CodesTypeOK
  <2>2. call'[t].pc \in UnderLock /\ call[t].pc \notin UnderLock
    BY <1>1, <1>2 DEF UnderLock
  <2>3. \A u \in Threads : call'[u].pc \in UnderLock => u \in holders'[call'[u].image]
    BY <1>1, <1>2, <1>3, <2>1 DEF IInv, MutexInv, CodesTypeOK, Call
  <2>4. \A j \in Images : \A u \in holders'[j] :
          call'[u].image = j /\ call'[u].pc \in UnderLock
    <3> SUFFICES ASSUME NEW j \in Images, NEW u \in holders'[j]
                 PROVE  call'[u].image = j /\ call'[u].pc \in UnderLock
      OBVIOUS
    <3>1. CASE j = i
      BY <1>2, <2>1, <2>2, <3>1
    <3>2. CASE j # i
      <4>1. u \in holders[j] /\ u \in Threads
        BY <2>1, <3>2 DEF IInv, CodesTypeOK
      <4>2. call[u].image = j /\ call[u].pc \in UnderLock
        BY <4>1 DEF IInv, MutexInv
      <4>3. QED BY <1>1, <2>2, <4>1, <4>2
    <3>3. QED BY <3>1, <3>2
  <2>5. QED BY <2>1, <2>3, <2>4 DEF IInv, MutexInv
<1>6. TableInv'
  BY DEF Lock, IInv, TableInv
<1>7. IndexInv'
  BY <1>1, IndexKept DEF Lock
<1>8. CallInv'
  BY <1>1, <1>2 DEF Lock, IInv, CallInv, Knows
<1>9. CodesInv'
  BY DEF Lock, IInv, CodesInv
<1>10. AnswerInv'
  BY <1>1, <1>2 DEF IInv, AnswerInv
<1>11. QED BY <1>4, <1>5, <1>6, <1>7, <1>8, <1>9, <1>10 DEF IInv

\* by_domain is searched: what is found is indexed, for nobody else holds the mutex.
LEMMA FindInv ==
  ASSUME IInv, NEW t \in Threads, Find(t)
  PROVE  IInv'
<1> DEFINE i == call[t].image
           d == call[t].code.domain
<1>1. call[t] \in Call /\ i \in Images /\ call[t].pc = "find"
  BY InImage DEF Find, IInv, CodesTypeOK
<1>2. UNCHANGED <<by_domain, by_address, holders, heap, codes, dead>>
  BY DEF Find
<1>3. by_domain[i] \in SUBSET (Domains \X Nat)
  BY <1>1 DEF IInv, CodesTypeOK
<1>4. \/ \E a \in Nat : /\ <<d, a>> \in by_domain[i]
                        /\ call' = [call EXCEPT ![t] = [@ EXCEPT !.pc = "return", !.cat = a]]
      \/ /\ \A e \in by_domain[i] : e[1] # d
         /\ call' = [call EXCEPT ![t].pc = "emplace"]
  <2>1. \A a : a \in At(by_domain[i], d) <=> <<d, a>> \in by_domain[i]
    BY <1>3, AtEntries, Zenon
  <2>2. At(by_domain[i], d) = {} => \A e \in by_domain[i] : e[1] # d
    BY DEF At
  <2>3. \A a : <<d, a>> \in by_domain[i] => a \in Nat
    BY <1>3
  <2>4. QED BY <2>1, <2>2, <2>3 DEF Find
<1>5. /\ \A u \in Threads : u # t => call'[u] = call[u]
      /\ call' \in [Threads -> Call]
      /\ call'[t].pc \in {"return", "emplace"}
      /\ call'[t].fn = call[t].fn /\ call'[t].image = i
      /\ call'[t].code = call[t].code
      /\ call'[t].pc = "return" => <<d, call'[t].cat>> \in by_domain[i]
      /\ call'[t].pc = "emplace" => \A e \in by_domain[i] : e[1] # d
  <2>1. CASE \E a \in Nat :
               /\ <<d, a>> \in by_domain[i]
               /\ call' = [call EXCEPT ![t] = [@ EXCEPT !.pc = "return", !.cat = a]]
    <3>1. PICK a \in Nat :
            /\ <<d, a>> \in by_domain[i]
            /\ call' = [call EXCEPT ![t] = [@ EXCEPT !.pc = "return", !.cat = a]]
      BY <2>1
    <3>2. /\ call'[t] = [call[t] EXCEPT !.pc = "return", !.cat = a]
          /\ \A u \in Threads : u # t => call'[u] = call[u]
      BY <3>1 DEF IInv, CodesTypeOK
    <3>3. [call[t] EXCEPT !.pc = "return", !.cat = a] \in Call
      BY <1>1 DEF Call
    <3>4. call' \in [Threads -> Call]
      BY <3>1, <3>3 DEF IInv, CodesTypeOK
    <3>5. QED BY <1>1, <3>1, <3>2, <3>4 DEF Call
  <2>2. CASE /\ \A e \in by_domain[i] : e[1] # d
             /\ call' = [call EXCEPT ![t].pc = "emplace"]
    BY <1>1, <2>2 DEF IInv, CodesTypeOK, Call
  <2>3. QED BY <1>4, <2>1, <2>2
<1>6. \A u \in Threads : ~(call[u].pc = "index" /\ call[u].image = i)
  BY <1>1 DEF IInv, MutexInv, UnderLock
<1>7. call'[t].pc = "return" => <<call'[t].cat, d>> \in by_address[i]
  BY <1>1, <1>5, <1>6 DEF IInv, IndexInv, Making
<1>8. CodesTypeOK'
  BY <1>2, <1>5 DEF IInv, CodesTypeOK
<1>9. MutexInv'
  BY <1>1, <1>2, <1>5 DEF IInv, CodesTypeOK, MutexInv, UnderLock
<1>10. TableInv' /\ CodesInv'
  BY <1>2 DEF IInv, TableInv, CodesInv
<1>11. IndexInv'
  <2>1. \A u \in Threads : call[u].pc = "index" => call'[u] = call[u]
    BY <1>1, <1>5
  <2>2. QED BY <1>2, <2>1, IndexKept
<1>12. CallInv'
  <2> SUFFICES ASSUME NEW u \in Threads
               PROVE  Knows(u)'
    BY DEF CallInv
  <2>1. Knows(t) /\ Knows(u)
    BY DEF IInv, CallInv
  <2>2. CASE u = t
    BY <1>1, <1>2, <1>5, <1>7, <2>1, <2>2 DEF Knows
  <2>3. CASE u # t
    BY <1>2, <1>5, <2>1, <2>3 DEF Knows
  <2>4. QED BY <2>2, <2>3
<1>13. AnswerInv'
  BY <1>5 DEF IInv, AnswerInv
<1>14. QED BY <1>8, <1>9, <1>10, <1>11, <1>12, <1>13 DEF IInv

\* A category is made for a domain that has none.
LEMMA EmplaceInv ==
  ASSUME IInv, NEW t \in Threads, Emplace(t)
  PROVE  IInv'
<1> DEFINE i == call[t].image
           d == call[t].code.domain
           n == heap + 1
<1>1. call[t] \in Call /\ i \in Images /\ call[t].pc = "emplace" /\ heap \in Nat
  BY InImage DEF Emplace, IInv, CodesTypeOK
<1>2. /\ UNCHANGED <<by_address, holders, codes, dead>> /\ heap' = n
      /\ by_domain' = [by_domain EXCEPT ![i] = emplace(by_domain[i], d, n)]
      /\ \E a \in At(by_domain'[i], d) :
           call' = [call EXCEPT ![t] = [@ EXCEPT !.pc = "index", !.cat = a]]
  BY DEF Emplace
<1>3. by_domain[i] \in SUBSET (Domains \X Nat)
  BY <1>1 DEF IInv, CodesTypeOK
<1>4. d \in Domains /\ \A e \in by_domain[i] : e[1] # d
  BY <1>1 DEF IInv, CallInv, Knows
<1>5. emplace(by_domain[i], d, n) = by_domain[i] \cup {<<d, n>>}
  BY <1>1, <1>3, <1>4, EmplaceEntries
<1>6. /\ by_domain' \in [Images -> SUBSET (Domains \X Nat)]
      /\ by_domain'[i] = by_domain[i] \cup {<<d, n>>}
      /\ \A j \in Images : j # i => by_domain'[j] = by_domain[j]
  BY <1>1, <1>2, <1>3, <1>4, <1>5 DEF IInv, CodesTypeOK
<1>7. At(by_domain'[i], d) = {n}
  <2>1. \A a : a \in At(by_domain'[i], d) <=> <<d, a>> \in by_domain'[i]
    BY <1>1, <1>6, AtEntries, Zenon
  <2>2. \A a : <<d, a>> \in by_domain'[i] <=> a = n
    BY <1>4, <1>6
  <2>3. QED BY <2>1, <2>2
<1>8. /\ \A u \in Threads : u # t => call'[u] = call[u]
      /\ call' \in [Threads -> Call]
      /\ call'[t].pc = "index" /\ call'[t].cat = n
      /\ call'[t].fn = call[t].fn /\ call'[t].image = i
      /\ call'[t].code = call[t].code
  <2>1. call' = [call EXCEPT ![t] = [@ EXCEPT !.pc = "index", !.cat = n]]
    BY <1>2, <1>7
  <2>2. /\ call'[t] = [call[t] EXCEPT !.pc = "index", !.cat = n]
        /\ \A u \in Threads : u # t => call'[u] = call[u]
    BY <2>1 DEF IInv, CodesTypeOK
  <2>3. [call[t] EXCEPT !.pc = "index", !.cat = n] \in Call
    <3>1. n \in Nat
      BY <1>1
    <3> HIDE DEF n
    <3>2. QED BY <1>1, <3>1 DEF Call
  <2>4. call' \in [Threads -> Call]
    BY <2>1, <2>3 DEF IInv, CodesTypeOK
  <2>5. QED BY <1>1, <2>2, <2>4 DEF Call
<1>9. \A u \in Threads : u # t /\ call[u].pc \in UnderLock => call[u].image # i
  BY <1>1 DEF IInv, MutexInv, UnderLock
<1>10. CodesTypeOK'
  BY <1>1, <1>2, <1>6, <1>8 DEF IInv, CodesTypeOK
<1>11. MutexInv'
  BY <1>1, <1>2, <1>8 DEF IInv, CodesTypeOK, MutexInv, UnderLock
<1>12. TableInv'
  <2> SUFFICES ASSUME NEW j \in Images
               PROVE  /\ \A e \in by_domain'[j] : e[2] > 0 /\ e[2] <= heap'
                      /\ \A e, f \in by_domain'[j] : e[1] = f[1] <=> e[2] = f[2]
                      /\ \A e \in by_address'[j] : <<e[2], e[1]>> \in by_domain'[j]
    BY DEF TableInv
  <2>1. /\ \A e \in by_domain[j] : e[2] > 0 /\ e[2] <= heap /\ e[2] \in Nat
        /\ \A e, f \in by_domain[j] : e[1] = f[1] <=> e[2] = f[2]
        /\ \A e \in by_address[j] : <<e[2], e[1]>> \in by_domain[j]
    BY DEF IInv, TableInv, CodesTypeOK
  <2>2. CASE j # i
    BY <1>1, <1>2, <1>6, <2>1, <2>2
  <2>3. CASE j = i
    <3>1. \A e \in by_domain'[i] : e \in by_domain[i] \/ (e[1] = d /\ e[2] = n)
      BY <1>6
    <3>2. \A e \in by_domain[i] : e[1] # d /\ e[2] # n
      BY <1>1, <1>4, <2>1, <2>3
    <3>3. QED BY <1>1, <1>2, <1>6, <2>1, <2>3, <3>1, <3>2
  <2>4. QED BY <2>2, <2>3
<1>13. IndexInv'
  <2>1. \A u \in Threads : call[u].pc = "index" => call'[u] = call[u]
    BY <1>1, <1>8
  <2>2. \A j \in Images : \A e \in by_domain'[j] :
          e \in by_domain[j] \/ (j = i /\ e[1] = d)
    BY <1>6
  <2>3. SUFFICES ASSUME NEW j \in Images, NEW e \in by_domain'[j]
                 PROVE  <<e[2], e[1]>> \in by_address'[j] \/ Making(j, e[1])'
    BY DEF IndexInv
  <2>4. CASE j = i /\ e[1] = d
    BY <1>8, <2>4 DEF Making
  <2>5. CASE e \in by_domain[j]
    BY <1>2, <2>1, <2>5 DEF IInv, IndexInv, Making
  <2>6. QED BY <2>2, <2>4, <2>5
<1>14. CallInv'
  <2> SUFFICES ASSUME NEW u \in Threads
               PROVE  Knows(u)'
    BY DEF CallInv
  <2>1. Knows(t) /\ Knows(u)
    BY DEF IInv, CallInv
  <2>2. CASE u = t
    BY <1>1, <1>2, <1>6, <1>8, <2>1, <2>2 DEF Knows
  <2>3. CASE u # t
    <3>1. call'[u] = call[u] /\ (call[u].pc # "idle" => call[u].image \in Images)
      BY <1>8, <2>1, <2>3 DEF Knows
    <3>2. call[u].pc = "emplace" => call[u].image # i
      BY <1>9, <2>3 DEF UnderLock
    <3>3. QED BY <1>1, <1>2, <1>6, <2>1, <3>1, <3>2 DEF Knows
  <2>4. QED BY <2>2, <2>3
<1>15. CodesInv'
  BY <1>2 DEF IInv, CodesInv
<1>16. AnswerInv'
  BY <1>8 DEF IInv, AnswerInv
<1>17. QED BY <1>10, <1>11, <1>12, <1>13, <1>14, <1>15, <1>16 DEF IInv

\* The category is entered into by_address.
LEMMA IndexStepInv ==
  ASSUME IInv, NEW t \in Threads, Index(t)
  PROVE  IInv'
<1> DEFINE i == call[t].image
           d == call[t].code.domain
           a == call[t].cat
<1>1. /\ call[t] \in Call /\ i \in Images /\ call[t].pc = "index" /\ a \in Nat
      /\ by_address[i] \in SUBSET (Nat \X Domains)
  BY InImage DEF Index, IInv, CodesTypeOK, Call
<1>2. /\ UNCHANGED <<by_domain, holders, heap, codes, dead>>
      /\ by_address' = [by_address EXCEPT ![i] = emplace(by_address[i], a, d)]
      /\ call' = [call EXCEPT ![t].pc = "return"]
  BY DEF Index
<1>3. Knows(t)
  BY DEF IInv, CallInv
<1>4. d \in Domains /\ <<d, a>> \in by_domain[i]
  BY <1>1, <1>3 DEF Knows
<1>5. emplace(by_address[i], a, d) = by_address[i] \cup {<<a, d>>}
  <2>1. CASE \A e \in by_address[i] : e[1] # a
    BY <1>1, <1>4, <2>1, EmplaceEntries
  <2>2. CASE \E e \in by_address[i] : e[1] = a
    <3>1. PICK e \in by_address[i] : e[1] = a
      BY <2>2
    <3>2. <<e[2], a>> \in by_domain[i]
      BY <1>1, <3>1 DEF IInv, TableInv
    <3>3. e[2] = d
      BY <1>1, <1>4, <3>2 DEF IInv, TableInv
    <3>4. e = <<a, d>>
      BY <1>1, <3>1, <3>3
    <3>5. QED BY <1>1, <1>4, <2>2, <3>1, <3>4, EmplaceEntries
  <2>3. QED BY <2>1, <2>2
<1>6. /\ by_address' \in [Images -> SUBSET (Nat \X Domains)]
      /\ by_address'[i] = by_address[i] \cup {<<a, d>>}
      /\ \A j \in Images : j # i => by_address'[j] = by_address[j]
  BY <1>1, <1>2, <1>4, <1>5 DEF IInv, CodesTypeOK
<1>7. /\ \A u \in Threads : u # t => call'[u] = call[u]
      /\ call' \in [Threads -> Call]
      /\ call'[t].pc = "return" /\ call'[t].cat = a
      /\ call'[t].fn = call[t].fn /\ call'[t].image = i
      /\ call'[t].code = call[t].code
  BY <1>1, <1>2 DEF IInv, CodesTypeOK, Call
<1>8. \A j \in Images : by_address[j] \subseteq by_address'[j]
  BY <1>6
<1>9. CodesTypeOK'
  BY <1>2, <1>6, <1>7 DEF IInv, CodesTypeOK
<1>10. MutexInv'
  BY <1>1, <1>2, <1>7 DEF IInv, CodesTypeOK, MutexInv, UnderLock
<1>11. TableInv'
  BY <1>1, <1>2, <1>4, <1>6 DEF IInv, TableInv
<1>12. IndexInv'
  <2> SUFFICES ASSUME NEW j \in Images, NEW e \in by_domain[j]
               PROVE  <<e[2], e[1]>> \in by_address'[j] \/ Making(j, e[1])'
    BY <1>2 DEF IndexInv
  <2>1. CASE <<e[2], e[1]>> \in by_address[j]
    BY <1>8, <2>1
  <2>2. CASE Making(j, e[1])
    <3>1. PICK u \in Threads : /\ call[u].pc = "index" /\ call[u].image = j
                              /\ call[u].code.domain = e[1]
      BY <2>2 DEF Making
    <3>2. CASE u # t
      BY <1>7, <3>1, <3>2 DEF Making
    <3>3. CASE u = t
      <4>1. e[2] = a
        BY <1>4, <3>1, <3>3 DEF IInv, TableInv
      <4>2. QED BY <1>6, <3>1, <3>3, <4>1
    <3>4. QED BY <3>2, <3>3
  <2>3. QED BY <2>1, <2>2 DEF IInv, IndexInv
<1>13. CallInv'
  <2> SUFFICES ASSUME NEW u \in Threads
               PROVE  Knows(u)'
    BY DEF CallInv
  <2>1. Knows(u)
    BY DEF IInv, CallInv
  <2>2. CASE u = t
    BY <1>1, <1>2, <1>3, <1>6, <1>7, <2>2 DEF Knows
  <2>3. CASE u # t
    <3>1. call'[u] = call[u] /\ (call[u].pc # "idle" => call[u].image \in Images)
      BY <1>7, <2>1, <2>3 DEF Knows
    <3>2. call[u].pc # "idle" => by_address[call[u].image] \subseteq by_address'[call[u].image]
      BY <1>8, <3>1
    <3>3. call[u].pc = "return" =>
            <<call[u].cat, call[u].code.domain>> \in by_address'[call[u].image]
      BY <2>1, <3>2 DEF Knows
    <3>4. by_domain' = by_domain /\ codes' = codes
      BY <1>2
    <3>5. QED BY <2>1, <3>1, <3>3, <3>4 DEF Knows
  <2>4. QED BY <2>2, <2>3
<1>14. CodesInv'
  BY <1>2, <1>8 DEF IInv, CodesInv
<1>15. AnswerInv'
  BY <1>7 DEF IInv, AnswerInv
<1>16. QED BY <1>9, <1>10, <1>11, <1>12, <1>13, <1>14, <1>15 DEF IInv

\* The end of a call under the lock: the mutex is free again.
LEMMA Unlocked ==
  ASSUME IInv, NEW t \in Threads, call[t].pc \in UnderLock,
         holders' = [holders EXCEPT ![call[t].image] = @ \ {t}],
         call' \in [Threads -> Call],
         \A u \in Threads : u # t => call'[u] = call[u],
         call'[t].pc \notin UnderLock
  PROVE  MutexInv' /\ holders' \in [Images -> SUBSET Threads]
<1> DEFINE i == call[t].image
<1>1. i \in Images
  BY InImage DEF UnderLock
<1>2. /\ holders' \in [Images -> SUBSET Threads]
      /\ holders'[i] = holders[i] \ {t}
      /\ \A j \in Images : j # i => holders'[j] = holders[j]
  BY <1>1 DEF IInv, CodesTypeOK
<1>3. \A u \in Threads : call'[u].pc \in UnderLock => u \in holders'[call'[u].image]
  BY <1>1, <1>2 DEF IInv, MutexInv, CodesTypeOK, Call
<1>4. \A j \in Images : \A u, v \in holders'[j] : u = v
  BY <1>2 DEF IInv, MutexInv
<1>5. \A j \in Images : \A u \in holders'[j] : u \in holders[j] /\ u # t
  BY <1>1, <1>2 DEF IInv, MutexInv
<1>6. \A j \in Images : \A u \in holders'[j] :
        call'[u].image = j /\ call'[u].pc \in UnderLock
  BY <1>2, <1>5 DEF IInv, MutexInv, CodesTypeOK
<1>7. QED BY <1>2, <1>3, <1>4, <1>6 DEF MutexInv

\* The code is returned; its category has been indexed.
LEMMA ReturnInv ==
  ASSUME IInv, NEW t \in Threads, Return(t)
  PROVE  IInv'
<1> DEFINE c == call[t]
           x == [c.code EXCEPT !.cat = c.cat]
<1>1. c \in Call /\ c.pc = "return" /\ c.pc \in UnderLock /\ Knows(t)
  BY DEF Return, IInv, CodesTypeOK, CallInv, UnderLock
<1>2. /\ UNCHANGED <<by_domain, by_address, heap, dead>>
      /\ codes' = codes \cup {x}
      /\ call' = [call EXCEPT ![t] = NoCall]
  BY DEF Return
<1>3. /\ \A u \in Threads : u # t => call'[u] = call[u]
      /\ call' \in [Threads -> Call]
      /\ call'[t].pc = "idle" /\ call'[t].fn = "to_error_code"
  BY <1>1, <1>2, NoCallIs DEF IInv, CodesTypeOK
<1>4. /\ x \in Code /\ x.cat = c.cat /\ x.maker = c.image /\ x.domain = c.code.domain
      /\ <<c.cat, c.code.domain>> \in by_address[c.image] /\ c.fn = "to_error_code"
      /\ c.image \in Images
  BY <1>1 DEF Knows, Call, Code
<1>5. call'[t].pc \notin UnderLock
  BY <1>3 DEF UnderLock
<1>6. MutexInv' /\ holders' \in [Images -> SUBSET Threads]
  BY <1>1, <1>3, <1>5, Unlocked DEF Return
<1>7. CodesTypeOK'
  BY <1>2, <1>3, <1>4, <1>6 DEF IInv, CodesTypeOK
<1>8. TableInv'
  BY <1>2 DEF IInv, TableInv
<1>9. IndexInv'
  <2>1. \A u \in Threads : call[u].pc = "index" => call'[u] = call[u]
    BY <1>1, <1>3
  <2>2. QED BY <1>2, <2>1, IndexKept
<1>10. CallInv'
  BY <1>2, <1>3, <1>4 DEF IInv, CallInv, Knows
<1>11. CodesInv'
  BY <1>2, <1>4, BridgeAssumption DEF IInv, CodesInv
<1>12. AnswerInv'
  BY <1>3 DEF IInv, AnswerInv
<1>13. QED BY <1>6, <1>7, <1>8, <1>9, <1>10, <1>11, <1>12 DEF IInv

\* by_address is searched: a code the image made is found under its own domain, a
\* foreign one is not.
LEMMA LookUpInv ==
  ASSUME IInv, NEW t \in Threads, LookUp(t)
  PROVE  IInv'
<1> DEFINE c == call[t]
           i == c.image
           hits == At(by_address[i], c.code.cat)
<1>1. c \in Call /\ c.pc = "lookup" /\ c.pc \in UnderLock /\ Knows(t) /\ i \in Images
  BY InImage DEF LookUp, IInv, CodesTypeOK, CallInv, UnderLock
<1>2. UNCHANGED <<by_domain, by_address, heap, codes, dead>>
  BY DEF LookUp
<1>3. PICK d \in (IF hits = {} THEN {-1} ELSE hits) :
        call' = [call EXCEPT ![t] = [@ EXCEPT !.pc = "done", !.out = d]]
  BY DEF LookUp
<1>4. by_address[i] \in SUBSET (Nat \X Domains)
  BY <1>1 DEF IInv, CodesTypeOK
<1>5. \A v : v \in hits <=> <<c.code.cat, v>> \in by_address[i]
  BY <1>4, AtEntries, Zenon
<1>6. d \in Int
  <2>1. \A v \in hits : v \in Domains
    <3>1. \A v : <<c.code.cat, v>> \in by_address[i] => v \in Domains
      BY <1>4
    <3>2. QED BY <1>5, <3>1, Zenon
  <2>2. QED BY <1>3, <2>1, BridgeAssumption
<1>7. /\ \A u \in Threads : u # t => call'[u] = call[u]
      /\ call' \in [Threads -> Call]
      /\ call'[t].pc = "done" /\ call'[t].fn = c.fn /\ call'[t].image = i
      /\ call'[t].code = c.code /\ call'[t].out = d
  <2>1. [c EXCEPT !.pc = "done", !.out = d] \in Call
    BY <1>1, <1>6 DEF Call
  <2>2. /\ call'[t] = [c EXCEPT !.pc = "done", !.out = d]
        /\ \A u \in Threads : u # t => call'[u] = call[u]
        /\ call' \in [Threads -> Call]
    BY <1>3, <2>1 DEF IInv, CodesTypeOK
  <2>3. QED BY <1>1, <2>2 DEF Call
<1>8. call'[t].pc \notin UnderLock
  BY <1>7 DEF UnderLock
<1>9. MutexInv' /\ holders' \in [Images -> SUBSET Threads]
  BY <1>1, <1>7, <1>8, Unlocked DEF LookUp
<1>10. CodesTypeOK'
  BY <1>2, <1>7, <1>9 DEF IInv, CodesTypeOK
<1>11. TableInv' /\ CodesInv'
  BY <1>2 DEF IInv, TableInv, CodesInv
<1>12. IndexInv'
  <2>1. \A u \in Threads : call[u].pc = "index" => call'[u] = call[u]
    BY <1>1, <1>7
  <2>2. QED BY <1>2, <2>1, IndexKept
<1>13. CallInv'
  <2> SUFFICES ASSUME NEW u \in Threads
               PROVE  Knows(u)'
    BY DEF CallInv
  <2>1. Knows(u)
    BY DEF IInv, CallInv
  <2>2. CASE u = t
    BY <1>1, <1>2, <1>7, <2>2 DEF Knows
  <2>3. CASE u # t
    BY <1>2, <1>7, <2>1, <2>3 DEF Knows
  <2>4. QED BY <2>2, <2>3
<1>14. AnswerInv'
  <2>1. c.code \in codes
    BY <1>1 DEF Knows
  <2>2. \A e \in by_address[i] : /\ <<e[2], e[1]>> \in by_domain[i]
                               /\ e[1] \in Nat /\ e[1] > 0
    BY <1>1, <1>4 DEF IInv, TableInv
  <2>3. ASSUME c.code.maker = i PROVE d = c.code.domain
    <3>1. <<c.code.cat, c.code.domain>> \in by_address[i]
      BY <1>1, <2>1, <2>3 DEF IInv, CodesInv
    <3>2. <<c.code.cat, d>> \in by_address[i]
      BY <1>3, <1>5, <3>1
    <3>3. <<c.code.domain, c.code.cat>> \in by_domain[i] /\ <<d, c.code.cat>> \in by_domain[i]
      BY <2>2, <3>1, <3>2
    <3>4. QED BY <1>1, <3>3 DEF IInv, TableInv
  <2>4. ASSUME c.code.maker = Foreign PROVE d = -1
    <3>1. c.code.cat = 0
      BY <2>1, <2>4 DEF IInv, CodesInv
    <3>2. \A v : <<c.code.cat, v>> \notin by_address[i]
      <4> SUFFICES ASSUME NEW v, <<c.code.cat, v>> \in by_address[i]
                   PROVE  FALSE
        OBVIOUS
      <4>1. <<c.code.cat, v>>[1] > 0
        BY <2>2
      <4>2. QED BY <3>1, <4>1
    <3>3. hits = {}
      BY <1>5, <3>2, Zenon
    <3>4. QED BY <1>3, <3>3
  <2>5. QED BY <1>7, <2>3, <2>4 DEF IInv, AnswerInv
<1>15. QED BY <1>9, <1>10, <1>11, <1>12, <1>13, <1>14 DEF IInv

\* Every step preserves the invariant.
LEMMA InvStep == IInv /\ [CodesNext]_categories => IInv'
<1> SUFFICES ASSUME IInv, [CodesNext]_categories PROVE IInv'
  OBVIOUS
<1>1. ASSUME NEW t \in Threads, CodesStep(t) PROVE IInv'
  <2>1. ASSUME NEW i \in Images, NEW v \in ErrorValues, NEW d \in Domains,
               ToErrorCode(t, i, v, d)
        PROVE  IInv'
    BY <2>1, ToErrorCodeInv
  <2>2. ASSUME NEW i \in Images, NEW fn \in {"from_error_code", "is_jmpxx"},
               NEW c \in codes, Inspect(t, i, fn, c)
        PROVE  IInv'
    BY <2>2, InspectInv
  <2>3. ASSUME OutOfMemory(t) PROVE IInv'
    <3>1. UNCHANGED <<by_domain, by_address, holders, heap, codes, call>> /\ dead' = TRUE
      BY <2>3 DEF OutOfMemory
    <3>2. CodesTypeOK'
      BY <3>1 DEF IInv, CodesTypeOK
    <3>3. MutexInv' /\ TableInv' /\ IndexInv'
      BY <3>1, IndexKept DEF IInv, MutexInv, TableInv
    <3>4. CallInv' /\ CodesInv' /\ AnswerInv'
      BY <3>1 DEF IInv, CallInv, Knows, CodesInv, AnswerInv
    <3>5. QED BY <3>2, <3>3, <3>4 DEF IInv
  <2>4. QED BY <1>1, <2>1, <2>2, <2>3, LockInv, FindInv, EmplaceInv, IndexStepInv,
               ReturnInv, LookUpInv, AnsweredInv DEF CodesStep
<1>2. ASSUME UNCHANGED categories PROVE IInv'
  <2>1. UNCHANGED <<by_domain, by_address, holders, heap, codes, call, dead>>
    BY <1>2 DEF categories
  <2>2. CodesTypeOK' /\ MutexInv' /\ TableInv'
    BY <2>1 DEF IInv, CodesTypeOK, MutexInv, TableInv
  <2>3. IndexInv'
    BY <2>1, IndexKept
  <2>4. CallInv' /\ CodesInv' /\ AnswerInv'
    BY <2>1 DEF IInv, CallInv, Knows, CodesInv, AnswerInv
  <2>5. QED BY <2>2, <2>3, <2>4 DEF IInv
<1>3. QED BY <1>1, <1>2 DEF CodesNext

-----------------------------------------------------------------------------
\* The invariant holds in every reachable state.
THEOREM Invariance == CodesSpec => []IInv
<1>1. CodesInit => IInv
  BY InvInit
<1>2. IInv /\ [CodesNext]_categories => IInv'
  BY InvStep
<1>3. QED BY <1>1, <1>2, PTL DEF CodesSpec

\* MapsGuarded for every instance: no two threads touch the maps of one table at
\* the same time, on any path through get and domain_of, and on every path the
\* mutex is given back.
THEOREM TablesAreGuarded == CodesSpec => []MapsGuarded
<1>1. IInv => MapsGuarded
  <2> SUFFICES ASSUME IInv PROVE MapsGuarded
    OBVIOUS
  <2>1. \A t \in Threads : call[t].pc \in UnderLock => call[t].image \in Images
    BY InImage DEF UnderLock
  <2>2. QED BY <2>1 DEF IInv, MutexInv, MapsGuarded
<1>2. QED BY <1>1, Invariance, PTL

\* CodesFaithful for every instance: codes one image makes are equal exactly if the
\* errors are, for every domain, negative ones included.
THEOREM CodesAreFaithful == CodesSpec => []CodesFaithful
<1>1. ASSUME IInv PROVE CodesFaithful
  <2> SUFFICES ASSUME NEW c \in codes, NEW d \in codes, c.maker = d.maker
               PROVE  c.cat = d.cat <=> c.domain = d.domain
    BY DEF CodesFaithful
  <2>1. CASE c.maker = Foreign
    BY <1>1, <2>1 DEF IInv, CodesInv
  <2>2. CASE c.maker \in Images
    <3>1. /\ <<c.domain, c.cat>> \in by_domain[c.maker]
          /\ <<d.domain, d.cat>> \in by_domain[c.maker]
      BY <1>1, <2>2 DEF IInv, CodesInv, TableInv
    <3>2. QED BY <1>1, <2>2, <3>1 DEF IInv, TableInv
  <2>3. QED BY <1>1, <2>1, <2>2 DEF IInv, CodesTypeOK, Code
<1>2. QED BY <1>1, Invariance, PTL

\* RoundTrip for every instance without negative domains: whoever exposed the error,
\* and whatever other threads do meanwhile, from_error_code in the same image gives
\* it back.  With a negative domain it does not (run bridge_negative).
THEOREM RoundTripsIfNonNegative ==
  ASSUME Domains \subseteq Nat
  PROVE  CodesSpec => []RoundTrip
<1>1. ASSUME IInv PROVE RoundTrip
  <2> SUFFICES ASSUME NEW t \in Threads, call[t].pc = "done"
               PROVE  LET c == call[t].code
                          out == call[t].out
                      IN  /\ c.maker = call[t].image =>
                               is_jmpxx(out) /\ from_error_code(c, out) = <<c.value, c.domain>>
                          /\ c.maker = Foreign =>
                               ~is_jmpxx(out) /\ from_error_code(c, out) = <<c.value, 0>>
    BY DEF RoundTrip
  <2> DEFINE c == call[t].code
  <2>1. /\ c.maker = call[t].image => call[t].out = c.domain
        /\ c.maker = Foreign => call[t].out = -1
    BY <1>1 DEF IInv, AnswerInv
  <2>2. ASSUME c.maker = call[t].image PROVE c.domain \in Nat
    <3>1. c \in codes /\ call[t].image \in Images
      BY <1>1 DEF IInv, CallInv, Knows, CodesTypeOK, Call
    <3>2. <<c.cat, c.domain>> \in by_address[c.maker]
      BY <1>1, <2>2, <3>1 DEF IInv, CodesInv
    <3>3. c.domain \in Domains
      BY <1>1, <2>2, <3>1, <3>2 DEF IInv, CodesTypeOK
    <3>4. QED BY <3>3
  <2>3. QED BY <2>1, <2>2 DEF is_jmpxx, from_error_code
<1>2. QED BY <1>1, Invariance, PTL
=============================================================================
