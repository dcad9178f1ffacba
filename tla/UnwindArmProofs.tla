-------------------------- MODULE UnwindArmProofs --------------------------
(***************************************************************************)
(* Proofs about UnwindArm for every program, every stack depth and every   *)
(* runtime: active() is the innermost scope, escape_in_flight() is exact,  *)
(* no destructor is skipped where the design document says none is, no     *)
(* scope reports success over an undelivered escape, and the arm           *)
(* implements EscapeContract.                                              *)
(***************************************************************************)
EXTENDS UnwindArm, SequenceTheorems, TLAPS

-----------------------------------------------------------------------------
(* The inductive invariant.                                                 *)

\* a is the innermost scope among the frames 1..n of S, 0 if there is none.
InnermostIn(S, n, a) ==
  /\ a \in 0..n
  /\ a # 0 => S[a].kind = "scope"
  /\ \A i \in 1..n : S[i].kind = "scope" => i <= a

\* What a frame's kind says of it: a scope holds its carrier, no objects and no
\* handler; a destructor is noexcept and interrupts an unwind.
FrameInv(f) ==
  /\ f.low <= f.cfa
  /\ f.kind = "scope" => /\ f.guard = "none" /\ f.objs = 0 /\ f.resume = "run"
                         /\ f.tag \in Tags
                         /\ f.low <= f.car /\ f.car < f.cfa
  /\ f.kind = "dtor" => f.guard = "noexcept" /\ f.resume # "run"
  /\ f.kind = "call" => f.resume = "run"

\* Frames occupy descending addresses, run_body's frame is above escape_scope's,
\* and every carrier remembers the innermost scope below its own.
Descending(S) ==
  \A i, j \in 1..Len(S) : i < j => S[j].cfa <= S[i].low
BodyAbove(S) ==
  \A i \in 1..Len(S) : i < Len(S) /\ S[i].kind = "scope" => S[i + 1].kind = "call"
Linked(S) ==
  \A i \in 1..Len(S) : S[i].kind = "scope" => InnermostIn(S, i - 1, S[i].prev)

StackInv(S) ==
  /\ S \in Seq(Frame)
  /\ Len(S) >= 1
  /\ S[1].kind = "call"
  /\ \A i \in 1..Len(S) : FrameInv(S[i])
  /\ Descending(S)
  /\ BodyAbove(S)
  /\ Linked(S)

\* The scope an escape is aimed at is on the stack and its carrier filled.
Aimed(S, e) ==
  /\ e.to \in 1..Len(S)
  /\ S[e.to].kind = "scope"
  /\ S[e.to].ejected
  /\ S[e.to].error = e.err
  /\ S[e.to].car = e.marker

\* Some frame of S is a destructor an escape has called and will resume it.
Interrupts(S, i) == S[i].resume = "forced"
Escaping(S, m) == m = "forced" \/ \E i \in 1..Len(S) : Interrupts(S, i)

\* An escape e aimed at a scope is recorded in flight; while it unwinds, or runs
\* its one destructor at a time, no scope lies between it and its target.
EscapeIn(S, m, a, fl, e) ==
  /\ e.to = 0 => e = NoEscape
  /\ e.to # 0 => fl /\ Aimed(S, e)
  /\ m = "forced" =>
       /\ e.to # 0 /\ a = e.to
       /\ \A i \in 1..Len(S) : ~Interrupts(S, i)
  /\ \A i \in 1..Len(S) : Interrupts(S, i) =>
       /\ e.to # 0
       /\ InnermostIn(S, i - 1, e.to)
       /\ \A j \in 1..Len(S) : Interrupts(S, j) => j = i

FlightIn(S, m, fl, rt) ==
  m # "dead" => /\ Escaping(S, m) => fl
                /\ fl /\ rt # "wasm" => Escaping(S, m)

\* What relates the stack S, the mode m, active() = a, escape_in_flight() = fl and
\* the escape e under runtime rt.
ArmInv(S, m, a, fl, e, rt) ==
  /\ StackInv(S)
  /\ InnermostIn(S, Len(S), a)
  /\ m = "run" => S[Len(S)].kind # "scope"
  /\ EscapeIn(S, m, a, fl, e)
  /\ FlightIn(S, m, fl, rt)

IInv == TypeOK /\ ArmInv(stack, mode, active, in_flight, escape, runtime)

-----------------------------------------------------------------------------
(* Stacks.                                                                  *)

\* The frames that stay when the stack is cut to n frames.
LEMMA CutIs ==
  ASSUME NEW S \in Seq(Frame), NEW n \in 0..Len(S)
  PROVE  /\ SubSeq(S, 1, n) \in Seq(Frame)
         /\ Len(SubSeq(S, 1, n)) = n
         /\ \A i \in 1..n : SubSeq(S, 1, n)[i] = S[i]
<1>1. Len(S) \in Nat /\ \A i \in 1..n : S[i] \in Frame
  BY LenProperties, ElementOfSeq
<1>2. QED BY <1>1, SubSeqProperties

\* The frames below the top are untouched by a push.
LEMMA PushIs ==
  ASSUME NEW S \in Seq(Frame), NEW f \in Frame
  PROVE  /\ Append(S, f) \in Seq(Frame)
         /\ Len(Append(S, f)) = Len(S) + 1
         /\ \A i \in 1..Len(S) : Append(S, f)[i] = S[i]
         /\ Append(S, f)[Len(S) + 1] = f
BY AppendProperties

\* Two stacks that agree up to n have the same innermost scope there.
LEMMA InnermostAgrees ==
  ASSUME NEW S, NEW T, NEW n \in Nat, NEW a,
         \A i \in 1..n : T[i].kind = S[i].kind,
         InnermostIn(S, n, a)
  PROVE  InnermostIn(T, n, a)
BY DEF InnermostIn

\* Cutting a stack leaves a well-formed one.
LEMMA CutInv ==
  ASSUME NEW S, StackInv(S), NEW n \in 1..Len(S)
  PROVE  /\ StackInv(SubSeq(S, 1, n))
         /\ Len(SubSeq(S, 1, n)) = n
         /\ \A i \in 1..n : SubSeq(S, 1, n)[i] = S[i]
<1> DEFINE T == SubSeq(S, 1, n)
<1>1. S \in Seq(Frame) /\ Len(S) \in Nat
  BY LenProperties DEF StackInv
<1>2. T \in Seq(Frame) /\ Len(T) = n /\ \A i \in 1..n : T[i] = S[i]
  BY <1>1, CutIs
<1> HIDE DEF T
<1>3. n >= 1 /\ n <= Len(S) /\ n \in Nat
  BY <1>1
<1>4. T[1].kind = "call" /\ \A i \in 1..Len(T) : FrameInv(T[i])
  BY <1>1, <1>2, <1>3 DEF StackInv
<1>5. Descending(T)
  BY <1>1, <1>2, <1>3 DEF StackInv, Descending
<1>6. BodyAbove(T)
  BY <1>1, <1>2, <1>3 DEF StackInv, BodyAbove
<1>7. Linked(T)
  <2> SUFFICES ASSUME NEW i \in 1..n, T[i].kind = "scope"
               PROVE  InnermostIn(T, i - 1, T[i].prev)
    BY <1>2 DEF Linked
  <2>1. InnermostIn(S, i - 1, T[i].prev)
    BY <1>1, <1>2, <1>3 DEF StackInv, Linked
  <2>2. QED BY <2>1, <1>2, <1>3, InnermostAgrees
<1>8. QED BY <1>2, <1>3, <1>4, <1>5, <1>6, <1>7 DEF StackInv, T

\* Pushing a frame below the top one's addresses leaves a well-formed stack.
LEMMA PushInv ==
  ASSUME NEW S, StackInv(S), NEW f \in Frame, FrameInv(f),
         f.cfa = S[Len(S)].low,
         S[Len(S)].kind = "scope" => f.kind = "call",
         f.kind = "scope" => InnermostIn(S, Len(S), f.prev)
  PROVE  StackInv(Append(S, f))
<1> DEFINE T == Append(S, f)
           n == Len(S)
<1>1. S \in Seq(Frame) /\ n \in Nat /\ n >= 1
  BY LenProperties DEF StackInv
<1>2. T \in Seq(Frame) /\ Len(T) = n + 1 /\ T[n + 1] = f
      /\ \A i \in 1..n : T[i] = S[i]
  BY <1>1, PushIs
<1> HIDE DEF T, n
<1>3. \A i \in 1..n : FrameInv(S[i]) /\ S[i] \in Frame
  BY <1>1, ElementOfSeq DEF StackInv, n
<1>4. T[1].kind = "call"
  BY <1>1, <1>2 DEF StackInv
<1>5. \A i \in 1..Len(T) : FrameInv(T[i])
  BY <1>1, <1>2, <1>3
<1>6. Descending(T)
  <2>1. \A i \in 1..n : S[n].low <= S[i].low
    <3>1. \A i \in 1..n : i < n => S[n].cfa <= S[i].low
      BY <1>1 DEF StackInv, Descending, n
    <3>2. S[n].low <= S[n].cfa
      BY <1>1, <1>3 DEF FrameInv
    <3>3. \A i \in 1..n : S[i].low \in Int /\ S[i].cfa \in Int
      BY <1>3 DEF Frame
    <3>4. QED BY <1>1, <3>1, <3>2, <3>3
  <2>2. \A i, j \in 1..n : i < j => S[j].cfa <= S[i].low
    BY DEF StackInv, Descending, n
  <2>3. QED BY <1>1, <1>2, <2>1, <2>2 DEF Descending, n
<1>7. BodyAbove(T)
  <2>1. \A i \in 1..n : i < n /\ S[i].kind = "scope" => S[i + 1].kind = "call"
    BY DEF StackInv, BodyAbove, n
  <2>2. S[n].kind = "scope" => f.kind = "call"
    BY DEF n
  <2>3. QED BY <1>1, <1>2, <2>1, <2>2 DEF BodyAbove
<1>8. Linked(T)
  <2> SUFFICES ASSUME NEW i \in 1..(n + 1), T[i].kind = "scope"
               PROVE  InnermostIn(T, i - 1, T[i].prev)
    BY <1>2 DEF Linked
  <2>1. CASE i = n + 1
    BY <1>1, <1>2, <2>1, InnermostAgrees DEF n
  <2>2. CASE i # n + 1
    <3>1. i \in 1..n
      BY <1>1, <2>2
    <3>2. InnermostIn(S, i - 1, T[i].prev)
      BY <1>2, <3>1 DEF StackInv, Linked, n
    <3>3. QED BY <1>1, <1>2, <3>1, <3>2, InnermostAgrees
  <2>3. QED BY <2>1, <2>2
<1>9. QED BY <1>1, <1>2, <1>4, <1>5, <1>6, <1>7, <1>8 DEF StackInv, T

\* Replacing a frame by one of the same kind, place and link.
LEMMA PatchInv ==
  ASSUME NEW S, StackInv(S), NEW k \in 1..Len(S), NEW f \in Frame, FrameInv(f),
         f.kind = S[k].kind, f.cfa = S[k].cfa, f.low = S[k].low,
         f.prev = S[k].prev
  PROVE  /\ StackInv([S EXCEPT ![k] = f])
         /\ Len([S EXCEPT ![k] = f]) = Len(S)
         /\ \A i \in 1..Len(S) : [S EXCEPT ![k] = f][i] = IF i = k THEN f ELSE S[i]
<1> DEFINE T == [S EXCEPT ![k] = f]
           n == Len(S)
<1>1. S \in Seq(Frame) /\ n \in Nat /\ n >= 1
  BY LenProperties DEF StackInv
<1>2. T \in Seq(Frame) /\ Len(T) = n
      /\ \A i \in 1..n : T[i] = IF i = k THEN f ELSE S[i]
  BY <1>1, ExceptSeq
<1> HIDE DEF T
<1>3. \A i \in 1..n : /\ T[i].kind = S[i].kind /\ T[i].cfa = S[i].cfa
                      /\ T[i].low = S[i].low /\ T[i].prev = S[i].prev
  BY <1>2
<1>4. T[1].kind = "call"
  BY <1>1, <1>3 DEF StackInv
<1>5. \A i \in 1..n : FrameInv(T[i])
  BY <1>2 DEF StackInv
<1>6. Descending(T)
  BY <1>2, <1>3 DEF StackInv, Descending
<1>7. BodyAbove(T)
  BY <1>1, <1>2, <1>3 DEF StackInv, BodyAbove
<1>8. Linked(T)
  <2> SUFFICES ASSUME NEW i \in 1..n, T[i].kind = "scope"
               PROVE  InnermostIn(T, i - 1, T[i].prev)
    BY <1>2 DEF Linked
  <2>1. InnermostIn(S, i - 1, T[i].prev)
    BY <1>3 DEF StackInv, Linked
  <2>2. QED BY <1>1, <1>3, <2>1, InnermostAgrees
<1>9. QED BY <1>1, <1>2, <1>4, <1>5, <1>6, <1>7, <1>8 DEF StackInv, T

\* What the frame of a function looks like.
LEMMA CallFrameIs ==
  ASSUME NEW low \in Int, NEW kind \in {"call", "scope", "dtor"},
         NEW guard \in AllGuards, NEW resume \in {"run", "forced", "throw"}
  PROVE  LET f == CallFrame(low, kind, guard, resume)
         IN  /\ f \in Frame
             /\ f.kind = kind /\ f.guard = guard /\ f.resume = resume
             /\ f.objs = 0
             /\ f.cfa = low
             /\ f.low = low - FrameSize /\ f.low <= low /\ f.low \in Int
BY ArmAssumption DEF CallFrame, Frame

\* The frame of escape_scope, with the carrier inside it.
LEMMA ScopeFrameIs ==
  ASSUME NEW low \in Int, NEW tag \in Tags, NEW off \in 0..(FrameSize - 1),
         active \in Nat
  PROVE  LET f == ScopeFrame(low, tag, off)
         IN  /\ f \in Frame /\ FrameInv(f)
             /\ f.kind = "scope" /\ f.tag = tag /\ f.prev = active
             /\ f.resume = "run"
             /\ f.cfa = low /\ f.low \in Int
<1> DEFINE c == CallFrame(low, "scope", "none", "run")
           place == low - FrameSize + off
           f == [c EXCEPT !.car = place, !.prev = active, !.tag = tag]
<1>1. FrameSize \in Nat /\ FrameSize > 0 /\ off \in Nat /\ off < FrameSize
  BY ArmAssumption
<1>2. place \in Int /\ low - FrameSize <= place /\ place < low
  BY <1>1
<1>3. /\ c \in Frame /\ c.kind = "scope" /\ c.guard = "none"
      /\ c.resume = "run" /\ c.objs = 0 /\ c.cfa = low
      /\ c.low = low - FrameSize /\ c.low <= low /\ c.low \in Int
  BY CallFrameIs DEF AllGuards
<1>4. ScopeFrame(low, tag, off) = f
  BY DEF ScopeFrame
<1> HIDE DEF c, place
<1>5. /\ f \in Frame
      /\ f.car = place /\ f.prev = active /\ f.tag = tag
      /\ f.kind = c.kind /\ f.guard = c.guard /\ f.objs = c.objs
      /\ f.resume = c.resume /\ f.cfa = c.cfa /\ f.low = c.low
  BY <1>2, <1>3 DEF Frame
<1> HIDE DEF f
<1>6. FrameInv(f)
  BY <1>2, <1>3, <1>5 DEF FrameInv
<1>7. QED BY <1>3, <1>4, <1>5, <1>6

-----------------------------------------------------------------------------
(* What the elementary changes of the stack do to ArmInv.                   *)

\* Facts every lemma below starts from.
LEMMA ArmBasics ==
  ASSUME NEW S, StackInv(S)
  PROVE  /\ S \in Seq(Frame) /\ Len(S) \in Nat /\ Len(S) >= 1
         /\ S[1].kind = "call"
         /\ \A i \in 1..Len(S) :
              /\ S[i] \in Frame /\ FrameInv(S[i])
              /\ S[i].kind = "scope" => i > 1 /\ S[i - 1].kind # "scope"
                                       /\ S[i].resume = "run"
<1>1. S \in Seq(Frame) /\ Len(S) \in Nat /\ Len(S) >= 1 /\ S[1].kind = "call"
  BY LenProperties DEF StackInv
<1>2. \A i \in 1..Len(S) : S[i] \in Frame /\ FrameInv(S[i])
  BY <1>1, ElementOfSeq DEF StackInv
<1>3. ASSUME NEW i \in 1..Len(S), S[i].kind = "scope"
      PROVE  i > 1 /\ S[i - 1].kind # "scope" /\ S[i].resume = "run"
  <2>1. i > 1
    BY <1>1, <1>3
  <2>2. i - 1 \in 1..Len(S) /\ i - 1 < Len(S) /\ (i - 1) + 1 = i
    BY <1>1, <2>1
  <2>3. S[i - 1].kind = "scope" => S[i].kind = "call"
    BY <2>2 DEF StackInv, BodyAbove
  <2>4. QED BY <1>2, <1>3, <2>1, <2>3 DEF FrameInv
<1>4. QED BY <1>1, <1>2, <1>3

\* An aimed escape stays aimed when its target's frame keeps what it records.
LEMMA AimedAgrees ==
  ASSUME NEW S, NEW T, NEW e, Aimed(S, e), Len(T) \in Nat, e.to <= Len(T),
         T[e.to].kind = S[e.to].kind, T[e.to].ejected = S[e.to].ejected,
         T[e.to].error = S[e.to].error, T[e.to].car = S[e.to].car,
         Len(S) \in Nat
  PROVE  Aimed(T, e)
BY DEF Aimed

\* A function or a destructor is called: its frame records the mode it interrupts.
LEMMA PushArm ==
  ASSUME NEW S, NEW m \in {"run", "forced", "throw"}, NEW a, NEW fl, NEW e, NEW rt,
         ArmInv(S, m, a, fl, e, rt),
         NEW f \in Frame, FrameInv(f), f.kind # "scope",
         f.cfa = S[Len(S)].low, f.resume = m,
         S[Len(S)].kind # "scope"
  PROVE  ArmInv(Append(S, f), "run", a, fl, e, rt)
<1> DEFINE T == Append(S, f)
           n == Len(S)
<1>1. StackInv(S) /\ InnermostIn(S, n, a) /\ EscapeIn(S, m, a, fl, e)
      /\ FlightIn(S, m, fl, rt)
  BY DEF ArmInv
<1>2. S \in Seq(Frame) /\ n \in Nat /\ n >= 1
  BY <1>1, ArmBasics
<1>3. T \in Seq(Frame) /\ Len(T) = n + 1 /\ T[n + 1] = f
      /\ \A i \in 1..n : T[i] = S[i]
  BY <1>2, PushIs
<1>4. StackInv(T)
  BY <1>1, PushInv
<1> HIDE DEF T, n
<1>5. InnermostIn(T, n + 1, a)
  BY <1>1, <1>2, <1>3 DEF InnermostIn
<1>6. \A i \in 1..(n + 1) : Interrupts(T, i) <=>
        (i \in 1..n /\ Interrupts(S, i)) \/ (i = n + 1 /\ m = "forced")
  BY <1>2, <1>3 DEF Interrupts
<1>7. Escaping(T, "run") <=> Escaping(S, m)
  BY <1>2, <1>3, <1>6 DEF Escaping, n
<1>8. EscapeIn(T, "run", a, fl, e)
  <2>1. e.to = 0 => e = NoEscape
    BY <1>1 DEF EscapeIn
  <2>2. e.to # 0 => fl /\ Aimed(T, e)
    <3> SUFFICES ASSUME e.to # 0 PROVE fl /\ Aimed(T, e)
      OBVIOUS
    <3>1. fl /\ Aimed(S, e)
      BY <1>1 DEF EscapeIn
    <3>2. e.to \in 1..n
      BY <3>1 DEF Aimed, n
    <3>3. QED BY <1>2, <1>3, <3>1, <3>2, AimedAgrees DEF n
  <2>3. ASSUME NEW i \in 1..(n + 1), Interrupts(T, i)
        PROVE  /\ e.to # 0
               /\ InnermostIn(T, i - 1, e.to)
               /\ \A j \in 1..(n + 1) : Interrupts(T, j) => j = i
    <3>1. CASE m = "forced"
      <4>1. /\ e.to # 0 /\ a = e.to
            /\ \A j \in 1..n : ~Interrupts(S, j)
        BY <1>1, <3>1 DEF EscapeIn, n
      <4>2. i = n + 1 /\ \A j \in 1..(n + 1) : Interrupts(T, j) => j = i
        BY <1>6, <2>3, <4>1
      <4>3. InnermostIn(S, n, e.to)
        BY <1>1, <4>1
      <4>4. InnermostIn(T, n, e.to)
        BY <1>2, <1>3, <4>3, InnermostAgrees
      <4>5. QED BY <1>2, <4>1, <4>2, <4>4
    <3>2. CASE m # "forced"
      <4>1. i \in 1..n /\ Interrupts(S, i)
        BY <1>6, <2>3, <3>2
      <4>2. /\ e.to # 0 /\ InnermostIn(S, i - 1, e.to)
            /\ \A j \in 1..n : Interrupts(S, j) => j = i
        BY <1>1, <4>1 DEF EscapeIn, n
      <4>3. InnermostIn(T, i - 1, e.to)
        BY <1>2, <1>3, <4>1, <4>2, InnermostAgrees
      <4>4. QED BY <1>6, <3>2, <4>2, <4>3
    <3>3. QED BY <3>1, <3>2
  <2>4. QED BY <1>3, <2>1, <2>2, <2>3 DEF EscapeIn
<1>9. FlightIn(T, "run", fl, rt)
  BY <1>1, <1>7 DEF FlightIn
<1>10. T[Len(T)].kind # "scope"
  BY <1>3
<1>11. QED BY <1>3, <1>4, <1>5, <1>8, <1>9, <1>10 DEF ArmInv, T

\* A frame changes in what the arm does not look at: its objects.
LEMMA PatchArm ==
  ASSUME NEW S, NEW m, NEW a, NEW fl, NEW e, NEW rt,
         ArmInv(S, m, a, fl, e, rt),
         NEW k \in 1..Len(S), NEW f \in Frame, FrameInv(f),
         f.kind = S[k].kind, f.cfa = S[k].cfa, f.low = S[k].low,
         f.prev = S[k].prev, f.resume = S[k].resume, f.ejected = S[k].ejected,
         f.error = S[k].error, f.car = S[k].car
  PROVE  ArmInv([S EXCEPT ![k] = f], m, a, fl, e, rt)
<1> DEFINE T == [S EXCEPT ![k] = f]
           n == Len(S)
<1>1. StackInv(S) /\ InnermostIn(S, n, a) /\ EscapeIn(S, m, a, fl, e)
      /\ FlightIn(S, m, fl, rt)
  BY DEF ArmInv
<1>2. S \in Seq(Frame) /\ n \in Nat /\ n >= 1
  BY <1>1, ArmBasics
<1>3. StackInv(T) /\ Len(T) = n
      /\ \A i \in 1..n : T[i] = IF i = k THEN f ELSE S[i]
  BY <1>1, PatchInv
<1> HIDE DEF T
<1>4. \A i \in 1..n : /\ T[i].kind = S[i].kind /\ T[i].resume = S[i].resume
                      /\ T[i].ejected = S[i].ejected /\ T[i].error = S[i].error
                      /\ T[i].car = S[i].car
  BY <1>3
<1>5. InnermostIn(T, n, a)
  BY <1>1, <1>2, <1>4, InnermostAgrees
<1>6. \A i \in 1..n : Interrupts(T, i) <=> Interrupts(S, i)
  BY <1>4 DEF Interrupts
<1>7. FlightIn(T, m, fl, rt)
  BY <1>1, <1>3, <1>6 DEF FlightIn, Escaping
<1>8. EscapeIn(T, m, a, fl, e)
  <2>1. e.to # 0 => fl /\ Aimed(T, e)
    <3> SUFFICES ASSUME e.to # 0 PROVE fl /\ Aimed(T, e)
      OBVIOUS
    <3>1. fl /\ Aimed(S, e)
      BY <1>1 DEF EscapeIn
    <3>2. e.to \in 1..n
      BY <3>1 DEF Aimed
    <3> HIDE DEF n
    <3>3. QED BY <1>2, <1>3, <1>4, <3>1, <3>2, AimedAgrees DEF n
  <2>2. \A i \in 1..n : InnermostIn(S, i - 1, e.to) => InnermostIn(T, i - 1, e.to)
    BY <1>2, <1>4, InnermostAgrees
  <2>3. QED BY <1>1, <1>3, <1>6, <2>1, <2>2 DEF EscapeIn
<1>9. T[Len(T)].kind = S[n].kind
  BY <1>2, <1>3, <1>4
<1>10. QED BY <1>1, <1>3, <1>5, <1>7, <1>8, <1>9 DEF ArmInv, T

\* The top frame, not a scope's, is left: by a return, by a destructor's return to
\* the unwind it interrupted, by an unwind that goes on, or, on WebAssembly, by an
\* escape that a handler has replaced by an exception.
LEMMA PopArm ==
  ASSUME NEW S, NEW m \in {"run", "forced", "throw"}, NEW a, NEW fl, NEW e, NEW rt,
         ArmInv(S, m, a, fl, e, rt),
         NEW k \in {"run", "forced", "throw"},
         Len(S) > 1, S[Len(S)].kind # "scope",
         k = "run" => S[Len(S) - 1].kind # "scope",
         \/ m = k /\ (m = "forced" \/ S[Len(S)].resume = "run")
         \/ m = "run" /\ k = S[Len(S)].resume
         \/ m = "forced" /\ k = "throw" /\ rt = "wasm"
  PROVE  ArmInv(SubSeq(S, 1, Len(S) - 1), k, a, fl, e, rt)
<1> DEFINE n == Len(S)
           T == SubSeq(S, 1, n - 1)
<1>1. StackInv(S) /\ InnermostIn(S, n, a) /\ EscapeIn(S, m, a, fl, e)
      /\ FlightIn(S, m, fl, rt)
  BY DEF ArmInv
<1>2. S \in Seq(Frame) /\ n \in Nat /\ n > 1 /\ n - 1 \in 1..n
  BY <1>1, ArmBasics
<1>3. StackInv(T) /\ Len(T) = n - 1 /\ \A i \in 1..(n - 1) : T[i] = S[i]
  BY <1>1, <1>2, CutInv
<1>4. /\ S[n].kind # "scope"
      /\ k = "run" => S[n - 1].kind # "scope"
      /\ \/ m = k /\ (m = "forced" \/ S[n].resume = "run")
         \/ m = "run" /\ k = S[n].resume
         \/ m = "forced" /\ k = "throw" /\ rt = "wasm"
  OBVIOUS
<1> HIDE DEF T
<1>5. InnermostIn(T, n - 1, a) /\ a \in 0..(n - 1)
  BY <1>1, <1>2, <1>3, <1>4 DEF InnermostIn
<1>6. \A i \in 1..(n - 1) : Interrupts(T, i) <=> Interrupts(S, i)
  BY <1>3 DEF Interrupts
<1>7. /\ m = "forced" => e.to # 0 /\ a = e.to /\ \A i \in 1..n : ~Interrupts(S, i)
      /\ \A i \in 1..n : Interrupts(S, i) =>
           /\ e.to # 0
           /\ InnermostIn(S, i - 1, e.to)
           /\ \A j \in 1..n : Interrupts(S, j) => j = i
      /\ e.to = 0 => e = NoEscape
      /\ e.to # 0 => fl /\ Aimed(S, e)
  BY <1>1 DEF EscapeIn
<1> HIDE DEF n
<1>8. k = "forced" => /\ e.to # 0 /\ a = e.to
                      /\ \A i \in 1..(n - 1) : ~Interrupts(T, i)
  <2> SUFFICES ASSUME k = "forced"
               PROVE  /\ e.to # 0 /\ a = e.to
                      /\ \A i \in 1..(n - 1) : ~Interrupts(T, i)
    OBVIOUS
  <2>1. CASE m = "forced"
    BY <1>2, <1>6, <1>7, <2>1
  <2>2. CASE m # "forced"
    <3>1. Interrupts(S, n)
      BY <1>4, <2>2 DEF Interrupts
    <3>2. e.to # 0 /\ InnermostIn(S, n - 1, e.to)
          /\ \A j \in 1..n : Interrupts(S, j) => j = n
      BY <1>2, <1>7, <3>1
    <3>3. a = e.to
      BY <1>1, <1>2, <1>4, <3>2 DEF InnermostIn
    <3>4. QED BY <1>2, <1>6, <3>2, <3>3
  <2>3. QED BY <2>1, <2>2
<1>9. ASSUME NEW i \in 1..(n - 1), Interrupts(T, i)
      PROVE  /\ e.to # 0
             /\ InnermostIn(T, i - 1, e.to)
             /\ \A j \in 1..(n - 1) : Interrupts(T, j) => j = i
  <2>1. i \in 1..n /\ Interrupts(S, i)
    BY <1>2, <1>6, <1>9
  <2>2. InnermostIn(T, i - 1, e.to)
    <3>1. InnermostIn(S, i - 1, e.to)
      BY <1>7, <2>1
    <3>2. i - 1 \in Nat /\ \A j \in 1..(i - 1) : T[j].kind = S[j].kind
      BY <1>2, <1>3
    <3>3. QED BY <3>1, <3>2, InnermostAgrees
  <2>3. QED BY <1>2, <1>6, <1>7, <2>1, <2>2
<1>10. e.to # 0 => fl /\ Aimed(T, e)
  <2> SUFFICES ASSUME e.to # 0 PROVE fl /\ Aimed(T, e)
    OBVIOUS
  <2>1. fl /\ Aimed(S, e)
    BY <1>7
  <2>2. e.to \in 1..(n - 1)
    BY <1>2, <1>4, <2>1 DEF Aimed, n
  <2>3. QED BY <1>2, <1>3, <2>1, <2>2, AimedAgrees DEF n
<1>11. EscapeIn(T, k, a, fl, e)
  BY <1>3, <1>7, <1>8, <1>9, <1>10 DEF EscapeIn
<1>12. FlightIn(T, k, fl, rt)
  <2>1. Escaping(T, k) => Escaping(S, m)
    <3>1. CASE k = "forced"
      BY <1>2, <1>4, <3>1 DEF Escaping, Interrupts, n
    <3>2. CASE \E i \in 1..(n - 1) : Interrupts(T, i)
      BY <1>2, <1>6, <3>2 DEF Escaping, n
    <3>3. QED BY <1>3, <3>1, <3>2 DEF Escaping
  <2>2. Escaping(S, m) => Escaping(T, k) \/ rt = "wasm"
    <3>1. CASE m = "forced"
      BY <1>4, <3>1 DEF Escaping
    <3>2. CASE m # "forced"
      <4> SUFFICES ASSUME NEW i \in 1..n, Interrupts(S, i)
                   PROVE  Escaping(T, k)
        BY <3>2 DEF Escaping, n
      <4>1. CASE i = n
        BY <1>4, <3>2, <4>1 DEF Escaping, Interrupts
      <4>2. CASE i # n
        BY <1>2, <1>3, <1>6, <4>2 DEF Escaping
      <4>3. QED BY <4>1, <4>2
    <3>3. QED BY <3>1, <3>2
  <2>3. QED BY <1>1, <2>1, <2>2 DEF FlightIn
<1>13. k = "run" => T[Len(T)].kind # "scope"
  BY <1>2, <1>3, <1>4
<1>14. QED BY <1>3, <1>5, <1>11, <1>12, <1>13 DEF ArmInv, T, n

\* A scope k ends, with everything above it: escape_scope returns or is left, and
\* its carrier gives active() back to the enclosing one.  No destructor of an
\* escape is above it; if the escape was aimed at it, the escape ends too.
LEMMA CloseArm ==
  ASSUME NEW S, NEW m \in {"run", "forced", "throw"}, NEW a, NEW fl, NEW e, NEW rt,
         ArmInv(S, m, a, fl, e, rt),
         NEW k \in 1..Len(S), S[k].kind = "scope",
         \A i \in 1..Len(S) : i > k => S[i].kind # "scope" /\ ~Interrupts(S, i),
         NEW m2 \in {"run", "throw"}, NEW fl2,
         m2 = "throw" => m = "throw" /\ fl2 = fl,
         m2 = "run" => \/ m = "run" /\ fl2 = fl /\ e.to # k
                       \/ m = "forced" /\ fl2 = FALSE /\ e.to = k
  PROVE  /\ k > 1
         /\ ArmInv(SubSeq(S, 1, k - 1), m2, S[k].prev, fl2,
                   IF e.to = k THEN NoEscape ELSE e, rt)
<1> DEFINE n == Len(S)
           T == SubSeq(S, 1, k - 1)
           e2 == IF e.to = k THEN NoEscape ELSE e
<1>1. StackInv(S) /\ InnermostIn(S, n, a) /\ EscapeIn(S, m, a, fl, e)
      /\ FlightIn(S, m, fl, rt)
  BY DEF ArmInv
<1>2. /\ S \in Seq(Frame) /\ n \in Nat
      /\ k \in Nat /\ k > 1 /\ S[k - 1].kind # "scope" /\ k <= n
      /\ S[k].resume = "run"
  BY <1>1, ArmBasics
<1>3. StackInv(T) /\ Len(T) = k - 1 /\ \A i \in 1..(k - 1) : T[i] = S[i]
  <2>1. k - 1 \in 1..Len(S)
    BY <1>2
  <2>2. QED BY <1>1, <2>1, CutInv
<1>4. /\ \A i \in 1..n : i > k => S[i].kind # "scope" /\ ~Interrupts(S, i)
      /\ m2 = "throw" => m = "throw" /\ fl2 = fl
      /\ m2 = "run" => \/ m = "run" /\ fl2 = fl /\ e.to # k
                       \/ m = "forced" /\ fl2 = FALSE /\ e.to = k
      /\ S[k].kind = "scope"
  OBVIOUS
<1> HIDE DEF T
<1>5. InnermostIn(T, k - 1, S[k].prev)
  <2>1. InnermostIn(S, k - 1, S[k].prev)
    BY <1>1 DEF StackInv, Linked
  <2>2. QED BY <1>2, <1>3, <2>1, InnermostAgrees
<1>6. /\ \A i \in 1..(k - 1) : Interrupts(T, i) <=> Interrupts(S, i)
      /\ \A i \in 1..n : Interrupts(S, i) => i \in 1..(k - 1)
  BY <1>2, <1>3, <1>4 DEF Interrupts
<1>7. /\ m = "forced" => \A i \in 1..n : ~Interrupts(S, i)
      /\ \A i \in 1..n : Interrupts(S, i) =>
           /\ e.to # 0
           /\ InnermostIn(S, i - 1, e.to)
           /\ \A j \in 1..n : Interrupts(S, j) => j = i
      /\ e.to = 0 => e = NoEscape
      /\ e.to # 0 => fl /\ Aimed(S, e)
  BY <1>1 DEF EscapeIn
<1> HIDE DEF n
<1>8. CASE e.to = k
  <2>1. \A i \in 1..n : ~Interrupts(S, i)
    <3> SUFFICES ASSUME NEW i \in 1..n, Interrupts(S, i) PROVE FALSE
      OBVIOUS
    <3>1. i \in 1..(k - 1) /\ e.to \in 0..(i - 1)
      BY <1>6, <1>7 DEF InnermostIn
    <3>2. QED BY <1>2, <1>8, <3>1
  <2>2. \A i \in 1..(k - 1) : ~Interrupts(T, i)
    BY <1>2, <1>6, <2>1
  <2>3. EscapeIn(T, m2, S[k].prev, fl2, NoEscape)
    BY <1>3, <2>2 DEF EscapeIn, NoEscape
  <2>4. FlightIn(T, m2, fl2, rt)
    <3>1. ~Escaping(T, m2)
      BY <1>3, <2>2 DEF Escaping
    <3>2. m2 = "throw" => ~Escaping(S, m)
      BY <1>4, <2>1 DEF Escaping, n
    <3>3. fl2 /\ rt # "wasm" => FALSE
      BY <1>1, <1>4, <1>8, <3>2 DEF FlightIn
    <3>4. QED BY <3>1, <3>3 DEF FlightIn
  <2>5. QED BY <1>2, <1>3, <1>5, <1>8, <2>3, <2>4 DEF ArmInv, T
<1>9. CASE e.to # k
  <2>1. m = m2 /\ fl2 = fl /\ m2 # "forced"
    BY <1>4, <1>9
  <2>2. e.to # 0 => fl /\ Aimed(T, e)
    <3> SUFFICES ASSUME e.to # 0 PROVE fl /\ Aimed(T, e)
      OBVIOUS
    <3>1. fl /\ Aimed(S, e)
      BY <1>7
    <3>2. e.to \in 1..(k - 1)
      BY <1>2, <1>4, <1>9, <3>1 DEF Aimed, n
    <3>3. QED BY <1>2, <1>3, <3>1, <3>2, AimedAgrees DEF n
  <2>3. ASSUME NEW i \in 1..(k - 1), Interrupts(T, i)
        PROVE  /\ e.to # 0
               /\ InnermostIn(T, i - 1, e.to)
               /\ \A j \in 1..(k - 1) : Interrupts(T, j) => j = i
    <3>1. i \in 1..n /\ Interrupts(S, i)
      BY <1>2, <1>6, <2>3
    <3>2. InnermostIn(T, i - 1, e.to)
      BY <1>2, <1>3, <1>7, <3>1, InnermostAgrees
    <3>3. QED BY <1>2, <1>6, <1>7, <3>1, <3>2
  <2>4. EscapeIn(T, m2, S[k].prev, fl2, e)
    BY <1>3, <1>7, <2>1, <2>2, <2>3 DEF EscapeIn
  <2>5. Escaping(T, m2) <=> Escaping(S, m)
    BY <1>2, <1>3, <1>6, <2>1 DEF Escaping, n
  <2>6. FlightIn(T, m2, fl2, rt)
    BY <1>1, <2>1, <2>5 DEF FlightIn
  <2>7. QED BY <1>2, <1>3, <1>5, <1>9, <2>4, <2>6 DEF ArmInv, T
<1>10. QED BY <1>8, <1>9

\* escape_scope is entered: its frame with the carrier, and run_body's above it.
LEMMA OpenArm ==
  ASSUME NEW S, NEW a, NEW fl, NEW e, NEW rt,
         ArmInv(S, "run", a, fl, e, rt),
         NEW s \in Frame, FrameInv(s), s.kind = "scope", s.prev = a,
         s.cfa = S[Len(S)].low,
         NEW c \in Frame, FrameInv(c), c.kind = "call", c.cfa = s.low
  PROVE  ArmInv(Append(Append(S, s), c), "run", Len(S) + 1, fl, e, rt)
<1> DEFINE n == Len(S)
           R == Append(S, s)
           T == Append(R, c)
<1>1. /\ StackInv(S) /\ InnermostIn(S, n, a) /\ EscapeIn(S, "run", a, fl, e)
      /\ FlightIn(S, "run", fl, rt) /\ S[n].kind # "scope"
  BY DEF ArmInv
<1>2. S \in Seq(Frame) /\ n \in Nat /\ n >= 1
  BY <1>1, ArmBasics
<1>3. R \in Seq(Frame) /\ Len(R) = n + 1 /\ R[n + 1] = s
      /\ \A i \in 1..n : R[i] = S[i]
  BY <1>2, PushIs
<1>4. StackInv(R)
  BY <1>1, PushInv
<1> HIDE DEF R
<1>5. T \in Seq(Frame) /\ Len(T) = Len(R) + 1 /\ T[Len(R) + 1] = c
      /\ \A i \in 1..Len(R) : T[i] = R[i]
  BY <1>3, PushIs
<1>6. StackInv(T)
  BY <1>3, <1>4, PushInv
<1> HIDE DEF T, n
<1>7. Len(T) = n + 2 /\ T[n + 1] = s /\ T[n + 2] = c
      /\ \A i \in 1..n : T[i] = S[i]
  BY <1>2, <1>3, <1>5
<1>8. InnermostIn(T, n + 2, n + 1)
  BY <1>2, <1>7 DEF InnermostIn
<1>9. s.resume = "run" /\ c.resume = "run"
  BY DEF FrameInv
<1>10. \A i \in 1..(n + 2) : Interrupts(T, i) <=> i \in 1..n /\ Interrupts(S, i)
  BY <1>2, <1>7, <1>9 DEF Interrupts
<1>11. FlightIn(T, "run", fl, rt)
  <2>1. Escaping(T, "run") <=> Escaping(S, "run")
    BY <1>2, <1>7, <1>10 DEF Escaping, n
  <2>2. QED BY <1>1, <2>1 DEF FlightIn
<1>12. EscapeIn(T, "run", n + 1, fl, e)
  <2>1. /\ \A i \in 1..n : Interrupts(S, i) =>
           /\ e.to # 0
           /\ InnermostIn(S, i - 1, e.to)
           /\ \A j \in 1..n : Interrupts(S, j) => j = i
        /\ e.to = 0 => e = NoEscape
        /\ e.to # 0 => fl /\ Aimed(S, e)
    BY <1>1 DEF EscapeIn, n
  <2>2. e.to # 0 => fl /\ Aimed(T, e)
    <3> SUFFICES ASSUME e.to # 0 PROVE fl /\ Aimed(T, e)
      OBVIOUS
    <3>1. fl /\ Aimed(S, e)
      BY <2>1
    <3>2. e.to \in 1..n
      BY <3>1 DEF Aimed, n
    <3>3. QED BY <1>2, <1>7, <3>1, <3>2, AimedAgrees DEF n
  <2>3. ASSUME NEW i \in 1..(n + 2), Interrupts(T, i)
        PROVE  /\ e.to # 0
               /\ InnermostIn(T, i - 1, e.to)
               /\ \A j \in 1..(n + 2) : Interrupts(T, j) => j = i
    <3>1. i \in 1..n /\ Interrupts(S, i)
      BY <1>10, <2>3
    <3>2. i - 1 \in Nat /\ \A j \in 1..(i - 1) : T[j].kind = S[j].kind
      BY <1>2, <1>7, <3>1
    <3>3. InnermostIn(S, i - 1, e.to)
      BY <2>1, <3>1
    <3>4. InnermostIn(T, i - 1, e.to)
      BY <3>2, <3>3, InnermostAgrees
    <3>5. QED BY <1>10, <2>1, <3>1, <3>4
  <2>4. QED BY <1>7, <2>1, <2>2, <2>3 DEF EscapeIn
<1>13. T[Len(T)].kind # "scope"
  BY <1>7
<1>14. QED BY <1>6, <1>7, <1>8, <1>11, <1>12, <1>13 DEF ArmInv, T, R, n

\* eject fills the innermost carrier and starts the unwind.
LEMMA EjectArm ==
  ASSUME NEW S, NEW a, NEW e, NEW rt,
         ArmInv(S, "run", a, FALSE, e, rt), a # 0,
         NEW f \in Frame, FrameInv(f),
         f.kind = S[a].kind, f.cfa = S[a].cfa, f.low = S[a].low,
         f.prev = S[a].prev, f.resume = S[a].resume, f.ejected
  PROVE  /\ e = NoEscape
         /\ ArmInv([S EXCEPT ![a] = f], "forced", a, TRUE,
                   [to |-> a, marker |-> f.car, err |-> f.error], rt)
<1> DEFINE n == Len(S)
           T == [S EXCEPT ![a] = f]
           e2 == [to |-> a, marker |-> f.car, err |-> f.error]
<1>1. /\ StackInv(S) /\ InnermostIn(S, n, a) /\ EscapeIn(S, "run", a, FALSE, e)
      /\ FlightIn(S, "run", FALSE, rt)
  BY DEF ArmInv
<1>2. S \in Seq(Frame) /\ n \in Nat /\ n >= 1
  BY <1>1, ArmBasics
<1>3. a \in 1..n /\ S[a].kind = "scope"
  BY <1>1, <1>2 DEF InnermostIn
<1>4. StackInv(T) /\ Len(T) = n
      /\ \A i \in 1..n : T[i] = IF i = a THEN f ELSE S[i]
  BY <1>1, <1>3, PatchInv
<1> HIDE DEF T
<1>5. \A i \in 1..n : T[i].kind = S[i].kind /\ T[i].resume = S[i].resume
  BY <1>4
<1>6. InnermostIn(T, n, a)
  BY <1>1, <1>2, <1>5, InnermostAgrees
<1>7. \A i \in 1..n : ~Interrupts(T, i)
  BY <1>1, <1>5 DEF FlightIn, Escaping, Interrupts
<1>8. Aimed(T, e2)
  BY <1>3, <1>4 DEF Aimed
<1>9. EscapeIn(T, "forced", a, TRUE, e2)
  BY <1>4, <1>7, <1>8 DEF EscapeIn
<1>10. FlightIn(T, "forced", TRUE, rt)
  BY DEF FlightIn, Escaping
<1>11. e = NoEscape
  BY <1>1 DEF EscapeIn
<1>12. QED BY <1>4, <1>6, <1>9, <1>10, <1>11 DEF ArmInv, T

-----------------------------------------------------------------------------
(* Every action preserves the invariant.                                    *)

\* What ArmInv says of the types of the stack and of active().
LEMMA ArmTypes ==
  ASSUME NEW S, NEW m, NEW a, NEW fl, NEW e, NEW rt, ArmInv(S, m, a, fl, e, rt)
  PROVE  S \in Seq(Frame) /\ a \in 0..Len(S)
BY DEF ArmInv, StackInv, InnermostIn

\* The top frame of a state that satisfies the invariant.
LEMMA TopIs ==
  ASSUME IInv
  PROVE  /\ stack \in Seq(Frame) /\ Depth = Len(stack)
         /\ Depth \in Nat /\ Depth >= 1 /\ Depth \in 1..Len(stack)
         /\ Top = stack[Len(stack)]
         /\ Top \in Frame /\ FrameInv(Top) /\ Top.low \in Int /\ Top.objs \in Nat
         /\ Depth = 1 => Top.kind = "call"
         /\ mode = "run" => Top.kind # "scope"
<1>1. StackInv(stack) /\ (mode = "run" => stack[Len(stack)].kind # "scope")
  BY DEF IInv, ArmInv
<1>2. /\ stack \in Seq(Frame) /\ Len(stack) \in Nat /\ Len(stack) >= 1
      /\ stack[1].kind = "call"
      /\ \A i \in 1..Len(stack) : stack[i] \in Frame /\ FrameInv(stack[i])
  BY <1>1, ArmBasics
<1>3. Top \in Frame /\ FrameInv(Top)
  BY <1>2 DEF Top, Depth
<1>4. QED BY <1>1, <1>2, <1>3 DEF Top, Depth, Frame

\* The empty escape and the outcomes without an error are well typed.
LEMMA NothingTypes ==
  /\ NoEscape \in [to : Nat, marker : Int, err : Payloads \cup {NoPayload}]
  /\ NoOutcome \in [how : {"none", "value", "error", "exception"},
                     err : Payloads \cup {NoPayload}]
  /\ \A h \in {"value", "exception"} :
       [how |-> h, err |-> NoPayload]
         \in [how : {"none", "value", "error", "exception"},
              err : Payloads \cup {NoPayload}]
BY DEF NoEscape, NoOutcome

\* The initial state.
LEMMA InitIInv == Init => IInv
<1> SUFFICES ASSUME Init PROVE IInv
  OBVIOUS
<1>1. /\ Bottom \in Frame /\ Bottom.kind = "call" /\ Bottom.guard = "none"
      /\ Bottom.resume = "run" /\ Bottom.cfa = 0 /\ Bottom.low <= 0
      /\ Bottom.low \in Int
  BY CallFrameIs DEF Bottom, AllGuards
<1>2. FrameInv(Bottom)
  BY <1>1 DEF FrameInv
<1>3. stack \in Seq(Frame) /\ Len(stack) = 1 /\ stack[1] = Bottom
  BY <1>1 DEF Init
<1>4. StackInv(stack)
  BY <1>1, <1>2, <1>3 DEF StackInv, Descending, BodyAbove, Linked
<1>5. InnermostIn(stack, 1, 0)
  BY <1>1, <1>3 DEF InnermostIn
<1>6. \A i \in 1..1 : ~Interrupts(stack, i)
  BY <1>1, <1>3 DEF Interrupts
<1>7. EscapeIn(stack, "run", 0, FALSE, NoEscape)
  BY <1>3, <1>6 DEF EscapeIn, NoEscape
<1>8. FlightIn(stack, "run", FALSE, runtime)
  BY <1>3, <1>6 DEF FlightIn, Escaping
<1>9. ArmInv(stack, mode, active, in_flight, escape, runtime)
  BY <1>1, <1>3, <1>4, <1>5, <1>7, <1>8 DEF ArmInv, Init
<1>10. TypeOK
  <2>1. active \in 0..Len(stack) /\ ops \in Nat
    BY <1>3, ArmAssumption DEF Init
  <2>2. QED BY <1>3, <2>1, NothingTypes DEF Init, TypeOK, Deaths
<1>11. QED BY <1>9, <1>10 DEF IInv

\* The process ends with everything else as it was.
LEMMA DieIInv ==
  ASSUME IInv, NEW why \in Deaths, Die(why), ops' \in Nat, UNCHANGED runtime
  PROVE  IInv'
<1>1. StackInv(stack) /\ InnermostIn(stack, Len(stack), active)
      /\ EscapeIn(stack, mode, active, in_flight, escape)
  BY DEF IInv, ArmInv
<1>2. EscapeIn(stack, "dead", active, in_flight, escape)
  BY <1>1 DEF EscapeIn
<1>3. ArmInv(stack', mode', active', in_flight', escape', runtime')
  BY <1>1, <1>2 DEF Die, ArmInv, FlightIn
<1>4. QED BY <1>3 DEF IInv, TypeOK, Die

\* A function is called.
LEMMA CallIInv ==
  ASSUME IInv, NEW g \in Guards, Call(g)
  PROVE  IInv'
<1> DEFINE f == CallFrame(Top.low, "call", g, "run")
<1>1. f \in Frame /\ FrameInv(f) /\ f.kind = "call" /\ f.resume = "run"
      /\ f.cfa = Top.low
  <2>1. g \in AllGuards /\ Top.low \in Int
    BY ArmAssumption, TopIs
  <2>2. /\ f \in Frame /\ f.kind = "call" /\ f.resume = "run" /\ f.cfa = Top.low
        /\ f.low <= Top.low
    BY <2>1, CallFrameIs
  <2> HIDE DEF f
  <2>3. QED BY <2>2 DEF FrameInv
<1>2. stack' = Append(stack, f)
  BY DEF Call
<1> HIDE DEF f
<1>3. mode = "run" /\ mode' = "run" /\ ops' \in Nat
      /\ UNCHANGED <<active, in_flight, escape, outcome, lost, death, runtime>>
  BY DEF Call, Perform, IInv, TypeOK
<1>4. ArmInv(stack, "run", active, in_flight, escape, runtime)
  BY <1>3 DEF IInv
<1>5. ArmInv(stack', "run", active, in_flight, escape, runtime)
  BY <1>1, <1>2, <1>3, <1>4, TopIs, PushArm
<1>6. stack' \in Seq(Frame) /\ active \in 0..Len(stack')
  BY <1>5, ArmTypes
<1>7. QED BY <1>3, <1>5, <1>6 DEF IInv, TypeOK

\* A frame whose objects change stays the frame it is.
LEMMA ObjsFrame ==
  ASSUME NEW t \in Frame, FrameInv(t), t.kind # "scope", NEW o \in Nat
  PROVE  LET f == [t EXCEPT !.objs = o]
         IN  /\ f \in Frame /\ FrameInv(f)
             /\ f.kind = t.kind /\ f.cfa = t.cfa /\ f.low = t.low
             /\ f.prev = t.prev /\ f.resume = t.resume /\ f.ejected = t.ejected
             /\ f.error = t.error /\ f.car = t.car /\ f.tag = t.tag
<1> DEFINE f == [t EXCEPT !.objs = o]
<1>1. /\ f \in Frame /\ f.kind = t.kind /\ f.cfa = t.cfa /\ f.low = t.low
      /\ f.prev = t.prev /\ f.resume = t.resume /\ f.ejected = t.ejected
      /\ f.error = t.error /\ f.car = t.car /\ f.tag = t.tag /\ f.guard = t.guard
  BY DEF Frame
<1> HIDE DEF f
<1>2. FrameInv(f)
  BY <1>1 DEF FrameInv
<1>3. QED BY <1>1, <1>2 DEF f

\* An object is constructed in the top frame, which is not escape_scope's.
LEMMA ConstructIInv ==
  ASSUME IInv, Construct
  PROVE  IInv'
<1> DEFINE o == Top.objs + 1
           f == [Top EXCEPT !.objs = o]
<1>1. mode = "run" /\ mode' = "run" /\ ops' \in Nat
      /\ UNCHANGED <<active, in_flight, escape, outcome, lost, death, runtime>>
  BY DEF Construct, Perform, IInv, TypeOK
<1>2. Top \in Frame /\ FrameInv(Top) /\ Top.kind # "scope" /\ stack \in Seq(Frame)
      /\ Depth \in 1..Len(stack) /\ Top = stack[Depth] /\ o \in Nat
  BY <1>1, TopIs DEF Depth
<1>3. stack' = [stack EXCEPT ![Depth] = f]
  BY <1>2 DEF Construct
<1> HIDE DEF o
<1>4. /\ f \in Frame /\ FrameInv(f) /\ f.kind = Top.kind /\ f.cfa = Top.cfa
      /\ f.low = Top.low /\ f.prev = Top.prev /\ f.resume = Top.resume
      /\ f.ejected = Top.ejected /\ f.error = Top.error /\ f.car = Top.car
  BY <1>2, ObjsFrame
<1> HIDE DEF f
<1>6. ArmInv(stack, mode, active, in_flight, escape, runtime)
  BY DEF IInv
<1>7. ArmInv(stack', mode, active, in_flight, escape, runtime)
  BY <1>2, <1>3, <1>4, <1>6, PatchArm
<1>8. stack' \in Seq(Frame) /\ active \in 0..Len(stack')
  BY <1>7, ArmTypes
<1>9. QED BY <1>1, <1>7, <1>8 DEF IInv, TypeOK

\* An exception is thrown or caught, or a handler keeps the escape, with the stack
\* as it is.
LEMMA ModeArm ==
  ASSUME NEW S, NEW m \in {"run", "forced", "throw"}, NEW a, NEW fl, NEW e, NEW rt,
         ArmInv(S, m, a, fl, e, rt),
         NEW k \in {"run", "throw"}, m = "forced" => rt = "wasm",
         k = "run" => S[Len(S)].kind # "scope"
  PROVE  ArmInv(S, k, a, fl, e, rt)
<1>1. /\ StackInv(S) /\ InnermostIn(S, Len(S), a) /\ EscapeIn(S, m, a, fl, e)
      /\ FlightIn(S, m, fl, rt)
  BY DEF ArmInv
<1>2. EscapeIn(S, k, a, fl, e)
  BY <1>1 DEF EscapeIn
<1>3. FlightIn(S, k, fl, rt)
  BY <1>1 DEF FlightIn, Escaping
<1>4. QED BY <1>1, <1>2, <1>3 DEF ArmInv

\* The program throws.
LEMMA ThrowIInv ==
  ASSUME IInv, Throw
  PROVE  IInv'
<1>1. mode = "run" /\ mode' = "throw" /\ ops' \in Nat
      /\ UNCHANGED <<stack, active, in_flight, escape, outcome, lost, death, runtime>>
  BY DEF Throw, Perform, IInv, TypeOK
<1>2. ArmInv(stack, "throw", active, in_flight, escape, runtime)
  BY <1>1, ModeArm DEF IInv
<1>3. QED BY <1>1, <1>2 DEF IInv, TypeOK

\* A scope is opened.
LEMMA OpenScopeIInv ==
  ASSUME IInv, NEW tag \in Tags, NEW off \in 0..(FrameSize - 1),
         OpenScope(tag, off)
  PROVE  IInv'
<1> DEFINE s == ScopeFrame(Top.low, tag, off)
           c == CallFrame(s.low, "call", "none", "run")
<1>1. mode = "run" /\ mode' = "run" /\ ops' \in Nat /\ active' = Len(stack) + 1
      /\ UNCHANGED <<in_flight, escape, outcome, lost, death, runtime>>
  BY DEF OpenScope, Perform, IInv, TypeOK, Depth
<1>2. Top.low \in Int /\ Top = stack[Len(stack)] /\ stack \in Seq(Frame)
      /\ active \in Nat
  BY TopIs DEF IInv, TypeOK
<1>3. /\ s \in Frame /\ FrameInv(s) /\ s.kind = "scope" /\ s.prev = active
      /\ s.cfa = Top.low /\ s.low \in Int
  BY <1>2, ScopeFrameIs
<1>4. stack' = stack \o <<s, c>>
  BY DEF OpenScope
<1> HIDE DEF s
<1>5. c \in Frame /\ c.kind = "call" /\ c.resume = "run" /\ c.cfa = s.low
      /\ c.low <= c.cfa
  BY <1>3, CallFrameIs DEF AllGuards
<1> HIDE DEF c
<1>6. FrameInv(c)
  BY <1>5 DEF FrameInv
<1>7. stack' = Append(Append(stack, s), c)
  BY <1>2, <1>3, <1>4, <1>5
<1>8. ArmInv(stack', "run", Len(stack) + 1, in_flight, escape, runtime)
  BY <1>1, <1>2, <1>3, <1>5, <1>6, <1>7, OpenArm DEF IInv
<1>9. stack' \in Seq(Frame) /\ active' \in 0..Len(stack')
  BY <1>1, <1>8, ArmTypes
<1>10. QED BY <1>1, <1>8, <1>9 DEF IInv, TypeOK

\* eject, refused or started.
LEMMA EjectIInv ==
  ASSUME IInv, NEW tag \in Tags, NEW err \in Payloads, Eject(tag, err)
  PROVE  IInv'
<1>1. mode = "run" /\ ops' \in Nat /\ UNCHANGED runtime
  BY DEF Eject, Perform, IInv, TypeOK
<1>2. CASE EjectRefusal(tag) # "alive"
  <2>1. EjectRefusal(tag) \in Deaths
    BY DEF EjectRefusal, Deaths
  <2>2. Die(EjectRefusal(tag))
    BY <1>2 DEF Eject
  <2>3. QED BY <1>1, <2>1, <2>2, DieIInv
<1>3. CASE EjectRefusal(tag) = "alive"
  <2>1. active # 0 /\ in_flight = FALSE
    BY <1>3 DEF EjectRefusal, IInv, TypeOK
  <2>2. /\ stack' = [stack EXCEPT ![active].error = err, ![active].ejected = TRUE]
        /\ in_flight' = TRUE
        /\ escape' = [to |-> active, marker |-> stack[active].car, err |-> err]
        /\ mode' = "forced"
        /\ UNCHANGED <<active, outcome, lost, death>>
    BY <1>3 DEF Eject
  <2> DEFINE f == [stack[active] EXCEPT !.error = err, !.ejected = TRUE]
  <2>3. /\ stack \in Seq(Frame) /\ active \in 1..Len(stack)
        /\ stack[active] \in Frame /\ FrameInv(stack[active])
    <3>1. StackInv(stack) /\ InnermostIn(stack, Len(stack), active)
      BY DEF IInv, ArmInv
    <3>2. active \in 1..Len(stack)
      BY <2>1, <3>1, ArmBasics DEF InnermostIn
    <3>3. QED BY <3>1, <3>2, ArmBasics
  <2>4. /\ f \in Frame /\ f.kind = stack[active].kind /\ f.cfa = stack[active].cfa
        /\ f.low = stack[active].low /\ f.prev = stack[active].prev
        /\ f.resume = stack[active].resume /\ f.guard = stack[active].guard
        /\ f.tag = stack[active].tag /\ f.objs = stack[active].objs
        /\ f.car = stack[active].car /\ f.error = err /\ f.ejected
    BY <2>3 DEF Frame
  <2>5. stack' = [stack EXCEPT ![active] = f]
    BY <2>2, <2>3 DEF Frame
  <2> HIDE DEF f
  <2>6. FrameInv(f)
    BY <2>3, <2>4 DEF FrameInv
  <2>7. ArmInv(stack, "run", active, FALSE, escape, runtime)
    BY <1>1, <2>1 DEF IInv
  <2>8. ArmInv(stack', "forced", active, TRUE,
               [to |-> active, marker |-> f.car, err |-> f.error], runtime)
    BY <2>1, <2>4, <2>5, <2>6, <2>7, EjectArm
  <2>9. ArmInv(stack', mode', active', in_flight', escape', runtime')
    BY <1>1, <2>2, <2>4, <2>8
  <2>10. stack' \in Seq(Frame) /\ active' \in 0..Len(stack')
    BY <2>9, ArmTypes
  <2>11. escape' \in [to : Nat, marker : Int, err : Payloads \cup {NoPayload}]
    <3>1. stack[active].car \in Int
      BY <2>3 DEF Frame
    <3>2. QED BY <2>2, <2>3, <3>1
  <2>12. QED BY <1>1, <2>2, <2>9, <2>10, <2>11 DEF IInv, TypeOK
<1>4. QED BY <1>2, <1>3

\* A function returns.
LEMMA ReturnIInv ==
  ASSUME IInv, Return
  PROVE  IInv'
<1>1. /\ mode = "run" /\ mode' = "run" /\ Depth > 1 /\ Top.kind = "call"
      /\ stack[Depth - 1].kind # "scope"
      /\ stack' = SubSeq(stack, 1, Len(stack) - 1)
      /\ UNCHANGED <<active, in_flight, escape, outcome, lost, death, ops, runtime>>
  BY DEF Return, Pop, Cut, Depth
<1>2. Top = stack[Len(stack)] /\ Top.resume = "run" /\ Depth = Len(stack)
  BY <1>1, TopIs DEF FrameInv
<1>3. ArmInv(stack, "run", active, in_flight, escape, runtime)
  BY <1>1 DEF IInv
<1>4. ArmInv(stack', "run", active, in_flight, escape, runtime)
  BY <1>1, <1>2, <1>3, PopArm
<1>5. stack' \in Seq(Frame) /\ active \in 0..Len(stack')
  BY <1>4, ArmTypes
<1>6. QED BY <1>1, <1>4, <1>5 DEF IInv, TypeOK

\* A destructor returns to the unwind it interrupted.
LEMMA ReturnFromDtorIInv ==
  ASSUME IInv, ReturnFromDtor
  PROVE  IInv'
<1>1. /\ mode = "run" /\ mode' = Top.resume /\ Top.kind = "dtor"
      /\ stack' = SubSeq(stack, 1, Len(stack) - 1)
      /\ UNCHANGED <<active, in_flight, escape, outcome, lost, death, ops, runtime>>
  BY DEF ReturnFromDtor, Pop, Cut, Depth
<1>2. /\ Top = stack[Len(stack)] /\ Depth = Len(stack) /\ Len(stack) > 1
      /\ Top.resume \in {"forced", "throw"}
  BY <1>1, TopIs DEF FrameInv, Frame
<1>3. ArmInv(stack, "run", active, in_flight, escape, runtime)
  BY <1>1 DEF IInv
<1>4. ArmInv(stack', mode', active, in_flight, escape, runtime)
  BY <1>1, <1>2, <1>3, PopArm
<1>5. stack' \in Seq(Frame) /\ active \in 0..Len(stack')
  BY <1>4, ArmTypes
<1>6. QED BY <1>1, <1>2, <1>4, <1>5 DEF IInv, TypeOK

\* The body's frame is left to its scope, which is the innermost one.
LEMMA BodyScope ==
  ASSUME IInv, Depth > 1, Top.kind = "call", stack[Depth - 1].kind = "scope"
  PROVE  /\ active = Depth - 1
         /\ Depth - 1 \in 1..Len(stack)
         /\ \A i \in 1..Len(stack) :
              i > Depth - 1 => stack[i].kind # "scope" /\ ~Interrupts(stack, i)
<1>1. /\ Top = stack[Len(stack)] /\ Depth = Len(stack) /\ Depth \in Nat
      /\ Top.resume = "run"
  BY TopIs DEF FrameInv
<1>2. InnermostIn(stack, Depth, active)
  BY <1>1 DEF IInv, ArmInv
<1>3. active = Depth - 1
  BY <1>1, <1>2 DEF InnermostIn
<1>4. QED BY <1>1, <1>3 DEF Interrupts

\* The body returns: escape_scope gives its value back, or finds its escape
\* swallowed.
LEMMA ReturnFromBodyIInv ==
  ASSUME IInv, ReturnFromBody
  PROVE  IInv'
<1> DEFINE s == stack[Depth - 1]
<1>1. /\ mode = "run" /\ Depth > 1 /\ Top.kind = "call" /\ s.kind = "scope"
      /\ UNCHANGED <<ops, runtime>>
  BY DEF ReturnFromBody
<1>2. CASE Swallowed(s)
  <2>1. Die("swallowed") /\ "swallowed" \in Deaths
    BY <1>2 DEF ReturnFromBody, Deaths
  <2>2. ops' \in Nat
    BY <1>1 DEF IInv, TypeOK
  <2>3. QED BY <1>1, <2>1, <2>2, DieIInv
<1>3. CASE ~Swallowed(s)
  <2>1. /\ stack' = SubSeq(stack, 1, (Depth - 1) - 1)
        /\ active' = s.prev
        /\ outcome' = [how |-> "value", err |-> NoPayload]
        /\ UNCHANGED <<mode, in_flight, escape, lost, death>>
    <3>1. Depth \in Nat
      BY TopIs
    <3>2. (Depth - 1) - 1 = Depth - 2
      BY <3>1
    <3>3. QED BY <1>3, <3>2 DEF ReturnFromBody, Cut
  <2>2. /\ active = Depth - 1 /\ Depth - 1 \in 1..Len(stack)
        /\ \A i \in 1..Len(stack) :
             i > Depth - 1 => stack[i].kind # "scope" /\ ~Interrupts(stack, i)
    BY <1>1, BodyScope
  <2>3. ArmInv(stack, "run", active, in_flight, escape, runtime)
    BY <1>1 DEF IInv
  <2>4. escape.to # Depth - 1
    <3> SUFFICES ASSUME escape.to = Depth - 1 PROVE FALSE
      OBVIOUS
    <3>1. Depth - 1 # 0
      BY <2>2
    <3>2. Aimed(stack, escape)
      BY <2>3, <3>1 DEF ArmInv, EscapeIn
    <3>3. QED BY <1>3, <3>2 DEF Aimed, Swallowed
  <2>5. ArmInv(stack', "run", s.prev, in_flight, escape, runtime)
    BY <1>1, <2>1, <2>2, <2>3, <2>4, CloseArm
  <2>6. stack' \in Seq(Frame) /\ active' \in 0..Len(stack')
    BY <2>1, <2>5, ArmTypes
  <2>7. QED BY <1>1, <2>1, <2>5, <2>6, NothingTypes DEF IInv, TypeOK
<1>4. QED BY <1>2, <1>3

\* An unwind calls the next destructor of the top frame.
LEMMA RunDtorIInv ==
  ASSUME IInv, mode \in {"forced", "throw"}, RunDtor
  PROVE  IInv'
<1> DEFINE o == Top.objs - 1
           t == [Top EXCEPT !.objs = o]
           S == [stack EXCEPT ![Depth] = t]
           f == CallFrame(Top.low, "dtor", "noexcept", mode)
<1>1. /\ Top.objs > 0 /\ mode' = "run"
      /\ UNCHANGED <<active, in_flight, escape, outcome, lost, death, ops, runtime>>
  BY DEF RunDtor
<1>2. /\ Top \in Frame /\ FrameInv(Top) /\ stack \in Seq(Frame)
      /\ Depth \in 1..Len(stack) /\ Top = stack[Depth] /\ o \in Nat
      /\ Depth = Len(stack) /\ Top.low \in Int
  BY <1>1, TopIs DEF Depth
<1>3. Top.kind # "scope"
  BY <1>1, <1>2 DEF FrameInv
<1>4. stack' = Append(S, f)
  BY <1>2 DEF RunDtor
<1>5. /\ f \in Frame /\ f.kind = "dtor" /\ f.resume = mode /\ f.cfa = Top.low
      /\ f.low <= f.cfa /\ f.guard = "noexcept"
  <2>1. mode \in {"run", "forced", "throw"} /\ "noexcept" \in AllGuards
    BY DEF AllGuards
  <2>2. QED BY <1>2, <2>1, CallFrameIs
<1> HIDE DEF o, f
<1>6. /\ t \in Frame /\ FrameInv(t) /\ t.kind = Top.kind /\ t.cfa = Top.cfa
      /\ t.low = Top.low /\ t.prev = Top.prev /\ t.resume = Top.resume
      /\ t.ejected = Top.ejected /\ t.error = Top.error /\ t.car = Top.car
  BY <1>2, <1>3, ObjsFrame
<1> HIDE DEF t
<1>7. ArmInv(S, mode, active, in_flight, escape, runtime)
  BY <1>2, <1>6, PatchArm DEF IInv
<1>8. Len(S) = Len(stack) /\ S[Len(S)] = t
  BY <1>2, <1>6
<1> HIDE DEF S
<1>9. FrameInv(f)
  BY <1>5 DEF FrameInv
<1>10. ArmInv(stack', "run", active, in_flight, escape, runtime)
  BY <1>3, <1>4, <1>5, <1>6, <1>7, <1>8, <1>9, PushArm
<1>11. stack' \in Seq(Frame) /\ active \in 0..Len(stack')
  BY <1>10, ArmTypes
<1>12. QED BY <1>1, <1>10, <1>11 DEF IInv, TypeOK

\* Where an escape lands: only at its own scope, and never past it.
LEMMA LandsAtIs ==
  ASSUME IInv, mode = "forced"
  PROVE  /\ escape.to \in 1..Len(stack) /\ active = escape.to
         /\ stack[escape.to].kind = "scope" /\ Aimed(stack, escape)
         /\ in_flight
         /\ \A i \in 1..Len(stack) :
              i > escape.to => stack[i].kind # "scope" /\ ~Interrupts(stack, i)
         /\ LandsAt \in {0, escape.to}
         /\ LandsAt = 0 => Top.kind # "scope" /\ Depth > 1
         /\ LandsAt # 0 => escape.to = Depth \/ Top.guard = "opaque"
<1>1. StackInv(stack) /\ InnermostIn(stack, Len(stack), active)
      /\ EscapeIn(stack, "forced", active, in_flight, escape)
  BY DEF IInv, ArmInv
<1>2. /\ Top = stack[Depth] /\ Depth = Len(stack) /\ Depth \in Nat /\ Depth >= 1
      /\ Top \in Frame /\ FrameInv(Top)
      /\ stack[1].kind = "call"
      /\ \A i \in 1..Depth : stack[i] \in Frame /\ FrameInv(stack[i])
  BY <1>1, TopIs, ArmBasics
<1>3. /\ escape.to # 0 /\ active = escape.to
      /\ \A i \in 1..Depth : ~Interrupts(stack, i)
      /\ Aimed(stack, escape) /\ in_flight
  BY <1>1, <1>2 DEF EscapeIn
<1>4. /\ escape.to \in 1..Depth /\ stack[escape.to].kind = "scope"
      /\ stack[escape.to].car = escape.marker
      /\ escape.to # 1
  BY <1>2, <1>3 DEF Aimed
<1>5. \A i \in 1..Depth : stack[i].kind = "scope" => i <= escape.to
  BY <1>1, <1>2, <1>3 DEF InnermostIn
<1>6. Top.kind = "scope" => escape.to = Depth
  BY <1>2, <1>4, <1>5
<1>7. LandsAt \in {0, escape.to}
  BY <1>6 DEF LandsAt
<1>8. /\ Top.kind = "scope" => Top.cfa > escape.marker
      /\ escape.to # Depth => ~(Top.cfa > escape.marker)
  <2>1. Top.kind = "scope" => Top.cfa > escape.marker
    BY <1>2, <1>4, <1>6 DEF FrameInv, Frame
  <2>2. ASSUME escape.to # Depth
        PROVE  ~(Top.cfa > escape.marker)
    <3>1. stack[Depth].cfa <= stack[escape.to].low
      BY <1>1, <1>2, <1>4, <2>2 DEF StackInv, Descending
    <3>2. stack[escape.to].low <= escape.marker
      BY <1>2, <1>4 DEF FrameInv
    <3>3. Top.cfa \in Int /\ stack[escape.to].low \in Int /\ escape.marker \in Int
      BY <1>2, <1>4 DEF Frame
    <3>4. QED BY <1>2, <3>1, <3>2, <3>3
  <2>3. QED BY <2>1, <2>2
<1>9. LandsAt = 0 => Top.kind # "scope" /\ Depth > 1
  BY <1>2, <1>3, <1>4, <1>8 DEF LandsAt, StopsHere
<1>10. LandsAt # 0 => escape.to = Depth \/ Top.guard = "opaque"
  BY <1>2, <1>4, <1>6, <1>8 DEF LandsAt, StopsHere
<1>11. \A i \in 1..Depth :
         i > escape.to => stack[i].kind # "scope" /\ ~Interrupts(stack, i)
  BY <1>2, <1>3, <1>4, <1>5
<1>12. QED BY <1>2, <1>3, <1>4, <1>7, <1>9, <1>10, <1>11

\* The landing: the scope's result is returned and the enclosing scope is active
\* again; the landing frame is always there to return to.
LEMMA LandIs ==
  ASSUME IInv, Land
  PROVE  /\ mode = "forced" /\ LandsAt = escape.to
         /\ stack' = SubSeq(stack, 1, escape.to - 1)
         /\ lost' = (lost \/ \E i \in escape.to..Depth : stack[i].objs > 0)
         /\ in_flight' = FALSE
         /\ active' = stack[escape.to].prev
         /\ outcome' = [how |-> "error", err |-> escape.err]
         /\ escape' = NoEscape
         /\ mode' = "run"
         /\ UNCHANGED <<death, ops, runtime>>
<1>1. mode = "forced" /\ LandsAt # 0
  BY DEF Land
<1>2. LandsAt = escape.to /\ escape.to \in 1..Len(stack) /\ Aimed(stack, escape)
  BY <1>1, LandsAtIs
<1>3. ~(LandsAt > Depth)
  BY <1>2, TopIs
<1>4. QED BY <1>1, <1>2, <1>3 DEF Land, Cut, Aimed

\* The landing preserves the invariant.
LEMMA LandIInv ==
  ASSUME IInv, Land
  PROVE  IInv'
<1>1. /\ mode = "forced"
      /\ stack' = SubSeq(stack, 1, escape.to - 1)
      /\ lost' = (lost \/ \E i \in escape.to..Depth : stack[i].objs > 0)
      /\ in_flight' = FALSE
      /\ active' = stack[escape.to].prev
      /\ outcome' = [how |-> "error", err |-> escape.err]
      /\ escape' = NoEscape
      /\ mode' = "run"
      /\ UNCHANGED <<death, ops, runtime>>
  BY LandIs
<1>2. /\ escape.to \in 1..Len(stack) /\ stack[escape.to].kind = "scope"
      /\ \A i \in 1..Len(stack) :
           i > escape.to => stack[i].kind # "scope" /\ ~Interrupts(stack, i)
  BY <1>1, LandsAtIs
<1>3. ArmInv(stack, "forced", active, in_flight, escape, runtime)
  BY <1>1 DEF IInv
<1>4. ArmInv(stack', "run", stack[escape.to].prev, FALSE, NoEscape, runtime)
  BY <1>1, <1>2, <1>3, CloseArm
<1>5. stack' \in Seq(Frame) /\ active' \in 0..Len(stack')
  BY <1>1, <1>4, ArmTypes
<1>6. outcome' \in [how : {"none", "value", "error", "exception"},
                    err : Payloads \cup {NoPayload}]
  BY <1>1 DEF IInv, TypeOK
<1>7. lost' \in BOOLEAN
  BY <1>1
<1>8. QED BY <1>1, <1>4, <1>5, <1>6, <1>7, NothingTypes DEF IInv, TypeOK

\* What the runtimes make of the escape, by handler.
LEMMA HandlerIs ==
  ASSUME NEW g \in AllGuards
  PROVE  /\ HandlerDoes(g) \in {"transit", "skip", "swallow", "translate",
                                "terminate", "swallowed"}
         /\ g = "none" => HandlerDoes(g) = "transit"
         /\ HandlerDoes(g) = "skip" => runtime = "libcxxrt" \/ g \in {"bare", "opaque"}
         /\ HandlerDoes(g) \in {"swallow", "translate"} => runtime = "wasm"
BY DEF HandlerDoes, Skipped, AllGuards

\* An escape meets a frame on its path, which is not a scope's: it leaves the
\* frame, as itself or as another exception, is kept by a handler, or ends the
\* process.
LEMMA ForcedFrameIs ==
  ASSUME IInv, ForcedFrame
  PROVE  /\ mode = "forced" /\ Top.kind # "scope" /\ Depth > 1
         /\ UNCHANGED <<ops, runtime>>
         /\ \/ /\ stack' = SubSeq(stack, 1, Len(stack) - 1)
               /\ mode' = "forced" \/ (mode' = "throw" /\ runtime = "wasm")
               /\ lost' # lost => HandlerDoes(Top.guard) = "skip"
               /\ lost' \in BOOLEAN
               /\ UNCHANGED <<active, in_flight, escape, outcome, death>>
            \/ /\ mode' = "run" /\ runtime = "wasm"
               /\ UNCHANGED <<stack, active, in_flight, escape, outcome, lost, death>>
            \/ \E why \in Deaths : Die(why)
<1>1. mode = "forced" /\ LandsAt = 0
  BY DEF ForcedFrame
<1>2. Top.kind # "scope" /\ Depth > 1
  BY <1>1, LandsAtIs
<1>3. Top.guard \in AllGuards /\ lost \in BOOLEAN
  BY TopIs DEF Frame, IInv, TypeOK
<1> DEFINE h == HandlerDoes(Top.guard)
<1>4. /\ h \in {"transit", "skip", "swallow", "translate", "terminate", "swallowed"}
      /\ h \in {"swallow", "translate"} => runtime = "wasm"
  BY <1>3, HandlerIs
<1> HIDE DEF h
<1>5. CASE h = "transit"
  BY <1>1, <1>2, <1>3, <1>5 DEF ForcedFrame, LeaveFrame, Pop, Cut, Depth, h
<1>6. CASE h = "skip"
  BY <1>1, <1>2, <1>3, <1>6 DEF ForcedFrame, SkipFrame, Pop, Cut, Depth, h
<1>7. CASE h = "swallow"
  BY <1>1, <1>2, <1>4, <1>7 DEF ForcedFrame, h
<1>8. CASE h = "translate"
  BY <1>1, <1>2, <1>3, <1>4, <1>8 DEF ForcedFrame, LeaveFrame, Pop, Cut, Depth, h
<1>9. CASE h \in {"terminate", "swallowed"}
  <2>1. Die(h) /\ UNCHANGED <<ops, runtime>>
    BY <1>9 DEF ForcedFrame, h
  <2>2. h \in Deaths
    BY <1>9 DEF Deaths
  <2>3. QED BY <1>1, <1>2, <2>1, <2>2
<1>10. QED BY <1>4, <1>5, <1>6, <1>7, <1>8, <1>9

\* A frame on the escape's path preserves the invariant.
LEMMA ForcedFrameIInv ==
  ASSUME IInv, ForcedFrame
  PROVE  IInv'
<1>1. mode = "forced" /\ Top.kind # "scope" /\ Depth > 1 /\ UNCHANGED <<ops, runtime>>
  BY ForcedFrameIs
<1>2. Top = stack[Len(stack)] /\ Depth = Len(stack)
  BY TopIs
<1>3. ArmInv(stack, "forced", active, in_flight, escape, runtime)
  BY <1>1 DEF IInv
<1>4. CASE /\ stack' = SubSeq(stack, 1, Len(stack) - 1)
           /\ mode' = "forced" \/ (mode' = "throw" /\ runtime = "wasm")
           /\ lost' \in BOOLEAN
           /\ UNCHANGED <<active, in_flight, escape, outcome, death>>
  <2>1. ArmInv(stack', mode', active, in_flight, escape, runtime)
    BY <1>1, <1>2, <1>3, <1>4, PopArm
  <2>2. stack' \in Seq(Frame) /\ active \in 0..Len(stack')
    BY <2>1, ArmTypes
  <2>3. QED BY <1>1, <1>4, <2>1, <2>2 DEF IInv, TypeOK
<1>5. CASE /\ mode' = "run" /\ runtime = "wasm"
           /\ UNCHANGED <<stack, active, in_flight, escape, outcome, lost, death>>
  <2>1. ArmInv(stack, "run", active, in_flight, escape, runtime)
    BY <1>1, <1>2, <1>3, <1>5, ModeArm
  <2>2. QED BY <1>1, <1>5, <2>1 DEF IInv, TypeOK
<1>6. CASE \E why \in Deaths : Die(why)
  BY <1>1, <1>6, DieIInv DEF IInv, TypeOK
<1>7. QED BY <1>4, <1>5, <1>6, ForcedFrameIs

\* An ordinary exception meets a frame whose objects are destroyed, or skipped:
\* it ends the process, is caught, leaves a function, or leaves a scope.
LEMMA ThrowFrameIs ==
  ASSUME IInv, ThrowFrame
  PROVE  /\ mode = "throw" /\ UNCHANGED <<ops, runtime>>
         /\ \/ Die("terminate")
            \/ /\ mode' = "run" /\ Top.kind # "scope"
               /\ UNCHANGED <<stack, active, in_flight, escape, outcome, lost, death>>
            \/ /\ Depth > 1 /\ Top.kind = "call" /\ mode' = "throw"
               /\ stack' = SubSeq(stack, 1, Len(stack) - 1)
               /\ lost' # lost => Skipped(Top.guard)
               /\ lost' \in BOOLEAN
               /\ UNCHANGED <<active, in_flight, escape, outcome, death>>
            \/ /\ Depth > 1 /\ Top.kind = "scope" /\ mode' = "throw"
               /\ stack' = SubSeq(stack, 1, Len(stack) - 1)
               /\ active' = Top.prev
               /\ outcome' = [how |-> "exception", err |-> NoPayload]
               /\ escape' = IF escape.to = Depth THEN NoEscape ELSE escape
               /\ UNCHANGED <<in_flight, lost, death>>
<1>1. mode = "throw"
  BY DEF ThrowFrame
<1>2. /\ Top \in Frame /\ FrameInv(Top) /\ Top = stack[Depth] /\ Depth \in Nat
      /\ Depth >= 1 /\ Depth = Len(stack)
  BY TopIs
<1>3. Top.kind \in {"call", "scope", "dtor"} /\ lost \in BOOLEAN
  BY <1>2 DEF Frame, IInv, TypeOK
<1> DEFINE skipped == Skipped(Top.guard)
<1>0. skipped => Top.guard \in {"bare", "opaque"}
  BY DEF Skipped
<1> HIDE DEF skipped
<1>4. CASE Depth = 1 \/ (Top.guard \in {"noexcept", "opaque"} /\ ~skipped)
  <2>1. Die("terminate") /\ UNCHANGED <<ops, runtime>>
    BY <1>4 DEF ThrowFrame, skipped
  <2>2. QED BY <1>1, <2>1
<1>5. CASE Depth > 1 /\ Top.guard \in {"typed", "swallow"}
  <2>1. /\ mode' = "run"
        /\ UNCHANGED <<stack, active, in_flight, escape, outcome, lost, death, ops, runtime>>
    BY <1>0, <1>2, <1>5 DEF ThrowFrame, skipped
  <2>2. QED BY <1>1, <1>2, <1>5, <2>1 DEF FrameInv
<1>6. CASE Depth > 1 /\ skipped
  <2>1. SkipFrame
    BY <1>0, <1>2, <1>6 DEF ThrowFrame, skipped
  <2>2. Top.kind = "call"
    BY <1>0, <1>2, <1>3, <1>6 DEF FrameInv
  <2>3. QED BY <1>1, <1>3, <1>6, <2>1, <2>2 DEF SkipFrame, Pop, Cut, Depth, skipped
<1>7. CASE /\ Depth > 1 /\ ~skipped
           /\ Top.guard \notin {"noexcept", "opaque", "typed", "swallow"}
  <2>1. /\ LeaveFrame("throw")
        /\ outcome' = IF Top.kind = "scope"
                      THEN [how |-> "exception", err |-> NoPayload] ELSE outcome
        /\ escape' = IF escape.to = Depth THEN NoEscape ELSE escape
    BY <1>2, <1>7 DEF ThrowFrame, skipped
  <2>2. Top.kind # "dtor"
    BY <1>2, <1>7 DEF FrameInv
  <2>3. Top.kind # "scope" => escape.to # Depth
    <3>1. EscapeIn(stack, mode, active, in_flight, escape)
      BY DEF IInv, ArmInv
    <3>2. QED BY <1>2, <3>1 DEF EscapeIn, Aimed
  <2>4. CASE Top.kind = "scope"
    BY <1>1, <1>7, <2>1, <2>4 DEF LeaveFrame, Pop, Cut, Depth
  <2>5. CASE Top.kind = "call"
    BY <1>1, <1>3, <1>7, <2>1, <2>3, <2>5 DEF LeaveFrame, Pop, Cut, Depth
  <2>6. QED BY <1>3, <2>2, <2>4, <2>5
<1>8. QED BY <1>2, <1>4, <1>5, <1>6, <1>7

\* A frame on an exception's path preserves the invariant.
LEMMA ThrowFrameIInv ==
  ASSUME IInv, ThrowFrame
  PROVE  IInv'
<1>1. mode = "throw" /\ UNCHANGED <<ops, runtime>>
  BY ThrowFrameIs
<1>2. /\ Top = stack[Len(stack)] /\ Depth = Len(stack) /\ FrameInv(Top)
      /\ Depth \in 1..Len(stack) /\ Depth \in Nat
  BY TopIs
<1>3. ArmInv(stack, "throw", active, in_flight, escape, runtime)
  BY <1>1 DEF IInv
<1>4. CASE Die("terminate")
  BY <1>1, <1>4, DieIInv DEF IInv, TypeOK, Deaths
<1>5. CASE /\ mode' = "run" /\ Top.kind # "scope"
           /\ UNCHANGED <<stack, active, in_flight, escape, outcome, lost, death>>
  <2>1. ArmInv(stack, "run", active, in_flight, escape, runtime)
    BY <1>2, <1>3, <1>5, ModeArm
  <2>2. QED BY <1>1, <1>5, <2>1 DEF IInv, TypeOK
<1>6. CASE /\ Depth > 1 /\ Top.kind = "call" /\ mode' = "throw"
           /\ stack' = SubSeq(stack, 1, Len(stack) - 1) /\ lost' \in BOOLEAN
           /\ UNCHANGED <<active, in_flight, escape, outcome, death>>
  <2>1. Top.resume = "run"
    BY <1>2, <1>6 DEF FrameInv
  <2>2. ArmInv(stack', "throw", active, in_flight, escape, runtime)
    BY <1>2, <1>3, <1>6, <2>1, PopArm
  <2>3. stack' \in Seq(Frame) /\ active \in 0..Len(stack')
    BY <2>2, ArmTypes
  <2>4. QED BY <1>1, <1>6, <2>2, <2>3 DEF IInv, TypeOK
<1>7. CASE /\ Depth > 1 /\ Top.kind = "scope" /\ mode' = "throw"
           /\ stack' = SubSeq(stack, 1, Len(stack) - 1)
           /\ active' = Top.prev
           /\ outcome' = [how |-> "exception", err |-> NoPayload]
           /\ escape' = IF escape.to = Depth THEN NoEscape ELSE escape
           /\ UNCHANGED <<in_flight, lost, death>>
  <2>1. \A i \in 1..Len(stack) :
          i > Depth => stack[i].kind # "scope" /\ ~Interrupts(stack, i)
    BY <1>2
  <2>2. ArmInv(stack', "throw", Top.prev, in_flight, escape', runtime)
    BY <1>2, <1>3, <1>7, <2>1, CloseArm
  <2>3. stack' \in Seq(Frame) /\ active' \in 0..Len(stack')
    BY <1>7, <2>2, ArmTypes
  <2>4. escape' \in [to : Nat, marker : Int, err : Payloads \cup {NoPayload}]
    BY <1>7, NothingTypes DEF IInv, TypeOK
  <2>5. QED BY <1>1, <1>7, <2>2, <2>3, <2>4, NothingTypes DEF IInv, TypeOK
<1>8. QED BY <1>4, <1>5, <1>6, <1>7, ThrowFrameIs

-----------------------------------------------------------------------------
(* The invariant is inductive.                                              *)

\* Every step preserves the invariant.
LEMMA NextIInv == IInv /\ [Next]_vars => IInv'
<1> SUFFICES ASSUME IInv, [Next]_vars
             PROVE  IInv'
  OBVIOUS
<1>1. ASSUME NEW g \in Guards, Call(g) PROVE IInv'
  BY <1>1, CallIInv
<1>2. CASE Construct
  BY <1>2, ConstructIInv
<1>3. CASE Throw
  BY <1>3, ThrowIInv
<1>4. ASSUME NEW tag \in Tags, NEW off \in 0..(FrameSize - 1), OpenScope(tag, off)
      PROVE  IInv'
  BY <1>4, OpenScopeIInv
<1>5. ASSUME NEW tag \in Tags, NEW err \in Payloads, Eject(tag, err)
      PROVE  IInv'
  BY <1>5, EjectIInv
<1>6. CASE Return
  BY <1>6, ReturnIInv
<1>7. CASE ReturnFromBody
  BY <1>7, ReturnFromBodyIInv
<1>8. CASE ReturnFromDtor
  BY <1>8, ReturnFromDtorIInv
<1>9. CASE Land
  BY <1>9, LandIInv
<1>10. CASE ForcedDtor
  BY <1>10, RunDtorIInv DEF ForcedDtor
<1>11. CASE ForcedFrame
  BY <1>11, ForcedFrameIInv
<1>12. CASE ThrowDtor
  BY <1>12, RunDtorIInv DEF ThrowDtor
<1>13. CASE ThrowFrame
  BY <1>13, ThrowFrameIInv
<1>14. CASE UnwindFails
  BY <1>14, DieIInv DEF UnwindFails, Deaths, IInv, TypeOK
<1>15. CASE UNCHANGED vars
  BY <1>15 DEF vars, IInv, TypeOK
<1>16. QED
  BY <1>1, <1>2, <1>3, <1>4, <1>5, <1>6, <1>7, <1>8, <1>9, <1>10, <1>11, <1>12,
     <1>13, <1>14, <1>15 DEF Next

\* The invariant holds in every state of every program.
LEMMA SpecIInv == Spec => []IInv
BY InitIInv, NextIInv, PTL DEF Spec

\* The arm's state has its types: in particular active() is null or a frame of
\* the stack, never a frame that was left.
THEOREM ArmTypeOK == Spec => []TypeOK
<1>1. IInv => TypeOK
  BY DEF IInv
<1>2. QED BY <1>1, SpecIInv, PTL

\* Whichever way scopes are left, active() is the innermost escape_scope: the
\* next eject targets the nearest enclosing one (scope_pop, escape.hpp).
THEOREM ActiveIsTheInnermost == Spec => []ActiveIsInnermost
<1>1. IInv => ActiveIsInnermost
  <2> SUFFICES ASSUME IInv PROVE ActiveIsInnermost
    OBVIOUS
  <2>1. InnermostIn(stack, Len(stack), active)
    BY DEF IInv, ArmInv
  <2>2. active \in Nat /\ Len(stack) \in Nat /\ stack \in Seq(Frame)
    BY TopIs DEF IInv, TypeOK
  <2>3. QED BY <2>1, <2>2 DEF ActiveIsInnermost, ScopeIndexes, InnermostIn, Depth
<1>2. QED BY <1>1, SpecIInv, PTL

\* escape_in_flight() is set exactly while an escape unwinds or one of its
\* cleanups runs; on WebAssembly it is at least set then.
THEOREM InFlightIsExact == Spec => []InFlightExact
<1>1. IInv => InFlightExact
  BY DEF IInv, ArmInv, FlightIn, Escaping, Interrupts, InFlightExact, Unwinding,
         Depth
<1>2. QED BY <1>1, SpecIInv, PTL

-----------------------------------------------------------------------------
(* What a step may never do.                                                *)

\* Unless a frame without unwind tables ends the walk, an escape lands when its
\* own landing frame is the top one, no sooner and no later.
LEMMA LandsExactly ==
  ASSUME IInv, mode = "forced", LandsAt # 0, Top.guard # "opaque"
  PROVE  escape.to = Depth /\ Top.objs = 0
<1>1. /\ stack \in Seq(Frame) /\ Depth = Len(stack) /\ Depth \in Nat /\ Depth >= 1
      /\ Depth \in 1..Len(stack) /\ Top = stack[Len(stack)] /\ FrameInv(Top)
      /\ Depth = 1 => Top.kind = "call"
      /\ Top \in Frame
  BY TopIs
<1>2. /\ escape.to \in 1..Len(stack) /\ stack[escape.to].kind = "scope"
      /\ Aimed(stack, escape)
      /\ \A i \in 1..Len(stack) : i > escape.to => stack[i].kind # "scope"
  BY LandsAtIs
<1>3. StackInv(stack)
  BY DEF IInv, ArmInv
<1>4. escape.to = Depth
  <2>1. SUFFICES ASSUME escape.to < Depth PROVE FALSE
    BY <1>1, <1>2
  <2>2. Top.kind # "scope"
    BY <1>1, <1>2, <2>1
  <2>3. runtime # "wasm"
    BY <2>2 DEF LandsAt
  <2>4. Depth # 1
    BY <1>1, <1>2, <2>1
  <2>5. Top.cfa > escape.marker
    BY <2>3, <2>4 DEF LandsAt, StopsHere
  <2>6. Top.cfa <= stack[escape.to].low
    BY <1>1, <1>2, <1>3, <2>1 DEF StackInv, Descending
  <2>7. stack[escape.to] \in Frame /\ FrameInv(stack[escape.to])
    BY <1>2, <1>3, ArmBasics
  <2>8. stack[escape.to].low <= escape.marker
    BY <1>2, <2>7 DEF FrameInv, Aimed
  <2>9. Top.cfa \in Int /\ stack[escape.to].low \in Int /\ escape.marker \in Int
    BY <1>1, <2>7 DEF Frame, IInv, TypeOK
  <2>10. QED BY <2>5, <2>6, <2>8, <2>9
<1>5. QED BY <1>1, <1>2, <1>4 DEF FrameInv

\* Which steps may leave an object without its destructor.
LEMMA StepLoses ==
  ASSUME IInv, Next, lost' # lost
  PROVE  \/ runtime = "libcxxrt" /\ HandlerDoes(Top.guard) = "skip"
         \/ Top.guard \in {"bare", "opaque"}
<1>1. Land \/ ForcedFrame \/ ThrowFrame
  <2>1. ASSUME NEW why, Die(why) PROVE FALSE
    BY <2>1 DEF Die
  <2>2. ASSUME NEW g, Call(g) PROVE FALSE
    BY <2>2 DEF Call
  <2>3. ASSUME NEW tag, NEW off, OpenScope(tag, off) PROVE FALSE
    BY <2>3 DEF OpenScope
  <2>4. ASSUME NEW tag, NEW err, Eject(tag, err) PROVE FALSE
    BY <2>1, <2>4 DEF Eject
  <2>5. ~(Construct \/ Throw \/ Return \/ ReturnFromDtor)
    BY DEF Construct, Throw, Return, ReturnFromDtor
  <2>6. ~ReturnFromBody
    BY <2>1 DEF ReturnFromBody
  <2>7. ~(ForcedDtor \/ ThrowDtor)
    BY DEF ForcedDtor, ThrowDtor, RunDtor
  <2>8. ~UnwindFails
    BY <2>1 DEF UnwindFails
  <2>9. QED BY <2>2, <2>3, <2>4, <2>5, <2>6, <2>7, <2>8 DEF Next
<1>2. Top.guard \in AllGuards
  BY TopIs DEF Frame
<1>3. CASE ForcedFrame
  <2>1. HandlerDoes(Top.guard) = "skip"
    BY <1>3, ForcedFrameIs DEF Die
  <2>2. QED BY <1>2, <2>1, HandlerIs
<1>4. CASE ThrowFrame
  <2>1. Skipped(Top.guard)
    BY <1>4, ThrowFrameIs DEF Die
  <2>2. QED BY <2>1 DEF Skipped
<1>5. CASE Land
  <2>1. /\ mode = "forced" /\ LandsAt = escape.to
        /\ lost' = (lost \/ \E i \in escape.to..Depth : stack[i].objs > 0)
    BY <1>5, LandIs
  <2>2. LandsAt # 0
    BY <2>1, LandsAtIs
  <2>3. SUFFICES ASSUME Top.guard # "opaque" PROVE FALSE
    OBVIOUS
  <2>4. escape.to = Depth /\ Top.objs = 0
    BY <2>1, <2>2, <2>3, LandsExactly
  <2>5. \A i \in escape.to..Depth : i = Depth
    BY <2>4, TopIs
  <2>6. \A i \in escape.to..Depth : ~(stack[i].objs > 0)
    BY <2>4, <2>5 DEF Top
  <2>7. lost \in BOOLEAN
    BY DEF IInv, TypeOK
  <2>8. QED BY <2>1, <2>6, <2>7
<1>6. QED BY <1>1, <1>3, <1>4, <1>5

\* Only libcxxrt's skipped handlers and frames without cleanup tables cost an
\* object its destructor, whatever the program's frames, objects and scopes, and
\* wherever in escape_scope's frame the carrier lies (stop_function, backend.hpp).
THEOREM NothingIsLost == Spec => NothingLost
<1>1. IInv /\ [Next]_vars
        => [lost' # lost => \/ runtime = "libcxxrt" /\ HandlerDoes(Top.guard) = "skip"
                            \/ Top.guard \in {"bare", "opaque"}]_vars
  BY StepLoses DEF vars
<1>2. QED BY <1>1, SpecIInv, PTL DEF Spec, NothingLost

-----------------------------------------------------------------------------
(* The scopes a step opens and closes.                                      *)

\* The open scopes of a stack, as EscapeContract sees them.
ScopeAt(S, i) == [id |-> i, tag |-> S[i].tag]
Opened(S) == {ScopeAt(S, i) : i \in {j \in 1..Len(S) : S[j].kind = "scope"}}

\* Frames that are no scopes come and go without opening or closing one.
LEMMA OpenedSame ==
  ASSUME NEW S, NEW T, Len(S) \in Nat, Len(T) \in Nat, Len(S) <= Len(T),
         \A i \in 1..Len(S) : T[i].kind = S[i].kind /\ T[i].tag = S[i].tag,
         \A i \in 1..Len(T) : i > Len(S) => T[i].kind # "scope"
  PROVE  Opened(T) = Opened(S)
<1>1. {j \in 1..Len(T) : T[j].kind = "scope"} = {j \in 1..Len(S) : S[j].kind = "scope"}
  OBVIOUS
<1>2. \A i \in {j \in 1..Len(S) : S[j].kind = "scope"} : ScopeAt(T, i) = ScopeAt(S, i)
  BY DEF ScopeAt
<1>3. QED BY <1>1, <1>2 DEF Opened

\* Leaving a frame that is no scope closes none.
LEMMA OpenedPop ==
  ASSUME NEW S \in Seq(Frame), Len(S) >= 1, S[Len(S)].kind # "scope"
  PROVE  Opened(SubSeq(S, 1, Len(S) - 1)) = Opened(S)
<1> DEFINE T == SubSeq(S, 1, Len(S) - 1)
<1>1. Len(S) \in Nat /\ Len(S) - 1 \in 0..Len(S)
  BY LenProperties
<1>2. Len(T) = Len(S) - 1 /\ \A i \in 1..(Len(S) - 1) : T[i] = S[i]
  BY <1>1, CutIs
<1> HIDE DEF T
<1>3. \A i \in 1..Len(S) : i > Len(T) => i = Len(S)
  BY <1>1, <1>2
<1>4. Opened(S) = Opened(T)
  BY <1>1, <1>2, <1>3, OpenedSame
<1>5. QED BY <1>4 DEF T

\* Leaving the innermost scope k, with everything above it, closes k alone.
LEMMA OpenedCut ==
  ASSUME NEW S \in Seq(Frame), NEW k \in 1..Len(S), S[k].kind = "scope",
         \A i \in 1..Len(S) : i > k => S[i].kind # "scope"
  PROVE  /\ Opened(SubSeq(S, 1, k - 1)) = Opened(S) \ {ScopeAt(S, k)}
         /\ ScopeAt(S, k) \in Opened(S)
         /\ \A r \in Opened(S) : r.id <= k
         /\ ScopeAt(S, k).id = k
<1> DEFINE T == SubSeq(S, 1, k - 1)
<1>1. Len(S) \in Nat /\ k - 1 \in 0..Len(S) /\ k \in Nat
  BY LenProperties
<1>2. Len(T) = k - 1 /\ \A i \in 1..(k - 1) : T[i] = S[i]
  BY <1>1, CutIs
<1> HIDE DEF T
<1>3. {j \in 1..Len(T) : T[j].kind = "scope"}
        = {j \in 1..Len(S) : S[j].kind = "scope"} \ {k}
  BY <1>1, <1>2
<1>4. \A i \in {j \in 1..Len(T) : T[j].kind = "scope"} : ScopeAt(T, i) = ScopeAt(S, i)
  BY <1>2 DEF ScopeAt
<1>5. \A i : ScopeAt(S, i).id = i
  BY DEF ScopeAt
<1>6. Opened(T) = Opened(S) \ {ScopeAt(S, k)}
  BY <1>3, <1>4, <1>5 DEF Opened
<1>7. ScopeAt(S, k) \in Opened(S) /\ \A r \in Opened(S) : r.id <= k
  BY <1>1, <1>5 DEF Opened
<1>8. QED BY <1>5, <1>6, <1>7 DEF T

\* escape_scope opens one scope, newer than all others.
LEMMA OpenedPush ==
  ASSUME NEW S \in Seq(Frame), NEW s \in Frame, NEW c \in Frame,
         s.kind = "scope", c.kind # "scope"
  PROVE  /\ Opened(S \o <<s, c>>) = Opened(S) \cup {[id |-> Len(S) + 1, tag |-> s.tag]}
         /\ \A r \in Opened(S) : r.id < Len(S) + 1
<1> DEFINE T == S \o <<s, c>>
           n == Len(S)
<1>1. n \in Nat
  BY LenProperties
<1>2. Len(T) = n + 2 /\ T[n + 1] = s /\ T[n + 2] = c /\ \A i \in 1..n : T[i] = S[i]
  BY <1>1
<1> HIDE DEF T, n
<1>3. {j \in 1..Len(T) : T[j].kind = "scope"}
        = {j \in 1..n : S[j].kind = "scope"} \cup {n + 1}
  BY <1>1, <1>2
<1>4. \A i \in {j \in 1..n : S[j].kind = "scope"} : ScopeAt(T, i) = ScopeAt(S, i)
  BY <1>2 DEF ScopeAt
<1>5. ScopeAt(T, n + 1) = [id |-> n + 1, tag |-> s.tag]
  BY <1>2 DEF ScopeAt
<1>6. Opened(T) = Opened(S) \cup {[id |-> n + 1, tag |-> s.tag]}
  BY <1>3, <1>4, <1>5 DEF Opened, n
<1>7. \A i : ScopeAt(S, i).id = i
  BY DEF ScopeAt
<1>8. \A r \in Opened(S) : r.id < n + 1
  BY <1>1, <1>7 DEF Opened, n
<1>9. QED BY <1>6, <1>8 DEF T, n

\* What a step does to the scopes and to the escape: nothing, ...
Keeps ==
  /\ Opened(stack') = Opened(stack)
  /\ mode' # "dead"
  /\ UNCHANGED <<escape, outcome>>

\* ... open a scope, ...
Opens(tag) ==
  /\ Opened(stack') = Opened(stack) \cup {[id |-> Len(stack) + 1, tag |-> tag]}
  /\ mode' # "dead"
  /\ UNCHANGED <<escape, outcome>>

\* ... aim an escape at the innermost scope, ...
Starts(err) ==
  /\ escape = NoEscape
  /\ active \in 1..Len(stack) /\ stack[active].kind = "scope"
  /\ escape'.to = active /\ escape'.err = err
  /\ Opened(stack') = Opened(stack)
  /\ mode' # "dead"
  /\ UNCHANGED outcome

\* ... or leave the innermost scope k: at a landing, by a value or an exception
\* that concerns no escape aimed at k, or by an exception that replaced one.
ClosesBy(k) ==
  \/ /\ escape.to = k /\ escape' = NoEscape
     /\ outcome' = [how |-> "error", err |-> escape.err]
  \/ /\ escape.to # k /\ escape' = escape
     /\ \E how \in {"value", "exception"} : outcome' = [how |-> how, err |-> NoPayload]
  \/ /\ escape.to = k /\ escape' = NoEscape /\ runtime = "wasm"
     /\ outcome' = [how |-> "exception", err |-> NoPayload]

Closes(k) ==
  /\ k \in 1..Len(stack) /\ stack[k].kind = "scope"
  /\ \A i \in 1..Len(stack) : i > k => stack[i].kind # "scope"
  /\ stack' = SubSeq(stack, 1, k - 1)
  /\ mode' # "dead"
  /\ ClosesBy(k)

\* A step that only leaves a frame that is no scope.
LEMMA PopKeeps ==
  ASSUME IInv, Top.kind # "scope", stack' = SubSeq(stack, 1, Len(stack) - 1),
         mode' # "dead", UNCHANGED <<escape, outcome>>
  PROVE  Keeps
BY TopIs, OpenedPop DEF Keeps

\* A step that calls a function or a destructor.
LEMMA PushKeeps ==
  ASSUME NEW S \in Seq(Frame), NEW f \in Frame, f.kind # "scope"
  PROVE  Opened(Append(S, f)) = Opened(S)
<1> DEFINE T == Append(S, f)
<1>1. Len(S) \in Nat /\ Len(T) = Len(S) + 1 /\ T[Len(S) + 1] = f
      /\ \A i \in 1..Len(S) : T[i] = S[i]
  BY PushIs, LenProperties
<1> HIDE DEF T
<1>2. \A i \in 1..Len(T) : i > Len(S) => i = Len(S) + 1
  BY <1>1
<1>3. \A i \in 1..Len(T) : i > Len(S) => T[i].kind # "scope"
  BY <1>1, <1>2
<1>4. Opened(T) = Opened(S)
  BY <1>1, <1>3, OpenedSame
<1>5. QED BY <1>4 DEF T

\* A step that replaces a frame by one of the same kind and tag.
LEMMA PatchKeeps ==
  ASSUME NEW S \in Seq(Frame), NEW k \in 1..Len(S), NEW f \in Frame,
         f.kind = S[k].kind, f.tag = S[k].tag
  PROVE  /\ [S EXCEPT ![k] = f] \in Seq(Frame)
         /\ Opened([S EXCEPT ![k] = f]) = Opened(S)
<1> DEFINE T == [S EXCEPT ![k] = f]
<1>1. Len(S) \in Nat /\ T \in Seq(Frame) /\ Len(T) = Len(S)
      /\ \A i \in 1..Len(S) : T[i] = IF i = k THEN f ELSE S[i]
  BY ExceptSeq, LenProperties
<1> HIDE DEF T
<1>2. Opened(T) = Opened(S)
  BY <1>1, OpenedSame
<1>3. QED BY <1>1, <1>2 DEF T

\* The program's own code, other than eject, opens a scope or none.
LEMMA CodeIs ==
  ASSUME IInv,
         \/ \E g \in Guards : Call(g)
         \/ Construct
         \/ Throw
         \/ \E tag \in Tags, off \in 0..(FrameSize - 1) : OpenScope(tag, off)
  PROVE  mode # "dead" /\ UNCHANGED runtime /\ (Keeps \/ \E tag \in Tags : Opens(tag))
<1>1. /\ stack \in Seq(Frame) /\ Depth = Len(stack) /\ Depth \in 1..Len(stack)
      /\ Top = stack[Len(stack)] /\ Top \in Frame /\ Top.low \in Int /\ FrameInv(Top)
      /\ Top.objs \in Nat
      /\ mode = "run" => Top.kind # "scope"
  BY TopIs
<1>2. ASSUME NEW g \in Guards, Call(g)
      PROVE  mode # "dead" /\ UNCHANGED runtime /\ Keeps
  <2> DEFINE f == CallFrame(Top.low, "call", g, "run")
  <2>1. stack' = Append(stack, f) /\ mode = "run"
        /\ UNCHANGED <<mode, escape, outcome, runtime>>
    BY <1>2 DEF Call, Perform
  <2>2. f \in Frame /\ f.kind = "call"
    BY <1>1, ArmAssumption, CallFrameIs
  <2> HIDE DEF f
  <2>3. Opened(stack') = Opened(stack)
    BY <1>1, <2>1, <2>2, PushKeeps
  <2>4. QED BY <2>1, <2>3 DEF Keeps
<1>3. ASSUME Construct
      PROVE  mode # "dead" /\ UNCHANGED runtime /\ Keeps
  <2> DEFINE o == Top.objs + 1
             f == [Top EXCEPT !.objs = o]
  <2>1. stack' = [stack EXCEPT ![Depth] = f] /\ mode = "run"
        /\ UNCHANGED <<mode, escape, outcome, runtime>>
    BY <1>3 DEF Construct, Perform, Top
  <2>2. f \in Frame /\ f.kind = Top.kind /\ f.tag = Top.tag
    BY <1>1, <2>1, ObjsFrame
  <2> HIDE DEF f
  <2>3. Opened(stack') = Opened(stack)
    BY <1>1, <2>1, <2>2, PatchKeeps
  <2>4. QED BY <2>1, <2>3 DEF Keeps
<1>4. ASSUME Throw
      PROVE  mode # "dead" /\ UNCHANGED runtime /\ Keeps
  BY <1>4 DEF Throw, Perform, Keeps
<1>5. ASSUME NEW tag \in Tags, NEW off \in 0..(FrameSize - 1), OpenScope(tag, off)
      PROVE  mode # "dead" /\ UNCHANGED runtime /\ Opens(tag)
  <2> DEFINE s == ScopeFrame(Top.low, tag, off)
             c == CallFrame(s.low, "call", "none", "run")
  <2>1. stack' = stack \o <<s, c>> /\ mode = "run"
        /\ UNCHANGED <<mode, escape, outcome, runtime>>
    BY <1>5 DEF OpenScope, Perform
  <2>2. s \in Frame /\ s.kind = "scope" /\ s.tag = tag /\ s.low \in Int
    BY <1>1, ScopeFrameIs DEF IInv, TypeOK
  <2>3. c \in Frame /\ c.kind = "call"
    BY <2>2, CallFrameIs DEF AllGuards
  <2> HIDE DEF s, c
  <2>4. Opened(stack') = Opened(stack) \cup {[id |-> Len(stack) + 1, tag |-> tag]}
    BY <1>1, <2>1, <2>2, <2>3, OpenedPush
  <2>5. QED BY <2>1, <2>4 DEF Opens
<1>6. QED BY <1>2, <1>3, <1>4, <1>5

\* eject aims the one escape at the innermost scope, or ends the process.
LEMMA EjectIs ==
  ASSUME IInv, NEW tag \in Tags, NEW err \in Payloads, Eject(tag, err)
  PROVE  mode # "dead" /\ UNCHANGED runtime /\ (Starts(err) \/ \E why : Die(why))
<1>1. mode = "run" /\ UNCHANGED runtime
  BY DEF Eject, Perform
<1>2. CASE EjectRefusal(tag) # "alive"
  BY <1>1, <1>2 DEF Eject
<1>3. CASE EjectRefusal(tag) = "alive"
  <2>1. active # 0 /\ in_flight = FALSE
    BY <1>3 DEF EjectRefusal, IInv, TypeOK
  <2>2. /\ stack' = [stack EXCEPT ![active].error = err, ![active].ejected = TRUE]
        /\ escape' = [to |-> active, marker |-> stack[active].car, err |-> err]
        /\ mode' = "forced"
        /\ UNCHANGED outcome
    BY <1>3 DEF Eject
  <2> DEFINE f == [stack[active] EXCEPT !.error = err, !.ejected = TRUE]
  <2>3. /\ stack \in Seq(Frame) /\ active \in 1..Len(stack)
        /\ stack[active] \in Frame /\ stack[active].kind = "scope"
    <3>1. StackInv(stack) /\ InnermostIn(stack, Len(stack), active)
      BY DEF IInv, ArmInv
    <3>2. active \in 1..Len(stack) /\ stack[active].kind = "scope"
      BY <2>1, <3>1, ArmBasics DEF InnermostIn
    <3>3. QED BY <3>1, <3>2, ArmBasics
  <2>4. f \in Frame /\ f.kind = stack[active].kind /\ f.tag = stack[active].tag
    BY <2>3 DEF Frame
  <2>5. stack' = [stack EXCEPT ![active] = f]
    BY <2>2, <2>3 DEF Frame
  <2> HIDE DEF f
  <2>6. Opened(stack') = Opened(stack)
    BY <2>3, <2>4, <2>5, PatchKeeps
  <2>7. escape = NoEscape
    <3>1. EscapeIn(stack, mode, active, in_flight, escape)
      BY DEF IInv, ArmInv
    <3>2. QED BY <2>1, <3>1 DEF EscapeIn
  <2>8. QED BY <1>1, <2>2, <2>3, <2>6, <2>7 DEF Starts
<1>4. QED BY <1>2, <1>3

\* A destructor an unwind calls opens and closes no scope.
LEMMA RunDtorKeeps ==
  ASSUME IInv, mode \in {"forced", "throw"}, RunDtor
  PROVE  UNCHANGED runtime /\ Keeps
<1> DEFINE o == Top.objs - 1
           t == [Top EXCEPT !.objs = o]
           S == [stack EXCEPT ![Depth] = t]
           f == CallFrame(Top.low, "dtor", "noexcept", mode)
<1>1. /\ stack \in Seq(Frame) /\ Depth = Len(stack) /\ Depth \in 1..Len(stack)
      /\ Top = stack[Len(stack)] /\ Top \in Frame /\ Top.low \in Int /\ FrameInv(Top)
      /\ Top.objs \in Nat
  BY TopIs
<1>2. stack' = Append(S, f) /\ mode' = "run" /\ UNCHANGED <<escape, outcome, runtime>>
      /\ Top.objs > 0
  BY DEF RunDtor, Top
<1>3. o \in Nat /\ Top.kind # "scope"
  BY <1>1, <1>2 DEF FrameInv
<1>4. t \in Frame /\ t.kind = Top.kind /\ t.tag = Top.tag
  BY <1>1, <1>3, ObjsFrame
<1>5. f \in Frame /\ f.kind = "dtor"
  <2>1. "noexcept" \in AllGuards
    BY DEF AllGuards
  <2>2. mode \in {"run", "forced", "throw"} /\ Top.low \in Int
    BY <1>1
  <2> HIDE DEF t, o
  <2>3. QED BY <2>1, <2>2, CallFrameIs
<1> HIDE DEF t, f
<1>6. S \in Seq(Frame) /\ Opened(S) = Opened(stack)
  BY <1>1, <1>4, PatchKeeps
<1> HIDE DEF S
<1>7. Opened(stack') = Opened(stack)
  BY <1>2, <1>5, <1>6, PushKeeps
<1>8. QED BY <1>2, <1>7 DEF Keeps

\* The body returns: its scope is left by a value only if no escape is aimed at it.
LEMMA ReturnFromBodyIs ==
  ASSUME IInv, ReturnFromBody
  PROVE  /\ mode # "dead" /\ UNCHANGED runtime
         /\ (\E k \in 1..Len(stack) : Closes(k)) \/ \E why : Die(why)
<1> DEFINE k == Depth - 1
<1>1. /\ mode = "run" /\ Depth > 1 /\ Top.kind = "call" /\ stack[k].kind = "scope"
      /\ UNCHANGED runtime
  BY DEF ReturnFromBody
<1>2. /\ k \in 1..Len(stack)
      /\ \A i \in 1..Len(stack) : i > k => stack[i].kind # "scope"
  BY <1>1, BodyScope
<1>3. CASE Swallowed(stack[k])
  BY <1>1, <1>3 DEF ReturnFromBody
<1>4. CASE ~Swallowed(stack[k])
  <2>1. stack' = SubSeq(stack, 1, k - 1)
    <3>1. Depth - 2 = k - 1
      BY TopIs
    <3>2. QED BY <1>4, <3>1 DEF ReturnFromBody, Cut
  <2>2. outcome' = [how |-> "value", err |-> NoPayload] /\ UNCHANGED <<mode, escape>>
    BY <1>4 DEF ReturnFromBody
  <2>3. escape.to # k
    <3>1. EscapeIn(stack, mode, active, in_flight, escape)
      BY DEF IInv, ArmInv
    <3>2. k # 0
      BY <1>2
    <3>3. QED BY <1>4, <3>1, <3>2 DEF EscapeIn, Aimed, Swallowed
  <2>4. ClosesBy(k)
    BY <2>2, <2>3 DEF ClosesBy
  <2>5. Closes(k)
    BY <1>1, <1>2, <2>1, <2>2, <2>4 DEF Closes
  <2>6. QED BY <1>1, <1>2, <2>5
<1>5. QED BY <1>3, <1>4

\* An exception that leaves a scope an escape is aimed at has replaced the escape,
\* which only the handlers of WebAssembly make possible.
LEMMA ThrowFrameCloses ==
  ASSUME IInv, ThrowFrame
  PROVE  /\ mode # "dead" /\ UNCHANGED runtime
         /\ Keeps \/ (\E k \in 1..Len(stack) : Closes(k)) \/ \E why : Die(why)
<1>1. /\ Top = stack[Len(stack)] /\ Depth = Len(stack) /\ Depth \in 1..Len(stack)
      /\ Depth \in Nat
  BY TopIs
<1>2. mode = "throw" /\ UNCHANGED runtime
  BY ThrowFrameIs
<1>3. CASE Die("terminate")
  BY <1>2, <1>3
<1>4. CASE /\ mode' = "run" /\ Top.kind # "scope"
           /\ UNCHANGED <<stack, active, in_flight, escape, outcome, lost, death>>
  BY <1>2, <1>4 DEF Keeps
<1>5. CASE /\ Depth > 1 /\ Top.kind = "call" /\ mode' = "throw"
           /\ stack' = SubSeq(stack, 1, Len(stack) - 1)
           /\ UNCHANGED <<active, in_flight, escape, outcome, death>>
  BY <1>2, <1>5, PopKeeps
<1>6. CASE /\ Depth > 1 /\ Top.kind = "scope" /\ mode' = "throw"
           /\ stack' = SubSeq(stack, 1, Len(stack) - 1)
           /\ active' = Top.prev
           /\ outcome' = [how |-> "exception", err |-> NoPayload]
           /\ escape' = IF escape.to = Depth THEN NoEscape ELSE escape
           /\ UNCHANGED <<in_flight, lost, death>>
  <2>1. \A i \in 1..Len(stack) : i > Depth => stack[i].kind # "scope"
    BY <1>1
  <2>2. escape.to = Depth => runtime = "wasm"
    <3>1. SUFFICES ASSUME escape.to = Depth, runtime # "wasm" PROVE FALSE
      OBVIOUS
    <3>2. /\ EscapeIn(stack, mode, active, in_flight, escape)
          /\ FlightIn(stack, mode, in_flight, runtime)
      BY DEF IInv, ArmInv
    <3>3. in_flight
      BY <1>1, <3>1, <3>2 DEF EscapeIn
    <3>4. Escaping(stack, mode)
      BY <1>2, <3>1, <3>2, <3>3 DEF FlightIn
    <3>5. PICK i \in 1..Len(stack) : Interrupts(stack, i)
      BY <1>2, <3>4 DEF Escaping
    <3>6. InnermostIn(stack, i - 1, escape.to)
      BY <3>2, <3>5 DEF EscapeIn
    <3>7. QED BY <1>1, <3>1, <3>6 DEF InnermostIn
  <2>3. ClosesBy(Depth)
    BY <1>6, <2>2 DEF ClosesBy
  <2>4. Closes(Depth)
    BY <1>1, <1>6, <2>1, <2>3 DEF Closes
  <2>5. QED BY <1>1, <1>2, <2>4
<1>7. QED BY <1>3, <1>4, <1>5, <1>6, ThrowFrameIs

\* Every step does one of these to the scopes.
LEMMA StepIs ==
  ASSUME IInv, Next
  PROVE  /\ mode # "dead" /\ UNCHANGED runtime
         /\ \/ Keeps
            \/ \E tag \in Tags : Opens(tag)
            \/ \E err \in Payloads : Starts(err)
            \/ \E k \in 1..Len(stack) : Closes(k)
            \/ \E why : Die(why)
<1>1. CASE \/ \E g \in Guards : Call(g)
           \/ Construct
           \/ Throw
           \/ \E tag \in Tags, off \in 0..(FrameSize - 1) : OpenScope(tag, off)
  BY <1>1, CodeIs
<1>2. CASE \E tag \in Tags, err \in Payloads : Eject(tag, err)
  BY <1>2, EjectIs
<1>3. CASE Return
  <2>1. /\ mode = "run" /\ Top.kind = "call" /\ stack' = SubSeq(stack, 1, Len(stack) - 1)
        /\ UNCHANGED <<mode, escape, outcome, runtime>>
    BY <1>3 DEF Return, Pop, Cut, Depth
  <2>2. QED BY <2>1, PopKeeps
<1>4. CASE ReturnFromBody
  BY <1>4, ReturnFromBodyIs
<1>5. CASE ReturnFromDtor
  <2>1. /\ mode = "run" /\ Top.kind = "dtor" /\ stack' = SubSeq(stack, 1, Len(stack) - 1)
        /\ mode' = Top.resume
        /\ UNCHANGED <<escape, outcome, runtime>>
    BY <1>5 DEF ReturnFromDtor, Pop, Cut, Depth
  <2>2. mode' # "dead"
    BY <2>1, TopIs DEF Frame
  <2>3. QED BY <2>1, <2>2, PopKeeps
<1>6. CASE Land
  <2>1. /\ mode = "forced" /\ stack' = SubSeq(stack, 1, escape.to - 1)
        /\ outcome' = [how |-> "error", err |-> escape.err]
        /\ escape' = NoEscape /\ mode' = "run" /\ UNCHANGED runtime
    BY <1>6, LandIs
  <2>2. /\ escape.to \in 1..Len(stack) /\ stack[escape.to].kind = "scope"
        /\ \A i \in 1..Len(stack) : i > escape.to => stack[i].kind # "scope"
    BY <2>1, LandsAtIs
  <2>3. Closes(escape.to)
    BY <2>1, <2>2 DEF Closes, ClosesBy
  <2>4. QED BY <2>1, <2>2, <2>3
<1>7. CASE ForcedDtor \/ ThrowDtor
  <2>1. mode \in {"forced", "throw"} /\ RunDtor
    BY <1>7 DEF ForcedDtor, ThrowDtor
  <2>2. QED BY <2>1, RunDtorKeeps
<1>8. CASE ForcedFrame
  <2>1. mode = "forced" /\ Top.kind # "scope" /\ UNCHANGED runtime
    BY <1>8, ForcedFrameIs
  <2>2. CASE /\ stack' = SubSeq(stack, 1, Len(stack) - 1)
             /\ mode' = "forced" \/ (mode' = "throw" /\ runtime = "wasm")
             /\ UNCHANGED <<active, in_flight, escape, outcome, death>>
    BY <2>1, <2>2, PopKeeps
  <2>3. CASE /\ mode' = "run" /\ runtime = "wasm"
             /\ UNCHANGED <<stack, active, in_flight, escape, outcome, lost, death>>
    BY <2>1, <2>3 DEF Keeps
  <2>4. CASE \E why \in Deaths : Die(why)
    BY <2>1, <2>4
  <2>5. QED BY <1>8, <2>2, <2>3, <2>4, ForcedFrameIs
<1>9. CASE ThrowFrame
  BY <1>9, ThrowFrameCloses
<1>10. CASE UnwindFails
  BY <1>10 DEF UnwindFails
<1>11. QED
  BY <1>1, <1>2, <1>3, <1>4, <1>5, <1>6, <1>7, <1>8, <1>9, <1>10 DEF Next

\* The scope frames are the open scopes, before and after a step.
LEMMA OpenedAre ==
  /\ Opened(stack) = {[id |-> i, tag |-> stack[i].tag] : i \in ScopeIndexes}
  /\ Opened(stack') = {[id |-> i, tag |-> stack[i].tag] : i \in ScopeIndexes}'
  /\ \A i : i \in ScopeIndexes <=> \E r \in Opened(stack) : r.id = i
  /\ \A i : i \in ScopeIndexes' <=> \E r \in Opened(stack') : r.id = i
<1>1. /\ Opened(stack) = {[id |-> i, tag |-> stack[i].tag] : i \in ScopeIndexes}
      /\ Opened(stack') = {[id |-> i, tag |-> stack'[i].tag] : i \in ScopeIndexes'}
  BY DEF Opened, ScopeAt, ScopeIndexes, Depth
<1>2. ASSUME NEW i PROVE i \in ScopeIndexes <=> \E r \in Opened(stack) : r.id = i
  <2>1. \A j : [id |-> j, tag |-> stack[j].tag].id = j
    OBVIOUS
  <2>2. ASSUME i \in ScopeIndexes PROVE \E r \in Opened(stack) : r.id = i
    <3>1. [id |-> i, tag |-> stack[i].tag] \in Opened(stack)
      BY <1>1, <2>2
    <3>2. QED BY <2>1, <3>1
  <2>3. ASSUME NEW r \in Opened(stack), r.id = i PROVE i \in ScopeIndexes
    BY <1>1, <2>1, <2>3
  <2>4. QED BY <2>2, <2>3
<1>3. ASSUME NEW i PROVE i \in ScopeIndexes' <=> \E r \in Opened(stack') : r.id = i
  <2>1. \A j : [id |-> j, tag |-> stack'[j].tag].id = j
    OBVIOUS
  <2>2. ASSUME i \in ScopeIndexes' PROVE \E r \in Opened(stack') : r.id = i
    <3>1. [id |-> i, tag |-> stack'[i].tag] \in Opened(stack')
      BY <1>1, <2>2
    <3>2. QED BY <2>1, <3>1
  <2>3. ASSUME NEW r \in Opened(stack'), r.id = i PROVE i \in ScopeIndexes'
    BY <1>1, <2>1, <2>3
  <2>4. QED BY <2>2, <2>3
<1>4. {[id |-> i, tag |-> stack[i].tag] : i \in ScopeIndexes}'
        = {[id |-> i, tag |-> stack'[i].tag] : i \in ScopeIndexes'}
  OBVIOUS
<1>5. QED BY <1>1, <1>2, <1>3, <1>4

\* A scope that goes away while an escape is aimed at it was not left by a value.
LEMMA StepSucceeds ==
  ASSUME IInv, Next, escape.to \in ScopeIndexes, escape.to \notin ScopeIndexes'
  PROVE  outcome'.how # "value"
<1>1. \E r \in Opened(stack) : r.id = escape.to
  BY OpenedAre
<1>2. ~\E r \in Opened(stack') : r.id = escape.to
  BY OpenedAre
<1>3. ~(Opened(stack) \subseteq Opened(stack'))
  BY <1>1, <1>2
<1>4. \A why : ~Die(why)
  BY <1>3 DEF Die
<1>5. PICK k \in 1..Len(stack) : Closes(k)
  BY <1>3, <1>4, StepIs DEF Keeps, Opens, Starts
<1>6. /\ Opened(stack') = Opened(stack) \ {ScopeAt(stack, k)}
      /\ ScopeAt(stack, k).id = k
  BY <1>5, TopIs, OpenedCut DEF Closes
<1>7. escape.to = k
  BY <1>1, <1>2, <1>6
<1>8. QED BY <1>5, <1>7 DEF Closes, ClosesBy

\* No scope returns a value while an escape aimed at it is undelivered, on any
\* runtime, whatever handlers the escape met and whatever its cleanups did: the
\* silent_loss of tests/unwind/runtime_matrix.cpp cannot happen.
THEOREM NoScopeSucceedsSilently == Spec => NoSilentSuccess
<1>1. IInv /\ [Next]_vars
        => [(escape.to \in ScopeIndexes /\ escape.to \notin ScopeIndexes')
              => outcome'.how # "value"]_vars
  BY StepSucceeds DEF vars
<1>2. QED BY <1>1, SpecIInv, PTL DEF Spec, NoSilentSuccess

-----------------------------------------------------------------------------
(* The arm implements EscapeContract.                                       *)

\* The process ends.
LEMMA DieTerminates ==
  ASSUME mode # "dead", UNCHANGED runtime, NEW why, Die(why)
  PROVE  Contract!Terminate
<1>1. Opened(stack') = Opened(stack)
  BY DEF Die
<1>2. QED BY <1>1, OpenedAre DEF Contract!Terminate, Die

\* Every step is one the contract allows, or none it can see.
LEMMA StepContract ==
  ASSUME IInv, Next
  PROVE  [Contract!Next]_(Contract!vars)
<1> DEFINE open == {[id |-> i, tag |-> stack[i].tag] : i \in ScopeIndexes}
<1>1. mode # "dead" /\ UNCHANGED runtime
  BY StepIs
<1>2. /\ stack \in Seq(Frame) /\ Depth = Len(stack) /\ Len(stack) \in Nat
  BY TopIs
<1>3. CASE Keeps
  <2>1. open' = open
    BY <1>3, OpenedAre DEF Keeps
  <2>2. QED BY <1>1, <1>3, <2>1 DEF Keeps, Contract!vars
<1>4. ASSUME NEW tag \in Tags, Opens(tag) PROVE Contract!Next
  <2>1. PICK s : s = [id |-> Len(stack) + 1, tag |-> tag]
    OBVIOUS
  <2>2. open' = open \cup {s} /\ \A r \in open : r.id < Len(stack) + 1
    <3>1. \A r \in Opened(stack) : r.id < Len(stack) + 1
      BY <1>2 DEF Opened, ScopeAt
    <3>2. QED BY <1>4, <2>1, <3>1, OpenedAre DEF Opens
  <2>3. Contract!Open(s)
    BY <1>1, <1>2, <1>4, <2>1, <2>2 DEF Contract!Open, Opens
  <2>4. s \in open'
    BY <2>2
  <2>5. QED BY <2>3, <2>4 DEF Contract!Next
<1>5. ASSUME NEW err \in Payloads, Starts(err) PROVE Contract!Next
  <2>1. open' = open
    BY <1>5, OpenedAre DEF Starts
  <2>2. PICK s : s \in open /\ s.id = active /\ \A r \in open : r.id <= active
    <3>1. InnermostIn(stack, Len(stack), active)
      BY DEF IInv, ArmInv
    <3>2. \A i \in 1..Len(stack) : i > active => stack[i].kind # "scope"
      BY <1>2, <1>5, <3>1 DEF InnermostIn, Starts
    <3>3. QED BY <1>2, <1>5, <3>2, OpenedCut, OpenedAre DEF Starts
  <2>3. Contract!Innermost(s)
    BY <2>2 DEF Contract!Innermost
  <2>4. Contract!Escape(s, err)
    BY <1>1, <1>5, <2>1, <2>2, <2>3
    DEF Contract!Escape, Contract!NoEscape, NoEscape, Starts
  <2>5. QED BY <2>2, <2>4 DEF Contract!Next
<1>6. ASSUME NEW k \in 1..Len(stack), Closes(k) PROVE Contract!Next
  <2>1. PICK s : open' = open \ {s} /\ s \in open /\ s.id = k /\ \A r \in open : r.id <= k
    BY <1>2, <1>6, OpenedCut, OpenedAre DEF Closes
  <2>2. Contract!Innermost(s)
    BY <2>1 DEF Contract!Innermost
  <2>3. CASE /\ escape.to = k /\ escape' = NoEscape
             /\ outcome' = [how |-> "error", err |-> escape.err]
    <3>1. Contract!Land(s)
      BY <1>1, <1>6, <2>1, <2>2, <2>3
      DEF Contract!Land, Contract!NoEscape, NoEscape, Closes
    <3>2. QED BY <2>1, <3>1 DEF Contract!Next
  <2>4. ASSUME escape.to # k, escape' = escape, NEW how \in {"value", "exception"},
               outcome' = [how |-> how, err |-> NoPayload]
        PROVE  Contract!Next
    <3>1. Contract!Leave(s, how)
      BY <1>1, <1>6, <2>1, <2>2, <2>4 DEF Contract!Leave, Closes
    <3>2. QED BY <2>1, <3>1 DEF Contract!Next
  <2>5. CASE /\ escape.to = k /\ escape' = NoEscape /\ runtime = "wasm"
             /\ outcome' = [how |-> "exception", err |-> NoPayload]
    <3>1. Contract!Overtake(s)
      BY <1>1, <1>6, <2>1, <2>2, <2>5
      DEF Contract!Overtake, Contract!NoEscape, NoEscape, Closes
    <3>2. QED BY <2>1, <3>1 DEF Contract!Next
  <2>6. QED BY <1>6, <2>3, <2>4, <2>5 DEF Closes, ClosesBy
<1>7. ASSUME NEW why, Die(why) PROVE Contract!Next
  BY <1>1, <1>7, DieTerminates DEF Contract!Next
<1>8. QED BY <1>3, <1>4, <1>5, <1>6, <1>7, StepIs

\* The arm implements EscapeContract on every runtime and for every program: an
\* eject lands at the nearest enclosing scope, whose result holds that error, or
\* the process ends; only WebAssembly's handlers can put another exception in the
\* place of the escape.
THEOREM ArmImplementsContract == Spec => ImplementsContract
<1>1. Init => Contract!Init
  <2> SUFFICES ASSUME Init PROVE Contract!Init
    OBVIOUS
  <2>1. Len(stack) = 1 /\ stack[1].kind = "call"
    <3>1. Bottom.kind = "call"
      BY CallFrameIs DEF Bottom, AllGuards
    <3>2. stack = <<Bottom>>
      BY DEF Init
    <3>3. QED BY <3>1, <3>2
  <2>2. ScopeIndexes = {}
    BY <2>1 DEF ScopeIndexes, Depth
  <2>3. {[id |-> i, tag |-> stack[i].tag] : i \in ScopeIndexes} = {}
    BY <2>2
  <2>4. QED BY <2>3 DEF Init, Contract!Init, Contract!NoEscape, NoEscape, NoOutcome
<1>2. IInv /\ [Next]_vars => [Contract!Next]_(Contract!vars)
  <2> SUFFICES ASSUME IInv, [Next]_vars PROVE [Contract!Next]_(Contract!vars)
    OBVIOUS
  <2>1. CASE Next
    BY <2>1, StepContract
  <2>2. CASE UNCHANGED vars
    <3>1. Opened(stack') = Opened(stack) /\ UNCHANGED <<escape, outcome, mode, runtime>>
      BY <2>2 DEF vars
    <3>2. QED BY <3>1, OpenedAre DEF Contract!vars
  <2>3. QED BY <2>1, <2>2
<1>3. QED BY <1>1, <1>2, SpecIInv, PTL DEF Spec, ImplementsContract, Contract!Spec

-----------------------------------------------------------------------------
(* The landing frame is there to land in.                                   *)

\* No step ends the process by a landing in a frame that is gone.
LEMMA StepDies ==
  ASSUME IInv, Next
  PROVE  death' # death => death' # "wild landing"
<1>1. ASSUME NEW g, Call(g) PROVE death' = death
  BY <1>1 DEF Call
<1>2. ASSUME NEW tag, NEW off, OpenScope(tag, off) PROVE death' = death
  BY <1>2 DEF OpenScope
<1>3. ASSUME NEW tag, NEW err, Eject(tag, err)
      PROVE  death' # death => death' # "wild landing"
  <2>1. EjectRefusal(tag) # "wild landing"
    BY DEF EjectRefusal
  <2>2. QED BY <1>3, <2>1 DEF Eject, Die
<1>4. CASE Construct \/ Throw \/ Return \/ ReturnFromDtor \/ ForcedDtor \/ ThrowDtor
  BY <1>4 DEF Construct, Throw, Return, ReturnFromDtor, ForcedDtor, ThrowDtor, RunDtor
<1>5. CASE ReturnFromBody
  BY <1>5 DEF ReturnFromBody, Die
<1>6. CASE Land
  BY <1>6, LandIs
<1>7. CASE ForcedFrame
  <2>1. HandlerDoes(Top.guard) # "wild landing"
    BY TopIs, HandlerIs DEF Frame
  <2>2. QED BY <1>7, <2>1 DEF ForcedFrame, LeaveFrame, SkipFrame, Die
<1>8. CASE ThrowFrame
  BY <1>8, ThrowFrameIs DEF Die
<1>9. CASE UnwindFails
  BY <1>9 DEF UnwindFails, Die
<1>10. QED
  BY <1>1, <1>2, <1>3, <1>4, <1>5, <1>6, <1>7, <1>8, <1>9 DEF Next

\* Wherever the carrier lies in its frame and whatever the stack above it, the walk
\* stops while the landing frame is still on the stack (stop_function).
THEOREM LandingsAreOnTheStack == Spec => []NoWildLanding
<1>1. Init => NoWildLanding
  BY DEF Init, NoWildLanding
<1>2. IInv /\ NoWildLanding /\ [Next]_vars => NoWildLanding'
  BY StepDies DEF vars, NoWildLanding
<1>3. QED BY <1>1, <1>2, SpecIInv, PTL DEF Spec

=============================================================================
