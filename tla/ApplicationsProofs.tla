------------------------ MODULE ApplicationsProofs ------------------------
(***************************************************************************)
(* What the applications promise across calls, for every document, image,  *)
(* manifest, scene and file, and for every bound: the guards of the frames *)
(* agree with the state that outlives the call, and the fixed arrays the   *)
(* path is kept in are never overrun.                                      *)
(*                                                                         *)
(* The argument is about the stack alone.  A frame is known by where it is *)
(* in its function: that tells which of its guards are constructed.  Every *)
(* frame but the innermost stands at its recursive call, so all of them    *)
(* are marked and own their resource, and only the innermost one can be in *)
(* between.  A step changes the innermost frame, pushes one or pops one;   *)
(* the lemmas about the stack say what each of these keeps, and each       *)
(* application's actions are shown to be one of them.                      *)
(***************************************************************************)
EXTENDS Applications, FiniteSetTheorems, SequenceTheorems, TLAPS

-----------------------------------------------------------------------------
(* The inductive invariant.                                                *)

IsSeq(s) == Len(s) \in Nat /\ s = [i \in 1..Len(s) |-> s[i]]

FrameFields == {"name", "depth", "pc", "at", "out", "marks", "owns"}
IsFrame(f) ==
  /\ f = [x \in FrameFields |-> f[x]]
  /\ f.marks \in BOOLEAN
  /\ f.owns \in BOOLEAN

\* The levels of a descent: the frame at position i is at depth i - 1.
Levels(fs) ==
  /\ IsSeq(fs)
  /\ \A i \in 1..Len(fs) : IsFrame(fs[i]) /\ fs[i].depth = i - 1

\* The applications whose frames guard a path: the resolver, the record checker
\* and the trusted application.
Guarding == {"resolver", "store", "manifest"}

\* Where a frame of application a can be, and where it is while the level below
\* it runs.
Points(a) ==
  IF a = "resolver" THEN {"enter", "value", "text"}
  ELSE IF a = "store" THEN {"enter", "open", "read", "ref", "done"}
  ELSE {"enter", "digest", "parse", "image"}
CallPoint(a) ==
  IF a = "resolver" THEN "text" ELSE IF a = "store" THEN "done" ELSE "image"

\* A frame's guards are the ones its function has constructed where it is.
OwningPoints == {"read", "ref", "done", "parse", "image"}
Guarded(a, f) ==
  /\ f.pc \in Points(a)
  /\ f.marks <=> f.pc # "enter"
  /\ f.owns <=> f.pc \in OwningPoints

\* The resources the frames own: one each, but for the innermost.
Owned(a, fs) ==
  IF a = "resolver" \/ fs = <<>> THEN 0
  ELSE IF fs[Len(fs)].owns THEN Len(fs) ELSE Len(fs) - 1

\* The path: the names of the frames, without the innermost if it has not
\* marked its own yet.
OnStack(fs, p) ==
  /\ IsSeq(p)
  /\ Len(p) = IF fs # <<>> /\ ~fs[Len(fs)].marks THEN Len(fs) - 1 ELSE Len(fs)
  /\ \A i \in 1..Len(p) : p[i] = fs[i].name
  /\ \A i, j \in 1..Len(p) : p[i] = p[j] => i = j

Stack(a, fs, p, h) ==
  /\ Levels(fs)
  /\ \A i \in 1..Len(fs) : Guarded(a, fs[i])
  /\ \A i \in 1..Len(fs) : i < Len(fs) => fs[i].pc = CallPoint(a)
  /\ OnStack(fs, p)
  /\ h = Owned(a, fs)

\* The frames of the configuration checker: a section, or a field of the first.
Sections(fs) ==
  /\ Len(fs) <= 2
  /\ fs # <<>> /\ fs[1].name = "server" => fs[1].at \in 1..3
  /\ Len(fs) = 2 => fs[1].name = "server" /\ fs[2].name \in {"port", "workers"}

Control ==
  /\ app \in {"resolver", "store", "manifest", "scene", "config"}
  /\ mode \in {"idle", "begin", "run", "escape", "fail"}
  /\ mode \in {"idle", "begin"} => frames = <<>>
  /\ mode = "run" => frames # <<>>
  /\ held \in Nat
  /\ count \in Nat
  /\ deepest \in Nat

Shape ==
  /\ Levels(frames)
  /\ app \in Guarding => Stack(app, frames, path, held)
  /\ app \notin Guarding /\ mode # "fail" => held = 0
  /\ app = "scene" /\ mode \in {"idle", "begin"} => path = <<>>
  /\ app = "config" => path = <<>> /\ Sections(frames)

IInv == Control /\ Shape /\ PathFits

-----------------------------------------------------------------------------
(* Sequences over no declared set.                                         *)

\* A sequence is one over any set that holds its elements.
LEMMA SeqOver ==
  ASSUME NEW s, NEW S, IsSeq(s), \A i \in 1..Len(s) : s[i] \in S
  PROVE  s \in Seq(S)
<1> DEFINE n == Len(s)
<1>1. n \in Nat /\ s = [i \in 1..n |-> s[i]]
  BY DEF IsSeq
<1>2. \A i \in 1..n : s[i] \in S
  OBVIOUS
<1> HIDE DEF n
<1>3. s \in [1..n -> S]
  BY <1>1, <1>2
<1> QED BY <1>1, <1>3

LEMMA SeqOf ==
  ASSUME NEW s, IsSeq(s)
  PROVE  s \in Seq({s[i] : i \in 1..Len(s)})
BY SeqOver

\* And a member of Seq(S) is a sequence.
LEMMA IsSeqOf ==
  ASSUME NEW S, NEW s \in Seq(S)
  PROVE  /\ IsSeq(s)
         /\ s = <<>> <=> Len(s) = 0
BY DEF IsSeq

LEMMA EmptyIsSeq == IsSeq(<<>>) /\ Len(<<>>) = 0
BY DEF IsSeq

LEMMA LengthOf ==
  ASSUME NEW s, IsSeq(s)
  PROVE  /\ Len(s) \in Nat
         /\ s = <<>> <=> Len(s) = 0
BY SeqOf, IsSeqOf DEF IsSeq

LEMMA FrontOf ==
  ASSUME NEW s, IsSeq(s), s # <<>>
  PROVE  /\ IsSeq(Front(s))
         /\ Len(s) \in Nat \ {0}
         /\ Len(Front(s)) = Len(s) - 1
         /\ \A i \in 1..(Len(s) - 1) : Front(s)[i] = s[i]
<1> DEFINE E == {s[i] : i \in 1..Len(s)}
           n == Len(s)
           m == n - 1
           t == SubSeq(s, 1, m)
<1>1. n \in Nat \ {0}
  BY LengthOf
<1>2. 1 \in Int /\ m \in Int /\ \A i \in 1..m : s[i] \in E
  BY <1>1
<1> HIDE DEF E, m
<1>3. /\ t \in Seq(E)
      /\ Len(t) = IF 1 <= m THEN m - 1 + 1 ELSE 0
      /\ \A i \in 1..(m - 1 + 1) : t[i] = s[1 + i - 1]
  BY <1>2, SubSeqProperties
<1>4. Front(s) = t
  BY DEF Front, m
<1>5. IsSeq(t)
  BY <1>3, IsSeqOf
<1>6. m = n - 1
  BY DEF m
<1> HIDE DEF t, n
<1>7. Len(t) = n - 1
  BY <1>1, <1>3, <1>6
<1>8. ASSUME NEW i \in 1..(n - 1)
      PROVE  t[i] = s[i]
  <2>1. i \in 1..(m - 1 + 1) /\ 1 + i - 1 = i
    BY <1>1, <1>6
  <2> QED BY <1>3, <2>1
<1> QED BY <1>1, <1>4, <1>5, <1>7, <1>8 DEF n

LEMMA AppendOf ==
  ASSUME NEW s, NEW x, IsSeq(s)
  PROVE  /\ IsSeq(Append(s, x))
         /\ Len(Append(s, x)) = Len(s) + 1
         /\ Append(s, x) # <<>>
         /\ \A i \in 1..Len(s) : Append(s, x)[i] = s[i]
         /\ Append(s, x)[Len(s) + 1] = x
<1> DEFINE E == {s[i] : i \in 1..Len(s)} \cup {x}
<1>1. s \in Seq(E)
  BY SeqOver
<1> HIDE DEF E
<1>2. x \in E
  BY DEF E
<1>3. Append(s, x) \in Seq(E)
  BY <1>1, <1>2
<1>4. IsSeq(Append(s, x))
  BY <1>3, IsSeqOf
<1> QED BY <1>1, <1>2, <1>4

\* The innermost element replaced.
LEMMA PutTop ==
  ASSUME NEW s, NEW x, IsSeq(s), s # <<>>
  PROVE  LET t == [s EXCEPT ![Len(s)] = x]
         IN  /\ IsSeq(t)
             /\ Len(t) = Len(s)
             /\ t # <<>>
             /\ t[Len(s)] = x
             /\ \A i \in 1..(Len(s) - 1) : t[i] = s[i]
<1> DEFINE E == {s[i] : i \in 1..Len(s)} \cup {x}
           n == Len(s)
           t == [s EXCEPT ![Len(s)] = x]
<1>1. s \in Seq(E)
  BY SeqOver
<1>2. n \in Nat \ {0}
  BY LengthOf
<1> HIDE DEF E
<1>3. x \in E
  BY DEF E
<1>4. t \in Seq(E) /\ Len(t) = n
  BY <1>1, <1>2, <1>3
<1>5. t[n] = x /\ \A i \in 1..(n - 1) : t[i] = s[i]
  BY <1>1, <1>2
<1>6. IsSeq(t) /\ (t = <<>> <=> Len(t) = 0)
  BY <1>4, IsSeqOf
<1> QED BY <1>2, <1>4, <1>5, <1>6

-----------------------------------------------------------------------------
(* What a step does to the stack: it replaces, pushes or pops a frame.     *)

Tops(s, t, f) ==
  /\ IsSeq(t)
  /\ Len(t) = Len(s)
  /\ t[Len(s)] = f
  /\ \A i \in 1..(Len(s) - 1) : t[i] = s[i]
Pushed(s, t, g) ==
  /\ IsSeq(t)
  /\ Len(t) = Len(s) + 1
  /\ t[Len(s) + 1] = g
  /\ \A i \in 1..Len(s) : t[i] = s[i]
Popped(s, t) ==
  /\ IsSeq(t)
  /\ Len(t) = Len(s) - 1
  /\ \A i \in 1..(Len(s) - 1) : t[i] = s[i]

\* Go.
LEMMA GoTops ==
  ASSUME NEW s, NEW f, IsSeq(s), s # <<>>
  PROVE  Tops(s, [s EXCEPT ![Len(s)] = f], f)
BY PutTop DEF Tops

\* FailHere and Leave.
LEMMA LeavePops ==
  ASSUME NEW s, IsSeq(s), s # <<>>
  PROVE  Popped(s, Front(s))
BY FrontOf DEF Popped

\* ReturnTo, after the pop; the first part of Enter.
LEMMA FrontTops ==
  ASSUME NEW s, NEW f, IsSeq(s), s # <<>>
  PROVE  Tops(s, Append(Front(s), f), f)
<1> DEFINE r == Front(s)
<1>1. /\ IsSeq(r)
      /\ Len(s) \in Nat \ {0}
      /\ Len(r) = Len(s) - 1
      /\ \A i \in 1..(Len(s) - 1) : r[i] = s[i]
  BY FrontOf
<1> HIDE DEF r
<1>2. /\ IsSeq(Append(r, f))
      /\ Len(Append(r, f)) = Len(r) + 1
      /\ \A i \in 1..Len(r) : Append(r, f)[i] = r[i]
      /\ Append(r, f)[Len(r) + 1] = f
  BY <1>1, AppendOf
<1> DEFINE t == Append(r, f)
<1> HIDE DEF t
<1>3. /\ IsSeq(t)
      /\ Len(t) = Len(r) + 1
      /\ \A i \in 1..Len(r) : t[i] = r[i]
      /\ t[Len(r) + 1] = f
  BY <1>2 DEF t
<1>4. Tops(s, t, f)
  BY <1>1, <1>3 DEF Tops
<1> QED BY <1>4 DEF r, t

\* The second part of Enter.
LEMMA ConcatPushes ==
  ASSUME NEW s, NEW g, IsSeq(s)
  PROVE  Pushed(s, s \o <<g>>, g)
<1> DEFINE E == {s[i] : i \in 1..Len(s)} \cup {g}
           t == s \o <<g>>
<1>1. s \in Seq(E) /\ Len(s) \in Nat
  BY SeqOver, LengthOf
<1>2. <<g>> \in Seq(E) /\ Len(<<g>>) = 1 /\ <<g>>[1] = g
  OBVIOUS
<1> HIDE DEF E
<1>3. /\ t \in Seq(E)
      /\ Len(t) = Len(s) + Len(<<g>>)
      /\ \A i \in 1..(Len(s) + Len(<<g>>)) :
           t[i] = IF i <= Len(s) THEN s[i] ELSE <<g>>[i - Len(s)]
  BY <1>1, <1>2, ConcatProperties
<1>4. IsSeq(t)
  BY <1>3, IsSeqOf
<1> HIDE DEF t
<1>5. Len(t) = Len(s) + 1
  BY <1>1, <1>2, <1>3
<1>6. t[Len(s) + 1] = g
  BY <1>1, <1>2, <1>3
<1>7. \A i \in 1..Len(s) : t[i] = s[i]
  BY <1>1, <1>2, <1>3
<1>8. Pushed(s, t, g)
  BY <1>4, <1>5, <1>6, <1>7 DEF Pushed
<1> QED BY <1>8 DEF t

LEMMA NewFrameIs ==
  ASSUME NEW name, NEW depth, NEW at
  PROVE  /\ IsFrame(NewFrame(name, depth, at))
         /\ NewFrame(name, depth, at).name = name
         /\ NewFrame(name, depth, at).depth = depth
         /\ NewFrame(name, depth, at).at = at
         /\ NewFrame(name, depth, at).pc = "enter"
         /\ ~NewFrame(name, depth, at).marks
         /\ ~NewFrame(name, depth, at).owns
<1> DEFINE f == NewFrame(name, depth, at)
<1>1. f = [x \in FrameFields |-> f[x]]
  BY DEF NewFrame, FrameFields
<1> QED BY <1>1 DEF NewFrame, IsFrame

-----------------------------------------------------------------------------
(* The levels.                                                             *)

LEMMA LevelsEmpty == Levels(<<>>)
BY EmptyIsSeq DEF Levels

LEMMA LevelsSingle ==
  ASSUME NEW g, IsFrame(g), g.depth = 0
  PROVE  Levels(<<g>>) /\ Len(<<g>>) = 1 /\ <<g>>[1] = g /\ <<g>> # <<>>
<1>1. <<g>> \in Seq({g}) /\ Len(<<g>>) = 1 /\ <<g>>[1] = g /\ <<g>> # <<>>
  OBVIOUS
<1>2. IsSeq(<<g>>)
  BY <1>1, IsSeqOf
<1> QED BY <1>1, <1>2 DEF Levels

LEMMA LevelsLength ==
  ASSUME NEW s, Levels(s)
  PROVE  /\ IsSeq(s)
         /\ Len(s) \in Nat
         /\ s = <<>> <=> Len(s) = 0
         /\ s # <<>> => /\ Len(s) \in 1..Len(s)
                        /\ IsFrame(s[Len(s)])
                        /\ s[Len(s)].depth = Len(s) - 1
<1>1. IsSeq(s)
  BY DEF Levels
<1>2. Len(s) \in Nat /\ (s = <<>> <=> Len(s) = 0)
  BY <1>1, LengthOf
<1> QED BY <1>1, <1>2 DEF Levels

LEMMA LevelsTops ==
  ASSUME NEW s, NEW t, NEW f, Levels(s), s # <<>>, Tops(s, t, f),
         IsFrame(f), f.depth = Len(s) - 1
  PROVE  Levels(t)
<1>1. Len(s) \in Nat \ {0}
  BY LevelsLength
<1>2. ASSUME NEW i \in 1..Len(t)
      PROVE  IsFrame(t[i]) /\ t[i].depth = i - 1
  <2>1. CASE i = Len(s)
    BY <2>1 DEF Tops
  <2>2. CASE i # Len(s)
    <3>1. i \in 1..(Len(s) - 1) /\ i \in 1..Len(s)
      BY <1>1, <2>2 DEF Tops
    <3> QED BY <3>1 DEF Tops, Levels
  <2> QED BY <2>1, <2>2
<1> QED BY <1>2 DEF Levels, Tops

LEMMA LevelsPushed ==
  ASSUME NEW s, NEW t, NEW g, Levels(s), Pushed(s, t, g),
         IsFrame(g), g.depth = Len(s)
  PROVE  Levels(t)
<1>1. Len(s) \in Nat
  BY LevelsLength
<1>2. ASSUME NEW i \in 1..Len(t)
      PROVE  IsFrame(t[i]) /\ t[i].depth = i - 1
  <2>1. CASE i = Len(s) + 1
    BY <1>1, <2>1 DEF Pushed
  <2>2. CASE i # Len(s) + 1
    <3>1. i \in 1..Len(s)
      BY <1>1, <2>2 DEF Pushed
    <3> QED BY <3>1 DEF Pushed, Levels
  <2> QED BY <2>1, <2>2
<1> QED BY <1>2 DEF Levels, Pushed

LEMMA LevelsPopped ==
  ASSUME NEW s, NEW t, Levels(s), s # <<>>, Popped(s, t)
  PROVE  Levels(t)
<1>1. Len(s) \in Nat \ {0}
  BY LevelsLength
<1>2. ASSUME NEW i \in 1..Len(t)
      PROVE  IsFrame(t[i]) /\ t[i].depth = i - 1
  <2>1. i \in 1..(Len(s) - 1) /\ i \in 1..Len(s)
    BY <1>1 DEF Popped
  <2> QED BY <2>1 DEF Popped, Levels
<1> QED BY <1>2 DEF Levels, Popped

-----------------------------------------------------------------------------
(* The guarded stack.                                                      *)

LEMMA StackEmpty ==
  ASSUME NEW a
  PROVE  Stack(a, <<>>, <<>>, 0)
BY LevelsEmpty, EmptyIsSeq DEF Stack, OnStack, Owned

\* An empty stack leaves nothing behind.
LEMMA StackIsEmpty ==
  ASSUME NEW a, NEW p, NEW h, Stack(a, <<>>, p, h)
  PROVE  p = <<>> /\ h = 0
<1>1. IsSeq(p) /\ Len(p) = 0
  BY EmptyIsSeq DEF Stack, OnStack
<1> QED BY <1>1, LengthOf DEF Stack, Owned

\* The innermost frame and the path: how long the path is.
LEMMA StackTop ==
  ASSUME NEW a, NEW s, NEW p, NEW h, Stack(a, s, p, h), s # <<>>
  PROVE  /\ IsSeq(s) /\ IsSeq(p)
         /\ Len(s) \in Nat \ {0}
         /\ IsFrame(s[Len(s)])
         /\ s[Len(s)].depth = Len(s) - 1
         /\ Guarded(a, s[Len(s)])
         /\ s[Len(s)].marks => Len(p) = Len(s) /\ p[Len(p)] = s[Len(s)].name
         /\ ~s[Len(s)].marks => Len(p) = Len(s) - 1
         /\ h \in Nat
<1>1. /\ IsSeq(s) /\ Len(s) \in Nat \ {0} /\ Len(s) \in 1..Len(s)
      /\ IsFrame(s[Len(s)]) /\ s[Len(s)].depth = Len(s) - 1
  BY LevelsLength DEF Stack
<1>2. Guarded(a, s[Len(s)])
  BY <1>1 DEF Stack
<1>3. OnStack(s, p) /\ h = Owned(a, s)
  BY DEF Stack
<1>4. h \in Nat
  BY <1>1, <1>3 DEF Owned
<1>5. s[Len(s)].marks => Len(p) = Len(s) /\ p[Len(p)] = s[Len(s)].name
  BY <1>1, <1>3 DEF OnStack
<1>6. ~s[Len(s)].marks => Len(p) = Len(s) - 1
  BY <1>3 DEF OnStack
<1> QED BY <1>1, <1>2, <1>3, <1>4, <1>5, <1>6 DEF OnStack

\* The path is no longer than the stack, and what is on it is a frame's name.
LEMMA StackPath ==
  ASSUME NEW a, NEW s, NEW p, NEW h, Stack(a, s, p, h)
  PROVE  /\ Len(p) \in Nat /\ Len(p) <= Len(s)
         /\ 1..Len(p) = {i \in 1..Len(s) : s[i].marks}
<1>1. Len(s) \in Nat /\ (s = <<>> <=> Len(s) = 0)
  BY LevelsLength DEF Stack
<1>2. Len(p) \in Nat /\ OnStack(s, p)
  BY LengthOf DEF Stack, OnStack
<1>3. CASE s = <<>>
  BY <1>1, <1>2, <1>3 DEF OnStack
<1>4. CASE s # <<>>
  <2>1. Len(s) \in Nat \ {0}
    BY <1>1, <1>4
  <2>2. ASSUME NEW i \in 1..(Len(s) - 1)
        PROVE  s[i].marks
    <3>1. i \in 1..Len(s) /\ i < Len(s)
      BY <2>1
    <3>2. s[i].pc = CallPoint(a) /\ Guarded(a, s[i])
      BY <3>1 DEF Stack
    <3> QED BY <3>2 DEF Guarded, CallPoint
  <2>3. Len(p) = IF s[Len(s)].marks THEN Len(s) ELSE Len(s) - 1
    BY <1>2, <1>4 DEF OnStack
  <2> QED BY <2>1, <2>2, <2>3
<1> QED BY <1>3, <1>4

\* Replacing the innermost frame keeps the part of the stack that does not look
\* at the path or at what is held.
LEMMA FramesTops ==
  ASSUME NEW a, NEW s, NEW t, NEW p, NEW h, NEW f,
         Stack(a, s, p, h), s # <<>>, Tops(s, t, f),
         IsFrame(f), f.depth = Len(s) - 1, Guarded(a, f)
  PROVE  /\ Levels(t)
         /\ \A i \in 1..Len(t) : Guarded(a, t[i])
         /\ \A i \in 1..Len(t) : i < Len(t) => t[i].pc = CallPoint(a)
         /\ t # <<>>
<1>1. Len(s) \in Nat \ {0}
  BY StackTop
<1>2. Levels(t)
  BY LevelsTops DEF Stack
<1>3. Len(t) = Len(s) /\ t[Len(s)] = f /\ \A i \in 1..(Len(s) - 1) : t[i] = s[i]
  BY DEF Tops
<1>4. ASSUME NEW i \in 1..Len(t)
      PROVE  Guarded(a, t[i]) /\ (i < Len(t) => t[i].pc = CallPoint(a))
  <2>1. CASE i = Len(s)
    BY <1>1, <1>3, <2>1
  <2>2. CASE i # Len(s)
    <3>1. i \in 1..(Len(s) - 1) /\ i \in 1..Len(s) /\ i < Len(s)
      BY <1>1, <1>3, <2>2
    <3>2. Guarded(a, s[i]) /\ s[i].pc = CallPoint(a)
      BY <3>1 DEF Stack
    <3> QED BY <1>3, <3>1, <3>2
  <2> QED BY <2>1, <2>2
<1>5. t # <<>>
  BY <1>1, <1>2, <1>3, LevelsLength
<1> QED BY <1>2, <1>4, <1>5

\* A path looks at the names and the marks only.
LEMMA PathTops ==
  ASSUME NEW a, NEW s, NEW t, NEW p, NEW h, NEW f,
         Stack(a, s, p, h), s # <<>>, Tops(s, t, f),
         f.name = s[Len(s)].name, f.marks = s[Len(s)].marks
  PROVE  OnStack(t, p)
<1>1. Len(s) \in Nat \ {0}
  BY StackTop
<1>2. Len(t) = Len(s) /\ t[Len(s)] = f /\ \A i \in 1..(Len(s) - 1) : t[i] = s[i]
  BY DEF Tops
<1>3. t # <<>>
  BY <1>1, <1>2, LengthOf DEF Tops
<1>4. OnStack(s, p)
  BY DEF Stack
<1>5. Len(p) = IF ~t[Len(t)].marks THEN Len(t) - 1 ELSE Len(t)
  BY <1>2, <1>4 DEF OnStack
<1>6. ASSUME NEW i \in 1..Len(p)
      PROVE  p[i] = t[i].name
  <2>1. p[i] = s[i].name
    BY <1>4 DEF OnStack
  <2>2. CASE i = Len(s)
    BY <1>2, <2>1, <2>2
  <2>3. CASE i # Len(s)
    <3>1. i \in 1..(Len(s) - 1)
      BY <1>1, <1>2, <1>5, <2>3
    <3> QED BY <1>2, <2>1, <3>1
  <2> QED BY <2>2, <2>3
<1> QED BY <1>3, <1>4, <1>5, <1>6 DEF OnStack

\* The innermost frame goes on with the guards it has.
LEMMA StackGoes ==
  ASSUME NEW a, NEW s, NEW t, NEW p, NEW h, NEW f,
         Stack(a, s, p, h), s # <<>>, Tops(s, t, f),
         IsFrame(f), f.depth = Len(s) - 1, Guarded(a, f),
         f.name = s[Len(s)].name, f.marks = s[Len(s)].marks,
         f.owns = s[Len(s)].owns
  PROVE  Stack(a, t, p, h)
<1>1. Len(s) \in Nat \ {0}
  BY StackTop
<1>2. /\ Levels(t)
      /\ \A i \in 1..Len(t) : Guarded(a, t[i])
      /\ \A i \in 1..Len(t) : i < Len(t) => t[i].pc = CallPoint(a)
      /\ t # <<>>
  BY FramesTops
<1>3. Len(t) = Len(s) /\ t[Len(s)] = f /\ \A i \in 1..(Len(s) - 1) : t[i] = s[i]
  BY DEF Tops
<1>4. OnStack(t, p)
  BY PathTops
<1>5. h = Owned(a, t)
  BY <1>2, <1>3 DEF Stack, Owned
<1> QED BY <1>2, <1>4, <1>5 DEF Stack

\* The innermost frame puts its name on the path: class visiting, struct mark.
LEMMA StackMarks ==
  ASSUME NEW a, NEW s, NEW t, NEW p, NEW h, NEW f,
         Stack(a, s, p, h), s # <<>>, Tops(s, t, f),
         IsFrame(f), f.depth = Len(s) - 1, Guarded(a, f),
         f.name = s[Len(s)].name, ~s[Len(s)].marks, f.marks,
         f.owns = s[Len(s)].owns, f.name \notin Elements(p)
  PROVE  Stack(a, t, Append(p, f.name), h)
<1> DEFINE q == Append(p, f.name)
<1>1. Len(s) \in Nat \ {0} /\ IsSeq(p) /\ Len(p) = Len(s) - 1
  BY StackTop
<1>2. /\ Levels(t)
      /\ \A i \in 1..Len(t) : Guarded(a, t[i])
      /\ \A i \in 1..Len(t) : i < Len(t) => t[i].pc = CallPoint(a)
      /\ t # <<>>
  BY FramesTops
<1>3. Len(t) = Len(s) /\ t[Len(s)] = f /\ \A i \in 1..(Len(s) - 1) : t[i] = s[i]
  BY DEF Tops
<1>4. OnStack(s, p)
  BY DEF Stack
<1>5. /\ IsSeq(q)
      /\ Len(q) = Len(p) + 1
      /\ \A i \in 1..Len(p) : q[i] = p[i]
      /\ q[Len(p) + 1] = f.name
  BY <1>1, AppendOf
<1> HIDE DEF q
<1>6. Len(q) = Len(s) /\ q[Len(s)] = f.name
  BY <1>1, <1>5
<1>7. ASSUME NEW i \in 1..(Len(s) - 1)
      PROVE  q[i] = p[i] /\ p[i] = s[i].name /\ q[i] # f.name
  <2>1. i \in 1..Len(p)
    BY <1>1
  <2>2. p[i] \in Elements(p)
    BY <2>1 DEF Elements
  <2> QED BY <1>4, <1>5, <2>1, <2>2 DEF OnStack
<1>8. OnStack(t, q)
  <2>1. Len(q) = IF ~t[Len(t)].marks THEN Len(t) - 1 ELSE Len(t)
    BY <1>3, <1>6
  <2>2. ASSUME NEW i \in 1..Len(q)
        PROVE  q[i] = t[i].name
    <3>1. CASE i = Len(s)
      BY <1>3, <1>6, <3>1
    <3>2. CASE i # Len(s)
      <4>1. i \in 1..(Len(s) - 1)
        BY <1>1, <1>6, <3>2
      <4> QED BY <1>3, <1>7, <4>1
    <3> QED BY <3>1, <3>2
  <2>3. ASSUME NEW i \in 1..Len(q), NEW j \in 1..Len(q), q[i] = q[j]
        PROVE  i = j
    <3>1. CASE i = Len(s) /\ j # Len(s)
      <4>1. j \in 1..(Len(s) - 1)
        BY <1>1, <1>6, <3>1
      <4> QED BY <1>6, <1>7, <2>3, <3>1, <4>1
    <3>2. CASE j = Len(s) /\ i # Len(s)
      <4>1. i \in 1..(Len(s) - 1)
        BY <1>1, <1>6, <3>2
      <4> QED BY <1>6, <1>7, <2>3, <3>2, <4>1
    <3>3. CASE i # Len(s) /\ j # Len(s)
      <4>1. i \in 1..(Len(s) - 1) /\ j \in 1..(Len(s) - 1)
        BY <1>1, <1>6, <3>3
      <4>2. i \in 1..Len(p) /\ j \in 1..Len(p) /\ p[i] = p[j]
        BY <1>1, <1>7, <2>3, <4>1
      <4> QED BY <1>4, <4>2 DEF OnStack
    <3> QED BY <3>1, <3>2, <3>3
  <2> QED BY <1>2, <1>5, <2>1, <2>2, <2>3 DEF OnStack
<1>9. h = Owned(a, t)
  BY <1>2, <1>3 DEF Stack, Owned
<1>10. Stack(a, t, q, h)
  BY <1>2, <1>8, <1>9 DEF Stack
<1> QED BY <1>10 DEF q

\* The innermost frame acquires its resource: class open_file, class digest.
LEMMA StackOwns ==
  ASSUME NEW a, NEW s, NEW t, NEW p, NEW h, NEW f,
         Stack(a, s, p, h), s # <<>>, Tops(s, t, f),
         IsFrame(f), f.depth = Len(s) - 1, Guarded(a, f),
         f.name = s[Len(s)].name, f.marks = s[Len(s)].marks,
         ~s[Len(s)].owns, f.owns, a # "resolver"
  PROVE  Stack(a, t, p, h + 1)
<1>1. Len(s) \in Nat \ {0}
  BY StackTop
<1>2. /\ Levels(t)
      /\ \A i \in 1..Len(t) : Guarded(a, t[i])
      /\ \A i \in 1..Len(t) : i < Len(t) => t[i].pc = CallPoint(a)
      /\ t # <<>>
  BY FramesTops
<1>3. Len(t) = Len(s) /\ t[Len(s)] = f /\ \A i \in 1..(Len(s) - 1) : t[i] = s[i]
  BY DEF Tops
<1>4. OnStack(t, p)
  BY PathTops
<1>5. h + 1 = Owned(a, t)
  BY <1>1, <1>2, <1>3 DEF Stack, Owned
<1> QED BY <1>2, <1>4, <1>5 DEF Stack

\* A frame that stands at its call has constructed all its guards.
LEMMA CallsGuarded ==
  ASSUME NEW a \in Guarding, NEW f, Guarded(a, f), f.pc = CallPoint(a)
  PROVE  f.marks /\ (f.owns <=> a # "resolver")
<1>1. CASE a = "resolver"
  BY <1>1 DEF Guarded, CallPoint, OwningPoints
<1>2. CASE a = "store"
  BY <1>2 DEF Guarded, CallPoint, OwningPoints
<1>3. CASE a = "manifest"
  BY <1>3 DEF Guarded, CallPoint, OwningPoints
<1> QED BY <1>1, <1>2, <1>3 DEF Guarding

LEMMA GuardsAtCall ==
  ASSUME NEW a \in Guarding, NEW f, f.pc = CallPoint(a), f.marks,
         f.owns <=> a # "resolver"
  PROVE  Guarded(a, f)
<1>1. CASE a = "resolver"
  BY <1>1 DEF Guarded, CallPoint, Points, OwningPoints
<1>2. CASE a = "store"
  BY <1>2 DEF Guarded, CallPoint, Points, OwningPoints
<1>3. CASE a = "manifest"
  BY <1>3 DEF Guarded, CallPoint, Points, OwningPoints
<1> QED BY <1>1, <1>2, <1>3 DEF Guarding

\* A level is entered from a frame that stands at its call, or from outside.
LEMMA StackPushes ==
  ASSUME NEW a, NEW s, NEW t, NEW p, NEW h, NEW g,
         Stack(a, s, p, h), Pushed(s, t, g), a \in Guarding,
         s # <<>> => s[Len(s)].pc = CallPoint(a),
         IsFrame(g), g.depth = Len(s), g.pc = "enter",
         ~g.marks, ~g.owns
  PROVE  Stack(a, t, p, h)
<1>1. Len(s) \in Nat /\ (s = <<>> <=> Len(s) = 0) /\ Levels(s)
  BY LevelsLength DEF Stack
<1>2. Levels(t)
  BY <1>1, LevelsPushed
<1>3. /\ Len(t) = Len(s) + 1
      /\ t[Len(s) + 1] = g
      /\ \A i \in 1..Len(s) : t[i] = s[i]
  BY DEF Pushed
<1>4. t # <<>> /\ t[Len(t)] = g
  BY <1>1, <1>2, <1>3, LevelsLength
<1>5. Guarded(a, g)
  BY DEF Guarded, Points, OwningPoints, Guarding
<1>6. ASSUME NEW i \in 1..Len(t)
      PROVE  Guarded(a, t[i]) /\ (i < Len(t) => t[i].pc = CallPoint(a))
  <2>1. CASE i = Len(t)
    BY <1>3, <1>4, <1>5, <2>1
  <2>2. CASE i # Len(t)
    <3>1. i \in 1..Len(s)
      BY <1>1, <1>3, <2>2
    <3>2. Guarded(a, s[i])
      BY <3>1 DEF Stack
    <3>3. s[i].pc = CallPoint(a)
      <4>1. CASE i = Len(s)
        BY <1>1, <3>1, <4>1
      <4>2. CASE i # Len(s)
        <5>1. i < Len(s)
          BY <1>1, <3>1, <4>2
        <5> QED BY <3>1, <5>1 DEF Stack
      <4> QED BY <4>1, <4>2
    <3> QED BY <1>3, <3>1, <3>2, <3>3
  <2> QED BY <2>1, <2>2
<1>7. s # <<>> => s[Len(s)].marks /\ (s[Len(s)].owns <=> a # "resolver")
  <2>1. SUFFICES ASSUME s # <<>>
                 PROVE  s[Len(s)].marks /\ (s[Len(s)].owns <=> a # "resolver")
    OBVIOUS
  <2>2. Guarded(a, s[Len(s)]) /\ s[Len(s)].pc = CallPoint(a)
    BY <2>1, StackTop
  <2> QED BY <2>2, CallsGuarded
<1>8. OnStack(s, p)
  BY DEF Stack
<1>9. Len(p) = Len(s)
  BY <1>1, <1>7, <1>8 DEF OnStack
<1>10. OnStack(t, p)
  <2>1. Len(p) = IF ~t[Len(t)].marks THEN Len(t) - 1 ELSE Len(t)
    BY <1>1, <1>3, <1>4, <1>9
  <2>2. \A i \in 1..Len(p) : p[i] = t[i].name
    BY <1>3, <1>8, <1>9 DEF OnStack
  <2> QED BY <1>4, <1>8, <2>1, <2>2 DEF OnStack
<1>11. h = Owned(a, t)
  <2>1. h = Owned(a, s)
    BY DEF Stack
  <2>2. CASE a = "resolver"
    BY <2>1, <2>2 DEF Owned
  <2>3. CASE a # "resolver"
    <3>1. h = Len(s)
      BY <1>1, <1>7, <2>1, <2>3 DEF Owned
    <3>2. Owned(a, t) = Len(t) - 1
      BY <1>4, <2>3 DEF Owned
    <3> QED BY <1>1, <1>3, <3>1, <3>2
  <2> QED BY <2>2, <2>3
<1> QED BY <1>2, <1>6, <1>10, <1>11 DEF Stack

\* The innermost frame is left: its destructors take back what it has put there.
LEMMA StackPops ==
  ASSUME NEW a, NEW s, NEW t, NEW p, NEW h,
         Stack(a, s, p, h), s # <<>>, Popped(s, t), a \in Guarding
  PROVE  Stack(a, t, IF s[Len(s)].marks THEN Front(p) ELSE p,
               IF s[Len(s)].owns THEN h - 1 ELSE h)
<1> DEFINE n == Len(s)
           f == s[Len(s)]
           q == IF s[Len(s)].marks THEN Front(p) ELSE p
           k == IF s[Len(s)].owns THEN h - 1 ELSE h
<1>1. /\ n \in Nat \ {0} /\ IsSeq(p) /\ Guarded(a, f) /\ Levels(s)
      /\ f.marks => Len(p) = n
      /\ ~f.marks => Len(p) = n - 1
  BY StackTop DEF Stack
<1>2. Levels(t)
  BY <1>1, LevelsPopped
<1>3. Len(t) = n - 1 /\ \A i \in 1..(n - 1) : t[i] = s[i]
  BY DEF Popped
<1>4. (t = <<>> <=> Len(t) = 0) /\ Len(t) \in Nat
  BY <1>2, LevelsLength
<1>5. ASSUME NEW i \in 1..Len(t)
      PROVE  /\ t[i] = s[i] /\ Guarded(a, t[i]) /\ t[i].pc = CallPoint(a)
             /\ t[i].marks /\ (t[i].owns <=> a # "resolver")
  <2>1. i \in 1..(n - 1) /\ i \in 1..n /\ i < n
    BY <1>1, <1>3
  <2>2. t[i] = s[i]
    BY <1>3, <2>1
  <2>3. Guarded(a, s[i]) /\ s[i].pc = CallPoint(a)
    BY <2>1 DEF Stack
  <2>4. s[i].marks /\ (s[i].owns <=> a # "resolver")
    BY <2>3, CallsGuarded
  <2> QED BY <2>2, <2>3, <2>4
<1>6. OnStack(s, p)
  BY DEF Stack
<1>7. /\ IsSeq(q)
      /\ Len(q) = n - 1
      /\ \A i \in 1..(n - 1) : q[i] = p[i]
  <2>1. CASE f.marks
    <3>1. p # <<>>
      BY <1>1, <2>1, LengthOf
    <3>2. /\ IsSeq(Front(p))
          /\ Len(Front(p)) = Len(p) - 1
          /\ \A i \in 1..(Len(p) - 1) : Front(p)[i] = p[i]
      BY <1>1, <3>1, FrontOf
    <3> QED BY <1>1, <2>1, <3>2
  <2>2. CASE ~f.marks
    BY <1>1, <2>2
  <2> QED BY <2>1, <2>2
<1> HIDE DEF q, k, n, f
<1>8. OnStack(t, q)
  <2>1. Len(q) = IF t # <<>> /\ ~t[Len(t)].marks THEN Len(t) - 1 ELSE Len(t)
    <3>1. CASE t = <<>>
      BY <1>3, <1>7, <3>1
    <3>2. CASE t # <<>>
      <4>1. Len(t) \in 1..Len(t)
        BY <1>4, <3>2
      <4> QED BY <1>3, <1>5, <1>7, <4>1
    <3> QED BY <3>1, <3>2
  <2>2. ASSUME NEW i \in 1..Len(q)
        PROVE  i \in 1..Len(p) /\ q[i] = p[i] /\ q[i] = t[i].name
    <3>1. i \in 1..(n - 1) /\ i \in 1..Len(p)
      BY <1>1, <1>7
    <3>2. p[i] = s[i].name
      BY <1>6, <3>1 DEF OnStack
    <3> QED BY <1>3, <1>7, <3>1, <3>2
  <2>3. \A i, j \in 1..Len(q) : q[i] = q[j] => i = j
    BY <1>6, <2>2 DEF OnStack
  <2> QED BY <1>7, <2>1, <2>2, <2>3 DEF OnStack
<1>9. k = Owned(a, t)
  <2>1. h = Owned(a, s)
    BY DEF Stack
  <2>2. CASE a = "resolver"
    <3>1. ~f.owns
      BY <1>1, <2>2 DEF Guarded, Points, OwningPoints
    <3> QED BY <2>1, <2>2, <3>1 DEF Owned, k, f
  <2>3. CASE a # "resolver"
    <3>1. h = IF f.owns THEN n ELSE n - 1
      BY <2>1, <2>3 DEF Owned, n, f
    <3>2. k = n - 1
      BY <1>1, <3>1 DEF k, f
    <3>3. CASE t = <<>>
      BY <1>3, <1>4, <3>2, <3>3 DEF Owned
    <3>4. CASE t # <<>>
      <4>1. Len(t) \in 1..Len(t)
        BY <1>4, <3>4
      <4>2. t[Len(t)].owns
        BY <1>5, <2>3, <4>1
      <4> QED BY <1>3, <2>3, <3>2, <3>4, <4>2 DEF Owned
    <3> QED BY <3>3, <3>4
  <2> QED BY <2>2, <2>3
<1>10. Stack(a, t, q, k)
  BY <1>2, <1>5, <1>8, <1>9 DEF Stack
<1> QED BY <1>10 DEF q, k

\* After a pop the frame that has become the innermost stands at its call.
LEMMA PoppedTop ==
  ASSUME NEW a, NEW s, NEW t, NEW p, NEW h,
         Stack(a, s, p, h), Len(s) > 1, Popped(s, t)
  PROVE  /\ t # <<>>
         /\ Len(t) = Len(s) - 1
         /\ t[Len(t)] = s[Len(s) - 1]
         /\ t[Len(t)].pc = CallPoint(a)
<1>1. Len(s) \in Nat
  BY LevelsLength DEF Stack
<1>2. /\ IsSeq(t) /\ Len(t) = Len(s) - 1 
      /\ \A i \in 1..(Len(s) - 1) : t[i] = s[i]
  BY DEF Popped
<1>3. t # <<>>
  BY <1>1, <1>2, LengthOf
<1>4. Len(s) - 1 \in 1..(Len(s) - 1) /\ Len(s) - 1 \in 1..Len(s) /\ Len(s) - 1 < Len(s)
  BY <1>1
<1>5. s[Len(s) - 1].pc = CallPoint(a)
  BY <1>4 DEF Stack
<1> QED BY <1>2, <1>3, <1>4, <1>5

\* A set loses the key inserted last: what resolve's guard does to resolving_.
LEMMA EraseLast ==
  ASSUME NEW p, IsSeq(p), p # <<>>,
         \A i, j \in 1..Len(p) : p[i] = p[j] => i = j
  PROVE  Erase(p, p[Len(p)]) = Front(p)
<1> DEFINE n == Len(p)
           r == [i \in 1..(Len(p) - 1) |-> p[i]]
<1>1. n \in Nat \ {0} /\ n \in 1..n
  BY LengthOf
<1>2. p[n] \in Elements(p)
  BY <1>1 DEF Elements
<1>3. (CHOOSE i \in 1..n : p[i] = p[n]) = n
  BY <1>1
<1>4. Erase(p, p[n]) = [i \in 1..(n - 1) |-> IF i < n THEN p[i] ELSE p[i + 1]]
  BY <1>2, <1>3 DEF Erase
<1>5. Erase(p, p[n]) = r
  BY <1>1, <1>4
<1>6. /\ IsSeq(Front(p)) /\ Len(Front(p)) = n - 1
      /\ \A i \in 1..(n - 1) : Front(p)[i] = p[i]
  BY FrontOf
<1>7. Front(p) = r
  BY <1>1, <1>6 DEF IsSeq
<1> QED BY <1>5, <1>7

-----------------------------------------------------------------------------
(* What an assignment to a frame's fields leaves alone.                    *)

Alike(f, g) ==
  /\ IsFrame(g)
  /\ g.name = f.name
  /\ g.depth = f.depth

LEMMA SetPc ==
  ASSUME NEW f, NEW c, IsFrame(f)
  PROVE  LET g == [f EXCEPT !.pc = c]
         IN  Alike(f, g) /\ g.pc = c /\ g.marks = f.marks /\ g.owns = f.owns
BY DEF IsFrame, FrameFields, Alike

LEMMA SetAt ==
  ASSUME NEW f, NEW x, IsFrame(f)
  PROVE  LET g == [f EXCEPT !.at = x]
         IN  /\ Alike(f, g) /\ g.pc = f.pc /\ g.marks = f.marks
             /\ g.owns = f.owns /\ g.at = x
BY DEF IsFrame, FrameFields, Alike

-----------------------------------------------------------------------------
(* The invariant after a step of an application with guards.               *)

LEMMA Assemble ==
  ASSUME app \in Guarding, app' = app,
         mode' \in {"idle", "begin", "run", "escape", "fail"},
         mode' \in {"idle", "begin"} => frames' = <<>>,
         mode' = "run" => frames' # <<>>,
         Stack(app, frames', path', held'),
         count' \in Nat, deepest' \in Nat, PathFits'
  PROVE  IInv'
<1>1. held' \in Nat
  <2>1. CASE frames' = <<>>
    BY <2>1, StackIsEmpty
  <2>2. CASE frames' # <<>>
    BY <2>2, StackTop
  <2> QED BY <2>1, <2>2
<1>2. Control'
  BY <1>1 DEF Control, Guarding
<1>3. Levels(frames')
  BY DEF Stack
<1>4. Shape'
  BY <1>3 DEF Shape, Guarding
<1> QED BY <1>2, <1>4 DEF IInv

\* The innermost frame of a running application.
LEMMA RunTop ==
  ASSUME IInv, NEW a \in Guarding, NEW pc, At(a, pc)
  PROVE  /\ app = a /\ mode = "run" /\ frames # <<>>
         /\ Stack(a, frames, path, held)
         /\ IsSeq(frames) /\ IsSeq(path) /\ Len(frames) \in Nat \ {0}
         /\ Top = frames[Len(frames)]
         /\ IsFrame(Top) /\ Guarded(a, Top) /\ Top.pc = pc
         /\ Top.depth = Len(frames) - 1
         /\ Top.marks => Len(path) = Len(frames) /\ path[Len(path)] = Top.name
         /\ ~Top.marks => Len(path) = Len(frames) - 1
         /\ count \in Nat /\ deepest \in Nat /\ held \in Nat
<1>1. app = a /\ mode = "run" /\ frames # <<>> /\ Top.pc = pc
  BY DEF At
<1>2. Stack(a, frames, path, held)
  BY <1>1 DEF IInv, Shape
<1>3. Top = frames[Len(frames)]
  BY DEF Top
<1> QED BY <1>1, <1>2, <1>3, StackTop DEF IInv, Control

\* unwind::eject leaves the frames to be unwound.
LEMMA EjectKeeps ==
  ASSUME IInv, app \in Guarding, NEW f, NEW name, NEW depth,
         Eject(f, name, depth), path' = path, held' = held,
         count' \in Nat, deepest' \in Nat, PathFits'
  PROVE  IInv'
<1>1. app' = app /\ mode' = "escape" /\ frames' = frames
  BY DEF Eject, Raise
<1>2. Stack(app, frames', path', held')
  BY <1>1 DEF IInv, Shape
<1> QED BY <1>1, <1>2, Assemble

\* The innermost frame goes on, no guard being constructed or destroyed.
LEMMA GoKeeps ==
  ASSUME IInv, NEW a \in Guarding, NEW pc, At(a, pc), NEW f, Go(f),
         Alike(Top, f), f.pc \in Points(a), pc # "enter", f.pc # "enter",
         pc \in OwningPoints <=> f.pc \in OwningPoints,
         f.marks = Top.marks, f.owns = Top.owns,
         path' = path, held' = held, count' \in Nat, deepest' \in Nat, PathFits'
  PROVE  IInv'
<1>1. /\ app = a /\ mode = "run" /\ frames # <<>>
      /\ Stack(a, frames, path, held)
      /\ IsSeq(frames) /\ Len(frames) \in Nat \ {0}
      /\ Top = frames[Len(frames)]
      /\ Guarded(a, Top) /\ Top.pc = pc
      /\ Top.depth = Len(frames) - 1
  BY RunTop
<1>2. app' = a /\ mode' = "run" /\ frames' = [frames EXCEPT ![Len(frames)] = f]
  BY <1>1 DEF Go
<1>3. Tops(frames, frames', f)
  BY <1>1, <1>2, GoTops
<1>4. Guarded(a, f)
  BY <1>1 DEF Guarded
<1>5. IsFrame(f) /\ f.depth = Len(frames) - 1 /\ f.name = frames[Len(frames)].name
  BY <1>1 DEF Alike
<1>6. f.marks = frames[Len(frames)].marks /\ f.owns = frames[Len(frames)].owns
  BY <1>1
<1>7. Stack(a, frames', path, held)
  BY <1>1, <1>3, <1>4, <1>5, <1>6, StackGoes
<1>8. frames' # <<>>
  BY <1>1, <1>3, <1>4, <1>5, FramesTops
<1> QED BY <1>1, <1>2, <1>7, <1>8, Assemble

\* A level is entered.
LEMMA EnterKeeps ==
  ASSUME IInv, NEW a \in Guarding, NEW pc, At(a, pc), NEW f, NEW name, NEW at,
         Enter(f, NewFrame(name, Top.depth + 1, at)),
         Alike(Top, f), f.pc = CallPoint(a), pc # "enter",
         pc \in OwningPoints <=> a # "resolver",
         f.marks = Top.marks, f.owns = Top.owns,
         path' = path, held' = held, count' \in Nat, deepest' \in Nat, PathFits'
  PROVE  IInv'
<1> DEFINE u == Append(Front(frames), f)
           g == NewFrame(name, Top.depth + 1, at)
<1>1. /\ app = a /\ mode = "run" /\ frames # <<>>
      /\ Stack(a, frames, path, held)
      /\ IsSeq(frames) /\ Len(frames) \in Nat \ {0}
      /\ Top = frames[Len(frames)]
      /\ Guarded(a, Top) /\ Top.pc = pc
      /\ Top.depth = Len(frames) - 1
  BY RunTop
<1>2. app' = a /\ mode' = "run" /\ frames' = u \o <<g>>
  BY <1>1 DEF Enter
<1>3. Tops(frames, u, f)
  BY <1>1, FrontTops
<1>4. /\ IsFrame(g) /\ g.depth = Top.depth + 1 /\ g.pc = "enter"
      /\ ~g.marks /\ ~g.owns
  BY NewFrameIs
<1> HIDE DEF u, g
<1>5. Guarded(a, f)
  <2>1. f.marks /\ (f.owns <=> a # "resolver")
    BY <1>1 DEF Guarded
  <2> QED BY <2>1, GuardsAtCall
<1>6. /\ IsFrame(f) /\ f.depth = Len(frames) - 1
      /\ f.name = frames[Len(frames)].name
  BY <1>1 DEF Alike
<1>7. f.marks = frames[Len(frames)].marks /\ f.owns = frames[Len(frames)].owns
  BY <1>1
<1>8. Stack(a, u, path, held)
  BY <1>1, <1>3, <1>5, <1>6, <1>7, StackGoes
<1>9. IsSeq(u) /\ Len(u) = Len(frames) /\ u[Len(u)] = f
  BY <1>3 DEF Tops
<1>10. Pushed(u, frames', g)
  BY <1>2, <1>9, ConcatPushes
<1>11. g.depth = Len(u) /\ u[Len(u)].pc = CallPoint(a)
  BY <1>1, <1>4, <1>9
<1>12. Stack(a, frames', path, held)
  BY <1>4, <1>8, <1>10, <1>11, StackPushes
<1>13. frames' # <<>>
  BY <1>1, <1>9, <1>10, LengthOf DEF Pushed
<1> QED BY <1>1, <1>2, <1>12, <1>13, Assemble

\* The innermost frame constructs the guard of its name.
LEMMA MarkKeeps ==
  ASSUME IInv, NEW a \in Guarding, At(a, "enter"), NEW pc, pc \in Points(a),
         pc # "enter", pc \notin OwningPoints,
         Go([Top EXCEPT !.marks = TRUE, !.pc = pc]),
         Top.name \notin Elements(path), path' = Append(path, Top.name),
         held' = held, count' \in Nat, deepest' \in Nat, PathFits'
  PROVE  IInv'
<1> DEFINE f == [Top EXCEPT !.marks = TRUE, !.pc = pc]
<1>1. /\ app = a /\ mode = "run" /\ frames # <<>>
      /\ Stack(a, frames, path, held)
      /\ IsSeq(frames) /\ Len(frames) \in Nat \ {0}
      /\ Top = frames[Len(frames)]
      /\ IsFrame(Top) /\ Guarded(a, Top) /\ Top.pc = "enter"
      /\ Top.depth = Len(frames) - 1
  BY RunTop
<1>2. app' = a /\ mode' = "run" /\ frames' = [frames EXCEPT ![Len(frames)] = f]
  BY <1>1 DEF Go
<1>3. Alike(Top, f) /\ f.pc = pc /\ f.marks /\ f.owns = Top.owns
  BY <1>1 DEF IsFrame, FrameFields, Alike
<1> HIDE DEF f
<1>4. Tops(frames, frames', f)
  BY <1>1, <1>2, GoTops
<1>5. ~Top.marks /\ ~Top.owns
  BY <1>1 DEF Guarded, OwningPoints
<1>6. Guarded(a, f)
  <2>1. f.marks /\ ~f.owns
    BY <1>3, <1>5
  <2>2. f.pc \in Points(a) /\ f.pc # "enter" /\ f.pc \notin OwningPoints
    BY <1>3
  <2> QED BY <2>1, <2>2 DEF Guarded
<1>7. IsFrame(f) /\ f.depth = Len(frames) - 1 /\ f.name = frames[Len(frames)].name
  BY <1>1, <1>3 DEF Alike
<1>8. ~frames[Len(frames)].marks /\ f.owns = frames[Len(frames)].owns
  BY <1>1, <1>3, <1>5
<1>9. f.name = Top.name
  BY <1>3 DEF Alike
<1>10. f.name \notin Elements(path)
  BY <1>9
<1>11. Stack(a, frames', Append(path, f.name), held)
  BY <1>1, <1>3, <1>4, <1>6, <1>7, <1>8, <1>10, StackMarks
<1>12. Stack(a, frames', path', held')
  BY <1>9, <1>11
<1>13. frames' # <<>>
  BY <1>1, <1>4, <1>6, <1>7, FramesTops
<1> QED BY <1>1, <1>2, <1>12, <1>13, Assemble

\* The innermost frame constructs the guard of its resource.
LEMMA OwnKeeps ==
  ASSUME IInv, NEW a \in Guarding, a # "resolver", NEW pc, NEW next, At(a, pc),
         pc # "enter", pc \notin OwningPoints,
         next \in Points(a), next # "enter", next \in OwningPoints,
         Go([Top EXCEPT !.owns = TRUE, !.pc = next]),
         path' = path, held' = held + 1, count' \in Nat, deepest' \in Nat, PathFits'
  PROVE  IInv'
<1> DEFINE f == [Top EXCEPT !.owns = TRUE, !.pc = next]
<1>1. /\ app = a /\ mode = "run" /\ frames # <<>>
      /\ Stack(a, frames, path, held)
      /\ IsSeq(frames) /\ Len(frames) \in Nat \ {0}
      /\ Top = frames[Len(frames)]
      /\ IsFrame(Top) /\ Guarded(a, Top) /\ Top.pc = pc
      /\ Top.depth = Len(frames) - 1
  BY RunTop
<1>2. app' = a /\ mode' = "run" /\ frames' = [frames EXCEPT ![Len(frames)] = f]
  BY <1>1 DEF Go
<1>3. Alike(Top, f) /\ f.pc = next /\ f.marks = Top.marks /\ f.owns
  BY <1>1 DEF IsFrame, FrameFields, Alike
<1> HIDE DEF f
<1>4. Tops(frames, frames', f)
  BY <1>1, <1>2, GoTops
<1>5. Top.marks /\ ~Top.owns
  BY <1>1 DEF Guarded
<1>6. Guarded(a, f)
  <2>1. f.marks /\ f.owns
    BY <1>3, <1>5
  <2>2. f.pc \in Points(a) /\ f.pc # "enter" /\ f.pc \in OwningPoints
    BY <1>3
  <2> QED BY <2>1, <2>2 DEF Guarded
<1>7. IsFrame(f) /\ f.depth = Len(frames) - 1 /\ f.name = frames[Len(frames)].name
  BY <1>1, <1>3 DEF Alike
<1>8. f.marks = frames[Len(frames)].marks /\ ~frames[Len(frames)].owns
  BY <1>1, <1>3, <1>5
<1>9. Stack(a, frames', path, held + 1)
  BY <1>1, <1>3, <1>4, <1>6, <1>7, <1>8, StackOwns
<1>10. frames' # <<>>
  BY <1>1, <1>4, <1>6, <1>7, FramesTops
<1> QED BY <1>1, <1>2, <1>9, <1>10, Assemble

\* A level returns, its guards destroyed: to the caller's frame, or out of the
\* call.
LEMMA ReturnKeeps ==
  ASSUME IInv, NEW a \in Guarding, NEW pc, At(a, pc), pc # "enter",
         path' = Front(path), held' = IF Top.owns THEN held - 1 ELSE held,
         count' \in Nat, deepest' \in Nat, PathFits',
         NEW f, NEW v,
         \/ SucceedAs(v)
         \/ /\ ReturnTo(f)
            /\ IsFrame(Caller) => /\ Alike(Caller, f) /\ f.pc = Caller.pc
                                  /\ f.marks = Caller.marks
                                  /\ f.owns = Caller.owns
  PROVE  IInv'
<1> DEFINE u == Front(frames)
<1>1. /\ app = a /\ mode = "run" /\ frames # <<>>
      /\ Stack(a, frames, path, held)
      /\ IsSeq(frames) /\ Len(frames) \in Nat \ {0}
      /\ Top = frames[Len(frames)]
      /\ Guarded(a, Top) /\ Top.pc = pc
  BY RunTop
<1>2. Popped(frames, u)
  BY <1>1, LeavePops
<1>3. Top.marks
  BY <1>1 DEF Guarded
<1>4. Stack(a, u, path', held')
  BY <1>1, <1>2, <1>3, StackPops
<1> HIDE DEF u
<1>5. IsSeq(u) /\ Len(u) = Len(frames) - 1
  BY <1>2 DEF Popped
<1>6. CASE SucceedAs(v)
  <2>1. Len(frames) = 1 /\ frames' = <<>> /\ mode' = "idle" /\ app' = app
    BY <1>6 DEF SucceedAs
  <2>2. u = <<>>
    BY <1>5, <2>1, LengthOf
  <2>3. Stack(a, frames', path', held')
    BY <1>4, <2>1, <2>2
  <2> QED BY <1>1, <2>1, <2>3, Assemble
<1>7. CASE ReturnTo(f) /\ (IsFrame(Caller) => /\ Alike(Caller, f)
                                              /\ f.pc = Caller.pc
                                              /\ f.marks = Caller.marks
                                              /\ f.owns = Caller.owns)
  <2>1. Len(frames) > 1 /\ frames' = Append(Front(u), f) /\ UNCHANGED <<app, mode>>
    BY <1>7 DEF ReturnTo, u
  <2>2. /\ u # <<>>
        /\ Len(u) = Len(frames) - 1
        /\ u[Len(u)] = Caller
    BY <1>1, <1>2, <2>1, PoppedTop DEF Caller
  <2>3. IsFrame(Caller) /\ Guarded(a, Caller) /\ Caller.depth = Len(u) - 1
    BY <1>4, <2>2, StackTop
  <2>4. Tops(u, frames', f)
    BY <1>5, <2>1, <2>2, FrontTops
  <2>5. /\ Alike(Caller, f) /\ f.pc = Caller.pc
        /\ f.marks = Caller.marks /\ f.owns = Caller.owns
    BY <1>7, <2>3
  <2>6. Guarded(a, f)
    BY <2>3, <2>5 DEF Guarded
  <2>7. /\ IsFrame(f) /\ f.depth = Len(u) - 1 /\ f.name = u[Len(u)].name
        /\ f.marks = u[Len(u)].marks /\ f.owns = u[Len(u)].owns
    BY <2>2, <2>3, <2>5 DEF Alike
  <2>8. Stack(a, frames', path', held')
    BY <1>4, <2>2, <2>4, <2>6, <2>7, StackGoes
  <2>9. frames' # <<>>
    BY <1>4, <2>2, <2>4, <2>6, <2>7, FramesTops
  <2> QED BY <1>1, <2>1, <2>8, <2>9, Assemble
<1> QED BY <1>6, <1>7

\* The escape leaves a level.
LEMMA UnwindKeeps ==
  ASSUME IInv, app \in Guarding, mode = "escape",
         Leave(IF Top.marks THEN Front(path) ELSE path,
               IF Top.owns THEN held - 1 ELSE held),
         PathFits'
  PROVE  IInv'
<1>1. /\ frames # <<>> /\ frames' = Front(frames)
      /\ path' = IF Top.marks THEN Front(path) ELSE path
      /\ held' = IF Top.owns THEN held - 1 ELSE held
      /\ UNCHANGED <<app, mode, count, deepest>>
  BY DEF Leave
<1>2. Stack(app, frames, path, held) /\ Levels(frames)
  BY DEF IInv, Shape
<1>3. Popped(frames, frames')
  BY <1>1, <1>2, LevelsLength, LeavePops
<1>4. Stack(app, frames', path', held')
  BY <1>1, <1>2, <1>3, StackPops DEF Top
<1>5. count' \in Nat /\ deepest' \in Nat
  BY <1>1 DEF IInv, Control
<1> QED BY <1>1, <1>4, <1>5, Assemble

\* escape_scope returns.
LEMMA LandKeeps ==
  ASSUME IInv, app \in Guarding, NEW v, LandAs(v), path' = path, held' = held,
         PathFits'
  PROVE  IInv'
<1>1. frames = <<>> /\ mode' = "idle" /\ UNCHANGED <<app, frames, count, deepest>>
  BY DEF LandAs
<1>2. Stack(app, frames', path', held')
  BY <1>1 DEF IInv, Shape
<1>3. count' \in Nat /\ deepest' \in Nat
  BY <1>1 DEF IInv, Control
<1> QED BY <1>1, <1>2, <1>3, Assemble

\* The outermost level is entered.
LEMMA OutermostKeeps ==
  ASSUME IInv, app \in Guarding, app' = app, frames = <<>>, NEW name, NEW at,
         frames' = <<NewFrame(name, 0, at)>>, mode' = "run",
         path' = path, held' = held, count' \in Nat, deepest' \in Nat, PathFits'
  PROVE  IInv'
<1> DEFINE g == NewFrame(name, 0, at)
<1>1. IsFrame(g) /\ g.depth = 0 /\ g.pc = "enter" /\ ~g.marks /\ ~g.owns
  BY NewFrameIs
<1> HIDE DEF g
<1>2. frames' = <<g>>
  BY DEF g
<1>3. Pushed(frames, frames', g) /\ Len(frames) = 0 /\ frames' # <<>>
  <2>1. Levels(<<g>>) /\ Len(<<g>>) = 1 /\ <<g>>[1] = g /\ <<g>> # <<>>
    BY <1>1, LevelsSingle
  <2> QED BY <1>2, <2>1, EmptyIsSeq DEF Pushed, Levels
<1>4. Stack(app, frames, path, held)
  BY DEF IInv, Shape
<1>5. Stack(app, frames', path, held)
  BY <1>1, <1>3, <1>4, StackPushes
<1> QED BY <1>3, <1>5, Assemble

-----------------------------------------------------------------------------
(* The resolver.                                                           *)

\* A path that does not grow still fits.
LEMMA FitsShorter ==
  ASSUME IInv, app' = app, deepest' \in {deepest, 0},
         path' = path \/ (path # <<>> /\ IsSeq(path) /\ path' = Front(path))
  PROVE  PathFits'
<1>1. PathFits
  BY DEF IInv
<1>2. CASE path' = path
  BY <1>1, <1>2, StoreCheckAssumption, ManifestAssumption DEF PathFits
<1>3. CASE path # <<>> /\ IsSeq(path) /\ path' = Front(path)
  <2>1. Len(path) \in Nat \ {0} /\ Len(path') = Len(path) - 1
    BY <1>3, FrontOf
  <2>2. app' = "resolver" => Len(path') <= MaxDepth + 1
    BY <1>1, <2>1, ResolverAssumption DEF PathFits
  <2>3. app' = "store" => Len(path') <= MaxPath /\ deepest' <= MaxPath
    BY <1>1, <2>1, StoreCheckAssumption DEF PathFits
  <2>4. app' = "manifest" => /\ Len(path') <= MaxNesting + 1
                             /\ deepest' <= MaxNesting + 1
    BY <1>1, <2>1, ManifestAssumption DEF PathFits
  <2> QED BY <2>2, <2>3, <2>4 DEF PathFits
<1> QED BY <1>2, <1>3

LEMMA PointsInGuarding ==
  "resolver" \in Guarding /\ "store" \in Guarding /\ "manifest" \in Guarding
BY DEF Guarding

LEMMA ConfigResolveKeeps ==
  ASSUME IInv, ConfigResolve
  PROVE  IInv'
<1>1. PICK key : ResolveKey(key)
  BY DEF ConfigResolve
<1>2. /\ app = "resolver" /\ mode = "idle" /\ app' = app
      /\ frames' = <<NewFrame(key, 0, 1)>> /\ mode' = "run"
      /\ path' = path /\ held' = held /\ count' = count /\ deepest' = deepest
  BY <1>1 DEF ResolveKey, Begin
<1>3. frames = <<>> /\ count \in Nat /\ deepest \in Nat
  BY <1>2 DEF IInv, Control
<1>4. PathFits'
  BY <1>2, FitsShorter
<1> QED BY <1>2, <1>3, <1>4, OutermostKeeps, PointsInGuarding

LEMMA ResolveKeeps ==
  ASSUME IInv, Resolve
  PROVE  IInv'
<1>1. At("resolver", "enter") /\ held' = held /\ count' = count /\ deepest' = deepest
  BY DEF Resolve
<1>2. /\ app = "resolver" /\ Len(frames) \in Nat \ {0}
      /\ Guarded("resolver", Top) /\ Top.pc = "enter"
      /\ Top.depth = Len(frames) - 1 /\ IsSeq(path)
      /\ ~Top.marks => Len(path) = Len(frames) - 1
      /\ count \in Nat /\ deepest \in Nat
  BY <1>1, RunTop, PointsInGuarding
<1>3. CASE Top.depth > MaxDepth \/ OnPath(Top.name)
  <2>1. /\ Eject(IF Top.depth > MaxDepth THEN "too_deep" ELSE "cycle",
                 Top.name, Top.depth)
        /\ path' = path
    BY <1>3 DEF Resolve
  <2>2. app' = app
    BY <2>1 DEF Eject, Raise
  <2>3. PathFits'
    BY <1>1, <2>1, <2>2, FitsShorter
  <2> QED BY <1>1, <1>2, <2>1, <2>3, EjectKeeps, PointsInGuarding
<1>4. CASE ~(Top.depth > MaxDepth \/ OnPath(Top.name))
  <2>1. /\ path' = Append(path, Top.name)
        /\ Go([Top EXCEPT !.marks = TRUE, !.pc = "value"])
        /\ Top.name \notin Elements(path)
    BY <1>4 DEF Resolve, OnPath
  <2>2. app' = app
    BY <2>1 DEF Go
  <2>3. Len(path') = Len(path) + 1
    BY <1>2, <2>1, AppendOf
  <2>4. Len(path) = Len(frames) - 1
    BY <1>2 DEF Guarded
  <2>5. Len(frames) - 1 <= MaxDepth
    BY <1>2, <1>4, ResolverAssumption
  <2>6. Len(path') <= MaxDepth + 1
    BY <1>2, <2>3, <2>4, <2>5, ResolverAssumption
  <2>7. PathFits'
    BY <1>2, <2>2, <2>6 DEF PathFits
  <2>8. "value" \in Points("resolver") /\ "value" # "enter" /\ "value" \notin OwningPoints
    BY DEF Points, OwningPoints
  <2> QED BY <1>1, <1>2, <2>1, <2>7, <2>8, MarkKeeps, PointsInGuarding
<1> QED BY <1>3, <1>4

LEMMA LookUpKeeps ==
  ASSUME IInv, LookUp
  PROVE  IInv'
<1>1. /\ At("resolver", "value")
      /\ path' = path /\ held' = held /\ count' = count /\ deepest' = deepest
  BY DEF LookUp
<1>2. app = "resolver" /\ IsFrame(Top) /\ count \in Nat /\ deepest \in Nat
  BY <1>1, RunTop, PointsInGuarding
<1>3. app' = app
  BY DEF LookUp, Go, Eject, Raise
<1>4. PathFits'
  BY <1>1, <1>3, FitsShorter
<1>5. CASE Top.name \in DOMAIN input
  <2> DEFINE f == [Top EXCEPT !.pc = "text"]
  <2>1. Go(f)
    BY <1>5 DEF LookUp
  <2>2. Alike(Top, f) /\ f.pc = "text" /\ f.marks = Top.marks /\ f.owns = Top.owns
    BY <1>2, SetPc
  <2> HIDE DEF f
  <2>3. f.pc \in Points("resolver") /\ ("value" \in OwningPoints <=> f.pc \in OwningPoints)
    BY <2>2 DEF Points, OwningPoints
  <2> QED BY <1>1, <1>2, <1>4, <2>1, <2>2, <2>3, GoKeeps, PointsInGuarding
<1>6. CASE Top.name \notin DOMAIN input
  <2>1. Eject("missing", Top.name, Top.depth)
    BY <1>6 DEF LookUp
  <2> QED BY <1>1, <1>2, <1>4, <2>1, EjectKeeps, PointsInGuarding
<1> QED BY <1>5, <1>6

LEMMA InterpolateKeeps ==
  ASSUME IInv, Interpolate
  PROVE  IInv'
<1> DEFINE piece == input[Top.name][Top.at]
           f == [Top EXCEPT !.at = Top.at + 1, !.out = Append(Top.out, Top.name)]
<1>1. /\ At("resolver", "text")
      /\ path' = path /\ held' = held /\ count' = count /\ deepest' = deepest
  BY DEF Interpolate
<1>2. /\ app = "resolver" /\ IsFrame(Top) /\ count \in Nat /\ deepest \in Nat
      /\ Top.pc = "text"
  BY <1>1, RunTop, PointsInGuarding
<1>3. \/ Go(f)
      \/ Eject("malformed", RawText, Top.depth)
      \/ Enter(Top, NewFrame(piece.to, Top.depth + 1, 1))
  BY DEF Interpolate
<1>4. Alike(Top, f) /\ f.pc = "text" /\ f.marks = Top.marks /\ f.owns = Top.owns
  BY <1>2 DEF IsFrame, FrameFields, Alike
<1>5. Alike(Top, Top)
  BY <1>2 DEF Alike
<1> HIDE DEF f, piece
<1>6. app' = app
  BY <1>3 DEF Go, Eject, Raise, Enter
<1>7. PathFits'
  BY <1>1, <1>6, FitsShorter
<1>8. /\ "text" \in Points("resolver") /\ "text" # "enter" /\ "text" \notin OwningPoints
      /\ CallPoint("resolver") = "text"
  BY DEF Points, OwningPoints, CallPoint
<1>9. CASE Go(f)
  BY <1>1, <1>2, <1>4, <1>7, <1>8, <1>9, GoKeeps, PointsInGuarding
<1>10. CASE Eject("malformed", RawText, Top.depth)
  BY <1>1, <1>2, <1>7, <1>10, EjectKeeps, PointsInGuarding
<1>11. CASE Enter(Top, NewFrame(piece.to, Top.depth + 1, 1))
  BY <1>1, <1>2, <1>5, <1>7, <1>8, <1>11, EnterKeeps, PointsInGuarding
<1> QED BY <1>3, <1>9, <1>10, <1>11

\* The guard of the innermost frame takes the last name off the path.
LEMMA EraseTop ==
  ASSUME NEW a, Stack(a, frames, path, held), frames # <<>>, Top.marks
  PROVE  Erase(path, Top.name) = Front(path) /\ path # <<>> /\ IsSeq(path)
<1>1. /\ IsSeq(path) /\ Len(frames) \in Nat \ {0}
      /\ Len(path) = Len(frames) /\ path[Len(path)] = Top.name
  BY StackTop DEF Top
<1>2. path # <<>>
  BY <1>1, LengthOf
<1>3. \A i, j \in 1..Len(path) : path[i] = path[j] => i = j
  BY DEF Stack, OnStack
<1> QED BY <1>1, <1>2, <1>3, EraseLast

LEMMA ResolveReturnKeeps ==
  ASSUME IInv, ResolveReturn
  PROVE  IInv'
<1> DEFINE f == [Caller EXCEPT !.at = Caller.at + 1, !.out = Joined(Caller.out, Top.out)]
<1>1. /\ At("resolver", "text") /\ path' = Erase(path, Top.name)
      /\ held' = held /\ count' = count /\ deepest' = deepest
      /\ SucceedAs(Success(0, Top.out)) \/ ReturnTo(f)
  BY DEF ResolveReturn, Succeed
<1>2. /\ app = "resolver" /\ frames # <<>> /\ Stack("resolver", frames, path, held)
      /\ Guarded("resolver", Top) /\ Top.pc = "text"
      /\ count \in Nat /\ deepest \in Nat
  BY <1>1, RunTop, PointsInGuarding
<1>3. Top.marks /\ ~Top.owns
  BY <1>2 DEF Guarded, OwningPoints
<1>4. path' = Front(path) /\ path # <<>> /\ IsSeq(path)
  BY <1>1, <1>2, <1>3, EraseTop
<1>5. app' = app
  BY <1>1 DEF SucceedAs, ReturnTo
<1>6. PathFits'
  BY <1>1, <1>4, <1>5, FitsShorter
<1>7. ASSUME IsFrame(Caller)
      PROVE  /\ Alike(Caller, f) /\ f.pc = Caller.pc /\ f.marks = Caller.marks
             /\ f.owns = Caller.owns
  BY <1>7 DEF IsFrame, FrameFields, Alike
<1> HIDE DEF f
<1>8. held' = IF Top.owns THEN held - 1 ELSE held
  BY <1>1, <1>3
<1> QED BY <1>1, <1>2, <1>4, <1>6, <1>7, <1>8, ReturnKeeps, PointsInGuarding

LEMMA ResolveUnwindKeeps ==
  ASSUME IInv, ResolveUnwind
  PROVE  IInv'
<1>1. /\ app = "resolver" /\ mode = "escape" /\ frames # <<>>
      /\ Leave(IF Top.marks THEN Erase(path, Top.name) ELSE path, held)
  BY DEF ResolveUnwind, Leave
<1>2. Stack("resolver", frames, path, held)
  BY <1>1, PointsInGuarding DEF IInv, Shape
<1>3. Guarded("resolver", Top)
  BY <1>1, <1>2, StackTop DEF Top
<1>4. ~Top.owns
  BY <1>3 DEF Guarded, Points, OwningPoints
<1>5. Top.marks => Erase(path, Top.name) = Front(path) /\ path # <<>> /\ IsSeq(path)
  BY <1>1, <1>2, EraseTop
<1>6. Leave(IF Top.marks THEN Front(path) ELSE path,
            IF Top.owns THEN held - 1 ELSE held)
  BY <1>1, <1>4, <1>5 DEF Leave
<1>7. PathFits'
  BY <1>5, <1>6, FitsShorter DEF Leave
<1> QED BY <1>1, <1>6, <1>7, UnwindKeeps, PointsInGuarding

LEMMA ResolveLandKeeps ==
  ASSUME IInv, ResolveLand
  PROVE  IInv'
<1>1. app = "resolver" /\ LandAs(Failure(fault_name)) /\ path' = path /\ held' = held
  BY DEF ResolveLand, Land
<1>2. PathFits'
  BY <1>1, FitsShorter DEF LandAs
<1> QED BY <1>1, <1>2, LandKeeps, PointsInGuarding

LEMMA ResolverKeeps ==
  ASSUME IInv, ResolverNext
  PROVE  IInv'
BY ConfigResolveKeeps, ResolveKeeps, LookUpKeeps, InterpolateKeeps,
   ResolveReturnKeeps, ResolveUnwindKeeps, ResolveLandKeeps DEF ResolverNext

-----------------------------------------------------------------------------
(* The record checker.                                                     *)

\* The depth a frame reports on entry is the length of the path it finds.
LEMMA DeepestFits ==
  ASSUME IInv, NEW a \in {"store", "manifest"}, At(a, "enter")
  PROVE  LET d == IF Top.depth > deepest THEN Top.depth ELSE deepest
         IN  /\ d \in Nat
             /\ a = "store" => d <= MaxPath
             /\ a = "manifest" => d <= MaxNesting + 1
<1>1. a \in Guarding
  BY DEF Guarding
<1>2. /\ app = a /\ Len(frames) \in Nat \ {0}
      /\ Guarded(a, Top) /\ Top.pc = "enter"
      /\ Top.depth = Len(frames) - 1
      /\ ~Top.marks => Len(path) = Len(frames) - 1
      /\ deepest \in Nat
  BY <1>1, RunTop
<1>3. Top.depth = Len(path) /\ Top.depth \in Nat
  BY <1>2 DEF Guarded
<1>4. PathFits
  BY DEF IInv
<1> HIDE DEF Top
<1>5. CASE a = "store"
  BY <1>2, <1>3, <1>4, <1>5 DEF PathFits
<1>6. CASE a = "manifest"
  BY <1>2, <1>3, <1>4, <1>6 DEF PathFits
<1> QED BY <1>5, <1>6

LEMMA CheckImageKeeps ==
  ASSUME IInv, NEW entry, CheckImage(entry)
  PROVE  IInv'
<1>1. /\ app = "store" /\ mode = "idle" /\ app' = app /\ path' = path /\ held' = held
      /\ frames' = IF input.mounts THEN <<NewFrame(entry, 0, 1)>> ELSE <<>>
  BY DEF CheckImage, Begin
<1>2. frames = <<>> /\ count \in Nat /\ deepest \in Nat
  BY <1>1 DEF IInv, Control
<1>3. CASE input.mounts
  <2>1. frames' = <<NewFrame(entry, 0, 1)>> /\ mode' = "run" /\ count' = 0 /\ deepest' = 0
    BY <1>1, <1>3 DEF CheckImage
  <2>2. PathFits'
    BY <1>1, <2>1, FitsShorter
  <2> QED BY <1>1, <1>2, <2>1, <2>2, OutermostKeeps, PointsInGuarding
<1>4. CASE ~input.mounts
  <2>1. frames' = <<>> /\ mode' = "begin" /\ count' = count /\ deepest' = deepest
    BY <1>1, <1>4 DEF CheckImage
  <2>2. PathFits'
    BY <1>1, <2>1, FitsShorter
  <2>3. Stack(app, frames', path', held')
    BY <1>1, <1>2, <2>1, PointsInGuarding DEF IInv, Shape
  <2> QED BY <1>1, <1>2, <2>1, <2>2, <2>3, Assemble, PointsInGuarding
<1> QED BY <1>3, <1>4

LEMMA MountFailedKeeps ==
  ASSUME IInv, MountFailed
  PROVE  IInv'
<1>1. /\ app = "store" /\ Eject("mount_failed", call, 0)
      /\ path' = path /\ held' = held /\ count' = count /\ deepest' = deepest
  BY DEF MountFailed
<1>2. app' = app
  BY <1>1 DEF Eject, Raise
<1>3. PathFits' /\ count \in Nat /\ deepest \in Nat
  BY <1>1, <1>2, FitsShorter DEF IInv, Control
<1> QED BY <1>1, <1>3, EjectKeeps, PointsInGuarding

LEMMA VisitKeeps ==
  ASSUME IInv, Visit
  PROVE  IInv'
<1>1. /\ At("store", "enter") /\ held' = held /\ count' = count
      /\ deepest' = IF Top.depth > deepest THEN Top.depth ELSE deepest
  BY DEF Visit
<1>2. app = "store" /\ IsSeq(path) /\ count \in Nat
  BY <1>1, RunTop, PointsInGuarding
<1>3. deepest' \in Nat /\ deepest' <= MaxPath
  BY <1>1, DeepestFits
<1>4. Len(path) \in Nat /\ Len(path) <= MaxPath
  BY <1>2, LengthOf DEF IInv, PathFits
<1>5. CASE Top.name \in Elements(path) \/ PathFull
  <2>1. /\ Eject(IF Top.name \in Elements(path) THEN "reference_cycle"
                 ELSE "nesting_too_deep", Top.name, Top.depth)
        /\ path' = path
    BY <1>5 DEF Visit
  <2>2. PathFits'
    BY <1>2, <1>3, <1>4, <2>1 DEF PathFits, Eject, Raise
  <2> QED BY <1>1, <1>2, <1>3, <2>1, <2>2, EjectKeeps, PointsInGuarding
<1>6. CASE ~(Top.name \in Elements(path) \/ PathFull)
  <2>1. /\ path' = Append(path, Top.name)
        /\ Go([Top EXCEPT !.marks = TRUE, !.pc = "open"])
        /\ Top.name \notin Elements(path)
    BY <1>6 DEF Visit
  <2>2. Len(path') = Len(path) + 1 /\ app' = app
    BY <1>2, <2>1, AppendOf DEF Go
  <2>3. Len(path') <= MaxPath
    BY <1>4, <1>6, <2>2, StoreCheckAssumption DEF PathFull
  <2>4. PathFits'
    BY <1>2, <1>3, <2>2, <2>3 DEF PathFits
  <2>5. "open" \in Points("store") /\ "open" # "enter" /\ "open" \notin OwningPoints
    BY DEF Points, OwningPoints
  <2> QED BY <1>1, <1>2, <1>3, <2>1, <2>4, <2>5, MarkKeeps, PointsInGuarding
<1> QED BY <1>5, <1>6

LEMMA OpenFileKeeps ==
  ASSUME IInv, OpenFile
  PROVE  IInv'
<1>1. At("store", "open") /\ path' = path /\ count' = count /\ deepest' = deepest
  BY DEF OpenFile
<1>2. app = "store" /\ count \in Nat /\ deepest \in Nat
  BY <1>1, RunTop, PointsInGuarding
<1>3. app' = app
  BY DEF OpenFile, Go, Eject, Raise
<1>4. PathFits'
  BY <1>1, <1>3, FitsShorter
<1>5. CASE Exists(Top.name)
  <2>1. held' = held + 1 /\ Go([Top EXCEPT !.owns = TRUE, !.pc = "read"])
    BY <1>5 DEF OpenFile
  <2>2. /\ "open" # "enter" /\ "open" \notin OwningPoints
        /\ "read" \in Points("store") /\ "read" # "enter" /\ "read" \in OwningPoints
    BY DEF Points, OwningPoints
  <2> QED BY <1>1, <1>2, <1>4, <2>1, <2>2, OwnKeeps, PointsInGuarding
<1>6. CASE ~Exists(Top.name)
  <2>1. Eject("record_unreadable", Top.name, Top.depth) /\ held' = held
    BY <1>6 DEF OpenFile
  <2> QED BY <1>1, <1>2, <1>4, <2>1, EjectKeeps, PointsInGuarding
<1> QED BY <1>5, <1>6

LEMMA ReadRecordKeeps ==
  ASSUME IInv, ReadRecord
  PROVE  IInv'
<1> DEFINE fault == RecordFault(input.records[Top.name].flaws)
           f == [Top EXCEPT !.pc = "ref"]
<1>1. At("store", "read") /\ path' = path /\ held' = held /\ deepest' = deepest
  BY DEF ReadRecord
<1>2. app = "store" /\ IsFrame(Top) /\ count \in Nat /\ deepest \in Nat
  BY <1>1, RunTop, PointsInGuarding
<1>3. \/ Eject(fault, Top.name, Top.depth) /\ count' = count
      \/ count' = count + 1 /\ Go(f)
  BY DEF ReadRecord
<1> HIDE DEF fault
<1>4. Alike(Top, f) /\ f.pc = "ref" /\ f.marks = Top.marks /\ f.owns = Top.owns
  BY <1>2, SetPc
<1> HIDE DEF f
<1>5. app' = app
  BY <1>3 DEF Go, Eject, Raise
<1>6. PathFits' /\ count' \in Nat
  BY <1>1, <1>2, <1>3, <1>5, FitsShorter
<1>7. /\ f.pc \in Points("store") /\ f.pc # "enter" /\ "read" # "enter"
      /\ "read" \in OwningPoints <=> f.pc \in OwningPoints
  BY <1>4 DEF Points, OwningPoints
<1>8. CASE Eject(fault, Top.name, Top.depth) /\ count' = count
  BY <1>1, <1>2, <1>6, <1>8, EjectKeeps, PointsInGuarding
<1>9. CASE count' = count + 1 /\ Go(f)
  BY <1>1, <1>2, <1>4, <1>6, <1>7, <1>9, GoKeeps, PointsInGuarding
<1> QED BY <1>3, <1>8, <1>9

LEMMA FollowRefKeeps ==
  ASSUME IInv, FollowRef
  PROVE  IInv'
<1> DEFINE ref == input.records[Top.name].ref
           f == [Top EXCEPT !.pc = "done"]
<1>1. /\ At("store", "ref") /\ path' = path /\ held' = held /\ count' = count
      /\ deepest' = deepest
  BY DEF FollowRef
<1>2. app = "store" /\ IsFrame(Top) /\ count \in Nat /\ deepest \in Nat
  BY <1>1, RunTop, PointsInGuarding
<1>3. \/ Enter(f, NewFrame(ref, Top.depth + 1, 1))
      \/ Eject("reference_missing", ref, Top.depth)
  BY DEF FollowRef
<1> HIDE DEF ref
<1>4. Alike(Top, f) /\ f.pc = "done" /\ f.marks = Top.marks /\ f.owns = Top.owns
  BY <1>2, SetPc
<1> HIDE DEF f
<1>5. app' = app
  BY <1>3 DEF Enter, Eject, Raise
<1>6. PathFits'
  BY <1>1, <1>5, FitsShorter
<1>7. f.pc = CallPoint("store") /\ "ref" # "enter" /\ "ref" \in OwningPoints
  BY <1>4 DEF CallPoint, OwningPoints
<1>8. CASE Enter(f, NewFrame(ref, Top.depth + 1, 1))
  BY <1>1, <1>2, <1>4, <1>6, <1>7, <1>8, EnterKeeps, PointsInGuarding
<1>9. CASE Eject("reference_missing", ref, Top.depth)
  BY <1>1, <1>2, <1>6, <1>9, EjectKeeps, PointsInGuarding
<1> QED BY <1>3, <1>8, <1>9

\* What an action that returns with both guards destroyed comes to.
LEMMA BothReturn ==
  ASSUME IInv, NEW a \in {"store", "manifest"}, NEW pc, At(a, pc), pc # "enter",
         pc \in OwningPoints, path' = Front(path), held' = held - 1,
         count' \in Nat, deepest' = deepest, NEW v,
         SucceedAs(v) \/ ReturnTo(Caller)
  PROVE  IInv'
<1>1. a \in Guarding
  BY DEF Guarding
<1>2. /\ app = a /\ Guarded(a, Top) /\ Top.pc = pc /\ deepest \in Nat
      /\ IsSeq(path) /\ Len(frames) \in Nat \ {0}
      /\ Top.marks => Len(path) = Len(frames) /\ path[Len(path)] = Top.name
  BY <1>1, RunTop
<1>3. Top.marks /\ Top.owns
  BY <1>2 DEF Guarded
<1>4. path # <<>>
  BY <1>2, <1>3, LengthOf
<1>5. app' = app
  BY DEF SucceedAs, ReturnTo
<1>6. PathFits'
  BY <1>2, <1>4, <1>5, FitsShorter
<1>7. held' = IF Top.owns THEN held - 1 ELSE held
  BY <1>3
<1>8. IsFrame(Caller) => /\ Alike(Caller, Caller) /\ Caller.pc = Caller.pc
                         /\ Caller.marks = Caller.marks
                         /\ Caller.owns = Caller.owns
  BY DEF Alike
<1> QED BY <1>1, <1>2, <1>6, <1>7, <1>8, ReturnKeeps

LEMMA CheckReturnKeeps ==
  ASSUME IInv, CheckReturn
  PROVE  IInv'
<1>1. /\ At("store", "done") \/ At("store", "ref")
      /\ path' = Front(path) /\ held' = held - 1 /\ count' = count
      /\ deepest' = deepest
      /\ SucceedAs(Success(count, <<>>)) \/ ReturnTo(Caller)
  BY DEF CheckReturn, Succeed
<1>2. count' \in Nat
  BY <1>1 DEF IInv, Control
<1>3. "done" \in OwningPoints /\ "ref" \in OwningPoints
  BY DEF OwningPoints
<1>4. CASE At("store", "done")
  BY <1>1, <1>2, <1>3, <1>4, BothReturn
<1>5. CASE At("store", "ref")
  BY <1>1, <1>2, <1>3, <1>5, BothReturn
<1> QED BY <1>1, <1>4, <1>5

\* ~open_file and ~visiting, ~digest and ~visiting.
LEMMA BothUnwind ==
  ASSUME IInv, app \in {"store", "manifest"}, mode = "escape",
         Leave(IF Top.marks THEN Front(path) ELSE path,
               IF Top.owns THEN held - 1 ELSE held)
  PROVE  IInv'
<1>1. app \in Guarding /\ frames # <<>>
  BY DEF Guarding, Leave
<1>2. Stack(app, frames, path, held)
  BY <1>1 DEF IInv, Shape
<1>3. Top.marks => path # <<>> /\ IsSeq(path)
  BY <1>1, <1>2, EraseTop
<1>4. PathFits'
  BY <1>3, FitsShorter DEF Leave
<1> QED BY <1>1, <1>4, UnwindKeeps

LEMMA StoreCheckKeeps ==
  ASSUME IInv, StoreCheckNext
  PROVE  IInv'
<1>1. CASE app = "store" /\ \E entry \in input.asked : CheckImage(entry)
  BY <1>1, CheckImageKeeps
<1>2. CASE CheckUnwind
  <2>1. /\ app = "store" /\ mode = "escape"
        /\ Leave(IF Top.marks THEN Front(path) ELSE path,
                 IF Top.owns THEN held - 1 ELSE held)
    BY <1>2 DEF CheckUnwind
  <2> QED BY <2>1, BothUnwind
<1>3. CASE CheckLand
  <2>1. app = "store" /\ LandAs(Failure(fault_name)) /\ path' = path /\ held' = held
    BY <1>3 DEF CheckLand, Land
  <2>2. PathFits'
    BY <2>1, FitsShorter DEF LandAs
  <2> QED BY <2>1, <2>2, LandKeeps, PointsInGuarding
<1> QED BY <1>1, <1>2, <1>3, MountFailedKeeps, VisitKeeps, OpenFileKeeps,
           ReadRecordKeeps, FollowRefKeeps, CheckReturnKeeps DEF StoreCheckNext

-----------------------------------------------------------------------------
(* The trusted application.                                                *)

LEMMA VerifyManifestKeeps ==
  ASSUME IInv, NEW m, VerifyManifest(m)
  PROVE  IInv'
<1>1. /\ app = "manifest" /\ mode = "idle" /\ app' = app /\ frames' = <<>>
      /\ mode' = "begin" /\ path' = path /\ held' = held /\ count' = 0
      /\ deepest' = 0
  BY DEF VerifyManifest, Begin
<1>2. frames = <<>>
  BY <1>1 DEF IInv, Control
<1>3. PathFits'
  BY <1>1, FitsShorter
<1>4. Stack(app, frames', path', held')
  BY <1>1, <1>2, PointsInGuarding DEF IInv, Shape
<1> QED BY <1>1, <1>3, <1>4, Assemble, PointsInGuarding

LEMMA VerifyHeaderKeeps ==
  ASSUME IInv, VerifyHeader
  PROVE  IInv'
<1>1. /\ app = "manifest" /\ mode = "begin"
      /\ path' = path /\ held' = held /\ count' = count /\ deepest' = deepest
  BY DEF VerifyHeader
<1>2. \/ Eject(HeaderFault(input), "root", 0)
      \/ /\ app' = app /\ mode' = "run"
         /\ frames' = <<NewFrame(input.entries[1].name, 0, 1)>>
  BY DEF VerifyHeader
<1>3. frames = <<>> /\ count \in Nat /\ deepest \in Nat
  BY <1>1 DEF IInv, Control
<1>4. PathFits'
  BY <1>1, <1>2, FitsShorter DEF Eject, Raise
<1>5. CASE Eject(HeaderFault(input), "root", 0)
  BY <1>1, <1>3, <1>4, <1>5, EjectKeeps, PointsInGuarding
<1>6. CASE /\ app' = app /\ mode' = "run"
           /\ frames' = <<NewFrame(input.entries[1].name, 0, 1)>>
  BY <1>1, <1>3, <1>4, <1>6, OutermostKeeps, PointsInGuarding
<1> QED BY <1>2, <1>5, <1>6

LEMMA VisitEntryKeeps ==
  ASSUME IInv, VisitEntry
  PROVE  IInv'
<1>1. /\ At("manifest", "enter") /\ held' = held /\ count' = count
      /\ deepest' = IF Top.depth > deepest THEN Top.depth ELSE deepest
  BY DEF VisitEntry
<1>2. app = "manifest" /\ IsSeq(path) /\ count \in Nat
  BY <1>1, RunTop, PointsInGuarding
<1>3. deepest' \in Nat /\ deepest' <= MaxNesting + 1
  BY <1>1, DeepestFits
<1>4. Len(path) \in Nat /\ Len(path) <= MaxNesting + 1
  BY <1>2, LengthOf DEF IInv, PathFits
<1>5. CASE Top.name \in Elements(path) \/ NestedTooDeep
  <2>1. /\ Eject(IF Top.name \in Elements(path) THEN "reference_cycle"
                 ELSE "nesting_too_deep", Top.name, Top.depth)
        /\ path' = path
    BY <1>5 DEF VisitEntry
  <2>2. PathFits'
    BY <1>2, <1>3, <1>4, <2>1 DEF PathFits, Eject, Raise
  <2> QED BY <1>1, <1>2, <1>3, <2>1, <2>2, EjectKeeps, PointsInGuarding
<1>6. CASE ~(Top.name \in Elements(path) \/ NestedTooDeep)
  <2>1. /\ path' = Append(path, Top.name)
        /\ Go([Top EXCEPT !.marks = TRUE, !.pc = "digest"])
        /\ Top.name \notin Elements(path)
    BY <1>6 DEF VisitEntry
  <2>2. Len(path') = Len(path) + 1 /\ app' = app
    BY <1>2, <2>1, AppendOf DEF Go
  <2>3. Len(path') <= MaxNesting + 1
    BY <1>4, <1>6, <2>2, ManifestAssumption DEF NestedTooDeep
  <2>4. PathFits'
    BY <1>2, <1>3, <2>2, <2>3 DEF PathFits
  <2>5. /\ "digest" \in Points("manifest") /\ "digest" # "enter"
        /\ "digest" \notin OwningPoints
    BY DEF Points, OwningPoints
  <2> QED BY <1>1, <1>2, <1>3, <2>1, <2>4, <2>5, MarkKeeps, PointsInGuarding
<1> QED BY <1>5, <1>6

LEMMA AllocateDigestKeeps ==
  ASSUME IInv, AllocateDigest
  PROVE  IInv'
<1>1. At("manifest", "digest") /\ path' = path /\ count' = count /\ deepest' = deepest
  BY DEF AllocateDigest
<1>2. app = "manifest" /\ count \in Nat /\ deepest \in Nat
  BY <1>1, RunTop, PointsInGuarding
<1>3. app' = app
  BY DEF AllocateDigest, Go, Eject, Raise
<1>4. PathFits'
  BY <1>1, <1>3, FitsShorter
<1>5. CASE held < input.pool
  <2>1. held' = held + 1 /\ Go([Top EXCEPT !.owns = TRUE, !.pc = "parse"])
    BY <1>5 DEF AllocateDigest
  <2>2. /\ "digest" # "enter" /\ "digest" \notin OwningPoints
        /\ "parse" \in Points("manifest") /\ "parse" # "enter"
        /\ "parse" \in OwningPoints
    BY DEF Points, OwningPoints
  <2> QED BY <1>1, <1>2, <1>4, <2>1, <2>2, OwnKeeps, PointsInGuarding
<1>6. CASE ~(held < input.pool)
  <2>1. Eject("digest_unavailable", "digest", Top.depth) /\ held' = held
    BY <1>6 DEF AllocateDigest
  <2> QED BY <1>1, <1>2, <1>4, <2>1, EjectKeeps, PointsInGuarding
<1> QED BY <1>5, <1>6

LEMMA ParseEntryKeeps ==
  ASSUME IInv, ParseEntry
  PROVE  IInv'
<1> DEFINE ref == input.entries[Top.at].ref
           fault == EntryFault(input, Top.at)
           beside == IF fault = "reference_missing" THEN ref ELSE Top.name
           f == [Top EXCEPT !.pc = "image"]
           g == NewFrame(ref, Top.depth + 1, First(FindEntry(input, ref)))
<1>1. /\ At("manifest", "parse") /\ path' = path /\ held' = held /\ count' = count
      /\ deepest' = deepest
  BY DEF ParseEntry
<1>2. app = "manifest" /\ IsFrame(Top) /\ count \in Nat /\ deepest \in Nat
  BY <1>1, RunTop, PointsInGuarding
<1>3. Eject(fault, beside, Top.depth) \/ Go(f) \/ Enter(f, g)
  BY DEF ParseEntry
<1>4. Alike(Top, f) /\ f.pc = "image" /\ f.marks = Top.marks /\ f.owns = Top.owns
  BY <1>2, SetPc
<1> DEFINE at == First(FindEntry(input, ref))
<1> HIDE DEF f, fault, beside, ref, at
<1>5. app' = app
  BY <1>3 DEF Go, Enter, Eject, Raise
<1>6. PathFits'
  BY <1>1, <1>5, FitsShorter
<1>7. /\ f.pc = CallPoint("manifest") /\ "parse" # "enter" /\ "parse" \in OwningPoints
      /\ f.pc \in Points("manifest") /\ f.pc # "enter" /\ f.pc \in OwningPoints
  BY <1>4 DEF CallPoint, OwningPoints, Points
<1>8. CASE Eject(fault, beside, Top.depth)
  BY <1>1, <1>2, <1>6, <1>8, EjectKeeps, PointsInGuarding
<1>9. CASE Go(f)
  BY <1>1, <1>2, <1>4, <1>6, <1>7, <1>9, GoKeeps, PointsInGuarding
<1>10. CASE Enter(f, g)
  BY <1>1, <1>2, <1>4, <1>6, <1>7, <1>10, EnterKeeps, PointsInGuarding
<1> QED BY <1>3, <1>8, <1>9, <1>10

LEMMA VerifyImageKeeps ==
  ASSUME IInv, VerifyImage
  PROVE  IInv'
<1>1. At("manifest", "image") /\ deepest' = deepest
  BY DEF VerifyImage
<1>2. app = "manifest" /\ count \in Nat /\ deepest \in Nat
  BY <1>1, RunTop, PointsInGuarding
<1>3. CASE ImageFault(input, Top.at) # "none"
  <2>1. /\ Eject(ImageFault(input, Top.at), Top.name, Top.depth)
        /\ path' = path /\ held' = held /\ count' = count
    BY <1>3 DEF VerifyImage
  <2>2. PathFits'
    BY <1>1, <2>1, FitsShorter DEF Eject, Raise
  <2> QED BY <1>1, <1>2, <2>1, <2>2, EjectKeeps, PointsInGuarding
<1>4. CASE ImageFault(input, Top.at) = "none"
  <2>1. /\ count' = count + 1 /\ path' = Front(path) /\ held' = held - 1
        /\ SucceedAs(Reply(Success(count', <<>>))) \/ ReturnTo(Caller)
    BY <1>4 DEF VerifyImage
  <2>2. SucceedAs(Reply(Success(count + 1, <<>>))) \/ ReturnTo(Caller)
    BY <2>1
  <2>3. "image" \in OwningPoints
    BY DEF OwningPoints
  <2> QED BY <1>1, <1>2, <2>1, <2>2, <2>3, BothReturn
<1> QED BY <1>3, <1>4

LEMMA ManifestKeeps ==
  ASSUME IInv, ManifestNext
  PROVE  IInv'
<1>1. CASE EntryUnwind
  <2>1. /\ app = "manifest" /\ mode = "escape"
        /\ Leave(IF Top.marks THEN Front(path) ELSE path,
                 IF Top.owns THEN held - 1 ELSE held)
    BY <1>1 DEF EntryUnwind
  <2> QED BY <2>1, BothUnwind
<1>2. CASE ManifestLand
  <2>1. /\ app = "manifest" /\ path' = path /\ held' = held
        /\ LandAs(Reply(Failure(fault_name)))
    BY <1>2 DEF ManifestLand
  <2>2. PathFits'
    BY <2>1, FitsShorter DEF LandAs
  <2> QED BY <2>1, <2>2, LandKeeps, PointsInGuarding
<1> QED BY <1>1, <1>2, VerifyHeaderKeeps, VisitEntryKeeps, AllocateDigestKeeps,
           ParseEntryKeeps, VerifyImageKeeps DEF ManifestNext

-----------------------------------------------------------------------------
(* The scene audit and the configuration checker: a failure returns level  *)
(* by level, and nothing is held unless it is under way.                   *)

LEMMA AssembleReturning ==
  ASSUME app \in {"scene", "config"}, app' = app,
         mode' \in {"idle", "begin", "run", "fail"},
         mode' \in {"idle", "begin"} => frames' = <<>>,
         mode' = "run" => frames' # <<>>,
         Levels(frames'), held' \in Nat, count' \in Nat, deepest' \in Nat,
         mode' # "fail" => held' = 0,
         app = "scene" /\ mode' \in {"idle", "begin"} => path' = <<>>,
         app = "config" => path' = <<>> /\ Sections(frames')
  PROVE  IInv'
<1>1. Control'
  BY DEF Control
<1>2. Shape'
  BY DEF Shape, Guarding
<1>3. PathFits'
  BY DEF PathFits
<1> QED BY <1>1, <1>2, <1>3 DEF IInv

LEMMA AuditKeeps ==
  ASSUME IInv, NEW scene, Audit(scene)
  PROVE  IInv'
<1> DEFINE fs == IF scene.names = <<>> THEN <<>> ELSE <<NewFrame(1, 0, 1)>>
<1>1. /\ app = "scene" /\ mode = "idle" /\ app' = app /\ frames' = fs
      /\ mode' = IF scene.names = <<>> THEN "begin" ELSE "run"
      /\ count' = 0 /\ path' = path /\ held' = held /\ deepest' = deepest
  BY DEF Audit, Begin
<1>2. path = <<>> /\ held = 0 /\ deepest \in Nat
  BY <1>1 DEF IInv, Control, Shape, Guarding
<1>3. CASE scene.names = <<>>
  BY <1>1, <1>2, <1>3, LevelsEmpty, AssembleReturning
<1>4. CASE scene.names # <<>>
  <2> DEFINE g == NewFrame(1, 0, 1)
  <2>1. IsFrame(g) /\ g.depth = 0
    BY NewFrameIs
  <2> HIDE DEF g
  <2>2. frames' = <<g>>
    BY <1>1, <1>4 DEF g
  <2>3. Levels(<<g>>) /\ <<g>> # <<>>
    BY <2>1, LevelsSingle
  <2> QED BY <1>1, <1>2, <1>4, <2>2, <2>3, AssembleReturning
<1> QED BY <1>3, <1>4

LEMMA ReturningTop ==
  ASSUME IInv, NEW a \in {"scene", "config"}, NEW pc, At(a, pc)
  PROVE  /\ app = a /\ mode = "run" /\ frames # <<>> /\ Levels(frames)
         /\ IsSeq(frames) /\ Len(frames) \in Nat \ {0}
         /\ Top = frames[Len(frames)] /\ IsFrame(Top) /\ Top.pc = pc
         /\ Top.depth = Len(frames) - 1
         /\ held = 0 /\ count \in Nat /\ deepest \in Nat
         /\ a = "config" => path = <<>> /\ Sections(frames)
<1>1. app = a /\ mode = "run" /\ frames # <<>> /\ Top.pc = pc
  BY DEF At
<1>2. Levels(frames) /\ held = 0 /\ (a = "config" => path = <<>> /\ Sections(frames))
  BY <1>1 DEF IInv, Shape, Guarding
<1>3. count \in Nat /\ deepest \in Nat
  BY DEF IInv, Control
<1>4. Top = frames[Len(frames)]
  BY DEF Top
<1> QED BY <1>1, <1>2, <1>3, <1>4, LevelsLength

LEMMA SectionsPopped ==
  ASSUME NEW s, NEW t, Levels(s), Sections(s), s # <<>>, Popped(s, t)
  PROVE  Sections(t)
<1>1. Len(s) \in Nat \ {0} /\ Len(s) <= 2
  BY LevelsLength DEF Sections
<1>2. IsSeq(t) /\ Len(t) = Len(s) - 1 /\ \A i \in 1..(Len(s) - 1) : t[i] = s[i]
  BY DEF Popped
<1>3. t # <<>> => Len(t) = 1 /\ t[1] = s[1]
  BY <1>1, <1>2, LengthOf
<1> QED BY <1>1, <1>2, <1>3 DEF Sections

\* A level is left by a failure.
LEMMA LeaveReturning ==
  ASSUME IInv, app \in {"scene", "config"}, frames # <<>>,
         app' = app, mode' = "fail", frames' = Front(frames),
         held' \in Nat, path' = path, count' = count, deepest' = deepest
  PROVE  IInv'
<1>1. /\ Levels(frames) /\ count \in Nat /\ deepest \in Nat
      /\ app = "config" => path = <<>> /\ Sections(frames)
  BY DEF IInv, Control, Shape
<1>2. Popped(frames, frames')
  BY <1>1, LevelsLength, LeavePops
<1>3. Levels(frames')
  BY <1>1, <1>2, LevelsPopped
<1>4. app = "config" => Sections(frames')
  BY <1>1, <1>2, SectionsPopped
<1> QED BY <1>1, <1>3, <1>4, AssembleReturning

LEMMA FailHereKeeps ==
  ASSUME IInv, NEW a \in {"scene", "config"}, NEW pc, At(a, pc),
         NEW f, NEW name, NEW depth, NEW h \in Nat, FailHere(f, name, depth, h)
  PROVE  IInv'
<1>1. app = a /\ frames # <<>>
  BY ReturningTop
<1>2. /\ app' = app /\ mode' = "fail" /\ frames' = Front(frames) /\ held' = h
      /\ path' = path /\ count' = count /\ deepest' = deepest
  BY DEF FailHere
<1> QED BY <1>1, <1>2, LeaveReturning

LEMMA FailBelowKeeps ==
  ASSUME IInv, app \in {"scene", "config"},
         NEW f, NEW name, NEW depth, NEW h \in Nat, FailBelow(f, name, depth, h)
  PROVE  IInv'
<1>1. /\ app' = app /\ mode' = "fail" /\ frames' = frames /\ held' = h
      /\ path' = path /\ count' = count /\ deepest' = deepest
  BY DEF FailBelow, Raise
<1>2. /\ Levels(frames) /\ count \in Nat /\ deepest \in Nat
      /\ app = "config" => path = <<>> /\ Sections(frames)
  BY DEF IInv, Control, Shape
<1> QED BY <1>1, <1>2, AssembleReturning

LEMMA TryReturnsKeeps ==
  ASSUME IInv, app \in {"scene", "config"}, mode = "fail", NEW max, TryReturns(max)
  PROVE  IInv'
<1>1. /\ frames # <<>> /\ app' = app /\ mode' = "fail" /\ frames' = Front(frames)
      /\ held' = held /\ path' = path /\ count' = count /\ deepest' = deepest
  BY DEF TryReturns, Leave
<1>2. held \in Nat
  BY DEF IInv, Control
<1> QED BY <1>1, <1>2, LeaveReturning

-----------------------------------------------------------------------------
(* The scene audit.                                                        *)

LEMMA EmptyTreeKeeps ==
  ASSUME IInv, EmptyTree
  PROVE  IInv'
<1>1. /\ app = "scene" /\ mode = "begin" /\ app' = app /\ mode' = "idle"
      /\ frames' = frames /\ path' = path /\ held' = held /\ count' = count
      /\ deepest' = deepest
  BY DEF EmptyTree
<1>2. /\ frames = <<>> /\ path = <<>> /\ held = 0 /\ count \in Nat /\ deepest \in Nat
  BY <1>1 DEF IInv, Control, Shape, Guarding
<1> QED BY <1>1, <1>2, LevelsEmpty, AssembleReturning

LEMMA VisitNodeKeeps ==
  ASSUME IInv, VisitNode
  PROVE  IInv'
<1> DEFINE name == input.names[Top.name]
           fault == NameFault(name)
           f == [Top EXCEPT !.pc = "children"]
<1>1. At("scene", "enter")
  BY DEF VisitNode
<1>2. /\ app = "scene" /\ mode = "run" /\ frames # <<>> /\ Levels(frames)
      /\ IsSeq(frames) /\ Top = frames[Len(frames)] /\ IsFrame(Top)
      /\ Top.depth = Len(frames) - 1 /\ Len(frames) \in Nat \ {0}
      /\ held = 0 /\ count \in Nat /\ deepest \in Nat
  BY <1>1, ReturningTop
<1>3. Recorded \in Nat
  BY DEF Recorded
<1>4. \/ FailHere("too_deep", name, Top.depth, Recorded)
      \/ FailBelow(fault, name, Top.depth, Recorded)
      \/ /\ count' = count + 1
         /\ frames' = [frames EXCEPT ![Len(frames)].pc = "children"]
         /\ UNCHANGED <<app, mode, held, deepest>>
  BY DEF VisitNode
<1>5. Alike(Top, f)
  BY <1>2, SetPc
<1>6. [frames EXCEPT ![Len(frames)].pc = "children"]
        = [frames EXCEPT ![Len(frames)] = f]
  BY <1>2
<1> HIDE DEF name, fault, f
<1>7. CASE FailHere("too_deep", name, Top.depth, Recorded)
  BY <1>1, <1>3, <1>7, FailHereKeeps
<1>8. CASE FailBelow(fault, name, Top.depth, Recorded)
  BY <1>2, <1>3, <1>8, FailBelowKeeps
<1>9. CASE /\ count' = count + 1
           /\ frames' = [frames EXCEPT ![Len(frames)].pc = "children"]
           /\ UNCHANGED <<app, mode, held, deepest>>
  <2>1. Tops(frames, frames', f)
    BY <1>2, <1>6, <1>9, GoTops
  <2>2. IsFrame(f) /\ f.depth = Len(frames) - 1
    BY <1>2, <1>5 DEF Alike
  <2>3. Levels(frames')
    BY <1>2, <2>1, <2>2, LevelsTops
  <2>4. frames' # <<>>
    BY <1>2, <2>1, LengthOf DEF Tops
  <2> QED BY <1>2, <1>9, <2>3, <2>4, AssembleReturning
<1> QED BY <1>4, <1>7, <1>8, <1>9

\* A level is entered from f.
LEMMA EnterLevels ==
  ASSUME Levels(frames), frames # <<>>, NEW f, NEW name, NEW depth, NEW at,
         IsFrame(f), f.depth = Len(frames) - 1, depth = Len(frames),
         frames' = Append(Front(frames), f) \o <<NewFrame(name, depth, at)>>
  PROVE  /\ Levels(frames') /\ frames' # <<>>
         /\ Len(frames') = Len(frames) + 1
         /\ frames'[Len(frames)] = f
         /\ frames'[Len(frames) + 1] = NewFrame(name, depth, at)
<1> DEFINE u == Append(Front(frames), f)
           g == NewFrame(name, depth, at)
<1>1. IsSeq(frames) /\ Len(frames) \in Nat \ {0}
  BY LevelsLength
<1>2. Tops(frames, u, f)
  BY <1>1, FrontTops
<1>3. IsFrame(g) /\ g.depth = depth
  BY NewFrameIs
<1> HIDE DEF u, g
<1>4. frames' = u \o <<g>>
  BY DEF u, g
<1>5. Levels(u)
  BY <1>2, LevelsTops
<1>6. IsSeq(u) /\ Len(u) = Len(frames) /\ u[Len(frames)] = f
  BY <1>2 DEF Tops
<1>7. Pushed(u, frames', g)
  BY <1>4, <1>6, ConcatPushes
<1>8. Levels(frames')
  BY <1>3, <1>5, <1>6, <1>7, LevelsPushed
<1>9. /\ Len(frames') = Len(frames) + 1 /\ frames'[Len(frames)] = f
      /\ frames'[Len(frames) + 1] = g
  BY <1>1, <1>6, <1>7 DEF Pushed
<1>10. frames' # <<>>
  BY <1>1, <1>8, <1>9, LevelsLength
<1> QED BY <1>8, <1>9, <1>10 DEF g

LEMMA VisitChildKeeps ==
  ASSUME IInv, VisitChild
  PROVE  IInv'
<1> DEFINE x == Top.at + 1
           f == [Top EXCEPT !.at = x]
           child == input.children[Top.name][Top.at]
           d == Top.depth + 1
<1>1. /\ At("scene", "children") /\ Enter(f, NewFrame(child, d, 1))
      /\ path' = path /\ held' = held /\ count' = count /\ deepest' = deepest
  BY DEF VisitChild
<1>2. /\ app = "scene" /\ mode = "run" /\ frames # <<>> /\ Levels(frames)
      /\ IsFrame(Top) /\ Top.depth = Len(frames) - 1 /\ Len(frames) \in Nat \ {0}
      /\ held = 0 /\ count \in Nat /\ deepest \in Nat
  BY <1>1, ReturningTop
<1>3. Alike(Top, f)
  BY <1>2, SetAt
<1>4. d = Len(frames)
  BY <1>2
<1> HIDE DEF f, child, d
<1>5. /\ frames' = Append(Front(frames), f) \o <<NewFrame(child, d, 1)>>
      /\ app' = app /\ mode' = mode
  BY <1>1 DEF Enter
<1>6. IsFrame(f) /\ f.depth = Len(frames) - 1
  BY <1>2, <1>3 DEF Alike
<1>7. Levels(frames') /\ frames' # <<>>
  BY <1>2, <1>4, <1>5, <1>6, EnterLevels
<1> QED BY <1>1, <1>2, <1>5, <1>7, AssembleReturning

\* A level returns to a frame f at the caller's depth.
LEMMA ReturnLevels ==
  ASSUME Levels(frames), NEW f, ReturnTo(f), IsFrame(f), f.depth = Len(frames) - 2
  PROVE  /\ Levels(frames') /\ frames' # <<>>
         /\ Len(frames') = Len(frames) - 1
         /\ frames'[Len(frames) - 1] = f
<1> DEFINE u == Front(frames)
<1>1. IsSeq(frames) /\ Len(frames) \in Nat /\ Len(frames) > 1
  BY LevelsLength DEF ReturnTo
<1>2. frames # <<>>
  BY <1>1, LevelsLength
<1>3. Popped(frames, u)
  BY <1>1, <1>2, LeavePops
<1>4. Levels(u)
  BY <1>2, <1>3, LevelsPopped
<1> HIDE DEF u
<1>5. frames' = Append(Front(u), f)
  BY DEF ReturnTo, u
<1>6. IsSeq(u) /\ Len(u) = Len(frames) - 1
  BY <1>3 DEF Popped
<1>7. u # <<>>
  BY <1>1, <1>6, LengthOf
<1>8. Tops(u, frames', f)
  BY <1>5, <1>6, <1>7, FrontTops
<1>9. f.depth = Len(u) - 1
  BY <1>1, <1>6
<1>10. Levels(frames')
  BY <1>4, <1>7, <1>8, <1>9, LevelsTops
<1>11. Len(frames') = Len(frames) - 1 /\ frames'[Len(frames) - 1] = f
  BY <1>6, <1>8 DEF Tops
<1>12. frames' # <<>>
  BY <1>1, <1>10, <1>11, LevelsLength
<1> QED BY <1>10, <1>11, <1>12

LEMMA CallerIs ==
  ASSUME Levels(frames), Len(frames) > 1
  PROVE  IsFrame(Caller) /\ Caller.depth = Len(frames) - 2
<1>1. Len(frames) \in Nat
  BY LevelsLength
<1>2. Len(frames) - 1 \in 1..Len(frames)
  BY <1>1
<1>3. IsFrame(frames[Len(frames) - 1]) /\ frames[Len(frames) - 1].depth = Len(frames) - 1 - 1
  BY <1>2 DEF Levels
<1> QED BY <1>1, <1>3 DEF Caller

LEMMA VisitReturnKeeps ==
  ASSUME IInv, VisitReturn
  PROVE  IInv'
<1>1. /\ At("scene", "children") /\ held' = held /\ count' = count /\ deepest' = deepest
      /\ \/ Succeed(count, <<>>) /\ path' = <<>>
         \/ ReturnTo(Caller) /\ path' = path
  BY DEF VisitReturn
<1>2. /\ app = "scene" /\ mode = "run" /\ Levels(frames)
      /\ held = 0 /\ count \in Nat /\ deepest \in Nat
  BY <1>1, ReturningTop
<1>3. CASE Succeed(count, <<>>) /\ path' = <<>>
  <2>1. frames' = <<>> /\ mode' = "idle" /\ app' = app
    BY <1>3 DEF Succeed, SucceedAs
  <2> QED BY <1>1, <1>2, <1>3, <2>1, LevelsEmpty, AssembleReturning
<1>4. CASE ReturnTo(Caller) /\ path' = path
  <2>1. Len(frames) > 1 /\ mode' = mode /\ app' = app
    BY <1>4 DEF ReturnTo
  <2>2. IsFrame(Caller) /\ Caller.depth = Len(frames) - 2
    BY <1>2, <2>1, CallerIs
  <2>3. Levels(frames') /\ frames' # <<>>
    BY <1>2, <1>4, <2>2, ReturnLevels
  <2> QED BY <1>1, <1>2, <2>1, <2>3, AssembleReturning
<1> QED BY <1>1, <1>3, <1>4

LEMMA AuditLandKeeps ==
  ASSUME IInv, AuditLand
  PROVE  IInv'
<1>1. /\ app = "scene" /\ frames = <<>> /\ mode' = "idle" /\ path' = <<>>
      /\ held' = 0 /\ UNCHANGED <<app, frames, count, deepest>>
  BY DEF AuditLand
<1>2. count \in Nat /\ deepest \in Nat
  BY DEF IInv, Control
<1> QED BY <1>1, <1>2, LevelsEmpty, AssembleReturning

LEMMA SceneKeeps ==
  ASSUME IInv, SceneNext
  PROVE  IInv'
<1>1. CASE VisitFails
  BY <1>1, TryReturnsKeeps DEF VisitFails
<1> QED BY <1>1, EmptyTreeKeeps, VisitNodeKeeps, VisitChildKeeps,
           VisitReturnKeeps, AuditLandKeeps DEF SceneNext

-----------------------------------------------------------------------------
(* The configuration checker.                                              *)

\* One section is being checked.
LEMMA SectionsSingle ==
  ASSUME NEW s, Len(s) = 1, s[1].name = "server" => s[1].at \in 1..3
  PROVE  Sections(s)
BY DEF Sections

LEMMA LoadKeeps ==
  ASSUME IInv, NEW file, Load(file)
  PROVE  IInv'
<1>1. /\ app = "config" /\ mode = "idle" /\ app' = app /\ frames' = <<>>
      /\ mode' = "begin" /\ path' = path /\ held' = held /\ count' = count
      /\ deepest' = deepest
  BY DEF Load, Begin
<1>2. /\ frames = <<>> /\ path = <<>> /\ held = 0 /\ count \in Nat /\ deepest \in Nat
      /\ Sections(frames)
  BY <1>1 DEF IInv, Control, Shape, Guarding
<1> QED BY <1>1, <1>2, LevelsEmpty, AssembleReturning

LEMMA RecordIsNat == PolicyRecord \in Nat
BY DEF PolicyRecord

LEMMA ParseFileKeeps ==
  ASSUME IInv, ParseFile
  PROVE  IInv'
<1> DEFINE g == NewFrame("server", 0, 1)
<1>1. app = "config" /\ mode = "begin"
  BY DEF ParseFile
<1>2. /\ path = <<>> /\ held = 0 /\ count \in Nat /\ deepest \in Nat
  BY <1>1 DEF IInv, Control, Shape, Guarding
<1>3. IsFrame(g) /\ g.depth = 0 /\ g.at = 1
  BY NewFrameIs
<1>4. \/ FailBelow("parse", "file", 0, PolicyRecord)
      \/ /\ mode' = "run" /\ frames' = <<g>>
         /\ UNCHANGED <<app, path, held, count, deepest>>
  BY DEF ParseFile
<1> HIDE DEF g
<1>5. CASE FailBelow("parse", "file", 0, PolicyRecord)
  BY <1>1, <1>5, RecordIsNat, FailBelowKeeps
<1>6. CASE /\ mode' = "run" /\ frames' = <<g>>
           /\ UNCHANGED <<app, path, held, count, deepest>>
  <2>1. Levels(<<g>>) /\ Len(<<g>>) = 1 /\ <<g>>[1] = g /\ <<g>> # <<>>
    BY <1>3, LevelsSingle
  <2>2. Sections(frames')
    BY <1>3, <1>6, <2>1, SectionsSingle
  <2> QED BY <1>1, <1>2, <1>6, <2>1, <2>2, AssembleReturning
<1> QED BY <1>4, <1>5, <1>6

\* The section being checked goes on as f.
LEMMA SectionGoes ==
  ASSUME IInv, NEW pc, At("config", pc), Len(frames) = 1, NEW f, Go(f),
         IsFrame(f), f.depth = 0, f.name = "server" => f.at \in 1..3,
         path' = path, held' = held, count' = count, deepest' = deepest
  PROVE  IInv'
<1>1. /\ app = "config" /\ mode = "run" /\ frames # <<>> /\ Levels(frames)
      /\ IsSeq(frames) /\ held = 0 /\ count \in Nat /\ deepest \in Nat
      /\ path = <<>>
  BY ReturningTop
<1>2. frames' = [frames EXCEPT ![Len(frames)] = f] /\ app' = app /\ mode' = mode
  BY DEF Go
<1>3. Tops(frames, frames', f)
  BY <1>1, <1>2, GoTops
<1>4. Len(frames') = 1 /\ frames'[1] = f /\ IsSeq(frames')
  BY <1>3 DEF Tops
<1>5. Levels(frames')
  <2>1. f.depth = Len(frames) - 1
    OBVIOUS
  <2> QED BY <1>1, <1>3, <2>1, LevelsTops
<1>6. frames' # <<>>
  BY <1>4, LengthOf
<1>7. Sections(frames')
  BY <1>4, SectionsSingle
<1> QED BY <1>1, <1>2, <1>5, <1>6, <1>7, AssembleReturning

\* The frame of a name in the first section, or of another section.
LEMMA SectionTop ==
  ASSUME IInv, At("config", "enter")
  PROVE  /\ Len(frames) \in {1, 2}
         /\ Top.name \notin {"port", "workers"} => Len(frames) = 1
         /\ Top.name = "server" => Top.at \in 1..3
<1>1. /\ Len(frames) \in Nat \ {0} /\ Top = frames[Len(frames)]
      /\ Sections(frames) /\ frames # <<>>
  BY ReturningTop
<1>2. Len(frames) \in {1, 2}
  <2>1. Len(frames) <= 2
    BY <1>1 DEF Sections
  <2>2. \A n \in Nat \ {0} : n <= 2 => n = 1 \/ n = 2
    OBVIOUS
  <2>3. Len(frames) = 1 \/ Len(frames) = 2
    BY <1>1, <2>1, <2>2
  <2> QED BY <2>3
<1>3. CASE Len(frames) = 1
  BY <1>1, <1>3 DEF Sections
<1>4. CASE Len(frames) = 2
  BY <1>1, <1>4 DEF Sections
<1> QED BY <1>2, <1>3, <1>4

LEMMA ValidateFieldKeeps ==
  ASSUME IInv, ValidateField
  PROVE  IInv'
<1> DEFINE field == ServerFields[Top.at]
           x == Top.at + 1
           f == [Top EXCEPT !.at = x]
           g == NewFrame(field, 1, 1)
<1>1. At("config", "enter") /\ Top.name = "server"
  BY DEF ValidateField
<1>2. /\ app = "config" /\ mode = "run" /\ frames # <<>> /\ Levels(frames)
      /\ IsFrame(Top) /\ Top.depth = Len(frames) - 1
      /\ held = 0 /\ count \in Nat /\ deepest \in Nat /\ path = <<>>
  BY <1>1, ReturningTop
<1>3. Len(frames) = 1 /\ Top.at \in 1..3
  BY <1>1, SectionTop
<1>4. CASE FailBelow("missing", "server", 0, PolicyRecord)
  BY <1>2, <1>4, RecordIsNat, FailBelowKeeps
<1>5. CASE /\ field = "host" /\ Go(f)
           /\ path' = path /\ held' = held /\ count' = count /\ deepest' = deepest
  <2>1. Alike(Top, f) /\ f.at = x
    BY <1>2, SetAt
  <2>2. Top.at = 1
    BY <1>3, <1>5 DEF ServerFields
  <2>3. IsFrame(f) /\ f.depth = 0 /\ f.at \in 1..3
    BY <1>2, <1>3, <2>1, <2>2 DEF Alike
  <2> HIDE DEF f
  <2> QED BY <1>1, <1>3, <1>5, <2>3, SectionGoes
<1>6. CASE /\ field # "host" /\ Enter(Top, g)
           /\ path' = path /\ held' = held /\ count' = count /\ deepest' = deepest
  <2>1. field \in {"port", "workers"}
    BY <1>3, <1>6 DEF ServerFields
  <2>2. g.name = field
    BY NewFrameIs
  <2> HIDE DEF field
  <2>3. /\ frames' = Append(Front(frames), Top) \o <<NewFrame(field, 1, 1)>>
        /\ app' = app /\ mode' = mode
    BY <1>6 DEF Enter
  <2>4. /\ Levels(frames') /\ frames' # <<>> /\ Len(frames') = 2
        /\ frames'[1] = Top /\ frames'[2] = g
    BY <1>2, <1>3, <2>3, EnterLevels
  <2> HIDE DEF g
  <2>5. Sections(frames')
    BY <1>1, <1>3, <2>1, <2>2, <2>4 DEF Sections
  <2> QED BY <1>2, <1>6, <2>3, <2>4, <2>5, AssembleReturning
<1> QED BY <1>4, <1>5, <1>6 DEF ValidateField

LEMMA FieldIntKeeps ==
  ASSUME IInv, FieldInt
  PROVE  IInv'
<1> DEFINE x == Caller.at + 1
           c == [Caller EXCEPT !.at = x]
           l == NewFrame("limits", 0, 1)
           f == IF Caller.at < Len(ServerFields) THEN c ELSE l
<1>1. At("config", "enter") /\ Top.name \in {"port", "workers"}
  BY DEF FieldInt
<1>2. /\ app = "config" /\ mode = "run" /\ Levels(frames) /\ Sections(frames)
      /\ held = 0 /\ count \in Nat /\ deepest \in Nat /\ path = <<>>
  BY <1>1, ReturningTop
<1>3. \/ FailBelow("missing", "server", 0, PolicyRecord)
      \/ FailHere("out_of_range", "server", 0, PolicyRecord)
      \/ /\ ReturnTo(f)
         /\ path' = path /\ held' = held /\ count' = count /\ deepest' = deepest
  BY DEF FieldInt
<1>4. CASE FailBelow("missing", "server", 0, PolicyRecord)
  BY <1>2, <1>4, RecordIsNat, FailBelowKeeps
<1>5. CASE FailHere("out_of_range", "server", 0, PolicyRecord)
  BY <1>1, <1>5, RecordIsNat, FailHereKeeps
<1>6. CASE /\ ReturnTo(f)
           /\ path' = path /\ held' = held /\ count' = count /\ deepest' = deepest
  <2>1. Len(frames) > 1 /\ app' = app /\ mode' = mode
    BY <1>6 DEF ReturnTo
  <2>2. Len(frames) = 2
    <3>1. Len(frames) \in {1, 2}
      BY <1>1, SectionTop
    <3> QED BY <2>1, <3>1
  <2>3. IsFrame(Caller) /\ Caller.depth = 0
    BY <1>2, <2>1, <2>2, CallerIs
  <2>4. Caller = frames[1] /\ Caller.at \in 1..3
    BY <1>2, <2>2, LevelsLength DEF Caller, Sections
  <2>5. Alike(Caller, c) /\ c.at = x
    BY <2>3, SetAt
  <2>6. IsFrame(l) /\ l.depth = 0 /\ l.name = "limits"
    BY NewFrameIs
  <2> HIDE DEF c, l
  <2>7. IsFrame(f) /\ f.depth = 0 /\ (f.name = "server" => f.at \in 1..3)
    <3>1. CASE Caller.at < Len(ServerFields)
      <4>1. f = c /\ Caller.at < 3
        BY <3>1 DEF ServerFields
      <4> QED BY <2>3, <2>4, <2>5, <4>1 DEF Alike
    <3>2. CASE ~(Caller.at < Len(ServerFields))
      BY <2>6, <3>2
    <3> QED BY <3>1, <3>2
  <2> HIDE DEF f
  <2>8. Levels(frames') /\ frames' # <<>> /\ Len(frames') = 1 /\ frames'[1] = f
    BY <1>2, <1>6, <2>2, <2>7, ReturnLevels
  <2>9. Sections(frames')
    BY <2>7, <2>8, SectionsSingle
  <2> QED BY <1>2, <1>6, <2>1, <2>8, <2>9, AssembleReturning
<1> QED BY <1>3, <1>4, <1>5, <1>6

LEMMA CheckLimitsKeeps ==
  ASSUME IInv, CheckLimits
  PROVE  IInv'
<1> DEFINE f == NewFrame("policy", 0, 1)
<1>1. At("config", "enter") /\ Top.name = "limits"
  BY DEF CheckLimits
<1>2. Len(frames) = 1
  BY <1>1, SectionTop
<1>3. \/ FailHere(LimitsFault, "limits", 0, 0)
      \/ /\ Go(f)
         /\ path' = path /\ held' = held /\ count' = count /\ deepest' = deepest
  BY DEF CheckLimits
<1>4. IsFrame(f) /\ f.depth = 0 /\ f.name = "policy"
  BY NewFrameIs
<1> HIDE DEF f
<1>5. CASE FailHere(LimitsFault, "limits", 0, 0)
  BY <1>1, <1>5, FailHereKeeps
<1>6. CASE /\ Go(f)
           /\ path' = path /\ held' = held /\ count' = count /\ deepest' = deepest
  BY <1>1, <1>2, <1>4, <1>6, SectionGoes
<1> QED BY <1>3, <1>5, <1>6

LEMMA CheckPolicyKeeps ==
  ASSUME IInv, CheckPolicy
  PROVE  IInv'
<1>1. At("config", "enter")
  BY DEF CheckPolicy
<1>2. \/ FailHere("missing", "policy", 0, PolicyRecord)
      \/ FailHere("json", "policy", 0, 0)
      \/ /\ Succeed(0, <<>>)
         /\ path' = path /\ held' = held /\ count' = count /\ deepest' = deepest
  BY DEF CheckPolicy
<1>3. CASE FailHere("missing", "policy", 0, PolicyRecord)
  BY <1>1, <1>3, RecordIsNat, FailHereKeeps
<1>4. CASE FailHere("json", "policy", 0, 0)
  BY <1>1, <1>4, FailHereKeeps
<1>5. CASE /\ Succeed(0, <<>>)
           /\ path' = path /\ held' = held /\ count' = count /\ deepest' = deepest
  <2>1. /\ app = "config" /\ held = 0 /\ count \in Nat /\ deepest \in Nat
        /\ path = <<>>
    BY <1>1, ReturningTop
  <2>2. frames' = <<>> /\ mode' = "idle" /\ app' = app
    BY <1>5 DEF Succeed, SucceedAs
  <2>3. Sections(<<>>)
    BY EmptyIsSeq DEF Sections
  <2> QED BY <1>5, <2>1, <2>2, <2>3, LevelsEmpty, AssembleReturning
<1> QED BY <1>2, <1>3, <1>4, <1>5

LEMMA ReportKeeps ==
  ASSUME IInv, Report
  PROVE  IInv'
<1>1. /\ app = "config" /\ frames = <<>> /\ mode' = "idle" /\ held' = 0
      /\ UNCHANGED <<app, frames, path, count, deepest>>
  BY DEF Report
<1>2. count \in Nat /\ deepest \in Nat /\ path = <<>> /\ Sections(frames)
  BY <1>1 DEF IInv, Control, Shape
<1> QED BY <1>1, <1>2, LevelsEmpty, AssembleReturning

LEMMA ConfigKeeps ==
  ASSUME IInv, ConfigNext
  PROVE  IInv'
<1>1. CASE ValidateFails
  BY <1>1, TryReturnsKeeps DEF ValidateFails
<1> QED BY <1>1, ParseFileKeeps, ValidateFieldKeeps, FieldIntKeeps,
           CheckLimitsKeeps, CheckPolicyKeeps, ReportKeeps DEF ConfigNext

-----------------------------------------------------------------------------
(* The theorems.                                                           *)

LEMMA ForgetKeeps ==
  ASSUME IInv, Forget
  PROVE  IInv'
<1>1. /\ UNCHANGED <<app, mode, frames, path, held, deepest>>
      /\ count' = IF app = "manifest" THEN count ELSE 0
  BY DEF Forget
<1>2. Control'
  BY <1>1 DEF IInv, Control
<1>3. Shape'
  BY <1>1 DEF IInv, Shape
<1>4. PathFits'
  BY <1>1 DEF IInv, PathFits
<1> QED BY <1>2, <1>3, <1>4 DEF IInv

LEMMA InitIInv == Init => IInv
<1> SUFFICES ASSUME Init PROVE IInv
  OBVIOUS
<1>1. /\ app \in {"resolver", "store", "manifest", "scene", "config"}
      /\ mode = "idle" /\ frames = <<>> /\ path = <<>> /\ held = 0
      /\ count = 0 /\ deepest = 0
  BY DEF Init
<1>2. Control
  BY <1>1 DEF Control
<1>3. Sections(<<>>)
  BY EmptyIsSeq DEF Sections
<1>4. Stack(app, frames, path, held)
  BY <1>1, StackEmpty
<1>5. Shape
  BY <1>1, <1>3, <1>4, LevelsEmpty DEF Shape
<1>6. PathFits
  BY <1>1, EmptyIsSeq, ResolverAssumption, StoreCheckAssumption,
     ManifestAssumption DEF PathFits
<1> QED BY <1>2, <1>5, <1>6 DEF IInv

LEMMA NextIInv == IInv /\ [Next]_vars => IInv'
<1> SUFFICES ASSUME IInv, [Next]_vars PROVE IInv'
  OBVIOUS
<1>1. CASE ResolverNext
  BY <1>1, ResolverKeeps
<1>2. CASE StoreCheckNext
  BY <1>2, StoreCheckKeeps
<1>3. CASE ManifestNext
  BY <1>3, ManifestKeeps
<1>4. CASE SceneNext
  BY <1>4, SceneKeeps
<1>5. CASE ConfigNext
  BY <1>5, ConfigKeeps
<1>6. CASE \E m \in Manifests : VerifyManifest(m)
  BY <1>6, VerifyManifestKeeps
<1>7. CASE \E s \in Scenes : Audit(s)
  BY <1>7, AuditKeeps
<1>8. CASE \E f \in Files : Load(f)
  BY <1>8, LoadKeeps
<1>9. CASE Forget
  BY <1>9, ForgetKeeps
<1>10. CASE UNCHANGED vars
  <2>1. UNCHANGED <<app, mode, frames, path, held, count, deepest>>
    BY <1>10 DEF vars
  <2>2. Control' /\ Shape' /\ PathFits'
    BY <2>1 DEF IInv, Control, Shape, PathFits
  <2> QED BY <2>2 DEF IInv
<1> QED BY <1>1, <1>2, <1>3, <1>4, <1>5, <1>6, <1>7, <1>8, <1>9, <1>10 DEF Next

LEMMA SpecIInv == Spec => []IInv
BY InitIInv, NextIInv, PTL DEF Spec

\* Every frame of a descent knows its own depth, whatever is entered and left,
\* and a call that has not begun or has ended has no frame (the depth parameter
\* of resolve, check_record, verify_entry and visit).
THEOREM ApplicationsTypeOK == Spec => []TypeOK
<1>1. IInv => TypeOK
  BY DEF IInv, Control, Shape, Levels, IsFrame, TypeOK
<1> QED BY <1>1, SpecIInv, PTL

\* The fixed arrays of the record checker and of the trusted application, and
\* the depth of the resolver, hold for references of any length and shape
\* (store_check.cpp:202, manifest_ta.cpp:225, resolve.hpp:68).
THEOREM PathsFit == Spec => []PathFits
<1>1. IInv => PathFits
  BY DEF IInv
<1> QED BY <1>1, SpecIInv, PTL

\* What the guards left behind is exactly what the frames still on the stack put
\* there, for any input, in the middle of an escape as well; between calls there
\* is nothing (resolve.hpp:74, store_check.cpp:196, manifest_ta.cpp:220).
THEOREM GuardsAreExact == Spec => []GuardsExact
<1>1. IInv => GuardsExact
  <2> SUFFICES ASSUME IInv PROVE GuardsExact
    OBVIOUS
  <2>1. ASSUME app \in Guarding
        PROVE  /\ Markers = 1..Len(path)
               /\ \A i \in 1..Len(path) : path[i] = frames[i].name
               /\ \A i, j \in 1..Len(path) : path[i] = path[j] => i = j
               /\ held = Cardinality(Owners)
    <3>1. Stack(app, frames, path, held)
      BY <2>1 DEF IInv, Shape
    <3>2. Markers = 1..Len(path)
      BY <3>1, StackPath DEF Markers
    <3>3. OnStack(frames, path) /\ held = Owned(app, frames)
      BY <3>1 DEF Stack
    <3>4. Len(frames) \in Nat /\ (frames = <<>> <=> Len(frames) = 0)
      BY <3>1, LevelsLength DEF Stack
    <3>5. Owners = 1..held /\ held \in Nat
      <4>1. ASSUME NEW i \in 1..Len(frames), i < Len(frames)
            PROVE  frames[i].owns <=> app # "resolver"
        <5>1. Guarded(app, frames[i]) /\ frames[i].pc = CallPoint(app)
          BY <3>1, <4>1 DEF Stack
        <5> QED BY <2>1, <5>1, CallsGuarded
      <4>2. CASE frames = <<>>
        BY <3>3, <3>4, <4>2 DEF Owners, Owned
      <4>3. CASE frames # <<>> /\ app = "resolver"
        <5>1. \A i \in 1..Len(frames) : ~frames[i].owns
          BY <3>1, <4>3 DEF Stack, Guarded, Points, OwningPoints
        <5> QED BY <3>3, <4>3, <5>1 DEF Owners, Owned
      <4>4. CASE frames # <<>> /\ app # "resolver"
        <5>1. held = IF frames[Len(frames)].owns THEN Len(frames) ELSE Len(frames) - 1
          BY <3>3, <4>4 DEF Owned
        <5>2. Len(frames) \in Nat \ {0}
          BY <3>4, <4>4
        <5>3. held \in Nat
          BY <5>1, <5>2
        <5>4. ASSUME NEW i \in 1..Len(frames)
              PROVE  frames[i].owns <=> i <= held
          <6>1. CASE i = Len(frames)
            BY <5>1, <5>2, <6>1
          <6>2. CASE i # Len(frames)
            BY <4>1, <4>4, <5>1, <5>2, <6>2
          <6> QED BY <6>1, <6>2
        <5> QED BY <5>1, <5>2, <5>3, <5>4 DEF Owners
      <4> QED BY <4>2, <4>3, <4>4
    <3>6. Cardinality(1..held) = held
      BY <3>5, FS_Interval
    <3> QED BY <3>2, <3>3, <3>5, <3>6 DEF OnStack
  <2>2. ASSUME mode = "idle"
        PROVE  path = <<>> /\ held = 0
    <3>1. frames = <<>>
      BY <2>2 DEF IInv, Control
    <3>2. CASE app \in Guarding
      BY <3>1, <3>2, StackIsEmpty DEF IInv, Shape
    <3>3. CASE app \notin Guarding
      BY <2>2, <3>3 DEF IInv, Control, Shape, Guarding
    <3> QED BY <3>2, <3>3
  <2> QED BY <2>1, <2>2 DEF GuardsExact, Guarding
<1> QED BY <1>1, SpecIInv, PTL

=============================================================================
