------------------------------ MODULE Platform ------------------------------
(***************************************************************************)
(* The stack trace a diagnostic record may hold: platform::capture in      *)
(* platform/trace.hpp.  A call stack is the sequence of its return         *)
(* addresses, innermost first.                                             *)
(***************************************************************************)
EXTENDS Integers, Sequences, FiniteSetsExt

CONSTANTS
  MaxFrames,  \* trace::max_frames
  Slack       \* the room raw[] has beyond that

ASSUME RoomAssumption == MaxFrames \in Nat /\ Slack \in Nat

\* ::backtrace(raw, want): the innermost frames that fit.
backtrace(stack, want) == SubSeq(stack, 1, Min({want, Len(stack)}))

\* (Mutant) The copy stops at the room of the trace, not counting from skip.
CaptureShort(stack, skip) ==
  LET first == Max({skip, 0})
      raw == backtrace(stack, Min({MaxFrames + first, MaxFrames + Slack}))
  IN  SubSeq(raw, first + 1, Min({Len(raw), MaxFrames}))

capture(stack, skip) ==
  LET first == Max({skip, 0})
      raw == backtrace(stack, Min({MaxFrames + first, MaxFrames + Slack}))
  IN  SubSeq(raw, first + 1, Min({Len(raw), first + MaxFrames}))
=============================================================================
