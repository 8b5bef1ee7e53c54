----------------------------- MODULE PhaseTimer -----------------------------
(***************************************************************************)
(* What the Timing Analyzer promises (spec.md, Timing Analyzer state and   *)
(* section 4.5): arrivals are tagged by their order, the first N forming   *)
(* the low-entropy phase and the next N the high-entropy phase; each       *)
(* phase's duration runs from its 1st to its N-th frame (a phase of one    *)
(* frame has duration 0) and both are reported at the end of the session.  *)
(* A window is the pair of frames whose arrival times a duration           *)
(* subtracts.                                                              *)
(***************************************************************************)
EXTENDS Naturals, Sequences

CONSTANTS
  N,        \* frames per phase
  Frames,   \* what may arrive
  NoFrame   \* no window yet

VARIABLES
  arrivals, \* frames received, in order
  lowWin,   \* [first, last] of the low phase, or NoFrame
  highWin,  \* [first, last] of the high phase, or NoFrame
  reported  \* the post-run report has been emitted

vars == <<arrivals, lowWin, highWin, reported>>

\* The window of the phase that starts with arrival i, once its N-th frame
\* is in.
WindowFrom(seq, i) == [first |-> seq[i], last |-> seq[i + N - 1]]

Init ==
  /\ arrivals = <<>>
  /\ lowWin = NoFrame /\ highWin = NoFrame
  /\ reported = FALSE

Arrive(f) ==
  /\ ~reported
  /\ LET seq == Append(arrivals, f) IN
     /\ arrivals' = seq
     /\ lowWin' = IF Len(seq) = N THEN WindowFrom(seq, 1) ELSE lowWin
     /\ highWin' = IF Len(seq) = 2 * N THEN WindowFrom(seq, N + 1) ELSE highWin
  /\ UNCHANGED reported

Report ==
  /\ ~reported
  /\ reported' = TRUE
  /\ UNCHANGED <<arrivals, lowWin, highWin>>

Next == (\E f \in Frames : Arrive(f)) \/ Report

Spec == Init /\ [][Next]_vars
=============================================================================
