------------------------------ MODULE Verdicts ------------------------------
(***************************************************************************)
(* How the graders of a run come to their verdicts (verify/): the pinned   *)
(* files, a command's exit, the calibrated gate, the judge's quorum, the   *)
(* refuters of a green and the sign-off panel.                             *)
(***************************************************************************)
EXTENDS Integers, Sequences, SequencesExt

CONSTANT Floor   \* the judge's confidence floor, on the scale 0..2

ASSUME FloorNat == Floor \in Nat

\* A verdict: green or red, and whether the bar could be evaluated at all.
Green == [pass |-> TRUE, evaluable |-> TRUE]
Red == [pass |-> FALSE, evaluable |-> TRUE]
CouldNotRun == [pass |-> FALSE, evaluable |-> FALSE]

\* The files pinned at the freeze hold what they held then.
Guard(pinned, actual) == IF actual = pinned THEN Green ELSE Red

\* How a verify command ends.
Exits == {"zero", "nonzero", "timed out", "capped", "not started"}

Deterministic(exit) ==
  CASE exit = "zero" -> Green
    [] exit = "nonzero" -> Red
    [] OTHER -> CouldNotRun

\* The gate's answers: every criterion holds, one fails, one is missing, the
\* service refuses, or asks to be called again, which it is once.
Replies == {"holds", "fails", "incomplete", "refused", "busy"}

CallsAgain(reply, calls) == reply = "busy" /\ calls = 0

Gate(reply) ==
  CASE reply = "holds" -> Green
    [] reply = "fails" -> Red
    [] OTHER -> CouldNotRun

----------------------------------------------------------------------------
(* A panel is polled one vote at a time: for the work, against it, or lost. *)

Votes == {"for", "against", "garbled", "thrown"}

\* Only the judge's confidence counts for anything.
Confidences(panel) == IF panel = "judge" THEN {0, 2} ELSE {0}

NoPoll == [yes |-> 0, no |-> 0, lost |-> 0, sure |-> 0, stop |-> FALSE]

Parsed(poll) == poll.yes + poll.no
Cast(poll) == Parsed(poll) + poll.lost

Counted(poll, vote, confidence) ==
  CASE vote = "for" -> [poll EXCEPT !.yes = @ + 1, !.sure = @ + confidence]
    [] vote = "against" -> [poll EXCEPT !.no = @ + 1, !.sure = @ + confidence]
    [] OTHER -> [poll EXCEPT !.lost = @ + 1]

BrokenSettled(poll, size) ==
  \/ poll.yes * 2 >= size
  \/ (poll.yes + (size - Cast(poll))) * 2 <= size

\* Votes still out cannot change the outcome any more.
Settled(poll, size) ==
  \/ poll.yes * 2 > size
  \/ (poll.yes + (size - Cast(poll))) * 2 <= size

\* The judge polls its whole quorum; a lost sample is dropped.
JudgeStops(poll, vote, quorum) == Cast(poll) = quorum

Majority(poll, quorum) == poll.yes >= (quorum \div 2) + 1
MeetsFloor(poll) == poll.sure >= Floor * Parsed(poll)

\* Green takes a majority of the quorum asked for and the floor; red is the
\* work's fault only when the lost samples could not have made a majority.
Judge(poll, quorum) ==
  IF Parsed(poll) = 0 THEN CouldNotRun
  ELSE IF Majority(poll, quorum)
    THEN IF MeetsFloor(poll) THEN Green ELSE Red
  ELSE IF poll.lost > 0 /\ poll.yes + poll.lost >= (quorum \div 2) + 1
    THEN CouldNotRun
  ELSE Red

\* A refuter that could not be asked counts against the green, and its turn
\* skips the test whether the outcome is settled.
RefuterStops(poll, vote, size) ==
  Cast(poll) = size \/ (vote # "thrown" /\ Settled(poll, size))

Refute(poll, size) ==
  IF Parsed(poll) = 0 THEN CouldNotRun
  ELSE IF poll.yes * 2 > size THEN Green
  ELSE Red

\* A reviewer that could not be asked vetoes.
ApproverStops(poll, vote, size) == Cast(poll) = size \/ Settled(poll, size)

Approves(poll, size) == poll.yes * 2 > size

Stops(panel, poll, vote, size) ==
  CASE panel = "judge" -> JudgeStops(poll, vote, size)
    [] panel = "refute" -> RefuterStops(poll, vote, size)
    [] panel = "approve" -> ApproverStops(poll, vote, size)

----------------------------------------------------------------------------
(* The ladder: the guard, the frozen rungs with a gate before each judge,   *)
(* the refuters.                                                            *)

Rungs(kind, gated) ==
  IF kind = "judge" /\ gated THEN <<"gate", "judge">> ELSE <<kind>>

BuildLadder(authored, frozen, gated, refuters) ==
  (IF authored THEN <<"guard">> ELSE <<>>)
    \o FlattenSeq([i \in 1..Len(frozen) |-> Rungs(frozen[i], gated)])
    \o (IF refuters > 0 THEN <<"refute">> ELSE <<>>)

=============================================================================
