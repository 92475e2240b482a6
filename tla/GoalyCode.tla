----------------------------- MODULE GoalyCode -----------------------------
(***************************************************************************)
(* goaly's own agent loop (goaly-code/): one run of the harness asks an    *)
(* OpenAI-compatible endpoint for a reply, runs the tool calls it holds,   *)
(* and repeats until a reply without calls, a successful finish, the turn  *)
(* cap or the deadline.  The conversation is then saved under the session  *)
(* id, from where the next turn of the run resumes it.                     *)
(***************************************************************************)
EXTENDS Integers, Sequences, FiniteSets

CONSTANTS
  MaxTurns,    \* model turns of one run of the loop
  HttpRetries, \* retries of one chat request
  Replies      \* the sequences of tool calls a reply may hold

ASSUME LoopBoundsAssumption == MaxTurns \in Nat \ {0} /\ HttpRetries \in Nat
ASSUME RepliesAssumption == Replies \subseteq Seq(STRING)

VARIABLES
  store,       \* session id -> saved messages
  loop         \* the run of the loop in progress

System == [role |-> "system", calls |-> <<>>]
User == [role |-> "user", calls |-> <<>>]
Others == [role |-> "other", calls |-> <<>>]   \* what another run had asked
Assistant(calls) == [role |-> "assistant", calls |-> calls]
Answer(call) == [role |-> "tool", calls |-> <<call>>]

NoLoop ==
  [phase |-> "off", id |-> 0, msgs |-> <<>>, turns |-> 0, tries |-> 0,
   pending |-> <<>>, finished |-> FALSE, late |-> FALSE, status |-> "none"]

\* The saved conversation and the prompt, or a fresh one when nothing is
\* saved under the id or it cannot be read.
History(id, readable) ==
  IF id \in DOMAIN store /\ readable THEN Append(store[id], User)
  ELSE <<System, User>>

\* A run resumes the session it is given and saves under the id of that
\* session, or under a newly minted one.
StartLoop(given, minted, readable) ==
  loop' = [NoLoop EXCEPT !.phase = "asking",
             !.id = IF given = 0 THEN minted ELSE given,
             !.msgs = IF given = 0 THEN <<System, User>> ELSE History(given, readable)]

Finish(l, status) == [l EXCEPT !.phase = "done", !.status = status]

\* The turn cap, then the deadline, are looked at before every request.
MayAsk == loop.phase = "asking" /\ loop.turns < MaxTurns /\ ~(loop.late /\ loop.tries = 0)

TurnCap ==
  /\ loop.phase = "asking" /\ loop.turns = MaxTurns
  /\ loop' = Finish(loop, "truncated")

PastDeadline ==
  /\ loop.phase = "asking" /\ loop.turns < MaxTurns /\ loop.tries = 0 /\ loop.late
  /\ loop' = Finish(loop, "timeout")

\* The wall clock passes the deadline, wherever the loop is.
DeadlinePasses ==
  /\ loop.phase \in {"asking", "calling"} /\ ~loop.late
  /\ loop' = [loop EXCEPT !.late = TRUE]

\* A network failure, an abort, a 429 or a 5xx is retried, then thrown.
ChatTransient ==
  /\ MayAsk
  /\ loop' = IF loop.tries < HttpRetries THEN [loop EXCEPT !.tries = @ + 1]
             ELSE Finish(loop, "crashed")

\* Any other 4xx, a body that is not JSON or fails the schema, is thrown.
ChatRefused ==
  /\ MayAsk
  /\ loop' = Finish(loop, "crashed")

\* A reply joins the history; without calls it ends the run.
ChatReply(calls) ==
  /\ MayAsk
  /\ LET l == [loop EXCEPT !.msgs = Append(@, Assistant(calls)), !.tries = 0,
                           !.turns = @ + 1, !.pending = calls]
     IN  loop' = IF calls = <<>> THEN Finish(l, "completed") ELSE [l EXCEPT !.phase = "calling"]

\* What follows a dispatched call: the rest of the calls, then the end of the
\* run if one of them was a finish that succeeded.
AfterCall(l) ==
  IF l.pending # <<>> THEN l
  ELSE IF l.finished THEN Finish(l, "completed")
  ELSE [l EXCEPT !.phase = "asking"]

BrokenAfterCall(l) ==
  IF l.finished THEN Finish(l, "completed")
  ELSE IF l.pending # <<>> THEN l
  ELSE [l EXCEPT !.phase = "asking"]

NextStep(l) == AfterCall(l)

\* One tool call; an unknown tool, bad arguments or a throwing handler is
\* answered with the error and is never terminal.
CallTool(ok) ==
  /\ loop.phase = "calling"
  /\ LET call == Head(loop.pending)
     IN  loop' = NextStep([loop EXCEPT !.msgs = Append(@, Answer(call)),
                                      !.pending = Tail(@),
                                      !.finished = @ \/ (call = "finish" /\ ok)])

\* The whole log replaces the saved one, or the save fails and nothing changes.
Save(saved) ==
  store' = IF saved
           THEN [i \in DOMAIN store \cup {loop.id} |->
                   IF i = loop.id THEN loop.msgs ELSE store[i]]
           ELSE store

LoopStep ==
  \/ TurnCap \/ PastDeadline \/ DeadlinePasses \/ ChatTransient \/ ChatRefused
  \/ \E calls \in Replies : ChatReply(calls)
  \/ \E ok \in BOOLEAN : CallTool(ok)

----------------------------------------------------------------------------
\* The calls of message i of a log are answered by the messages after it.
AnsweredAt(msgs, i) ==
  \A k \in 1..Len(msgs[i].calls) :
    i + k <= Len(msgs) /\ msgs[i + k] = Answer(msgs[i].calls[k])

(* A saved conversation is one the endpoint accepts again: every tool call  *)
(* of every reply in it is answered before anything else is said, whichever *)
(* call ended the run and however often the session was resumed.            *)
EveryCallAnswered ==
  \A id \in DOMAIN store : \A i \in 1..Len(store[id]) :
    store[id][i].role = "assistant" => AnsweredAt(store[id], i)
=============================================================================
