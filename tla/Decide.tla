------------------------------- MODULE Decide -------------------------------
(***************************************************************************)
(* DECIDE (src/src/orchestrator/decide.ts) and bounded stuck self-recovery *)
(* (remediate.ts): what the reducer does once a turn has been judged.      *)
(*                                                                         *)
(* The ladder is the verdict's pass bit; the approval is "none" when the   *)
(* ladder was red (Sign-off never ran), else "approve" or "veto".          *)
(***************************************************************************)
EXTENDS Stuck

MaxStuckRemediations == 3

NoRemediations == [total |-> 0, noDiff |-> 0, repeat |-> 0, crash |-> 0]

(***************************************************************************)
(* planRemediation: each remediable kind at most once, at most             *)
(* MaxStuckRemediations in all, and only when the operator opted in.       *)
(***************************************************************************)
Remediable(cfg, ctx, kind) ==
  /\ cfg.autoRemediate
  /\ ctx.remediations.total < MaxStuckRemediations
  /\ \/ kind = "no-diff" /\ ctx.remediations.noDiff = 0
     \/ kind = "repeat"  /\ ctx.remediations.repeat = 0
     \/ kind = "crash"   /\ ctx.remediations.crash = 0

Spent(ledger, kind) ==
  [total  |-> ledger.total + 1,
   noDiff |-> ledger.noDiff + (IF kind = "no-diff" THEN 1 ELSE 0),
   repeat |-> ledger.repeat + (IF kind = "repeat" THEN 1 ELSE 0),
   crash  |-> ledger.crash + (IF kind = "crash" THEN 1 ELSE 0)]

(* The frozen authored files the repeated signature names. *)
MatchedGeneratedFiles(contract, ctx) ==
  IF ctx.verifierDetailHistory = << >> THEN {}
  ELSE contract.generatedFiles
         \cap ctx.verifierDetailHistory[Len(ctx.verifierDetailHistory)].names

TreePopulated(ctx) ==
  \E i, j \in 1 .. Len(ctx.diffHashHistory) :
     ctx.diffHashHistory[i] # ctx.diffHashHistory[j]

SuspectsContractFault(contract, ctx, kind) ==
  /\ kind = "repeat"
  /\ ~ctx.adjudicated
  /\ TreePopulated(ctx)
  /\ MatchedGeneratedFiles(contract, ctx) # {}

BrokenFreshVeto(ctx, pass, approval) == pass /\ approval = "veto"

(* A green ladder blocked by a veto the turn just judged was not answering. *)
FreshVeto(ctx, pass, approval) ==
  pass /\ approval = "veto" /\ ctx.feedbackSource # "veto"

BrokenIterationCap(cfg, ctx) == cfg.maxIterations + ctx.remediations.noDiff + 1

(* The iteration cap, moved by the refund of a remediated no-diff turn. *)
IterationCap(cfg, ctx) == cfg.maxIterations + ctx.remediations.noDiff

Decision(kind, source, ledger, reason) ==
  [kind |-> kind, source |-> source, ledger |-> ledger, reason |-> reason]

(***************************************************************************)
(* The truth table, in the code's order: both keys; then the stuck         *)
(* backstops (remediate, adjudicate, abort); then the iteration cap; then  *)
(* continue with the verifier's detail or the veto's reason as feedback.   *)
(***************************************************************************)
Decide(cfg, contract, ctx, pass, approval) ==
  LET kind     == DetectStuck(cfg, ctx)
      twoKeys  == pass /\ approval = "approve"
      stuck    == /\ kind # "none"
                  /\ ~(kind = "no-diff" /\ FreshVeto(ctx, pass, approval))
      ledger   == ctx.remediations
  IN  CASE twoKeys ->
             Decision("DONE", "none", ledger, "both-keys")
        [] ~twoKeys /\ stuck /\ Remediable(cfg, ctx, kind) ->
             Decision("CONTINUE", "verifier", Spent(ledger, kind), kind)
        [] ~twoKeys /\ stuck /\ ~Remediable(cfg, ctx, kind)
             /\ SuspectsContractFault(contract, ctx, kind) ->
             Decision("ADJUDICATE", "none", ledger, kind)
        [] ~twoKeys /\ stuck /\ ~Remediable(cfg, ctx, kind)
             /\ ~SuspectsContractFault(contract, ctx, kind) ->
             Decision("ABORTED", "none", ledger, kind)
        [] ~twoKeys /\ ~stuck /\ ctx.iteration >= IterationCap(cfg, ctx) ->
             Decision("FAILED", "none", ledger, "max-iterations")
        [] ~twoKeys /\ ~stuck /\ ctx.iteration < IterationCap(cfg, ctx) ->
             Decision("CONTINUE", IF pass THEN "veto" ELSE "verifier", ledger, "feedback")
=============================================================================
