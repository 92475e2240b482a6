-------------------------------- MODULE Turn --------------------------------
(***************************************************************************)
(* The calls a run makes to agents: authoring calls, worker turns and      *)
(* judge calls (driver/perform.ts, agent-cli/codec.ts,                     *)
(* llm/agent-cli-provider.ts).  Each is a child process of the configured  *)
(* CLI, or, for the worker, a run of goaly's own agent loop.  A worker     *)
(* turn that crashed is tried once more; a read-only call is retried       *)
(* unless it timed out.  Session ids are threaded from call to call.       *)
(***************************************************************************)
EXTENDS Spawn, GoalyCode

CONSTANTS
  Clis,        \* the harnesses considered
  MaxAsks,     \* authoring calls of a run
  MaxWork,     \* worker turns of a run
  CliRetries   \* retries of one read-only call

ASSUME ClisAssumption == Clis \subseteq {"claude", "codex", "droid", "pi", "goaly-code"}
ASSUME RunBoundsAssumption == MaxAsks \in Nat /\ MaxWork \in Nat /\ CliRetries \in Nat

VARIABLES
  cli,         \* the harness of this run
  convs,       \* conversations on disk: session id -> who has spoken in it
  latest,      \* the one the working directory saw last, where the CLI asks
  run          \* what the run itself keeps

\* Session ids: 0 is none, positive ids are real ones, and four are special:
\* the id of an outer session goaly is nested in, the codec's sentinel for a
\* session it could not learn, a sentinel goaly or some other adapter left
\* behind, and a real session of the harness an earlier process ran with.
Ambient == -1
Unknown == -2
Foreign == -3
Alien == -4
Sentinels == {Unknown, Foreign}

Calling == run.pc = "calling"

\* Which part of the parsed result each kind of line bears, per CLI.
ClaudeFields == [session |-> {"id"}, say |-> {"id"}, result |-> {"id", "text", "usage"}]
CodexFields == [session |-> {"id"}, say |-> {"text"}, result |-> {"usage"}]
DroidFields == [session |-> {"id"}, say |-> {"id", "text"}, result |-> {"id", "text", "usage"}]
PiFields == [session |-> {"id"}, say |-> {"text", "usage"}, result |-> {}]

Fields ==
  [c \in {"claude", "codex", "droid", "pi"} |->
    CASE c = "claude" -> ClaudeFields [] c = "codex" -> CodexFields
      [] c = "droid" -> DroidFields [] OTHER -> PiFields]

\* The parse keeps nothing of an output no line of which bears text.
Parsed(out) ==
  LET all == UNION {Fields[cli][l] : l \in out}
  IN  IF "text" \in all THEN all ELSE {}

\* With a tap on its output, the worker's lines are seen as they are printed.
Observed(out) == run.tap /\ "say" \in out

\* A reported count, else the estimate of what streamed by, else unknown.
Accounted(parsed, out) ==
  IF "usage" \in parsed THEN "reported"
  ELSE IF Observed(out) THEN "estimated"
  ELSE "unknown"

\* Two of the CLIs print their events whatever the flag says.
AlwaysStreams == {"codex", "pi"}
Streams(wanted) == cli \in AlwaysStreams \/ wanted

\* Asked to resume, pi is told to continue what its directory saw last, and
\* droid carries the session over into a new one.
ContinuesLatest == cli = "pi"
CarriesOver == cli = "droid"

----------------------------------------------------------------------------
(* The CLI's side: which conversation a process joins.                      *)

BrokenResumable(id) == IF id = Unknown THEN 0 ELSE id

\* An id that may be handed to the CLI to resume.
Resumable(id) == IF id \in Sentinels \cup {Ambient} THEN 0 ELSE id

\* A session id nothing has: the smallest here, a random one in the code.
FreshId == CHOOSE i \in 1..(1 + Cardinality(DOMAIN convs)) :
             i \notin DOMAIN convs /\ \A k \in 1..(i - 1) : k \in DOMAIN convs

\* Of the conversations on disk, those that a later call can still reach.
Reachable(r) ==
  convs' = [i \in DOMAIN convs \cap {r.session, r.authored, r.next, r.mint, latest, Ambient} |->
              convs[i]]

\* The conversation joined, what it holds already, and whether the CLI refuses.
Joins(resume, mint) ==
  IF resume = 0 \/ (ContinuesLatest /\ latest \notin DOMAIN convs) THEN
    IF mint # 0 THEN [id |-> mint, held |-> {}, refused |-> mint \in DOMAIN convs]
    ELSE IF run.nested THEN [id |-> Ambient, held |-> {}, refused |-> FALSE]
    ELSE [id |-> FreshId, held |-> {}, refused |-> FALSE]
  ELSE IF ContinuesLatest THEN [id |-> latest, held |-> convs[latest], refused |-> FALSE]
  ELSE IF resume \notin DOMAIN convs THEN [id |-> 0, held |-> {}, refused |-> TRUE]
  ELSE IF CarriesOver THEN [id |-> FreshId, held |-> convs[resume], refused |-> FALSE]
  ELSE [id |-> resume, held |-> convs[resume], refused |-> FALSE]

Speak(who, j) ==
  IF j.refused THEN UNCHANGED <<convs, latest>>
  ELSE /\ convs' = [i \in DOMAIN convs \cup {j.id} |->
                      IF i = j.id THEN j.held \cup {who} \cup
                                       (IF i \in DOMAIN convs THEN convs[i] ELSE {})
                      ELSE convs[i]]
       /\ latest' = IF ContinuesLatest THEN j.id ELSE 0

\* The process of one call; every agent CLI is its own process group.
StartProcess(who, resume, mint, idle) ==
  LET j == Joins(resume, mint)
      s == [group |-> TRUE, idle |-> idle, stream |-> Streams(run.tap \/ idle)]
  IN  /\ child' = IF j.refused THEN [Launched(s) EXCEPT !.alive = {}, !.code = 1]
                  ELSE Launched(s)
      /\ Speak(who, j)
      /\ run' = [run EXCEPT !.pc = "calling", !.who = who, !.asked = resume, !.mint = mint,
                            !.conv = j.id, !.held = j.held, !.refused = j.refused]

----------------------------------------------------------------------------
(* Worker turns.                                                            *)

BrokenHarnessRun(session) ==
  LET j == Joins(Resumable(session), 0)
      s == [group |-> TRUE, idle |-> run.idle, stream |-> Streams(run.tap)]
  IN  /\ child' = IF j.refused THEN [Launched(s) EXCEPT !.alive = {}, !.code = 1] ELSE Launched(s)
      /\ Speak("worker", j)
      /\ run' = [run EXCEPT !.pc = "calling", !.who = "worker", !.asked = Resumable(session),
                            !.mint = 0, !.conv = j.id, !.held = j.held, !.refused = j.refused]

\* With an idle limit set, the CLI is made to stream, tap or no tap.
AgentCliHarnessRun(session) == StartProcess("worker", Resumable(session), 0, run.idle)

\* Who else has spoken in a log.
OthersIn(msgs) == { who \in {"other"} : \E i \in 1 .. Len(msgs) : msgs[i] = Others }

\* Any id is looked up among the logs of the workspace's runs, a sentinel too.
GoalyCodeRun(session) ==
  /\ \E readable \in BOOLEAN : StartLoop(session, 1 + Cardinality(DOMAIN store), readable)
  /\ run' = [run EXCEPT !.pc = "calling", !.who = "worker", !.asked = session, !.mint = 0,
                        !.conv = 0, !.held = OthersIn(loop'.msgs), !.refused = FALSE]
  /\ UNCHANGED <<child, convs, latest>>

HarnessRun(session) ==
  IF cli = "goaly-code" THEN GoalyCodeRun(session)
  ELSE AgentCliHarnessRun(session) /\ UNCHANGED loop

\* A stop request is looked at before every command.
Ready(stage) == run.pc = "ready" /\ ~run.interrupted /\ run.stage = stage

WorkDue == Ready("working") /\ run.turns < MaxWork

\* The tree is hashed, then the turn starts.
RunAgent ==
  /\ WorkDue
  /\ HarnessRun(run.session)
  /\ UNCHANGED <<store, cli>>

\* What is kept of a turn: the session the next one is given.  The tally of
\* spend is kept per turn; the code's only grows.
AgentRan(r, session) ==
  [r EXCEPT !.pc = "ready", !.stage = "judging", !.turns = @ + 1, !.attempt = 0,
            !.who = "none", !.asked = 0, !.conv = 0, !.held = {}, !.refused = FALSE,
            !.session = session, !.next = 0,
            !.tokens = 0, !.unknown = 0, !.attempts = 0, !.burnt = 0]

\* The tree cannot be hashed, before the turn or after it: a crashed turn is
\* made up, under the session the command named.
WorkspaceError ==
  /\ \/ WorkDue
     \/ run.pc = "ran"
  /\ run' = AgentRan(run, IF run.session # 0 THEN run.session ELSE Foreign)
  /\ child' = NoChild /\ loop' = NoLoop
  /\ UNCHANGED <<store, convs, latest, cli>>

\* The line in which a CLI may confess an error that its exit code hides.
Confession == IF cli = "droid" THEN {"result"} ELSE IF cli = "pi" THEN {"say"} ELSE {}

\* The flat codecs: a timeout, then a failed exit, then a missing text or a
\* confessed error.
ClassifyFlat(parsed, confessed) ==
  IF child.timedOut THEN "timeout"
  ELSE IF child.code # 0 THEN "crashed"
  ELSE IF "text" \in parsed /\ ~confessed THEN "completed" ELSE "truncated"

\* Codex: no text is a crash, text with a failed exit a truncation.
ClassifyCodex(parsed) ==
  IF child.timedOut THEN "timeout"
  ELSE IF "text" \notin parsed THEN "crashed"
  ELSE IF child.code = 0 THEN "completed" ELSE "truncated"

\* Codex leaves the spend of a timeout and of a crash out of its result.
Spent(parsed, status) ==
  IF cli = "codex" /\ status \in {"timeout", "crashed"} THEN "unknown"
  ELSE Accounted(parsed, child.out)

\* The session a finished process leaves: the one it reported, else the one
\* it was asked to resume, else the sentinel; never the outer one.
SessionLeft(parsed) ==
  LET id == IF "id" \in parsed THEN run.conv
            ELSE IF run.asked # 0 THEN run.asked ELSE Unknown
  IN  IF id = Ambient THEN Unknown ELSE id

\* One attempt is over: its spend is recorded whatever became of it.
Record(r, spend) ==
  [r EXCEPT !.tokens = IF spend = "unknown" THEN @ ELSE @ + 1,
            !.unknown = IF spend = "unknown" THEN @ + 1 ELSE @]

\* A crashed turn is tried once more unless a stop was requested; any other
\* ending goes on to the second hash.
AttemptEnds(status, spend, session, burnt) ==
  LET r == [Record(run, spend) EXCEPT !.attempts = @ + 1, !.burnt = @ + burnt]
      again == status = "crashed" /\ run.attempt = 0 /\ ~run.interrupted
  IN  run' = IF again THEN [r EXCEPT !.pc = "backoff", !.attempt = 1]
             ELSE [r EXCEPT !.pc = "ran", !.next = session]

BrokenAttemptEnds(status, spend, session, burnt) ==
  LET again == status = "crashed" /\ run.attempt = 0 /\ ~run.interrupted
      r == [Record(run, IF again THEN "unknown" ELSE spend)
              EXCEPT !.attempts = @ + 1, !.burnt = @ + burnt]
  IN  run' = IF again THEN [r EXCEPT !.pc = "backoff", !.attempt = 1]
             ELSE [r EXCEPT !.pc = "ran", !.next = session]

AttemptOver(status, spend, session, burnt) == AttemptEnds(status, spend, session, burnt)

\* The worker's process settled and its output is classified.
WorkerSettles ==
  /\ Calling /\ run.who = "worker" /\ Settled
  /\ \E confessed \in {FALSE, child.out \cap Confession # {}} :
     LET parsed == Parsed(child.out)
         status == IF cli = "codex" THEN ClassifyCodex(parsed) ELSE ClassifyFlat(parsed, confessed)
     IN  AttemptOver(status, Spent(parsed, status), SessionLeft(parsed),
                     IF Accounted(parsed, child.out) = "unknown" THEN 0 ELSE 1)
  /\ child' = NoChild /\ Reachable(run')
  /\ UNCHANGED <<store, loop, latest, cli>>

\* The agent loop is over; its log is saved before the result is returned.
LoopSettles(saved, reported) ==
  /\ Calling /\ loop.phase = "done"
  /\ Save(saved)
  /\ AttemptOver(loop.status, IF reported THEN "reported" ELSE "unknown", loop.id,
                 IF reported THEN 1 ELSE 0)
  /\ loop' = NoLoop
  /\ UNCHANGED <<child, convs, latest, cli>>

\* The second attempt is given the same prompt and session as the first.
RetryTurn ==
  /\ run.pc = "backoff" /\ run.who = "worker"
  /\ HarnessRun(run.session)
  /\ UNCHANGED <<store, cli>>

TurnEnds ==
  /\ run.pc = "ran"
  /\ run' = AgentRan(run, run.next)
  /\ UNCHANGED <<child, store, loop, convs, latest, cli>>

----------------------------------------------------------------------------
(* Read-only calls.                                                         *)

\* Only claude can resume a read-only session or be given the id of a new one.
CanResume == cli = "claude"

\* Here only the codec's own sentinel and the outer session are dropped.
ResumableReadonly(id) == IF id \in {Unknown, Ambient} THEN 0 ELSE id

\* A resume is honoured where the CLI has one; otherwise an authoring call
\* gets a new id, one per attempt.
Attempt(who, resume) ==
  LET given == IF CanResume THEN ResumableReadonly(resume) ELSE 0
  IN  StartProcess(who, given,
                   IF who = "author" /\ CanResume /\ given = 0 THEN FreshId ELSE 0, FALSE)

CallProvider(who, resume) == Attempt(who, resume) /\ UNCHANGED <<store, loop, cli>>

\* A revision differs from a first call only where its session is resumed.
AskAuthor ==
  /\ Ready("authoring") /\ cli # "goaly-code"
  /\ run.asks < (IF CanResume THEN MaxAsks ELSE 1)
  /\ CallProvider("author", run.authored)

AskJudge ==
  /\ Ready("judging") /\ cli # "goaly-code"
  /\ CallProvider("judge", 0)

\* The completion, or the error after the last attempt; a timeout is the last.
Completed(ok, session) ==
  [run EXCEPT !.pc = "ready", !.attempt = 0, !.who = "none", !.asked = 0, !.mint = 0,
              !.conv = 0, !.held = {},
              !.stage = IF run.who = "judge" THEN "working" ELSE @,
              !.asks = IF run.who = "author" THEN @ + 1 ELSE @,
              !.authored = IF run.who = "author" /\ ok THEN session ELSE @]

\* The id of a session goaly named is its own; one the CLI reports is trusted
\* only when it is neither the sentinel nor the outer one.
Trusted(parsed) ==
  IF run.mint # 0 THEN run.mint
  ELSE IF "id" \in parsed THEN ResumableReadonly(run.conv) ELSE 0

ProviderSettles ==
  /\ Calling /\ run.who # "worker" /\ Settled
  /\ LET parsed == Parsed(child.out)
         ok == ~child.timedOut /\ child.code = 0 /\ "text" \in parsed
         again == ~ok /\ ~child.timedOut /\ run.attempt < CliRetries
     IN  run' = IF again THEN [run EXCEPT !.pc = "backoff", !.attempt = @ + 1]
                ELSE Completed(ok, Trusted(parsed))
  /\ child' = NoChild /\ Reachable(run')
  /\ UNCHANGED <<store, loop, latest, cli>>

RetryCall ==
  /\ run.pc = "backoff" /\ run.who # "worker"
  /\ CallProvider(run.who, IF run.who = "author" THEN run.authored ELSE 0)

----------------------------------------------------------------------------
(* The run around the calls.                                                *)

\* The contract is sealed, or nothing was left to author.
BeginWork ==
  /\ Ready("authoring")
  /\ run.asks > 0 \/ cli = "goaly-code"
  /\ run' = [run EXCEPT !.stage = "working"]
  /\ UNCHANGED <<child, store, loop, convs, latest, cli>>

\* A verdict that needed no judge.
Judged ==
  /\ Ready("judging")
  /\ run' = [run EXCEPT !.stage = "working"]
  /\ UNCHANGED <<child, store, loop, convs, latest, cli>>

\* The first signal asks for a stop after the step in progress.
Interrupt ==
  /\ run.pc # "dead" /\ ~run.interrupted
  /\ run' = [run EXCEPT !.interrupted = TRUE]
  /\ UNCHANGED <<child, store, loop, convs, latest, cli>>

\* The second one ends goaly at once, its children swept first.
ForceExit ==
  /\ run.pc # "dead" /\ run.interrupted
  /\ run' = [run EXCEPT !.pc = "dead"]
  /\ child' = [SweepChildren(child) EXCEPT !.phase = "none"]
  /\ loop' = NoLoop
  /\ UNCHANGED <<store, convs, latest, cli>>

\* The step in progress is finished, then the run stops.
StopCleanly ==
  /\ run.pc = "ready" /\ run.interrupted
  /\ run' = [run EXCEPT !.pc = "dead"]
  /\ UNCHANGED <<child, store, loop, convs, latest, cli>>

RunOver ==
  /\ run.pc = "dead" \/ (run.pc = "ready" /\ run.stage = "working" /\ run.turns = MaxWork)
  /\ UNCHANGED <<child, store, loop, convs, latest, cli, run>>

----------------------------------------------------------------------------
NoRun ==
  [pc |-> "ready", stage |-> "authoring", who |-> "none", attempt |-> 0,
   asks |-> 0, turns |-> 0, next |-> 0,
   session |-> 0, authored |-> 0, asked |-> 0, mint |-> 0,
   conv |-> 0, held |-> {}, refused |-> FALSE,
   tokens |-> 0, unknown |-> 0, attempts |-> 0, burnt |-> 0,
   nested |-> FALSE, idle |-> FALSE, tap |-> FALSE, interrupted |-> FALSE]

\* A log another run of the workspace saved under a sentinel: the runs share
\* one directory of logs, and a sentinel is the same word in all of them.  One
\* that cannot be read is taken for none.
LogsOfOthers == [i \in {Foreign} |-> <<System, Others, Assistant(<<>>)>>]

\* A run starts with no session, or resumes one whose last session id is a
\* sentinel or, where the harness is named anew, a session of the harness it
\* had then; goaly may be nested in an agent CLI.  What refuses that session
\* prints nothing, so the limits on its output are left out there.
Init ==
  /\ cli \in Clis
  /\ child = NoChild /\ loop = NoLoop
  /\ store = IF cli = "goaly-code" THEN LogsOfOthers ELSE [i \in {} |-> <<>>]
  /\ \E session \in {0, Foreign, Alien}, nested \in BOOLEAN, idle \in BOOLEAN,
        tap \in BOOLEAN :
       /\ nested => cli = "claude" /\ session = 0 /\ ~idle /\ ~tap
       /\ ~(idle /\ tap)
       /\ cli = "goaly-code" \/ session = Alien => ~idle /\ ~tap
       /\ run = [NoRun EXCEPT !.session = session, !.nested = nested,
                              !.idle = idle, !.tap = tap]
       /\ convs = IF nested THEN [i \in {Ambient} |-> {"outer"}] ELSE [i \in {} |-> {}]
       /\ latest = 0

vars == <<cli, child, store, loop, convs, latest, run>>

InChild == Calling /\ ChildStep /\ UNCHANGED <<cli, store, loop, convs, latest, run>>
InLoop == Calling /\ LoopStep /\ UNCHANGED <<cli, child, store, convs, latest, run>>

Next ==
  \/ InChild \/ InLoop
  \/ AskAuthor \/ BeginWork \/ RunAgent \/ WorkspaceError \/ WorkerSettles
  \/ \E saved, reported \in BOOLEAN : LoopSettles(saved, reported)
  \/ RetryTurn \/ TurnEnds \/ AskJudge \/ Judged \/ ProviderSettles \/ RetryCall
  \/ Interrupt \/ ForceExit \/ StopCleanly \/ RunOver

Spec == Init /\ [][Next]_vars

\* Time passes, due timers fire and closed pipes are noticed; nothing makes an
\* agent or a descendant of it exit.
FairSpec ==
  /\ Spec
  /\ WF_vars(Calling /\ Tick /\ UNCHANGED <<cli, store, loop, convs, latest, run>>)
  /\ WF_vars(Calling /\ WallFires /\ UNCHANGED <<cli, store, loop, convs, latest, run>>)
  /\ WF_vars(Calling /\ Close /\ UNCHANGED <<cli, store, loop, convs, latest, run>>)

----------------------------------------------------------------------------
(* Every process a run starts is accepted by the CLI and continues at most  *)
(* words of the role it serves: no sentinel is resumed, no id is named      *)
(* twice, and neither the outer session nor another role's conversation     *)
(* becomes the memory of a worker or of an author, over crashes, retries    *)
(* and resumes.  With two exceptions, and no third: a run resumed under a   *)
(* harness named anew hands on the session of the one before, which the new *)
(* CLI refuses turn after turn; and goaly's own agent, which takes a        *)
(* sentinel for an id, may find under it what another run saved there.      *)
OwnConversationOnly ==
  Calling =>
    /\ run.refused => run.asked = Alien
    /\ run.held \subseteq {run.who} \/ (cli = "goaly-code" /\ run.asked = Foreign)

(* A turn that keeps making progress is not ended by the idle limit, in     *)
(* whatever output mode its CLI would run otherwise.                        *)
ProgressIsNotReaped ==
  child.reaped => child.stalled = Idle

(* Every attempt of every worker turn reaches the budget, those abandoned   *)
(* for a retry and those of a turn whose tree cannot be hashed included: as *)
(* tokens where the flat codecs' output allows a count, and otherwise as a  *)
(* call of unknown spend.                                                   *)
SpendAccounted ==
  /\ run.tokens + run.unknown = run.attempts
  /\ cli # "codex" => run.tokens = run.burnt

(* A call comes to an end after its wall-clock limit, whatever its process  *)
(* and the descendants of it do, as long as they stay in its process group. *)
CapEndsTheCall ==
  Running ~> (~Running \/ "stray" \in child.alive)
=============================================================================
