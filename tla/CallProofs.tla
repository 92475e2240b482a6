----------------------------- MODULE CallProofs -----------------------------
(***************************************************************************)
(* Theorems about what a run asks of its agents.  The calls of a run, for  *)
(* any limits, retries and replies (Turn): what every attempt costs is     *)
(* accounted for, only silence is reaped by the idle limit, a saved log of *)
(* goaly's own agent has all its calls answered, and no call continues a   *)
(* conversation that is not its own.  The contract an author is called for *)
(* and its preparation, for every set of worlds and files (Prepare): what  *)
(* is sealed is on disk, both controls are of the bar that is frozen, and  *)
(* what anybody has to say reaches the author.                             *)
(***************************************************************************)
EXTENDS Turn, Prepare, FiniteSetTheorems, SequenceTheorems, TLAPS

-----------------------------------------------------------------------------
(* Types. *)

Speakers == {"author", "worker", "judge", "outer", "other"}
Word == STRING
Msg == [role : {"system", "user", "assistant", "tool", "other"}, calls : Seq(Word)]

RunType ==
  [pc : {"ready", "calling", "backoff", "ran", "dead"},
   stage : {"authoring", "working", "judging"},
   who : {"none", "author", "worker", "judge"}, attempt : Nat,
   asks : Nat, turns : Nat, next : Int, session : Int, authored : Int,
   asked : Int, mint : Int, conv : Int, held : SUBSET Speakers, refused : BOOLEAN,
   tokens : Nat, unknown : Nat, attempts : Nat, burnt : Nat,
   nested : BOOLEAN, idle : BOOLEAN, tap : BOOLEAN, interrupted : BOOLEAN]

ChildType ==
  [phase : {"none", "running", "settled"}, group : BOOLEAN, idle : BOOLEAN,
   stream : BOOLEAN, alive : SUBSET Processes, forked : BOOLEAN, made : Nat,
   out : SUBSET Word, code : Nat, age : Nat, quiet : Nat, stalled : Nat,
   timedOut : BOOLEAN, reaped : BOOLEAN, truncated : BOOLEAN]

LoopType ==
  [phase : {"off", "asking", "calling", "done"}, id : Int, msgs : Seq(Msg),
   turns : Nat, tries : Nat, pending : Seq(Word), finished : BOOLEAN,
   late : BOOLEAN,
   status : {"none", "completed", "truncated", "timeout", "crashed"}]

StoreOK ==
  /\ IsFiniteSet(DOMAIN store) /\ DOMAIN store \subseteq Int
  /\ store \in [DOMAIN store -> Seq(Msg)]

(* Under pi something was said as soon as there is anything to continue. *)
ConvsOK ==
  /\ IsFiniteSet(DOMAIN convs) /\ DOMAIN convs \subseteq Int \ {0, Unknown, Foreign, Alien}
  /\ convs \in [DOMAIN convs -> SUBSET Speakers]
  /\ latest \in Int
  /\ cli = "pi" => latest \in DOMAIN convs \/ DOMAIN convs = {}

(* An id that is no sentinel names a conversation on disk, the one of an    *)
(* earlier harness aside, which only a worker is ever given.                *)
Known(id) == id \in {0, Ambient, Alien} \cup Sentinels \cup DOMAIN convs

IdsOK ==
  IF cli = "goaly-code"
  THEN /\ child.phase = "none"
       /\ run.pc \in {"calling", "backoff"} => run.who = "worker"
       /\ Calling => ~run.refused
  ELSE /\ loop.phase = "off"
       /\ run.pc \in {"calling", "backoff"} => run.who # "none"
       /\ Known(run.session) /\ Known(run.next) /\ Known(run.authored)
       /\ run.authored \notin {Foreign, Alien}
       /\ Calling => /\ IF run.refused THEN run.asked = Alien /\ run.conv = 0
                        ELSE run.conv \in DOMAIN convs
                     /\ Known(run.asked) /\ run.mint \in {0, run.conv}

-----------------------------------------------------------------------------
(* The sequences of a log. *)

(* Every call of a log is answered in it, or is next in line to be. *)
Owed(msgs, pending) ==
  \A i \in 1 .. Len(msgs) : msgs[i].role = "assistant" =>
    \A k \in 1 .. Len(msgs[i].calls) :
      \/ i + k <= Len(msgs) /\ msgs[i + k] = Answer(msgs[i].calls[k])
      \/ /\ i + k - Len(msgs) \in 1 .. Len(pending)
         /\ msgs[i].calls[k] = pending[i + k - Len(msgs)]

LEMMA Parts ==
  /\ System \in Msg /\ System.role = "system"
  /\ User \in Msg /\ User.role = "user"
  /\ \A calls \in Seq(Word) : /\ Assistant(calls) \in Msg
                                /\ Assistant(calls).calls = calls
  /\ \A msg \in Msg : msg.calls \in Seq(Word)
  /\ \A call \in Word : Answer(call) \in Msg /\ Answer(call).role = "tool"
<1>1. System \in Msg /\ System.role = "system" /\ User \in Msg /\ User.role = "user"
  BY DEF System, User, Msg
<1>2. ASSUME NEW calls \in Seq(Word)
      PROVE  Assistant(calls) \in Msg /\ Assistant(calls).calls = calls
  BY DEF Assistant, Msg
<1>3. ASSUME NEW call \in Word
      PROVE  Answer(call) \in Msg /\ Answer(call).role = "tool"
  <2>1. << call >> \in Seq(Word)
    OBVIOUS
  <2>. QED BY <2>1 DEF Answer, Msg
<1>4. ASSUME NEW msg \in Msg PROVE msg.calls \in Seq(Word)
  BY DEF Msg
<1>. QED BY <1>1, <1>2, <1>3, <1>4

(* A log that is owed nothing answers each of its calls. *)
LEMMA Answered ==
  ASSUME NEW msgs \in Seq(Msg), Owed(msgs, << >>),
         NEW i \in 1 .. Len(msgs), msgs[i].role = "assistant",
         NEW k \in 1 .. Len(msgs[i].calls)
  PROVE  i + k <= Len(msgs) /\ msgs[i + k] = Answer(msgs[i].calls[k])
<1>1. i + k - Len(msgs) \notin 1 .. Len(<< >>)
  OBVIOUS
<1>2. \/ i + k <= Len(msgs) /\ msgs[i + k] = Answer(msgs[i].calls[k])
      \/ i + k - Len(msgs) \in 1 .. Len(<< >>)
  BY Zenon DEF Owed
<1>. QED BY <1>1, <1>2

LEMMA OwedUser ==
  ASSUME NEW msgs \in Seq(Msg), Owed(msgs, << >>)
  PROVE  Append(msgs, User) \in Seq(Msg) /\ Owed(Append(msgs, User), << >>)
<1> DEFINE log == Append(msgs, User)
<1>1. /\ log \in Seq(Msg) /\ Len(log) = Len(msgs) + 1 /\ log[Len(msgs) + 1] = User
      /\ \A i \in 1 .. Len(msgs) : log[i] = msgs[i]
  BY Parts
<1>2. User.role # "assistant" /\ Len(<< >>) = 0 /\ Len(msgs) \in Nat
  BY Parts
<1>. HIDE DEF log
<1>3. ASSUME NEW i \in 1 .. Len(log), log[i].role = "assistant",
             NEW k \in 1 .. Len(log[i].calls)
      PROVE  i + k <= Len(log) /\ log[i + k] = Answer(log[i].calls[k])
  <2>1. i \in 1 .. Len(msgs) /\ log[i] = msgs[i]
    BY <1>1, <1>2, <1>3
  <2>2. msgs[i].calls \in Seq(Word)
    BY <2>1, ElementOfSeq, Parts
  <2>3. i + k <= Len(msgs) /\ msgs[i + k] = Answer(msgs[i].calls[k])
    BY <1>3, <2>1, Answered
  <2>. QED BY <1>1, <1>2, <2>1, <2>2, <2>3
<1>4. Owed(log, << >>)
  BY <1>3 DEF Owed
<1>. QED BY <1>1, <1>4 DEF log

LEMMA OwedReply ==
  ASSUME NEW msgs \in Seq(Msg), Owed(msgs, << >>), NEW calls \in Seq(Word)
  PROVE  /\ Append(msgs, Assistant(calls)) \in Seq(Msg)
         /\ Owed(Append(msgs, Assistant(calls)), calls)
<1> DEFINE log == Append(msgs, Assistant(calls))
<1>1. /\ log \in Seq(Msg) /\ Len(log) = Len(msgs) + 1
      /\ log[Len(msgs) + 1] = Assistant(calls)
      /\ \A i \in 1 .. Len(msgs) : log[i] = msgs[i]
  BY Parts
<1>2. Len(<< >>) = 0 /\ Len(msgs) \in Nat
  OBVIOUS
<1>. HIDE DEF log
<1>3. ASSUME NEW i \in 1 .. Len(log), log[i].role = "assistant",
             NEW k \in 1 .. Len(log[i].calls)
      PROVE  \/ i + k <= Len(log) /\ log[i + k] = Answer(log[i].calls[k])
             \/ /\ i + k - Len(log) \in 1 .. Len(calls)
                /\ log[i].calls[k] = calls[i + k - Len(log)]
  <2>1. CASE i \in 1 .. Len(msgs)
    <3>1. log[i] = msgs[i] /\ msgs[i].calls \in Seq(Word)
      BY <1>1, <2>1, ElementOfSeq, Parts
    <3>2. i + k <= Len(msgs) /\ msgs[i + k] = Answer(msgs[i].calls[k])
      BY <1>3, <2>1, <3>1, Answered
    <3>3. k \in Nat \ {0} /\ i + k \in 1 .. Len(msgs) /\ i + k <= Len(log)
      BY <1>1, <1>2, <1>3, <2>1, <3>1, <3>2
    <3>4. log[i + k] = msgs[i + k]
      BY <1>1, <3>3
    <3>. QED BY <3>1, <3>2, <3>3, <3>4
  <2>2. CASE i = Len(msgs) + 1
    BY <1>1, <1>2, <1>3, <2>2, Parts
  <2>. QED BY <1>1, <1>2, <1>3, <2>1, <2>2
<1>4. Owed(log, calls)
  BY <1>3 DEF Owed
<1>. QED BY <1>1, <1>4 DEF log

LEMMA OwedCall ==
  ASSUME NEW msgs \in Seq(Msg), NEW pending \in Seq(Word), pending # << >>,
         Owed(msgs, pending)
  PROVE  /\ Append(msgs, Answer(Head(pending))) \in Seq(Msg)
         /\ Tail(pending) \in Seq(Word)
         /\ Owed(Append(msgs, Answer(Head(pending))), Tail(pending))
<1> DEFINE log == Append(msgs, Answer(Head(pending)))
           rest == Tail(pending)
<1>1. /\ pending[1] = Head(pending) /\ Head(pending) \in Word
      /\ rest \in Seq(Word) /\ Len(rest) = Len(pending) - 1 /\ Len(pending) \in Nat
      /\ \A n \in 1 .. Len(rest) : rest[n] = pending[n + 1]
  OBVIOUS
<1>2. /\ log \in Seq(Msg) /\ Len(log) = Len(msgs) + 1 /\ Len(msgs) \in Nat
      /\ log[Len(msgs) + 1] = Answer(pending[1])
      /\ \A i \in 1 .. Len(msgs) : log[i] = msgs[i]
  <2>1. Answer(Head(pending)) \in Msg
    BY <1>1, Parts
  <2>. QED BY <1>1, <2>1
<1>3. Answer(pending[1]).role # "assistant"
  BY <1>1, Parts
<1>. HIDE DEF log, rest
<1>4. ASSUME NEW i \in 1 .. Len(log), log[i].role = "assistant",
             NEW k \in 1 .. Len(log[i].calls)
      PROVE  \/ i + k <= Len(log) /\ log[i + k] = Answer(log[i].calls[k])
             \/ /\ i + k - Len(log) \in 1 .. Len(rest)
                /\ log[i].calls[k] = rest[i + k - Len(log)]
  <2>1. i \in 1 .. Len(msgs) /\ log[i] = msgs[i]
    BY <1>2, <1>3, <1>4
  <2>2. msgs[i].calls \in Seq(Word) /\ k \in Nat
    BY <1>4, <2>1, ElementOfSeq, Parts
  <2>3. \/ i + k <= Len(msgs) /\ msgs[i + k] = Answer(msgs[i].calls[k])
        \/ /\ i + k - Len(msgs) \in 1 .. Len(pending)
           /\ msgs[i].calls[k] = pending[i + k - Len(msgs)]
    BY <1>4, <2>1 DEF Owed
  <2>4. CASE i + k <= Len(msgs) /\ msgs[i + k] = Answer(msgs[i].calls[k])
    <3>1. i + k \in 1 .. Len(msgs) /\ i + k <= Len(log)
      BY <1>2, <2>1, <2>2, <2>4
    <3>2. log[i + k] = msgs[i + k]
      BY <1>2, <3>1
    <3>. QED BY <2>1, <2>4, <3>1, <3>2
  <2>5. CASE i + k = Len(msgs) + 1 /\ msgs[i].calls[k] = pending[1]
    <3>1. i + k <= Len(log)
      BY <1>2, <2>5
    <3>2. log[i + k] = Answer(pending[1]) /\ log[i].calls[k] = pending[1]
      BY <1>2, <2>1, <2>5
    <3>. QED BY <3>1, <3>2
  <2>6. CASE /\ i + k - Len(msgs) \in 2 .. Len(pending)
             /\ msgs[i].calls[k] = pending[i + k - Len(msgs)]
    <3> DEFINE n == i + k - Len(log)
    <3>1. n \in 1 .. Len(rest) /\ n + 1 = i + k - Len(msgs)
      BY <1>1, <1>2, <2>1, <2>2, <2>6
    <3>2. rest[n] = pending[n + 1]
      BY <1>1, <3>1
    <3>. QED BY <2>1, <2>6, <3>1, <3>2
  <2>7. \/ i + k = Len(msgs) + 1
        \/ i + k - Len(msgs) \in 2 .. Len(pending)
        \/ ~ i + k - Len(msgs) \in 1 .. Len(pending)
    <3>1. i + k \in Nat /\ Len(msgs) \in Nat /\ Len(pending) \in Nat
      BY <1>1, <1>2, <2>1, <2>2
    <3> DEFINE place == i + k
               length == Len(msgs)
               owed == Len(pending)
    <3>. HIDE DEF place, length, owed
    <3>2. place \in Nat /\ length \in Nat /\ owed \in Nat
      BY <3>1 DEF place, length, owed
    <3>3. \/ place = length + 1
          \/ place - length \in 2 .. owed
          \/ ~ place - length \in 1 .. owed
      BY <3>2
    <3>. QED BY <3>3 DEF place, length, owed
  <2>8. i + k = Len(msgs) + 1 => i + k - Len(msgs) = 1
    BY <1>2, <2>1, <2>2
  <2>. QED BY <2>3, <2>4, <2>5, <2>6, <2>7, <2>8
<1>5. Owed(log, rest)
  BY <1>4 DEF Owed
<1>. QED BY <1>1, <1>2, <1>5 DEF log, rest

-----------------------------------------------------------------------------
(* The process of a call. *)

(* Its two clocks of silence agree as long as it can print, and only a      *)
(* process that fell silent was ended for it.                               *)
ReapOK(c) ==
  /\ c.idle => c.stream
  /\ c.stream => c.quiet = c.stalled
  /\ c.truncated => "main" \notin c.alive
  /\ c.reaped => c.idle /\ c.stalled = Idle /\ "main" \notin c.alive

LEMMA KilledOK ==
  ASSUME NEW c \in ChildType
  PROVE  /\ Killed(c) \in ChildType
         /\ "main" \notin Killed(c).alive
         /\ \A f \in {"phase", "idle", "stream", "quiet", "stalled", "reaped", "truncated"} :
              Killed(c)[f] = c[f]
BY DEF ChildType, Killed, KillAll, Tree

LEMMA HeardType ==
  ASSUME NEW c \in ChildType, NEW lines \in SUBSET Word
  PROVE  Heard(c, lines) \in ChildType
BY DEF ChildType, Heard

LEMMA LaunchedOK ==
  /\ NoChild \in ChildType /\ ReapOK(NoChild)
  /\ \A idle, stream \in BOOLEAN : (idle => stream) =>
       LET c == Launched([group |-> TRUE, idle |-> idle, stream |-> stream])
       IN  c \in ChildType /\ ReapOK(c)
<1>1. NoChild \in ChildType
  BY DEF ChildType, NoChild
<1>2. ReapOK(NoChild)
  BY DEF ReapOK, NoChild
<1>3. ASSUME NEW idle \in BOOLEAN, NEW stream \in BOOLEAN, idle => stream
      PROVE  LET c == Launched([group |-> TRUE, idle |-> idle, stream |-> stream])
             IN  c \in ChildType /\ ReapOK(c)
  <2> DEFINE c == Launched([group |-> TRUE, idle |-> idle, stream |-> stream])
  <2>1. c = [NoChild EXCEPT !.phase = "running", !.alive = {"main"}, !.group = TRUE,
                            !.idle = idle, !.stream = stream]
    BY DEF Launched
  <2>. HIDE DEF c
  <2>2. c \in ChildType
    BY <1>1, <2>1 DEF ChildType, Processes
  <2>3. /\ c.idle = idle /\ c.stream = stream /\ c.quiet = 0 /\ c.stalled = 0
        /\ c.truncated = FALSE /\ c.reaped = FALSE
    BY <2>1 DEF NoChild
  <2>4. ReapOK(c)
    BY <1>3, <2>3 DEF ReapOK
  <2>. QED BY <2>2, <2>4 DEF c
<1>. QED BY <1>1, <1>2, <1>3

LEMMA LinesAreWords ==
  /\ Len(Lines) \in Nat
  /\ \A i \in 1 .. Len(Lines) : Lines[i] \in Word
BY LinesAssumption, ElementOfSeq DEF Word

LEMMA ChildStepOK ==
  ASSUME child \in ChildType, ReapOK(child), ChildStep
  PROVE  child' \in ChildType /\ ReapOK(child') /\ Running
<1>10. Running
  BY DEF ChildStep, Work, Fork, DescendantEnds, Exit, Overflow, Tick, WallFires, IdleFires,
         Close, SpawnError
<1>11. SUFFICES child' \in ChildType /\ ReapOK(child')
  BY <1>10
<1>1. CASE Work
  <2> DEFINE c == [child EXCEPT !.made = @ + 1, !.stalled = 0]
  <2> DEFINE made == child.made + 1
  <2>0. child.made \in Nat /\ child.made < Len(Lines)
    BY <1>1 DEF Work, ChildType
  <2>a. made \in Nat /\ made \in 1 .. Len(Lines)
    BY <2>0, LinesAreWords
  <2>. HIDE DEF made
  <2>b. c = [child EXCEPT !.made = made, !.stalled = 0]
    BY DEF made
  <2>1. c \in ChildType /\ c.made \in 1 .. Len(Lines)
    BY <2>a, <2>b DEF ChildType
  <2>2. Heard(c, {Lines[c.made]}) \in ChildType
    BY <2>1, LinesAreWords, HeardType
  <2>3. child' \in ChildType
    BY <1>1, <2>1, <2>2 DEF Work
  <2>4. /\ ~child.truncated /\ ~child.reaped
        /\ child' = IF child.stream THEN Heard(c, {Lines[c.made]}) ELSE c
    BY <1>1 DEF Work, ReapOK, ChildType
  <2>5. ReapOK(child')
    BY <2>4 DEF ReapOK, Heard, ChildType
  <2>. QED BY <2>3, <2>5
<1>2. ASSUME NEW p \in Processes, Fork(p) \/ DescendantEnds(p)
      PROVE  child' \in ChildType /\ ReapOK(child')
  <2>1. child' \in ChildType
    <3>1. child.alive \cup {p} \in SUBSET Processes /\ child.alive \ {p} \in SUBSET Processes
      BY DEF ChildType
    <3>2. CASE Fork(p)
      BY <3>1, <3>2 DEF Fork, ChildType
    <3>3. CASE DescendantEnds(p)
      BY <3>1, <3>3 DEF DescendantEnds, ChildType
    <3>. QED BY <1>2, <3>2, <3>3
  <2>2. /\ child'.idle = child.idle /\ child'.stream = child.stream
        /\ child'.quiet = child.quiet /\ child'.stalled = child.stalled
        /\ child'.reaped = child.reaped /\ child'.truncated = child.truncated
        /\ "main" \notin child.alive => "main" \notin child'.alive
    <3>1. CASE Fork(p)
      BY <3>1 DEF Fork, ChildType
    <3>2. CASE DescendantEnds(p)
      BY <3>2 DEF DescendantEnds, ChildType
    <3>. QED BY <1>2, <3>1, <3>2
  <2>3. ReapOK(child')
    BY <2>2 DEF ReapOK
  <2>. QED BY <2>1, <2>3
<1>3. ASSUME NEW code \in {0, 1}, Exit(code)
      PROVE  child' \in ChildType /\ ReapOK(child')
  <2> DEFINE c == [child EXCEPT !.alive = @ \ {"main"}, !.code = code]
             last == {Lines[i] : i \in (1 .. c.made) \cap {Len(Lines)}}
  <2>0. c \in ChildType
    <3>1. code \in Nat /\ child.alive \ {"main"} \in SUBSET Processes
      BY DEF ChildType
    <3>. QED BY <3>1 DEF ChildType
  <2>1. last \in SUBSET Word
    <3>1. ASSUME NEW i \in (1 .. c.made) \cap {Len(Lines)} PROVE Lines[i] \in Word
      BY <2>0, LinesAreWords DEF ChildType
    <3>. QED BY <3>1
  <2>2. child' = IF child.stream THEN c ELSE Heard(c, last)
    BY <1>3 DEF Exit, ChildType
  <2>. HIDE DEF last
  <2>3. child' \in ChildType
    BY <2>0, <2>1, <2>2, HeardType
  <2>4. ReapOK(child')
    BY <2>2 DEF ReapOK, Heard, ChildType
  <2>. QED BY <2>3, <2>4
<1>4. CASE Overflow
  <2> DEFINE c == [child EXCEPT !.truncated = TRUE]
  <2>1. c \in ChildType /\ child' = Killed(c)
    BY <1>4 DEF Overflow, ChildType
  <2>2. ReapOK(child')
    BY <2>1, KilledOK DEF ReapOK, ChildType
  <2>. QED BY <2>1, <2>2, KilledOK
<1>5. CASE Tick
  <2> DEFINE quiet == IF child.idle /\ child.quiet < Idle THEN child.quiet + 1 ELSE child.quiet
             stalled == IF child.idle /\ child.stalled < Idle THEN child.stalled + 1
                        ELSE child.stalled
  <2>1. child' = [child EXCEPT !.age = child.age + 1, !.quiet = quiet, !.stalled = stalled]
    BY <1>5 DEF Tick
  <2>2. child.age + 1 \in Nat /\ quiet \in Nat /\ stalled \in Nat
    BY DEF ChildType
  <2>3. /\ child.quiet = child.stalled => quiet = stalled
        /\ child.stalled = Idle => stalled = Idle
    BY LimitsAssumption
  <2>. HIDE DEF quiet, stalled
  <2>4. child' \in ChildType
    BY <2>1, <2>2 DEF ChildType
  <2>5. /\ child'.quiet = quiet /\ child'.stalled = stalled
        /\ \A f \in {"idle", "stream", "reaped", "truncated", "alive"} : child'[f] = child[f]
    BY <2>1 DEF ChildType
  <2>6. ReapOK(child')
    BY <2>3, <2>5 DEF ReapOK
  <2>. QED BY <2>4, <2>6
<1>6. CASE WallFires
  <2> DEFINE c == [child EXCEPT !.timedOut = TRUE]
  <2>1. c \in ChildType /\ child' = Killed(c)
    BY <1>6 DEF WallFires, ChildType
  <2>2. ReapOK(child')
    BY <2>1, KilledOK DEF ReapOK, ChildType
  <2>. QED BY <2>1, <2>2, KilledOK
<1>7. CASE IdleFires
  <2> DEFINE c == [child EXCEPT !.timedOut = TRUE, !.reaped = TRUE]
  <2>1. c \in ChildType /\ child' = Killed(c) /\ child.idle /\ child.quiet = Idle
    BY <1>7 DEF IdleFires, ChildType
  <2>2. ReapOK(child')
    BY <2>1, KilledOK DEF ReapOK, ChildType
  <2>. QED BY <2>1, <2>2, KilledOK
<1>8. CASE Close
  BY <1>8 DEF Close, ChildType, ReapOK
<1>9. CASE SpawnError
  BY <1>9 DEF SpawnError, ChildType, ReapOK
<1>. QED BY <1>1, <1>2, <1>3, <1>4, <1>5, <1>6, <1>7, <1>8, <1>9 DEF ChildStep

-----------------------------------------------------------------------------
(* goaly's own agent loop. *)

(* Between replies nothing is owed; among the calls of one, the rest of them. *)
LogOK(l) ==
  /\ Owed(l.msgs, l.pending)
  /\ l.phase = "calling" <=> l.pending # << >>

NoLoopOK == NoLoop \in LoopType /\ LogOK(NoLoop)

LEMMA NoLoopIsOK == NoLoopOK
BY EmptySeq DEF NoLoopOK, NoLoop, LoopType, LogOK, Owed

StoreAnswered == \A id \in DOMAIN store : Owed(store[id], << >>)

LEMMA StartLoopOK ==
  ASSUME StoreOK, StoreAnswered, NEW conv0 \in Int, NEW minted \in Int,
         NEW readable \in BOOLEAN, StartLoop(conv0, minted, readable)
  PROVE  loop' \in LoopType /\ LogOK(loop')
<1>1. << System, User >> \in Seq(Msg) /\ Owed(<< System, User >>, << >>)
  <2>1. << System, User >> \in Seq(Msg) /\ Len(<< System, User >>) = 2
    BY Parts
  <2>2. \A i \in 1 .. 2 : << System, User >>[i].role # "assistant"
    BY Parts
  <2>. QED BY <2>1, <2>2 DEF Owed
<1> DEFINE msgs == IF conv0 = 0 THEN << System, User >> ELSE History(conv0, readable)
<1>2. msgs \in Seq(Msg) /\ Owed(msgs, << >>)
  <2>1. CASE conv0 # 0 /\ conv0 \in DOMAIN store /\ readable
    <3>1. store[conv0] \in Seq(Msg) /\ Owed(store[conv0], << >>)
      BY <2>1 DEF StoreOK, StoreAnswered
    <3>. QED BY <2>1, <3>1, OwedUser DEF History
  <2>2. CASE ~(conv0 # 0 /\ conv0 \in DOMAIN store /\ readable)
    BY <1>1, <2>2 DEF History
  <2>. QED BY <2>1, <2>2
<1>. HIDE DEF msgs
<1>3. loop' = [NoLoop EXCEPT !.phase = "asking",
                 !.id = IF conv0 = 0 THEN minted ELSE conv0, !.msgs = msgs]
  BY DEF StartLoop, msgs
<1>4. loop' \in LoopType
  BY <1>2, <1>3, NoLoopIsOK DEF NoLoopOK, LoopType
<1>5. loop'.msgs = msgs /\ loop'.pending = << >> /\ loop'.phase = "asking"
  BY <1>3 DEF NoLoop
<1>. QED BY <1>2, <1>4, <1>5 DEF LogOK

LEMMA FinishOK ==
  ASSUME NEW l \in LoopType, Owed(l.msgs, l.pending), l.pending = << >>,
         NEW status \in {"completed", "truncated", "timeout", "crashed"}
  PROVE  Finish(l, status) \in LoopType /\ LogOK(Finish(l, status))
<1>1. Finish(l, status) \in LoopType
  BY DEF Finish, LoopType
<1>2. /\ Finish(l, status).msgs = l.msgs /\ Finish(l, status).pending = l.pending
      /\ Finish(l, status).phase = "done"
  BY DEF Finish, LoopType
<1>. QED BY <1>1, <1>2 DEF LogOK

LEMMA LoopStepOK ==
  ASSUME loop \in LoopType, LogOK(loop), LoopStep
  PROVE  /\ loop' \in LoopType /\ LogOK(loop')
         /\ loop.phase # "off"
<1>1. ASSUME loop.phase = "asking", NEW status \in {"completed", "truncated", "timeout", "crashed"}
      PROVE  Finish(loop, status) \in LoopType /\ LogOK(Finish(loop, status))
  BY <1>1, FinishOK DEF LogOK
<1>2. CASE TurnCap
  BY <1>1, <1>2 DEF TurnCap
<1>3. CASE PastDeadline
  BY <1>1, <1>3 DEF PastDeadline
<1>4. CASE DeadlinePasses
  <2>1. loop' \in LoopType /\ loop'.msgs = loop.msgs /\ loop'.pending = loop.pending
        /\ loop'.phase = loop.phase /\ loop.phase # "off"
    BY <1>4 DEF DeadlinePasses, LoopType
  <2>. QED BY <2>1 DEF LogOK
<1>5. CASE ChatTransient
  <2>1. CASE loop.tries < HttpRetries
    <3>1. loop' \in LoopType /\ loop'.msgs = loop.msgs /\ loop'.pending = loop.pending
          /\ loop'.phase = loop.phase /\ loop.phase = "asking"
      BY <1>5, <2>1, LoopBoundsAssumption DEF ChatTransient, MayAsk, LoopType
    <3>. QED BY <3>1 DEF LogOK
  <2>. QED BY <1>1, <1>5, <2>1 DEF ChatTransient, MayAsk
<1>6. CASE ChatRefused
  BY <1>1, <1>6 DEF ChatRefused, MayAsk
<1>7. ASSUME NEW calls \in Replies, ChatReply(calls)
      PROVE  loop' \in LoopType /\ LogOK(loop') /\ loop.phase # "off"
  <2> DEFINE log == Append(loop.msgs, Assistant(calls))
             l == [loop EXCEPT !.msgs = log, !.tries = 0, !.turns = @ + 1, !.pending = calls]
  <2>1. calls \in Seq(Word) /\ loop.phase = "asking" /\ loop.msgs \in Seq(Msg)
    BY <1>7, RepliesAssumption DEF ChatReply, MayAsk, LoopType, Word
  <2>2. log \in Seq(Msg) /\ Owed(log, calls)
    BY <2>1, OwedReply DEF LogOK
  <2>3. loop' = IF calls = << >> THEN Finish(l, "completed") ELSE [l EXCEPT !.phase = "calling"]
    BY <1>7 DEF ChatReply
  <2>. HIDE DEF log
  <2>a. loop.turns + 1 \in Nat
    BY DEF LoopType
  <2>4. l \in LoopType /\ l.msgs = log /\ l.pending = calls
    BY <2>1, <2>2, <2>a DEF LoopType
  <2>. HIDE DEF l
  <2>5. CASE calls = << >>
    BY <2>1, <2>2, <2>3, <2>4, <2>5, FinishOK
  <2>6. CASE calls # << >>
    <3>1. loop' \in LoopType /\ loop'.msgs = log /\ loop'.pending = calls
          /\ loop'.phase = "calling"
      BY <2>3, <2>4, <2>6 DEF LoopType
    <3>. QED BY <2>1, <2>2, <2>6, <3>1 DEF LogOK
  <2>. QED BY <2>5, <2>6
<1>8. ASSUME NEW ok \in BOOLEAN, CallTool(ok)
      PROVE  loop' \in LoopType /\ LogOK(loop') /\ loop.phase # "off"
  <2> DEFINE log == Append(loop.msgs, Answer(Head(loop.pending)))
             rest == Tail(loop.pending)
             fin == loop.finished \/ (Head(loop.pending) = "finish" /\ ok)
             l == [loop EXCEPT !.msgs = log, !.pending = rest, !.finished = fin]
  <2>1. loop.phase = "calling" /\ loop.pending # << >> /\ loop.msgs \in Seq(Msg)
        /\ loop.pending \in Seq(Word)
    BY <1>8 DEF CallTool, LogOK, LoopType
  <2>2. log \in Seq(Msg) /\ rest \in Seq(Word) /\ Owed(log, rest)
    BY <2>1, OwedCall DEF LogOK
  <2>3. loop' = AfterCall(l)
    BY <1>8 DEF CallTool, NextStep
  <2>4. fin \in BOOLEAN
    BY DEF LoopType
  <2>. HIDE DEF log, rest, fin
  <2>5. l \in LoopType /\ l.msgs = log /\ l.pending = rest /\ l.phase = "calling"
    BY <2>1, <2>2, <2>4 DEF LoopType
  <2>. HIDE DEF l
  <2>6. CASE rest # << >>
    BY <2>1, <2>2, <2>3, <2>5, <2>6 DEF AfterCall, LogOK
  <2>7. CASE rest = << >> /\ l.finished
    BY <2>1, <2>2, <2>3, <2>5, <2>7, FinishOK DEF AfterCall
  <2>8. CASE rest = << >> /\ ~l.finished
    <3>1. loop' \in LoopType /\ loop'.msgs = log /\ loop'.pending = rest
          /\ loop'.phase = "asking"
      BY <2>3, <2>5, <2>8 DEF AfterCall, LoopType
    <3>. QED BY <2>1, <2>2, <2>8, <3>1 DEF LogOK
  <2>. QED BY <2>6, <2>7, <2>8
<1>. QED
  BY <1>1, <1>2, <1>3, <1>4, <1>5, <1>6, <1>7, <1>8
     DEF LoopStep, TurnCap, PastDeadline, ChatRefused, MayAsk

LEMMA SaveOK ==
  ASSUME StoreOK, StoreAnswered, loop \in LoopType, LogOK(loop), loop.phase = "done",
         NEW saved \in BOOLEAN, Save(saved)
  PROVE  StoreOK' /\ StoreAnswered'
<1>1. loop.msgs \in Seq(Msg) /\ Owed(loop.msgs, << >>) /\ loop.id \in Int
  BY DEF LogOK, LoopType
<1>2. CASE saved
  <2>1. store' = [i \in DOMAIN store \cup {loop.id} |->
                    IF i = loop.id THEN loop.msgs ELSE store[i]]
    BY <1>2 DEF Save
  <2>2. IsFiniteSet(DOMAIN store')
    BY <2>1, FS_AddElement DEF StoreOK
  <2>3. StoreOK'
    BY <1>1, <2>1, <2>2 DEF StoreOK
  <2>4. StoreAnswered'
    BY <1>1, <2>1 DEF StoreAnswered
  <2>. QED BY <2>3, <2>4
<1>3. CASE ~saved
  BY <1>3 DEF Save, StoreOK, StoreAnswered
<1>. QED BY <1>2, <1>3

-----------------------------------------------------------------------------
(* Conversations. *)

(* A session id nothing has exists, and is no special one. *)

LEMMA FreshIdOK ==
  ASSUME ConvsOK
  PROVE  FreshId \in Nat \ {0} /\ FreshId \notin DOMAIN convs
<1> DEFINE n == Cardinality(DOMAIN convs)
           unused == (1 .. (1 + n)) \ DOMAIN convs
           taken(m) == { k \in unused : k < m }
           T == { taken(m) : m \in unused }
<1>1. n \in Nat /\ IsFiniteSet(DOMAIN convs)
  BY FS_CardinalityType DEF ConvsOK
<1>. HIDE DEF n
<1>2. unused # {}
  <2>1. IsFiniteSet(1 .. (1 + n)) /\ Cardinality(1 .. (1 + n)) = 1 + n
    BY <1>1, FS_Interval
  <2>2. ASSUME 1 .. (1 + n) \subseteq DOMAIN convs PROVE FALSE
    <3>1. Cardinality(1 .. (1 + n)) <= Cardinality(DOMAIN convs)
      BY <1>1, <2>2, FS_Subset
    <3>. QED BY <1>1, <2>1, <3>1 DEF n
  <2>. QED BY <2>2
<1>3. \A k \in unused : k \in Nat
  BY <1>1
<1>4. T \subseteq FiniteSubsetsOf(Nat) /\ T # {}
  <2>1. ASSUME NEW m \in unused PROVE IsFiniteSet(taken(m))
    <3>1. \A y \in taken(m) : y \in 0 .. m
      BY <1>3
    <3>2. IsFiniteSet(0 .. m)
      BY <1>3, FS_Interval
    <3>. QED BY <3>1, <3>2, FS_Subset
  <2>. QED BY <1>2, <1>3, <2>1 DEF FiniteSubsetsOf
<1>5. PICK i \in unused : \A k \in unused : ~ (<<taken(k), taken(i)>> \in StrictSubsetOrdering(Nat))
  <2>1. \E U \in T : \A V \in T : ~ (<<V, U>> \in StrictSubsetOrdering(Nat))
    <3> HIDE DEF T
    <3>. QED BY <1>4, FS_StrictSubsetOrderingWellFounded, WFMin
  <2>. QED BY <2>1
<1>6. ASSUME NEW k \in unused, k < i PROVE FALSE
  <2>1. k \in taken(i) /\ k \notin taken(k)
    BY <1>3, <1>6
  <2>2. \A x \in taken(k) : x \in taken(i)
    BY <1>3, <1>6
  <2>3. taken(k) \in SUBSET Nat /\ taken(i) \in SUBSET Nat
    BY <1>3
  <2>. QED BY <1>5, <2>1, <2>2, <2>3 DEF StrictSubsetOrdering
<1>7. i \in 1 .. (1 + n) /\ i \notin DOMAIN convs
  OBVIOUS
<1>8. \A k \in 1 .. (i - 1) : k \in DOMAIN convs
  <2>1. SUFFICES ASSUME NEW k \in 1 .. (i - 1), k \notin DOMAIN convs PROVE FALSE
    OBVIOUS
  <2>2. k \in unused /\ k < i
    BY <1>1, <1>7, <2>1
  <2>. QED BY <1>6, <2>2
<1>9. FreshId \in 1 .. (1 + n) /\ FreshId \notin DOMAIN convs
  BY <1>7, <1>8 DEF FreshId, n
<1>. QED BY <1>1, <1>9

BaseInv ==
  /\ cli \in Clis
  /\ run \in RunType
  /\ child \in ChildType /\ ReapOK(child)
  /\ loop \in LoopType /\ LogOK(loop)
  /\ StoreOK /\ StoreAnswered
  /\ ConvsOK
  /\ IdsOK

(* What a process may be told to resume. *)
Resumables == {0, Alien} \cup (DOMAIN convs \ {Ambient})

LEMMA ResumableOK ==
  ASSUME NEW id \in Int, Known(id)
  PROVE  /\ Resumable(id) \in Int /\ Resumable(id) \in Resumables
         /\ id \notin {Foreign, Alien} =>
              ResumableReadonly(id) = Resumable(id) /\ Resumable(id) # Alien
BY DEF Resumable, ResumableReadonly, Known, Sentinels, Resumables, Alien, Foreign

(* No id that is handed to a CLI is refused, since it is on disk or new,    *)
(* unless it is of another harness.                                         *)
JoinsWell(j, resume, mint) ==
  /\ j.held \in SUBSET Speakers /\ j.refused \in BOOLEAN
  /\ j.refused => resume = Alien /\ j.id = 0 /\ j.held = {}
  /\ ~j.refused => j.id \in Int \ {0, Unknown, Foreign, Alien}
  /\ resume = 0 => mint \in {0, j.id}
  /\ cli # "pi" /\ ~j.refused =>
       \/ j.id \notin DOMAIN convs /\ j.held = IF resume = 0 THEN {} ELSE convs[resume]
       \/ j.id = resume /\ resume # 0 /\ j.held = convs[resume]
       \/ j.id = Ambient /\ resume = 0 /\ j.held = {}

LEMMA JoinsOK ==
  ASSUME ConvsOK, NEW resume \in Resumables, NEW mint \in {0, FreshId}
  PROVE  JoinsWell(Joins(resume, mint), resume, mint)
<1> DEFINE j == Joins(resume, mint)
           fresh == resume = 0 \/ (ContinuesLatest /\ latest \notin DOMAIN convs)
<1>0. SUFFICES JoinsWell(j, resume, mint)
  OBVIOUS
<1>1. FreshId \in Nat \ {0} /\ FreshId \notin DOMAIN convs
  BY FreshIdOK
<1>2. /\ FreshId \in Int \ {0, Unknown, Foreign, Alien}
      /\ Ambient \in Int \ {0, Unknown, Foreign, Alien} /\ Alien # 0
  BY <1>1 DEF Ambient, Unknown, Foreign, Alien
<1>3. /\ \A i \in DOMAIN convs : convs[i] \in SUBSET Speakers
      /\ DOMAIN convs \subseteq Int \ {0, Unknown, Foreign, Alien}
  BY DEF ConvsOK
<1>a. cli = "pi" <=> ContinuesLatest
  BY DEF ContinuesLatest
<1>b. resume = 0 \/ resume = Alien \/ resume \in DOMAIN convs
  BY DEF Resumables
<1>4. CASE ~fresh /\ ContinuesLatest
  <2>1. j = [id |-> latest, held |-> convs[latest], refused |-> FALSE] /\ cli = "pi"
    BY <1>4, <1>a DEF Joins
  <2>2. latest \in DOMAIN convs /\ resume # 0
    BY <1>4
  <2>. QED BY <1>3, <2>1, <2>2 DEF JoinsWell
<1>5. CASE ~fresh /\ ~ContinuesLatest /\ resume = Alien
  <2>1. j = [id |-> 0, held |-> {}, refused |-> TRUE]
    BY <1>2, <1>3, <1>5 DEF Joins
  <2>. QED BY <1>2, <1>5, <2>1 DEF JoinsWell
<1>6. CASE ~fresh /\ ~ContinuesLatest /\ resume # Alien /\ CarriesOver
  <2>1. j = [id |-> FreshId, held |-> convs[resume], refused |-> FALSE] /\ resume \in DOMAIN convs
    BY <1>b, <1>6 DEF Joins
  <2>. QED BY <1>1, <1>2, <1>3, <1>6, <2>1 DEF JoinsWell
<1>7. CASE ~fresh /\ ~ContinuesLatest /\ resume # Alien /\ ~CarriesOver
  <2>1. j = [id |-> resume, held |-> convs[resume], refused |-> FALSE] /\ resume \in DOMAIN convs
    BY <1>b, <1>7 DEF Joins
  <2>. QED BY <1>3, <1>7, <2>1 DEF JoinsWell
<1>8. CASE fresh /\ mint # 0
  <2>2. mint = FreshId /\ (mint \in DOMAIN convs) = FALSE
    BY <1>1, <1>8
  <2>1. j = [id |-> mint, held |-> {}, refused |-> FALSE]
    BY <1>8, <2>2, Zenon DEF Joins
  <2>3. ~j.refused /\ j.refused \in BOOLEAN
    BY <2>1
  <2>4. j.id = mint /\ j.held = {}
    BY <2>1
  <2>5. cli # "pi" => resume = 0
    BY <1>8, <1>a
  <2>. HIDE DEF j
  <2>. QED BY <1>1, <1>2, <1>8, <2>2, <2>3, <2>4, <2>5 DEF JoinsWell
<1>9. CASE fresh /\ mint = 0
  <2>1. j = IF run.nested THEN [id |-> Ambient, held |-> {}, refused |-> FALSE]
            ELSE [id |-> FreshId, held |-> {}, refused |-> FALSE]
    BY <1>9 DEF Joins
  <2>2. /\ j.held = {} /\ j.refused = FALSE
        /\ j.id = Ambient \/ j.id = FreshId
    BY <2>1
  <2>3. cli # "pi" => resume = 0
    BY <1>9, <1>a
  <2>. HIDE DEF j
  <2>. QED BY <1>1, <1>2, <1>9, <2>2, <2>3 DEF JoinsWell
<1>. QED BY <1>4, <1>5, <1>6, <1>7, <1>8, <1>9

LEMMA CallType ==
  ASSUME run \in RunType, NEW who \in {"author", "worker", "judge"}, NEW wanted \in Int,
         NEW mint \in Int, NEW conv \in Int, NEW held \in SUBSET Speakers,
         NEW refused \in BOOLEAN
  PROVE  [run EXCEPT !.pc = "calling", !.who = who, !.asked = wanted, !.mint = mint,
                     !.conv = conv, !.held = held, !.refused = refused] \in RunType
BY DEF RunType

(* A process that is started joins a conversation on disk. *)
LEMMA StartProcessOK ==
  ASSUME BaseInv, cli # "goaly-code", NEW who \in {"author", "worker", "judge"},
         NEW resume \in Resumables, NEW mint \in {0, FreshId},
         resume # 0 => mint = 0,
         NEW idle \in BOOLEAN, StartProcess(who, resume, mint, idle),
         store' = store, loop' = loop, cli' = cli
  PROVE  BaseInv'
<1> DEFINE j == Joins(resume, mint)
           s == [group |-> TRUE, idle |-> idle, stream |-> Streams(run.tap \/ idle)]
<1>1. /\ j.held \in SUBSET Speakers /\ j.refused \in BOOLEAN
      /\ j.refused => resume = Alien /\ j.id = 0 /\ j.held = {}
      /\ ~j.refused => j.id \in Int \ {0, Unknown, Foreign, Alien}
      /\ mint \in {0, j.id} /\ j.id \in Int
  <2>1. ConvsOK
    BY DEF BaseInv
  <2>2. JoinsWell(j, resume, mint)
    BY <2>1, JoinsOK
  <2>. HIDE DEF j
  <2>. QED BY <2>2 DEF JoinsWell
<1>2. /\ run' = [run EXCEPT !.pc = "calling", !.who = who, !.asked = resume, !.mint = mint,
                            !.conv = j.id, !.held = j.held, !.refused = j.refused]
      /\ child' = IF j.refused THEN [Launched(s) EXCEPT !.alive = {}, !.code = 1] ELSE Launched(s)
      /\ Speak(who, j)
  BY DEF StartProcess
<1>. HIDE DEF j
<1>3. child' \in ChildType /\ ReapOK(child')
  <2> DEFINE stream == Streams(run.tap \/ idle)
  <2>1. stream \in BOOLEAN /\ (idle => stream)
    BY DEF Streams
  <2>. HIDE DEF stream
  <2> DEFINE c == Launched([group |-> TRUE, idle |-> idle, stream |-> stream])
  <2>2. c \in ChildType /\ ReapOK(c)
    BY <2>1, LaunchedOK
  <2>3. child' = c \/ child' = [c EXCEPT !.alive = {}, !.code = 1]
    BY <1>2 DEF stream
  <2>. HIDE DEF c
  <2>4. /\ [c EXCEPT !.alive = {}, !.code = 1] \in ChildType
        /\ ReapOK([c EXCEPT !.alive = {}, !.code = 1])
    BY <2>2 DEF ChildType, ReapOK
  <2>. QED BY <2>2, <2>3, <2>4
<1>4. /\ ConvsOK' /\ DOMAIN convs \subseteq DOMAIN convs'
      /\ ~j.refused => j.id \in DOMAIN convs'
  <2>1. CASE j.refused
    BY <1>2, <2>1 DEF Speak, BaseInv, ConvsOK
  <2>2. CASE ~j.refused
    <3>1. /\ convs' = [i \in DOMAIN convs \cup {j.id} |->
                          IF i = j.id THEN j.held \cup {who} \cup
                                           (IF i \in DOMAIN convs THEN convs[i] ELSE {})
                          ELSE convs[i]]
          /\ latest' = IF cli = "pi" THEN j.id ELSE 0
      BY <1>2, <2>2 DEF Speak, ContinuesLatest
    <3>2. IsFiniteSet(DOMAIN convs')
      BY <3>1, FS_AddElement DEF BaseInv, ConvsOK
    <3>3. DOMAIN convs' \subseteq Int \ {0, Unknown, Foreign, Alien}
      BY <1>1, <2>2, <3>1 DEF BaseInv, ConvsOK
    <3>4. convs' \in [DOMAIN convs' -> SUBSET Speakers]
      <4>1. \A i \in DOMAIN convs : convs[i] \in SUBSET Speakers
        BY DEF BaseInv, ConvsOK
      <4>2. who \in Speakers
        BY DEF Speakers
      <4>. QED BY <1>1, <3>1, <4>1, <4>2
    <3>5. latest' \in Int /\ (cli = "pi" => latest' \in DOMAIN convs')
      BY <1>1, <3>1
    <3>. QED BY <3>1, <3>2, <3>3, <3>4, <3>5 DEF ConvsOK
  <2>. QED BY <1>1, <2>1, <2>2
<1>5. resume \in Int /\ mint \in Int /\ Known(resume)
  <2>1. DOMAIN convs \subseteq Int /\ Alien \in Int
    BY DEF BaseInv, ConvsOK, Alien
  <2>2. resume \in Int
    BY <2>1 DEF Resumables
  <2>3. Known(resume)
    BY DEF Resumables, Known
  <2>. QED BY <1>1, <2>2, <2>3
<1>6. run' \in RunType
  <2>1. run \in RunType
    BY DEF BaseInv
  <2>2. [run EXCEPT !.pc = "calling", !.who = who, !.asked = resume, !.mint = mint,
                    !.conv = j.id, !.held = j.held, !.refused = j.refused] \in RunType
    <3> DEFINE id == j.id
               held == j.held
               refused == j.refused
    <3>1. id \in Int /\ held \in SUBSET Speakers /\ refused \in BOOLEAN
      BY <1>1
    <3>. HIDE DEF id, held, refused
    <3>2. [run EXCEPT !.pc = "calling", !.who = who, !.asked = resume, !.mint = mint,
                      !.conv = id, !.held = held, !.refused = refused] \in RunType
      BY <1>5, <2>1, <3>1, CallType
    <3>. QED BY <3>2 DEF id, held, refused
  <2>. QED BY <1>2, <2>2, Zenon
<1>8. /\ run'.session = run.session /\ run'.next = run.next /\ run'.authored = run.authored
      /\ run'.who = who /\ run'.asked = resume /\ run'.conv = j.id /\ run'.refused = j.refused /\ run'.mint = mint
  BY <1>2 DEF BaseInv, RunType
<1>9. /\ loop.phase = "off" /\ Known(run.session) /\ Known(run.next) /\ Known(run.authored)
      /\ run.authored \notin {Foreign, Alien}
  BY DEF BaseInv, IdsOK
<1>10. IdsOK'
  BY <1>1, <1>4, <1>5, <1>8, <1>9 DEF IdsOK, Known
<1>. QED BY <1>3, <1>4, <1>6, <1>10 DEF BaseInv, StoreOK, StoreAnswered, LogOK

LEMMA GoalyCodeRunOK ==
  ASSUME BaseInv, cli = "goaly-code", GoalyCodeRun(run.session), store' = store, cli' = cli
  PROVE  BaseInv'
<1>1. PICK readable \in BOOLEAN : StartLoop(run.session, 1 + Cardinality(DOMAIN store), readable)
  BY DEF GoalyCodeRun
<1>2. StoreOK /\ StoreAnswered /\ run.session \in Int /\ 1 + Cardinality(DOMAIN store) \in Int
  BY FS_CardinalityType DEF BaseInv, StoreOK, RunType
<1>3. loop' \in LoopType /\ LogOK(loop')
  BY <1>1, <1>2, StartLoopOK
<1>4. /\ run' = [run EXCEPT !.pc = "calling", !.who = "worker", !.asked = run.session, !.mint = 0,
                            !.conv = 0, !.held = OthersIn(loop'.msgs), !.refused = FALSE]
      /\ child' = child /\ convs' = convs /\ latest' = latest
  BY DEF GoalyCodeRun
<1>a. run \in RunType
  BY DEF BaseInv
<1>b. run' \in RunType
  <2>1. OthersIn(loop'.msgs) \in SUBSET Speakers /\ 0 \in Int /\ FALSE \in BOOLEAN
    BY DEF OthersIn, Speakers
  <2>. HIDE DEF OthersIn
  <2>. QED BY <1>2, <1>4, <1>a, <2>1, CallType
<1>5. run' \in RunType /\ run'.who = "worker" /\ ~run'.refused
  BY <1>4, <1>a, <1>b DEF RunType
<1>6. IdsOK'
  BY <1>4, <1>5 DEF BaseInv, IdsOK
<1>. QED BY <1>3, <1>4, <1>5, <1>6 DEF BaseInv, StoreOK, StoreAnswered, ConvsOK, ReapOK

LEMMA HarnessRunOK ==
  ASSUME BaseInv, HarnessRun(run.session), store' = store, cli' = cli
  PROVE  BaseInv'
<1>1. CASE cli = "goaly-code"
  BY <1>1, GoalyCodeRunOK DEF HarnessRun
<1>2. CASE cli # "goaly-code"
  <2>1. Known(run.session) /\ run.session \in Int /\ run.idle \in BOOLEAN
    BY <1>2 DEF BaseInv, IdsOK, RunType
  <2>2. Resumable(run.session) \in Resumables
    BY <2>1, ResumableOK
  <2>3. StartProcess("worker", Resumable(run.session), 0, run.idle) /\ loop' = loop
    BY <1>2 DEF HarnessRun, AgentCliHarnessRun
  <2>. QED BY <1>2, <2>1, <2>2, <2>3, StartProcessOK
<1>. QED BY <1>1, <1>2

LEMMA CallProviderOK ==
  ASSUME BaseInv, cli # "goaly-code", NEW who \in {"author", "judge"},
         NEW resume \in {0, run.authored}, CallProvider(who, resume)
  PROVE  BaseInv'
<1>1. Known(resume) /\ resume \in Int /\ resume \notin {Foreign, Alien}
  BY DEF BaseInv, IdsOK, RunType, Known, Foreign, Alien
<1> DEFINE conv0 == IF CanResume THEN ResumableReadonly(resume) ELSE 0
           mint == IF who = "author" /\ CanResume /\ conv0 = 0 THEN FreshId ELSE 0
<1>2. conv0 \in Resumables
  BY <1>1, ResumableOK DEF Resumables
<1>3. mint \in {0, FreshId} /\ (conv0 # 0 => mint = 0)
  OBVIOUS
<1>4. StartProcess(who, conv0, mint, FALSE) /\ store' = store /\ loop' = loop /\ cli' = cli
  BY DEF CallProvider, Attempt
<1>. HIDE DEF conv0, mint
<1>. QED BY <1>2, <1>3, <1>4, StartProcessOK

(* What a settled call leaves on disk is all the run can name again. *)
LEMMA ReachableOK ==
  ASSUME ConvsOK, NEW r, Reachable(r), latest' = latest, cli' = cli
  PROVE  /\ ConvsOK'
         /\ DOMAIN convs' \subseteq DOMAIN convs
         /\ \A i \in DOMAIN convs' : convs'[i] = convs[i]
         /\ \A id \in {r.session, r.authored, r.next} : Known(id) => Known(id)'
<1> DEFINE kept == DOMAIN convs \cap {r.session, r.authored, r.next, r.mint, latest, Ambient}
<1>1. convs' = [i \in kept |-> convs[i]]
  BY DEF Reachable
<1>2. kept \subseteq DOMAIN convs /\ DOMAIN convs' = kept
  BY <1>1
<1>3. IsFiniteSet(DOMAIN convs')
  BY <1>2, FS_Subset DEF ConvsOK
<1>4. convs' \in [DOMAIN convs' -> SUBSET Speakers]
  BY <1>1, <1>2 DEF ConvsOK
<1>5. latest \in DOMAIN convs => latest \in kept
  OBVIOUS
<1>6. ConvsOK'
  BY <1>2, <1>3, <1>4, <1>5 DEF ConvsOK
<1>7. \A id \in {r.session, r.authored, r.next} : Known(id) => Known(id)'
  BY <1>2 DEF Known
<1>. QED BY <1>1, <1>2, <1>6, <1>7

LEMMA AttemptEndsOK ==
  ASSUME run \in RunType, NEW status, NEW spend, NEW chosen \in Int, NEW burnt \in Nat,
         AttemptEnds(status, spend, chosen, burnt)
  PROVE  /\ run' \in RunType
         /\ run'.pc \in {"backoff", "ran"} /\ run'.who = run.who
         /\ run'.session = run.session /\ run'.authored = run.authored
         /\ run'.next \in {run.next, chosen}
         /\ run'.attempts = run.attempts + 1 /\ run'.burnt = run.burnt + burnt
         /\ run'.tokens = IF spend = "unknown" THEN run.tokens ELSE run.tokens + 1
         /\ run'.unknown = IF spend = "unknown" THEN run.unknown + 1 ELSE run.unknown
<1> DEFINE tokens == IF spend = "unknown" THEN run.tokens ELSE run.tokens + 1
           unknown == IF spend = "unknown" THEN run.unknown + 1 ELSE run.unknown
           attempts == run.attempts + 1
           total == run.burnt + burnt
<1>1. tokens \in Nat /\ unknown \in Nat /\ attempts \in Nat /\ total \in Nat
  BY DEF RunType
<1> DEFINE r == [run EXCEPT !.tokens = tokens, !.unknown = unknown, !.attempts = attempts,
                            !.burnt = total]
<1>2. [Record(run, spend) EXCEPT !.attempts = @ + 1, !.burnt = @ + burnt] = r
  BY DEF Record, RunType
<1>3. run' = [r EXCEPT !.pc = "backoff", !.attempt = 1] \/ run' = [r EXCEPT !.pc = "ran", !.next = chosen]
  BY <1>2 DEF AttemptEnds
<1>. HIDE DEF tokens, unknown, attempts, total
<1>4. r \in RunType
  BY <1>1 DEF RunType
<1>5. run' \in RunType
  <2>. HIDE DEF r
  <2>1. CASE run' = [r EXCEPT !.pc = "backoff", !.attempt = 1]
    BY <1>4, <2>1 DEF RunType
  <2>2. CASE run' = [r EXCEPT !.pc = "ran", !.next = chosen]
    BY <1>4, <2>2 DEF RunType
  <2>. QED BY <1>3, <2>1, <2>2
<1>6. /\ run'.pc \in {"backoff", "ran"} /\ run'.who = run.who
      /\ run'.session = run.session /\ run'.authored = run.authored
      /\ run'.next \in {run.next, chosen}
      /\ run'.attempts = attempts /\ run'.burnt = total
      /\ run'.tokens = tokens /\ run'.unknown = unknown
  BY <1>3 DEF RunType
<1>. QED BY <1>5, <1>6 DEF tokens, unknown, attempts, total

LEMMA CountsType ==
  ASSUME NEW r \in RunType, NEW chosen \in Int, NEW next \in Int,
         NEW tokens \in Nat, NEW unknown \in Nat, NEW attempts \in Nat, NEW burnt \in Nat
  PROVE  [r EXCEPT !.refused = FALSE, !.session = chosen, !.next = next, !.tokens = tokens,
                   !.unknown = unknown, !.attempts = attempts, !.burnt = burnt] \in RunType
BY DEF RunType

LEMMA CallOverType ==
  ASSUME NEW r \in RunType, NEW stage \in {"authoring", "working", "judging"},
         NEW turns \in Nat, NEW attempt \in Nat,
         NEW wanted \in Int, NEW conv \in Int, NEW held \in SUBSET Speakers
  PROVE  [r EXCEPT !.pc = "ready", !.stage = stage, !.turns = turns, !.attempt = attempt,
                   !.who = "none", !.asked = wanted, !.conv = conv, !.held = held] \in RunType
BY DEF RunType

LEMMA AgentRanOK ==
  ASSUME run \in RunType, NEW chosen \in Int, run' = AgentRan(run, chosen)
  PROVE  /\ run' \in RunType /\ run'.pc = "ready"
         /\ run'.session = chosen /\ run'.next = 0 /\ run'.authored = run.authored
         /\ run'.tokens = 0 /\ run'.unknown = 0 /\ run'.attempts = 0 /\ run'.burnt = 0
<1>1. run.turns + 1 \in Nat
  BY DEF RunType
<1> DEFINE turns == run.turns + 1
           r == [run EXCEPT !.pc = "ready", !.stage = "judging", !.turns = turns, !.attempt = 0,
                            !.who = "none", !.asked = 0, !.conv = 0, !.held = {}]
<1>2. run' = [r EXCEPT !.refused = FALSE, !.session = chosen, !.next = 0,
                       !.tokens = 0, !.unknown = 0, !.attempts = 0, !.burnt = 0]
  BY DEF AgentRan, RunType
<1>. HIDE DEF turns
<1>a. /\ 0 \in Nat /\ 0 \in Int /\ {} \in SUBSET Speakers /\ FALSE \in BOOLEAN
      /\ "judging" \in {"authoring", "working", "judging"}
  OBVIOUS
<1>3. r \in RunType /\ r.pc = "ready" /\ r.authored = run.authored
  <2>1. r \in RunType
    BY <1>1, <1>a, CallOverType DEF turns
  <2>. QED BY <2>1 DEF RunType
<1>. HIDE DEF r
<1>4. run' \in RunType
  <2>1. r \in RunType
    BY <1>3
  <2>2. [r EXCEPT !.refused = FALSE, !.session = chosen, !.next = 0,
                  !.tokens = 0, !.unknown = 0, !.attempts = 0, !.burnt = 0] \in RunType
    BY <2>1, <1>a, CountsType
  <2>. QED BY <1>2, <2>2
<1>5. /\ run'.pc = r.pc /\ run'.session = chosen /\ run'.next = 0 /\ run'.authored = r.authored
      /\ run'.tokens = 0 /\ run'.unknown = 0 /\ run'.attempts = 0 /\ run'.burnt = 0
  BY <1>2, <1>3 DEF RunType
<1>. QED BY <1>3, <1>4, <1>5

(* The session a finished process leaves can be named again. *)
LEMMA SessionLeftOK ==
  ASSUME BaseInv, cli # "goaly-code", Calling, NEW parsed
  PROVE  SessionLeft(parsed) \in Int /\ Known(SessionLeft(parsed))
<1>1. /\ run.conv \in Int /\ run.asked \in Int /\ Known(run.asked)
      /\ run.conv \in {0} \cup DOMAIN convs
  BY DEF BaseInv, RunType, IdsOK
<1>. QED BY <1>1 DEF SessionLeft, Known, Sentinels, Unknown

LEMMA WorkerSettlesOK ==
  ASSUME BaseInv, WorkerSettles
  PROVE  /\ BaseInv' /\ cli # "goaly-code"
         /\ \E status, parsed : AttemptEnds(status, Spent(parsed, status), SessionLeft(parsed),
              IF Accounted(parsed, child.out) = "unknown" THEN 0 ELSE 1)
<1>1. cli # "goaly-code" /\ Calling
  BY DEF BaseInv, IdsOK, WorkerSettles, Settled
<1>2. PICK status, parsed :
        AttemptEnds(status, Spent(parsed, status), SessionLeft(parsed),
                    IF Accounted(parsed, child.out) = "unknown" THEN 0 ELSE 1)
  <2>1. \E confessed :
          LET parsed == Parsed(child.out)
              status == IF cli = "codex" THEN ClassifyCodex(parsed) ELSE ClassifyFlat(parsed, confessed)
          IN  AttemptEnds(status, Spent(parsed, status), SessionLeft(parsed),
                          IF Accounted(parsed, child.out) = "unknown" THEN 0 ELSE 1)
    BY DEF WorkerSettles, AttemptOver
  <2>. QED BY <2>1
<1> DEFINE left == SessionLeft(parsed)
           burnt == IF Accounted(parsed, child.out) = "unknown" THEN 0 ELSE 1
<1>3. left \in Int /\ Known(left) /\ burnt \in Nat /\ run \in RunType
  BY <1>1, SessionLeftOK DEF BaseInv
<1>. HIDE DEF left, burnt
<1>4. AttemptEnds(status, Spent(parsed, status), left, burnt)
  BY <1>2 DEF left, burnt
<1>5. /\ run' \in RunType /\ run'.pc \in {"backoff", "ran"}
      /\ run'.session = run.session /\ run'.authored = run.authored
      /\ run'.next \in {run.next, left}
  BY <1>3, <1>4, AttemptEndsOK
<1>6. /\ child' = NoChild /\ Reachable(run') /\ store' = store /\ loop' = loop
      /\ latest' = latest /\ cli' = cli
  BY DEF WorkerSettles
<1>7. /\ ConvsOK'
      /\ \A id \in {run'.session, run'.authored, run'.next} : Known(id) => Known(id)'
  BY <1>6, ReachableOK DEF BaseInv
<1>8. /\ loop.phase = "off" /\ Known(run.session) /\ Known(run.next) /\ Known(run.authored)
      /\ run.authored \notin {Foreign, Alien}
  BY <1>1 DEF BaseInv, IdsOK
<1>9. IdsOK'
  <2>1. Known(run.session)' /\ Known(run.next)' /\ Known(run.authored)'
    BY <1>3, <1>5, <1>7, <1>8 DEF Known
  <2>2. ~Calling'
    BY <1>5 DEF Calling
  <2>3. run'.who = "worker"
    BY <1>3, <1>4, AttemptEndsOK DEF WorkerSettles
  <2>. QED BY <1>1, <1>5, <1>6, <1>8, <2>1, <2>2, <2>3 DEF IdsOK
<1>10. child' \in ChildType /\ ReapOK(child')
  BY <1>6, LaunchedOK
<1>11. BaseInv'
  BY <1>5, <1>6, <1>7, <1>9, <1>10 DEF BaseInv, StoreOK, StoreAnswered, LogOK
<1>. QED BY <1>1, <1>2, <1>11

LEMMA LoopSettlesOK ==
  ASSUME BaseInv, NEW saved \in BOOLEAN, NEW reported \in BOOLEAN, LoopSettles(saved, reported)
  PROVE  BaseInv' /\ cli = "goaly-code"
<1>1. loop.phase = "done" /\ cli = "goaly-code" /\ Calling /\ run.who = "worker"
  BY DEF BaseInv, IdsOK, LoopSettles, Calling
<1>2. StoreOK' /\ StoreAnswered'
  BY <1>1, SaveOK DEF LoopSettles, BaseInv
<1> DEFINE burnt == IF reported THEN 1 ELSE 0
           spend == IF reported THEN "reported" ELSE "unknown"
<1>3. loop.id \in Int /\ burnt \in Nat /\ run \in RunType
  BY DEF BaseInv, LoopType
<1>4. AttemptEnds(loop.status, spend, loop.id, burnt)
  BY DEF LoopSettles, AttemptOver
<1>. HIDE DEF spend, burnt
<1>5. run' \in RunType /\ run'.pc \in {"backoff", "ran"} /\ run'.who = run.who
  BY <1>3, <1>4, AttemptEndsOK
<1>6. /\ loop' = NoLoop /\ child' = child /\ convs' = convs /\ latest' = latest /\ cli' = cli
  BY DEF LoopSettles
<1>7. IdsOK'
  BY <1>1, <1>5, <1>6 DEF IdsOK, BaseInv, Calling
<1>8. loop' \in LoopType /\ LogOK(loop')
  BY <1>6, NoLoopIsOK DEF NoLoopOK
<1>. QED BY <1>1, <1>2, <1>5, <1>6, <1>7, <1>8 DEF BaseInv, ConvsOK, ReapOK

LEMMA ProviderSettlesOK ==
  ASSUME BaseInv, ProviderSettles
  PROVE  /\ BaseInv' /\ cli # "goaly-code"
         /\ run'.next = run.next /\ run'.session = run.session /\ ~Calling'
         /\ run'.authored # run.authored =>
              run.who = "author" /\ run'.authored \in {0, run.conv}
<1>1. cli # "goaly-code" /\ Calling /\ run \in RunType
  BY DEF BaseInv, IdsOK, ProviderSettles, Calling
<1> DEFINE parsed == Parsed(child.out)
           left == Trusted(parsed)
<1>2. /\ left \in {run.mint, ResumableReadonly(run.conv), 0}
      /\ run.mint \in {0, run.conv} /\ run.conv \in {0} \cup DOMAIN convs
  BY <1>1 DEF BaseInv, IdsOK, Trusted
<1>a. run.conv \notin {Foreign, Alien} /\ 0 \notin {Foreign, Alien}
  BY <1>2 DEF BaseInv, ConvsOK, Foreign, Alien
<1>b. ResumableReadonly(run.conv) \in {0, run.conv}
  BY DEF ResumableReadonly
<1>3. left \in Int /\ Known(left) /\ left \notin {Foreign, Alien}
  <2>1. run.conv \in Int /\ Known(run.conv) /\ Known(0)
    BY <1>1, <1>2 DEF RunType, Known
  <2>. QED BY <1>2, <1>a, <1>b, <2>1
<1>. HIDE DEF left
<1>4. PICK ok \in BOOLEAN :
        \/ run' = [run EXCEPT !.pc = "backoff", !.attempt = @ + 1]
        \/ run' = Completed(ok, left)
  BY DEF ProviderSettles, left
<1>5. /\ run' \in RunType /\ run'.pc \in {"backoff", "ready"}
      /\ run'.pc = "backoff" => run'.who = run.who
      /\ run'.next = run.next /\ run'.session = run.session
      /\ run'.authored = run.authored \/ (run.who = "author" /\ run'.authored = left)
  <2>1. CASE run' = [run EXCEPT !.pc = "backoff", !.attempt = @ + 1]
    <3>1. run.attempt + 1 \in Nat
      BY <1>1 DEF RunType
    <3>. QED BY <1>1, <2>1, <3>1 DEF RunType
  <2>2. CASE run' = Completed(ok, left)
    <3> DEFINE stage == IF run.who = "judge" THEN "working" ELSE run.stage
               asks == IF run.who = "author" THEN run.asks + 1 ELSE run.asks
               authored == IF run.who = "author" /\ ok THEN left ELSE run.authored
               r == [run EXCEPT !.pc = "ready", !.stage = stage, !.turns = run.turns,
                                !.attempt = 0, !.who = "none", !.asked = 0, !.conv = 0,
                                !.held = {}]
    <3>1. /\ 0 \in Nat /\ 0 \in Int /\ {} \in SUBSET Speakers
          /\ stage \in {"authoring", "working", "judging"} /\ asks \in Nat /\ authored \in Int
          /\ run.turns \in Nat
      BY <1>1, <1>3 DEF RunType
    <3>2. run' = [r EXCEPT !.mint = 0, !.asks = asks, !.authored = authored]
      BY <1>1, <2>2 DEF Completed, RunType
    <3>. HIDE DEF stage, asks, authored
    <3>3. r \in RunType
      BY <1>1, <3>1, CallOverType
    <3>4. r.pc = "ready" /\ r.next = run.next /\ r.session = run.session
      BY <1>1 DEF RunType
    <3>. HIDE DEF r
    <3>5. run' \in RunType
      BY <3>1, <3>2, <3>3 DEF RunType
    <3>6. /\ run'.pc = "ready" /\ run'.next = run.next /\ run'.session = run.session
          /\ run'.authored = authored
      BY <3>2, <3>3, <3>4 DEF RunType
    <3>. QED BY <3>5, <3>6 DEF authored
  <2>. QED BY <1>4, <2>1, <2>2
<1>6. /\ child' = NoChild /\ Reachable(run') /\ store' = store /\ loop' = loop
      /\ latest' = latest /\ cli' = cli
  BY DEF ProviderSettles
<1>7. /\ ConvsOK'
      /\ \A id \in {run'.session, run'.authored, run'.next} : Known(id) => Known(id)'
  BY <1>6, ReachableOK DEF BaseInv
<1>8. /\ loop.phase = "off" /\ Known(run.session) /\ Known(run.next) /\ Known(run.authored)
      /\ run.authored \notin {Foreign, Alien}
  BY <1>1 DEF BaseInv, IdsOK
<1>9. ~Calling'
  BY <1>5 DEF Calling
<1>10. IdsOK'
  <2>1. Known(run.session)' /\ Known(run.next)' /\ Known(run.authored)'
    BY <1>3, <1>5, <1>7, <1>8 DEF Known
  <2>2. run'.pc \in {"calling", "backoff"} => run'.who # "none"
    BY <1>1, <1>5 DEF BaseInv, IdsOK, Calling
  <2>3. run'.authored \notin {Foreign, Alien}
    BY <1>3, <1>5, <1>8
  <2>. QED BY <1>1, <1>6, <1>8, <1>9, <2>1, <2>2, <2>3 DEF IdsOK
<1>11. child' \in ChildType /\ ReapOK(child')
  BY <1>6, LaunchedOK
<1>12. BaseInv'
  BY <1>5, <1>6, <1>7, <1>10, <1>11 DEF BaseInv, StoreOK, StoreAnswered, LogOK
<1>. QED BY <1>1, <1>2, <1>5, <1>9, <1>12, <1>b

LEMMA RunAgentOK ==
  ASSUME BaseInv, RunAgent \/ RetryTurn
  PROVE  BaseInv'
<1>1. HarnessRun(run.session) /\ store' = store /\ cli' = cli
  BY DEF RunAgent, RetryTurn
<1>. QED BY <1>1, HarnessRunOK

LEMMA AskOK ==
  ASSUME BaseInv, AskAuthor \/ AskJudge \/ RetryCall
  PROVE  /\ cli # "goaly-code" /\ BaseInv'
         /\ \E who \in {"author", "judge"}, resume \in {0, run.authored} :
              CallProvider(who, resume) /\ (who = "judge" => resume = 0)
<1>1. cli # "goaly-code"
  BY DEF BaseInv, IdsOK, AskAuthor, AskJudge, RetryCall
<1>2. CASE AskAuthor
  BY <1>1, <1>2, CallProviderOK DEF AskAuthor
<1>3. CASE AskJudge
  BY <1>1, <1>3, CallProviderOK DEF AskJudge
<1>4. CASE RetryCall
  <2>1. run.who \in {"author", "judge"}
    BY <1>1, <1>4 DEF RetryCall, BaseInv, IdsOK, RunType
  <2>. QED BY <1>1, <1>4, <2>1, CallProviderOK DEF RetryCall
<1>. QED BY <1>2, <1>3, <1>4, <1>1

(* The other steps change the run's own record, or nothing that matters. *)
LEMMA RunStepOK ==
  ASSUME BaseInv, run' \in RunType, ~Calling', run'.pc # "backoff",
         run'.session \in {run.session, Foreign}, run'.next \in {run.next, run.session, 0},
         run'.authored = run.authored,
         child' \in ChildType, ReapOK(child'), child'.phase \in {child.phase, "none"},
         loop' \in {loop, NoLoop}, store' = store, convs' = convs, latest' = latest, cli' = cli
  PROVE  BaseInv'
<1>1. loop' \in LoopType /\ LogOK(loop') /\ loop'.phase \in {loop.phase, "off"}
  <2>1. NoLoop.phase = "off"
    BY DEF NoLoop
  <2>. QED BY <2>1, NoLoopIsOK DEF BaseInv, NoLoopOK
<1>2. IdsOK'
  BY <1>1 DEF BaseInv, IdsOK, Known, Sentinels, Calling
<1>. QED BY <1>1, <1>2 DEF BaseInv, StoreOK, StoreAnswered, ConvsOK

LEMMA BaseNext ==
  ASSUME BaseInv, [Next]_vars
  PROVE  BaseInv'
<1>1. CASE InChild
  <2>1. child' \in ChildType /\ ReapOK(child') /\ Running
    BY <1>1, ChildStepOK DEF InChild, BaseInv
  <2>2. IdsOK'
    BY <1>1, <2>1 DEF InChild, BaseInv, IdsOK, Running, Calling, Known
  <2>. QED BY <1>1, <2>1, <2>2 DEF InChild, BaseInv, StoreOK, StoreAnswered, ConvsOK, LogOK
<1>2. CASE InLoop
  <2>1. loop' \in LoopType /\ LogOK(loop') /\ loop.phase # "off"
    BY <1>2, LoopStepOK DEF InLoop, BaseInv
  <2>2. IdsOK'
    BY <1>2, <2>1 DEF InLoop, BaseInv, IdsOK, Calling, Known
  <2>. QED BY <1>2, <2>1, <2>2 DEF InLoop, BaseInv, StoreOK, StoreAnswered, ConvsOK, ReapOK
<1>3. CASE AskAuthor \/ AskJudge \/ RetryCall
  BY <1>3, AskOK
<1>4. CASE RunAgent \/ RetryTurn
  BY <1>4, RunAgentOK
<1>5. CASE WorkerSettles
  BY <1>5, WorkerSettlesOK
<1>6. CASE \E saved, reported \in BOOLEAN : LoopSettles(saved, reported)
  BY <1>6, LoopSettlesOK
<1>7. CASE ProviderSettles
  BY <1>7, ProviderSettlesOK
<1>. run \in RunType /\ child \in ChildType /\ ReapOK(child)
  BY DEF BaseInv
<1>8. CASE BeginWork \/ Judged
  <2>1. /\ run' = [run EXCEPT !.stage = "working"] /\ run.pc = "ready"
        /\ child' = child /\ store' = store /\ loop' = loop /\ convs' = convs
        /\ latest' = latest /\ cli' = cli
    BY <1>8 DEF BeginWork, Judged, Ready
  <2>2. /\ run' \in RunType /\ run'.pc = "ready" /\ run'.session = run.session
        /\ run'.next = run.next /\ run'.authored = run.authored
    BY <2>1 DEF RunType
  <2>. QED BY <2>1, <2>2, RunStepOK DEF Calling
<1>9. CASE WorkspaceError
  <2> DEFINE chosen == IF run.session # 0 THEN run.session ELSE Foreign
  <2>1. /\ run' = AgentRan(run, chosen) /\ child' = NoChild /\ loop' = NoLoop
        /\ store' = store /\ convs' = convs /\ latest' = latest /\ cli' = cli
    BY <1>9 DEF WorkspaceError
  <2>2. chosen \in Int /\ chosen \in {run.session, Foreign}
    BY DEF RunType, Foreign
  <2>. HIDE DEF chosen
  <2>3. /\ run' \in RunType /\ run'.pc = "ready" /\ run'.session = chosen
        /\ run'.next = 0 /\ run'.authored = run.authored
    BY <2>1, <2>2, AgentRanOK
  <2>4. child' \in ChildType /\ ReapOK(child') /\ child'.phase = "none"
    BY <2>1, LaunchedOK DEF NoChild
  <2>. QED BY <2>1, <2>2, <2>3, <2>4, RunStepOK DEF Calling
<1>10. CASE TurnEnds
  <2>1. /\ run' = AgentRan(run, run.next) /\ child' = child /\ loop' = loop
        /\ store' = store /\ convs' = convs /\ latest' = latest /\ cli' = cli
    BY <1>10 DEF TurnEnds
  <2>2. /\ run' \in RunType /\ run'.pc = "ready" /\ run'.session = run.next
        /\ run'.next = 0 /\ run'.authored = run.authored
    BY <2>1, AgentRanOK DEF RunType
  <2>3. IdsOK'
    BY <2>1, <2>2 DEF BaseInv, IdsOK, Known, Calling
  <2>. QED BY <2>1, <2>2, <2>3 DEF BaseInv, StoreOK, StoreAnswered, ConvsOK, LogOK
<1>11. CASE Interrupt
  <2>1. /\ run' = [run EXCEPT !.interrupted = TRUE]
        /\ child' = child /\ store' = store /\ loop' = loop /\ convs' = convs
        /\ latest' = latest /\ cli' = cli
    BY <1>11 DEF Interrupt
  <2>2. run' \in RunType
    BY <2>1 DEF RunType
  <2>3. \A f \in {"pc", "who", "session", "next", "authored", "refused", "held", "conv", "asked",
                  "mint"} : run'[f] = run[f]
    BY <2>1 DEF RunType
  <2>4. IdsOK'
    BY <2>1, <2>3 DEF BaseInv, IdsOK, Known, Calling
  <2>. QED BY <2>1, <2>2, <2>4 DEF BaseInv, StoreOK, StoreAnswered, ConvsOK, LogOK
<1>12. CASE ForceExit
  <2> DEFINE c == SweepChildren(child)
  <2>1. c \in ChildType /\ ReapOK(c)
    <3>1. CASE child.phase = "running"
      <4>1. c = Killed(child)
        BY <3>1 DEF SweepChildren
      <4>. QED BY <4>1, KilledOK DEF ReapOK
    <3>2. CASE child.phase # "running"
      BY <3>2 DEF SweepChildren
    <3>. QED BY <3>1, <3>2
  <2>2. child' = [c EXCEPT !.phase = "none"]
    BY <1>12 DEF ForceExit
  <2>. HIDE DEF c
  <2>3. child' \in ChildType /\ child'.phase = "none"
    BY <2>1, <2>2 DEF ChildType
  <2>4. ReapOK(child')
    BY <2>1, <2>2 DEF ReapOK, ChildType
  <2>5. /\ run' = [run EXCEPT !.pc = "dead"] /\ loop' = NoLoop
        /\ store' = store /\ convs' = convs /\ latest' = latest /\ cli' = cli
    BY <1>12 DEF ForceExit
  <2>6. /\ run' \in RunType /\ run'.pc = "dead" /\ run'.session = run.session
        /\ run'.next = run.next /\ run'.authored = run.authored
    BY <2>5 DEF RunType
  <2>. QED BY <2>3, <2>4, <2>5, <2>6, RunStepOK DEF Calling
<1>13. CASE StopCleanly
  <2>1. /\ run' = [run EXCEPT !.pc = "dead"] /\ child' = child /\ store' = store
        /\ loop' = loop /\ convs' = convs /\ latest' = latest /\ cli' = cli
    BY <1>13 DEF StopCleanly
  <2>2. /\ run' \in RunType /\ run'.pc = "dead" /\ run'.session = run.session
        /\ run'.next = run.next /\ run'.authored = run.authored
    BY <2>1 DEF RunType
  <2>. QED BY <2>1, <2>2, RunStepOK DEF Calling
<1>14. CASE RunOver \/ UNCHANGED vars
  <2>1. UNCHANGED <<cli, child, store, loop, convs, latest, run>>
    BY <1>14 DEF RunOver, vars
  <2>. QED BY <2>1 DEF BaseInv, StoreOK, StoreAnswered, ConvsOK, LogOK, IdsOK, Known, Calling
<1>. QED
  BY <1>1, <1>2, <1>3, <1>4, <1>5, <1>6, <1>7, <1>8, <1>9, <1>10, <1>11, <1>12, <1>13, <1>14
     DEF Next

LEMMA BaseInit ==
  ASSUME Init
  PROVE  BaseInv
<1>1. PICK chosen \in {0, Foreign, Alien}, nested \in BOOLEAN, idle \in BOOLEAN, tap \in BOOLEAN :
        /\ run = [NoRun EXCEPT !.session = chosen, !.nested = nested,
                               !.idle = idle, !.tap = tap]
        /\ convs = IF nested THEN [i \in {Ambient} |-> {"outer"}] ELSE [i \in {} |-> {}]
        /\ latest = 0
        /\ nested => cli = "claude"
  BY DEF Init
<1>2. run \in RunType /\ run.pc = "ready" /\ run.session = chosen /\ run.next = 0 /\ run.authored = 0
  <2>1. NoRun \in RunType
    <3>1. {} \in SUBSET Speakers
      OBVIOUS
    <3>. QED BY <3>1 DEF NoRun, RunType
  <2>2. chosen \in Int
    BY DEF Foreign, Alien
  <2>3. run \in RunType
    BY <1>1, <2>1, <2>2 DEF RunType
  <2>. QED BY <1>1, <2>3 DEF NoRun
<1>3. /\ cli \in Clis /\ child = NoChild /\ loop = NoLoop
      /\ store = [i \in {} |-> << >>] \/ store = LogsOfOthers
  BY DEF Init
<1>4. child \in ChildType /\ ReapOK(child) /\ child.phase = "none"
  BY <1>3, LaunchedOK DEF NoChild
<1>5. loop \in LoopType /\ LogOK(loop) /\ loop.phase = "off"
  BY <1>3, NoLoopIsOK DEF NoLoopOK, NoLoop
<1>6. StoreOK /\ StoreAnswered
  <2>1. CASE store = [i \in {} |-> << >>]
    BY <2>1, FS_EmptySet DEF StoreOK, StoreAnswered
  <2>2. CASE store = LogsOfOthers
    <3> DEFINE log == << System, Others, Assistant(<< >>) >>
    <3>1. log \in Seq(Msg) /\ Len(log) = 3
      <4>1. System \in Msg /\ Assistant(<< >>) \in Msg /\ Others \in Msg
        <5>1. << >> \in Seq(Word)
          OBVIOUS
        <5>. QED BY <5>1, Parts DEF Others, Msg
      <4>. QED BY <4>1
    <3>2. \A i \in 1 .. Len(log) : log[i].calls = << >>
      BY <3>1 DEF System, Others, Assistant
    <3>3. DOMAIN store = {Foreign} /\ store[Foreign] = log /\ Foreign \in Int
      BY <2>2 DEF LogsOfOthers, Foreign
    <3>. HIDE DEF log
    <3>4. Owed(log, << >>)
      <4>1. Len(<< >>) = 0 /\ 1 .. 0 = {}
        OBVIOUS
      <4>. QED BY <3>2, <4>1 DEF Owed
    <3>5. IsFiniteSet(DOMAIN store)
      BY <3>3, FS_Singleton
    <3>6. StoreOK
      <4>1. store = [i \in {Foreign} |-> log]
        BY <2>2 DEF LogsOfOthers, log
      <4>. QED BY <3>1, <3>3, <3>5, <4>1 DEF StoreOK
    <3>. QED BY <3>3, <3>4, <3>6 DEF StoreAnswered
  <2>. QED BY <1>3, <2>1, <2>2
<1>7. ConvsOK
  <2>1. CASE nested
    <3>1. convs = [i \in {Ambient} |-> {"outer"}] /\ cli = "claude"
      BY <1>1, <2>1
    <3>2. IsFiniteSet({Ambient}) /\ {"outer"} \in SUBSET Speakers
      BY FS_Singleton DEF Speakers
    <3>3. {Ambient} \subseteq Int \ {0, Unknown, Foreign, Alien}
      BY DEF Ambient, Unknown, Foreign, Alien
    <3>. QED BY <1>1, <3>1, <3>2, <3>3 DEF ConvsOK
  <2>2. CASE ~nested
    BY <1>1, <2>2, FS_EmptySet DEF ConvsOK
  <2>. QED BY <2>1, <2>2
<1>8. IdsOK
  BY <1>2, <1>4, <1>5 DEF IdsOK, Known, Sentinels, Calling, Foreign, Alien
<1>. QED BY <1>2, <1>3, <1>4, <1>5, <1>6, <1>7, <1>8 DEF BaseInv

-----------------------------------------------------------------------------
(* What was spent. *)

SameSpend ==
  /\ run'.tokens = run.tokens /\ run'.unknown = run.unknown
  /\ run'.attempts = run.attempts /\ run'.burnt = run.burnt /\ cli' = cli

SpendInv == BaseInv /\ SpendAccounted

(* A call that starts costs nothing yet. *)
LEMMA StartsFree ==
  ASSUME run \in RunType, cli' = cli,
         \/ HarnessRun(run.session)
         \/ \E who, resume : CallProvider(who, resume)
  PROVE  SameSpend
<1>1. ASSUME NEW who, NEW resume, NEW mint, NEW idle, StartProcess(who, resume, mint, idle)
      PROVE  SameSpend
  BY <1>1 DEF StartProcess, RunType, SameSpend
<1>2. ASSUME GoalyCodeRun(run.session) PROVE SameSpend
  BY <1>2 DEF GoalyCodeRun, RunType, SameSpend
<1>3. CASE HarnessRun(run.session)
  BY <1>1, <1>2, <1>3 DEF HarnessRun, AgentCliHarnessRun
<1>4. CASE \E who, resume : CallProvider(who, resume)
  <2>1. PICK who, resume : CallProvider(who, resume)
    BY <1>4
  <2>. QED BY <1>1, <2>1 DEF CallProvider, Attempt
<1>. QED BY <1>3, <1>4

LEMMA SpendNext ==
  ASSUME SpendInv, [Next]_vars
  PROVE  SpendAccounted'
<1>. run \in RunType
  BY DEF SpendInv, BaseInv
<1>1. ASSUME SameSpend PROVE SpendAccounted'
  BY <1>1 DEF SameSpend, SpendInv, SpendAccounted
<1>2. CASE InChild \/ InLoop \/ RunOver \/ UNCHANGED vars
  BY <1>1, <1>2 DEF InChild, InLoop, RunOver, vars, SameSpend
<1>3. CASE RunAgent \/ RetryTurn
  BY <1>1, <1>3, StartsFree DEF RunAgent, RetryTurn
<1>4. CASE AskAuthor \/ AskJudge \/ RetryCall
  BY <1>1, <1>4, StartsFree DEF AskAuthor, AskJudge, RetryCall, CallProvider
<1>5. CASE WorkerSettles
  <2>1. PICK status, parsed :
          AttemptEnds(status, Spent(parsed, status), SessionLeft(parsed),
                      IF Accounted(parsed, child.out) = "unknown" THEN 0 ELSE 1)
    BY <1>5, WorkerSettlesOK DEF SpendInv
  <2> DEFINE spend == Spent(parsed, status)
             burnt == IF Accounted(parsed, child.out) = "unknown" THEN 0 ELSE 1
             left == SessionLeft(parsed)
  <2>2. cli # "codex" => (spend = "unknown" <=> burnt = 0)
    BY DEF Spent
  <2>3. burnt \in {0, 1} /\ left \in Int /\ cli' = cli
    <3>1. cli # "goaly-code" /\ Calling /\ cli' = cli
      BY <1>5, WorkerSettlesOK DEF SpendInv, WorkerSettles
    <3>. QED BY <3>1, SessionLeftOK DEF SpendInv
  <2>4. AttemptEnds(status, spend, left, burnt)
    BY <2>1
  <2>. HIDE DEF spend, burnt, left
  <2>5. /\ run'.attempts = run.attempts + 1 /\ run'.burnt = run.burnt + burnt
        /\ run'.tokens = IF spend = "unknown" THEN run.tokens ELSE run.tokens + 1
        /\ run'.unknown = IF spend = "unknown" THEN run.unknown + 1 ELSE run.unknown
    <3>1. burnt \in Nat
      BY <2>3
    <3>. QED BY <2>3, <2>4, <3>1, AttemptEndsOK
  <2>. QED BY <2>2, <2>3, <2>5 DEF SpendInv, SpendAccounted, RunType
<1>6. CASE \E saved, reported \in BOOLEAN : LoopSettles(saved, reported)
  <2>1. PICK saved \in BOOLEAN, reported \in BOOLEAN : LoopSettles(saved, reported)
    BY <1>6
  <2> DEFINE burnt == IF reported THEN 1 ELSE 0
             spend == IF reported THEN "reported" ELSE "unknown"
  <2>2. (spend = "unknown" <=> burnt = 0) /\ burnt \in {0, 1} /\ burnt \in Nat
    OBVIOUS
  <2>3. AttemptEnds(loop.status, spend, loop.id, burnt) /\ cli' = cli /\ loop.id \in Int
    BY <2>1 DEF LoopSettles, AttemptOver, SpendInv, BaseInv, LoopType
  <2>. HIDE DEF spend, burnt
  <2>4. /\ run'.attempts = run.attempts + 1 /\ run'.burnt = run.burnt + burnt
        /\ run'.tokens = IF spend = "unknown" THEN run.tokens ELSE run.tokens + 1
        /\ run'.unknown = IF spend = "unknown" THEN run.unknown + 1 ELSE run.unknown
    BY <2>2, <2>3, AttemptEndsOK
  <2>. QED BY <2>2, <2>3, <2>4 DEF SpendInv, SpendAccounted, RunType
<1>7. CASE ProviderSettles
  <2>1. SameSpend
    BY <1>7 DEF ProviderSettles, Completed, RunType, SameSpend
  <2>. QED BY <1>1, <2>1
<1>8. CASE BeginWork \/ Judged \/ Interrupt \/ ForceExit \/ StopCleanly
  <2>1. SameSpend
    BY <1>8 DEF BeginWork, Judged, Interrupt, ForceExit, StopCleanly, RunType, SameSpend
  <2>. QED BY <1>1, <2>1
<1>9. CASE WorkspaceError \/ TurnEnds
  <2>1. \E chosen \in Int : run' = AgentRan(run, chosen)
    BY <1>9 DEF WorkspaceError, TurnEnds, RunType, Foreign
  <2>2. run'.tokens = 0 /\ run'.unknown = 0 /\ run'.attempts = 0 /\ run'.burnt = 0
    BY <2>1, AgentRanOK
  <2>. QED BY <2>2 DEF SpendAccounted
<1>. QED
  BY <1>2, <1>3, <1>4, <1>5, <1>6, <1>7, <1>8, <1>9 DEF Next

(***************************************************************************)
(* SpendAccounted: every attempt of every worker turn is counted, as       *)
(* tokens or as a call of unknown spend, those given up for a retry too.   *)
(***************************************************************************)
THEOREM EveryAttemptIsMetered == Spec => []SpendAccounted
<1>1. Init => SpendInv
  <2>1. Init => SpendAccounted
    BY DEF Init, NoRun, SpendAccounted
  <2>. QED BY <2>1, BaseInit DEF SpendInv
<1>2. SpendInv /\ [Next]_vars => SpendInv'
  BY BaseNext, SpendNext DEF SpendInv
<1>3. SpendInv => SpendAccounted
  BY DEF SpendInv
<1>. QED BY <1>1, <1>2, <1>3, PTL DEF Spec

-----------------------------------------------------------------------------
(* What the base invariant says already. *)

(***************************************************************************)
(* ProgressIsNotReaped: the idle limit ends only a process that was silent *)
(* for all of it, because one that is watched for silence also streams.    *)
(***************************************************************************)
THEOREM OnlySilenceIsReaped == Spec => []ProgressIsNotReaped
<1>1. Init => BaseInv
  BY BaseInit
<1>2. BaseInv /\ [Next]_vars => BaseInv'
  BY BaseNext
<1>3. BaseInv => ProgressIsNotReaped
  BY DEF BaseInv, ReapOK, ProgressIsNotReaped
<1>. QED BY <1>1, <1>2, <1>3, PTL DEF Spec

(***************************************************************************)
(* EveryCallAnswered: goaly's own agent never saves a log in which a tool  *)
(* call has no answer, whichever call ended the run.                       *)
(***************************************************************************)
THEOREM LogsAreAnswered == Spec => []EveryCallAnswered
<1>1. Init => BaseInv
  BY BaseInit
<1>2. BaseInv /\ [Next]_vars => BaseInv'
  BY BaseNext
<1>3. BaseInv => EveryCallAnswered
  <2>1. SUFFICES ASSUME BaseInv, NEW id \in DOMAIN store, NEW i \in 1 .. Len(store[id]),
                        store[id][i].role = "assistant"
                 PROVE  AnsweredAt(store[id], i)
    BY DEF EveryCallAnswered
  <2>2. Owed(store[id], << >>) /\ Len(<< >>) = 0
    BY <2>1 DEF BaseInv, StoreAnswered
  <2>3. store[id] \in Seq(Msg)
    BY <2>1 DEF BaseInv, StoreOK
  <2> DEFINE log == store[id]
  <2>. HIDE DEF log
  <2>4. SUFFICES ASSUME NEW k \in 1 .. Len(store[id][i].calls)
                 PROVE  i + k <= Len(store[id]) /\ store[id][i + k] = Answer(store[id][i].calls[k])
    BY DEF AnsweredAt
  <2>5. \/ i + k <= Len(store[id]) /\ store[id][i + k] = Answer(store[id][i].calls[k])
        \/ i + k - Len(store[id]) \in 1 .. Len(<< >>)
    BY <2>1, <2>2, <2>4 DEF Owed
  <2>6. 1 .. Len(<< >>) = {}
    BY <2>2
  <2>. QED BY <2>5, <2>6
<1>. QED BY <1>1, <1>2, <1>3, PTL DEF Spec

-----------------------------------------------------------------------------
(* Whose conversation a call continues. *)

(* The conversation of an id holds words of one role; the outer one aside. *)
Own(role, id) == id \in DOMAIN convs \ {Ambient} => convs[id] \subseteq {role}

OwnOK ==
  cli # "goaly-code" =>
    /\ \A id \in DOMAIN convs : convs[id] # {}
    /\ Own("worker", run.session) /\ Own("worker", run.next) /\ Own("author", run.authored)
    /\ Calling => /\ run.held \subseteq {run.who}
                  /\ Own(run.who, run.conv)
                  /\ run.who = "worker" => Own("worker", run.asked)

(* Among the logs of goaly's own agent only the one a sentinel names may    *)
(* hold what another run asked.                                             *)
Clean(msgs) == \A i \in 1 .. Len(msgs) : msgs[i] # Others

LogsOwn ==
  cli = "goaly-code" =>
    /\ \A id \in DOMAIN store : id # Foreign => Clean(store[id])
    /\ loop.id # Foreign => Clean(loop.msgs)
    /\ Calling => run.held = {} \/ run.asked = Foreign

OwnInv == BaseInv /\ OwnOK /\ LogsOwn

LEMMA CleanAppend ==
  ASSUME NEW msgs \in Seq(Msg), Clean(msgs), NEW msg \in Msg, msg.role # "other"
  PROVE  Clean(Append(msgs, msg))
<1>1. msg # Others
  BY DEF Others
<1>. QED BY <1>1 DEF Clean

LEMMA FreshLogClean == Clean(<< System, User >>)
BY DEF Clean, System, User, Others

LEMMA LoopClean ==
  ASSUME loop \in LoopType, LogOK(loop), Clean(loop.msgs), LoopStep
  PROVE  Clean(loop'.msgs)
<1>1. CASE TurnCap \/ PastDeadline \/ DeadlinePasses \/ ChatTransient \/ ChatRefused
  <2>1. loop'.msgs = loop.msgs
    BY <1>1 DEF TurnCap, PastDeadline, DeadlinePasses, ChatTransient, ChatRefused, Finish, LoopType
  <2>. QED BY <2>1
<1>2. ASSUME NEW calls \in Replies, ChatReply(calls) PROVE Clean(loop'.msgs)
  <2>1. loop'.msgs = Append(loop.msgs, Assistant(calls))
    BY <1>2 DEF ChatReply, Finish, LoopType
  <2>2. Assistant(calls) \in Msg /\ Assistant(calls).role # "other" /\ loop.msgs \in Seq(Msg)
    BY RepliesAssumption, Parts DEF Assistant, Word, LoopType
  <2>. QED BY <2>1, <2>2, CleanAppend
<1>3. ASSUME NEW ok \in BOOLEAN, CallTool(ok) PROVE Clean(loop'.msgs)
  <2>1. loop'.msgs = Append(loop.msgs, Answer(Head(loop.pending)))
    BY <1>3 DEF CallTool, NextStep, AfterCall, Finish, LoopType
  <2>2. loop.pending # << >> /\ loop.pending \in Seq(Word) /\ loop.msgs \in Seq(Msg)
    BY <1>3 DEF CallTool, LogOK, LoopType
  <2>3. Answer(Head(loop.pending)) \in Msg /\ Answer(Head(loop.pending)).role # "other"
    BY <2>2, Parts
  <2>. QED BY <2>1, <2>2, <2>3, CleanAppend
<1>. QED BY <1>1, <1>2, <1>3 DEF LoopStep

LEMMA LoopKeepsId ==
  ASSUME loop \in LoopType, LoopStep
  PROVE  loop'.id = loop.id
BY DEF LoopStep, TurnCap, PastDeadline, DeadlinePasses, ChatTransient, ChatRefused, ChatReply,
       CallTool, NextStep, AfterCall, Finish, LoopType

(* A turn finds what another run asked under a sentinel, or nowhere. *)
LEMMA StartLogClean ==
  ASSUME OwnInv, cli = "goaly-code", GoalyCodeRun(run.session), store' = store, cli' = cli
  PROVE  LogsOwn'
<1>1. PICK readable \in BOOLEAN : StartLoop(run.session, 1 + Cardinality(DOMAIN store), readable)
  BY DEF GoalyCodeRun
<1>2. 1 + Cardinality(DOMAIN store) \in Nat \ {0} /\ run.session \in Int
  BY FS_CardinalityType DEF OwnInv, BaseInv, StoreOK, RunType
<1>3. 1 + Cardinality(DOMAIN store) # Foreign
  BY <1>2 DEF Foreign
<1>4. /\ loop'.id = IF run.session = 0 THEN 1 + Cardinality(DOMAIN store) ELSE run.session
      /\ loop'.msgs = IF run.session = 0 THEN << System, User >> ELSE History(run.session, readable)
  BY <1>1 DEF StartLoop, NoLoop
<1>5. ASSUME run.session # Foreign PROVE Clean(loop'.msgs)
  <2>1. CASE run.session # 0 /\ run.session \in DOMAIN store /\ readable
    <3>1. store[run.session] \in Seq(Msg) /\ Clean(store[run.session])
      BY <1>5, <2>1 DEF OwnInv, LogsOwn, BaseInv, StoreOK
    <3>2. User \in Msg /\ User.role # "other"
      BY Parts
    <3>. QED BY <1>4, <2>1, <3>1, <3>2, CleanAppend DEF History
  <2>2. CASE ~(run.session # 0 /\ run.session \in DOMAIN store /\ readable)
    BY <1>4, <2>2, FreshLogClean DEF History
  <2>. QED BY <2>1, <2>2
<1>6. run'.held = OthersIn(loop'.msgs) /\ run'.asked = run.session
  BY DEF GoalyCodeRun, OwnInv, BaseInv, RunType
<1>7. run.session # Foreign => run'.held = {}
  BY <1>5, <1>6 DEF OthersIn, Clean
<1>8. loop'.id # Foreign => Clean(loop'.msgs)
  BY <1>3, <1>4, <1>5 DEF Foreign
<1>. QED BY <1>6, <1>7, <1>8 DEF OwnInv, LogsOwn

(***************************************************************************)
(* A process speaks in a conversation that is new, in the outer one, or in *)
(* one its own role has spoken in, so no other role's id is touched: an id *)
(* two roles could name would hold no word at all.                         *)
(***************************************************************************)
LEMMA OwnStart ==
  ASSUME OwnInv, cli \notin {"pi", "goaly-code"}, NEW who \in {"author", "worker", "judge"},
         NEW resume \in Resumables, NEW mint \in {0, FreshId},
         Own(who, resume), resume = Alien => who = "worker",
         NEW idle \in BOOLEAN, StartProcess(who, resume, mint, idle), cli' = cli
  PROVE  OwnOK'
<1> DEFINE j == Joins(resume, mint)
<1>1. JoinsWell(j, resume, mint)
  BY JoinsOK DEF OwnInv, BaseInv
<1>3. /\ run' = [run EXCEPT !.pc = "calling", !.who = who, !.asked = resume, !.mint = mint,
                            !.conv = j.id, !.held = j.held, !.refused = j.refused]
      /\ Speak(who, j)
  BY DEF StartProcess
<1>. HIDE DEF j
<1>4. /\ run'.session = run.session /\ run'.next = run.next /\ run'.authored = run.authored
      /\ run'.who = who /\ run'.asked = resume /\ run'.conv = j.id /\ run'.held = j.held
  BY <1>3 DEF OwnInv, BaseInv, RunType
<1>11. Known(run.session) /\ Known(run.next) /\ Known(run.authored) /\ Known(resume)
  BY DEF OwnInv, BaseInv, IdsOK, Known, Resumables
<1>12. /\ Own("worker", run.session) /\ Own("worker", run.next) /\ Own("author", run.authored)
  BY DEF OwnInv, OwnOK
<1>a. CASE j.refused
  <2>1. convs' = convs /\ j.held = {} /\ j.id = 0 /\ resume = Alien
    BY <1>1, <1>3, <1>a DEF Speak, JoinsWell
  <2>2. Alien \notin DOMAIN convs /\ 0 \notin DOMAIN convs
    BY DEF OwnInv, BaseInv, ConvsOK
  <2>. QED BY <1>4, <1>12, <2>1, <2>2 DEF OwnOK, OwnInv, Own
<1>b. CASE ~j.refused
  <2>3. convs' = [i \in DOMAIN convs \cup {j.id} |->
                      IF i = j.id THEN j.held \cup {who} \cup
                                       (IF i \in DOMAIN convs THEN convs[i] ELSE {})
                      ELSE convs[i]]
    BY <1>3, <1>b DEF Speak
  <2>5. \/ j.id \notin DOMAIN convs /\ j.held = IF resume = 0 THEN {} ELSE convs[resume]
        \/ j.id = resume /\ resume # 0 /\ j.held = convs[resume]
        \/ j.id = Ambient /\ resume = 0 /\ j.held = {}
    BY <1>1, <1>b DEF JoinsWell
  <2>a. resume = 0 \/ resume \in DOMAIN convs \ {Ambient}
    <3>1. resume # Alien
      <4>1. CASE resume = Alien
        <5>1. Alien \notin DOMAIN convs /\ Alien # 0 /\ ~ContinuesLatest
          BY DEF OwnInv, BaseInv, ConvsOK, Alien, ContinuesLatest
        <5>2. j.refused
          BY <4>1, <5>1 DEF Joins, j
        <5>. QED BY <1>b, <5>2
      <4>. QED BY <4>1
    <3>. QED BY <3>1 DEF Resumables
  <2>6. j.held \subseteq {who}
    BY <2>5, <2>a DEF Own
  <2>7. j.id \notin {0, Unknown, Foreign, Alien}
    BY <1>1, <1>b DEF JoinsWell
  <2>8. \A id \in DOMAIN convs' : convs'[id] # {}
    BY <2>3 DEF OwnInv, OwnOK
  <2>9. j.id = Ambient \/ convs'[j.id] \subseteq {who}
    BY <2>3, <2>5, <2>6, <2>a DEF Own
  <2>10. ASSUME NEW role, NEW id, Known(id), Own(role, id), id \in DOMAIN convs' \ {Ambient}
         PROVE  convs'[id] \subseteq {role}
    <3>1. id \in DOMAIN convs /\ convs[id] \subseteq {role} /\ convs[id] # {}
      BY <2>3, <2>7, <2>10 DEF Known, Sentinels, Own, OwnInv, OwnOK
    <3>2. CASE id # j.id
      BY <2>3, <2>10, <3>1, <3>2
    <3>3. CASE id = j.id
      <4>1. j.id = resume /\ convs[resume] \subseteq {who}
        BY <2>5, <2>10, <3>1, <3>3 DEF Own
      <4>2. role = who
        BY <3>1, <3>3, <4>1
      <4>. QED BY <2>9, <2>10, <3>3, <4>2
    <3>. QED BY <3>2, <3>3
  <2>13. /\ Own("worker", run.session)' /\ Own("worker", run.next)' /\ Own("author", run.authored)'
    BY <1>4, <1>11, <1>12, <2>10 DEF Own
  <2>14. Own(run.who, run.conv)'
    BY <1>4, <2>9 DEF Own
  <2>15. Own(run.who, run.asked)'
    BY <1>4, <1>11, <2>10 DEF Own
  <2>16. (run.who = "worker")' => Own("worker", run.asked)'
    BY <2>15
  <2>. QED BY <1>4, <2>6, <2>8, <2>13, <2>14, <2>16 DEF OwnOK
<1>. QED BY <1>a, <1>b

(* Between two calls no words are added. *)
LEMMA OwnKept ==
  ASSUME OwnInv, cli # "goaly-code", ~Calling',
         DOMAIN convs' \subseteq DOMAIN convs, \A i \in DOMAIN convs' : convs'[i] = convs[i],
         Own("worker", run'.session), Own("worker", run'.next), Own("author", run'.authored)
  PROVE  OwnOK'
<1>1. \A id \in DOMAIN convs' : convs'[id] # {}
  BY DEF OwnInv, OwnOK
<1>2. /\ Own("worker", run.session)' /\ Own("worker", run.next)' /\ Own("author", run.authored)'
  BY DEF Own
<1>. QED BY <1>1, <1>2 DEF OwnOK

LEMMA OwnNext ==
  ASSUME OwnInv, cli # "pi", [Next]_vars
  PROVE  OwnOK'
<1>0. cli' = cli
  BY DEF Next, InChild, InLoop, AskAuthor, BeginWork, RunAgent, WorkspaceError, WorkerSettles,
         LoopSettles, RetryTurn, TurnEnds, AskJudge, Judged, ProviderSettles, RetryCall,
         CallProvider, Interrupt, ForceExit, StopCleanly, RunOver, vars
<1>a. CASE cli = "goaly-code"
  BY <1>0, <1>a DEF OwnOK
<1>b. ASSUME cli # "goaly-code" PROVE OwnOK'
  <2>. run \in RunType /\ cli \notin {"pi", "goaly-code"}
    BY <1>b DEF OwnInv, BaseInv
  <2>. /\ Own("worker", run.session) /\ Own("worker", run.next) /\ Own("author", run.authored)
       /\ Own("worker", 0) /\ Own("worker", Foreign)
    BY <1>b DEF OwnInv, OwnOK, Own, BaseInv, ConvsOK
  <2>1. ASSUME UNCHANGED <<cli, convs>>,
               \A f \in {"pc", "who", "session", "next", "authored", "held", "conv", "asked"} :
                 run'[f] = run[f]
        PROVE  OwnOK'
    BY <2>1 DEF OwnInv, OwnOK, Own, Calling
  <2>2. CASE InChild \/ InLoop \/ RunOver \/ UNCHANGED vars
    BY <2>1, <2>2 DEF InChild, InLoop, RunOver, vars
  <2>3. CASE Interrupt
    BY <2>1, <2>3 DEF Interrupt, RunType
  <2>4. CASE RunAgent \/ RetryTurn
    <3>1. StartProcess("worker", Resumable(run.session), 0, run.idle)
      BY <1>b, <2>4 DEF RunAgent, RetryTurn, HarnessRun, AgentCliHarnessRun
    <3>2. Known(run.session) /\ run.session \in Int /\ run.idle \in BOOLEAN
      BY <1>b DEF OwnInv, BaseInv, IdsOK, RunType
    <3>3. Resumable(run.session) \in Resumables
      BY <3>2, ResumableOK
    <3>4. Own("worker", Resumable(run.session))
      BY DEF Resumable
    <3>. QED BY <1>0, <3>1, <3>2, <3>3, <3>4, OwnStart
  <2>5. CASE AskAuthor \/ AskJudge \/ RetryCall
    <3>1. PICK who \in {"author", "judge"}, resume \in {0, run.authored} :
            CallProvider(who, resume) /\ (who = "judge" => resume = 0)
      BY <2>5, AskOK DEF OwnInv
    <3> DEFINE conv0 == IF CanResume THEN ResumableReadonly(resume) ELSE 0
               mint == IF who = "author" /\ CanResume /\ conv0 = 0 THEN FreshId ELSE 0
    <3>2. Known(resume) /\ resume \in Int /\ resume \notin {Foreign, Alien}
      BY <1>b DEF OwnInv, BaseInv, IdsOK, RunType, Known, Foreign, Alien
    <3>3. conv0 \in Resumables /\ conv0 # Alien /\ mint \in {0, FreshId}
      BY <3>2, ResumableOK DEF Resumables, Alien
    <3>4. Own(who, 0)
      BY DEF Own, OwnInv, BaseInv, ConvsOK
    <3>5. Own(who, resume)
      BY <3>1, <3>4
    <3>6. Own(who, conv0)
      BY <3>4, <3>5 DEF ResumableReadonly
    <3>7. StartProcess(who, conv0, mint, FALSE)
      BY <3>1 DEF CallProvider, Attempt
    <3>. HIDE DEF conv0, mint
    <3>. QED BY <1>0, <3>3, <3>6, <3>7, OwnStart
  <2>6. CASE WorkerSettles
    <3>1. PICK status, parsed :
            AttemptEnds(status, Spent(parsed, status), SessionLeft(parsed),
                        IF Accounted(parsed, child.out) = "unknown" THEN 0 ELSE 1)
      BY <2>6, WorkerSettlesOK DEF OwnInv
    <3> DEFINE left == SessionLeft(parsed)
               burnt == IF Accounted(parsed, child.out) = "unknown" THEN 0 ELSE 1
    <3>2. run.who = "worker" /\ Calling /\ Own("worker", run.conv) /\ Own("worker", run.asked)
      BY <1>b, <2>6 DEF WorkerSettles, OwnInv, OwnOK
    <3>3. Own("worker", left)
      <4>1. Own("worker", Unknown)
        BY DEF Own, OwnInv, BaseInv, ConvsOK
      <4>. QED BY <3>2, <4>1 DEF SessionLeft
    <3>4. left \in Int /\ burnt \in Nat
      BY <1>b, <3>2, SessionLeftOK DEF OwnInv
    <3>5. AttemptEnds(status, Spent(parsed, status), left, burnt)
      BY <3>1
    <3>. HIDE DEF left, burnt
    <3>6. /\ run'.pc \in {"backoff", "ran"} /\ run'.session = run.session
          /\ run'.authored = run.authored /\ run'.next \in {run.next, left}
      BY <3>4, <3>5, AttemptEndsOK
    <3>7. /\ DOMAIN convs' \subseteq DOMAIN convs
          /\ \A i \in DOMAIN convs' : convs'[i] = convs[i]
      BY <2>6, ReachableOK DEF WorkerSettles, OwnInv, BaseInv
    <3>8. Own("worker", run'.session) /\ Own("worker", run'.next) /\ Own("author", run'.authored)
      BY <3>3, <3>6
    <3>. QED BY <1>b, <3>6, <3>7, <3>8, OwnKept DEF Calling
  <2>7. CASE ProviderSettles
    <3>1. /\ run'.next = run.next /\ run'.session = run.session /\ ~Calling'
          /\ run'.authored # run.authored =>
               run.who = "author" /\ run'.authored \in {0, run.conv}
      BY <2>7, ProviderSettlesOK DEF OwnInv
    <3>2. /\ DOMAIN convs' \subseteq DOMAIN convs
          /\ \A i \in DOMAIN convs' : convs'[i] = convs[i]
      BY <2>7, ReachableOK DEF ProviderSettles, OwnInv, BaseInv
    <3>3. Own("author", run'.authored)
      <4>1. CASE run'.authored = run.authored
        BY <4>1
      <4>2. CASE run'.authored # run.authored
        <5>1. Own("author", run.conv) /\ run.mint \in {0, run.conv}
          BY <1>b, <2>7, <3>1, <4>2 DEF ProviderSettles, OwnInv, OwnOK, BaseInv, IdsOK
        <5>2. Own("author", 0)
          BY DEF Own, OwnInv, BaseInv, ConvsOK
        <5>. QED BY <3>1, <4>2, <5>1, <5>2
      <4>. QED BY <4>1, <4>2
    <3>. QED BY <1>b, <3>1, <3>2, <3>3, OwnKept
  <2>8. CASE BeginWork \/ Judged \/ ForceExit \/ StopCleanly
    <3>1. /\ convs' = convs /\ ~Calling'
          /\ run'.session = run.session /\ run'.next = run.next /\ run'.authored = run.authored
      BY <2>8 DEF BeginWork, Judged, ForceExit, StopCleanly, Ready, RunType, Calling
    <3>. QED BY <1>b, <3>1, OwnKept
  <2>9. CASE WorkspaceError \/ TurnEnds
    <3>1. PICK chosen \in {run.session, Foreign, run.next} :
            run' = AgentRan(run, chosen) /\ convs' = convs
      BY <2>9 DEF WorkspaceError, TurnEnds
    <3>2. chosen \in Int /\ Own("worker", chosen)
      BY DEF RunType, Foreign
    <3>3. /\ ~Calling' /\ run'.session = chosen /\ run'.next = 0
          /\ run'.authored = run.authored
      BY <3>1, <3>2, AgentRanOK DEF Calling
    <3>. QED BY <1>b, <3>1, <3>2, <3>3, OwnKept
  <2>10. CASE \E saved, reported \in BOOLEAN : LoopSettles(saved, reported)
    BY <1>b, <2>10, LoopSettlesOK DEF OwnInv
  <2>. QED
    BY <2>2, <2>3, <2>4, <2>5, <2>6, <2>7, <2>8, <2>9, <2>10 DEF Next
<1>. QED BY <1>a, <1>b

(* The logs, which the agent loop alone writes. *)
LEMMA LogsNext ==
  ASSUME OwnInv, cli = "goaly-code", [Next]_vars
  PROVE  LogsOwn'
<1>. run \in RunType /\ loop \in LoopType /\ LogOK(loop)
  BY DEF OwnInv, BaseInv
<1>1. ASSUME store' = store, ~Calling', loop' \in {loop, NoLoop} PROVE LogsOwn'
  <2>1. Clean(NoLoop.msgs)
    BY DEF Clean, NoLoop
  <2>. QED BY <1>1, <2>1 DEF OwnInv, LogsOwn
<1>2. CASE InChild \/ RunOver \/ UNCHANGED vars
  BY <1>2 DEF InChild, RunOver, vars, OwnInv, LogsOwn, Calling
<1>3. CASE InLoop
  <2>1. loop'.id = loop.id /\ (Clean(loop.msgs) => Clean(loop'.msgs))
    BY <1>3, LoopClean, LoopKeepsId DEF InLoop
  <2>. QED BY <1>3, <2>1 DEF InLoop, OwnInv, LogsOwn, Calling
<1>4. CASE RunAgent \/ RetryTurn
  BY <1>4, StartLogClean DEF RunAgent, RetryTurn, HarnessRun
<1>5. CASE \E saved, reported \in BOOLEAN : LoopSettles(saved, reported)
  <2>1. PICK saved \in BOOLEAN, reported \in BOOLEAN : LoopSettles(saved, reported)
    BY <1>5
  <2>2. \A id \in DOMAIN store' : id # Foreign => Clean(store'[id])
    BY <2>1 DEF LoopSettles, Save, OwnInv, LogsOwn
  <2>3. loop' = NoLoop /\ Clean(NoLoop.msgs)
    BY <2>1 DEF LoopSettles, Clean, NoLoop
  <2>4. ~Calling'
    <3> DEFINE spend == IF reported THEN "reported" ELSE "unknown"
               burnt == IF reported THEN 1 ELSE 0
    <3>1. AttemptEnds(loop.status, spend, loop.id, burnt)
      BY <2>1 DEF LoopSettles, AttemptOver
    <3>2. loop.id \in Int /\ burnt \in Nat
      BY DEF LoopType
    <3>. HIDE DEF spend, burnt
    <3>3. run'.pc \in {"backoff", "ran"}
      BY <3>1, <3>2, AttemptEndsOK
    <3>. QED BY <3>3 DEF Calling
  <2>. QED BY <2>2, <2>3, <2>4 DEF LogsOwn
<1>6. CASE AskAuthor \/ AskJudge \/ RetryCall \/ WorkerSettles \/ ProviderSettles
  BY <1>6, AskOK, WorkerSettlesOK, ProviderSettlesOK DEF OwnInv
<1>7. CASE BeginWork \/ Judged \/ ForceExit \/ StopCleanly
  <2>1. store' = store /\ loop' \in {loop, NoLoop} /\ ~Calling'
    BY <1>7 DEF BeginWork, Judged, ForceExit, StopCleanly, Ready, RunType, Calling
  <2>. QED BY <1>1, <2>1
<1>8. CASE WorkspaceError \/ TurnEnds
  <2>1. PICK chosen \in Int : run' = AgentRan(run, chosen)
    BY <1>8 DEF WorkspaceError, TurnEnds, RunType, Foreign
  <2>2. run'.pc = "ready"
    BY <2>1, AgentRanOK
  <2>. QED BY <1>1, <1>8, <2>2 DEF WorkspaceError, TurnEnds, Calling
<1>9. CASE Interrupt
  BY <1>9 DEF Interrupt, OwnInv, LogsOwn, Calling, RunType
<1>. QED BY <1>2, <1>3, <1>4, <1>5, <1>6, <1>7, <1>8, <1>9 DEF Next

(***************************************************************************)
(* OwnConversationOnly: every process is accepted by its CLI and continues *)
(* words of its own role only, whatever session the run was resumed with:  *)
(* one that is refused was asked for the session of another harness, and   *)
(* only under a sentinel does goaly's own agent find what another run      *)
(* asked.  Under pi it does not hold, since pi resumes whatever its        *)
(* directory saw last.                                                     *)
(***************************************************************************)
THEOREM ConversationsAreOwn ==
  ASSUME "pi" \notin Clis
  PROVE  Spec => []OwnConversationOnly
<1>1. Init => OwnInv
  <2>1. ASSUME Init PROVE OwnOK /\ LogsOwn
    <3>1. run.pc = "ready" /\ run.session \in {0, Foreign, Alien} /\ run.next = 0 /\ run.authored = 0
      BY <2>1 DEF Init, NoRun
    <3>2. BaseInv
      BY <2>1, BaseInit
    <3>3. \A id \in DOMAIN convs : convs[id] # {}
      BY <2>1 DEF Init
    <3>4. OwnOK
      BY <3>1, <3>2, <3>3 DEF OwnOK, Own, Calling, BaseInv, ConvsOK
    <3>5. loop = NoLoop /\ DOMAIN store \subseteq {Foreign}
      BY <2>1 DEF Init, LogsOfOthers
    <3>6. Clean(NoLoop.msgs)
      BY DEF Clean, NoLoop
    <3>. QED BY <3>1, <3>4, <3>5, <3>6 DEF LogsOwn, Calling
  <2>. QED BY <2>1, BaseInit DEF OwnInv
<1>2. OwnInv /\ [Next]_vars => OwnInv'
  <2>1. OwnInv => cli # "pi"
    BY DEF OwnInv, BaseInv
  <2>2. ASSUME OwnInv, [Next]_vars, cli # "goaly-code" PROVE LogsOwn'
    <3>1. cli' = cli
      BY <2>2 DEF Next, InChild, InLoop, AskAuthor, BeginWork, RunAgent, WorkspaceError,
         WorkerSettles, LoopSettles, RetryTurn, TurnEnds, AskJudge, Judged, ProviderSettles,
         RetryCall, CallProvider, Interrupt, ForceExit, StopCleanly, RunOver, vars
    <3>. QED BY <2>2, <3>1 DEF LogsOwn
  <2>. QED BY <2>1, <2>2, BaseNext, OwnNext, LogsNext DEF OwnInv
<1>3. OwnInv => OwnConversationOnly
  <2>1. ASSUME OwnInv, Calling PROVE run.refused => run.asked = Alien
    BY <2>1 DEF OwnInv, BaseInv, IdsOK
  <2>2. ASSUME OwnInv, Calling
        PROVE  run.held \subseteq {run.who} \/ (cli = "goaly-code" /\ run.asked = Foreign)
    BY <2>2 DEF OwnInv, OwnOK, LogsOwn
  <2>. QED BY <2>1, <2>2 DEF OwnConversationOnly
<1>. QED BY <1>1, <1>2, <1>3, PTL DEF Spec

-----------------------------------------------------------------------------
(* Authoring a contract and preparing it.                                   *)

-----------------------------------------------------------------------------
(* The inductive invariant. *)

(* A version for each of some files. *)
Pins == UNION { [S -> Int] : S \in SUBSET Files }

AnswerOK(a) == a.files \subseteq Files /\ a.setup \in BOOLEAN /\ a.tools \in BOOLEAN

Shape ==
  /\ world \in Worlds
  /\ AnswerOK(answer)
  /\ todo \subseteq answer.files
  /\ draft \in [pins : Pins, setup : BOOLEAN, tools : BOOLEAN]
  /\ disk \in [Files -> Int] /\ writes \in Nat

(* While an answer is written out, the files no longer to do hold it. *)
Written == at = "writing" => \A f \in answer.files \ todo : disk[f] = writes

(* From the freeze on, every pinned file is on disk as it was pinned: also  *)
(* while critics read the draft, when no property asks for it yet.          *)
Sealed ==
  at \in {"drafted", "criticised", "control", "gate", "preparing", "working"} =>
    \A f \in DOMAIN draft.pins : disk[f] = draft.pins[f]

(* What the command says is never dropped from what the author is told. *)
Steered == asked \subseteq given /\ (at \in {"writing", "drafted"} => asked \subseteq heard)

PrepareInv == Shape /\ Written /\ Sealed /\ Steered /\ ControlsAreOfTheBar

-----------------------------------------------------------------------------
LEMMA PrepareInvInit == PrepareInit => PrepareInv
<1> SUFFICES ASSUME PrepareInit PROVE PrepareInv
  OBVIOUS
<1> USE DEF PrepareInit, AuthoringInit
<1>1. Shape
  <2>1. NoDraft \in [pins : Pins, setup : BOOLEAN, tools : BOOLEAN]
    <3>1. {} \in SUBSET Files /\ Empty \in [{} -> Int]
      BY DEF Empty
    <3>2. Empty \in Pins
      BY <3>1, Zenon DEF Pins
    <3> QED BY <3>2 DEF NoDraft
  <2>2. AnswerOK(NoAnswer) /\ NoAnswer.files = {}
    BY DEF NoAnswer, AnswerOK
  <2>3. [f \in Files |-> 0] \in [Files -> Int]
    OBVIOUS
  <2>4. /\ world \in Worlds /\ answer = NoAnswer /\ todo = {} /\ draft = NoDraft
        /\ disk = [f \in Files |-> 0] /\ writes = 0
    OBVIOUS
  <2> HIDE DEF PrepareInit, AuthoringInit
  <2> QED BY <2>1, <2>2, <2>3, <2>4 DEF Shape
<1>2. Written /\ Sealed /\ Steered /\ ControlsAreOfTheBar
  BY DEF Written, Sealed, Steered, ControlsAreOfTheBar, ControlMeasuresTheBar,
         PreparedRepairIsJudgedOrSaid
<1> QED BY <1>1, <1>2 DEF PrepareInv

-----------------------------------------------------------------------------
(* Authoring. *)

(* Away from the freeze and what follows it, only what the command says and *)
(* what is being written count.                                             *)
Unsealed ==
  at \notin {"drafted", "criticised", "control", "gate", "preparing", "working"}

LEMMA UnsealedKept ==
  ASSUME PrepareInv, Shape', Unsealed', Written', Steered'
  PROVE  PrepareInv'
BY DEF PrepareInv, Unsealed, Sealed, ControlsAreOfTheBar, ControlMeasuresTheBar,
       PreparedRepairIsJudgedOrSaid

(* An answer of a model, or the user's own plan or command, is told all     *)
(* that the command says, and nothing of it is written yet.                 *)
LEMMA CallKept ==
  ASSUME PrepareInv, Call, UNCHANGED prepareVars
  PROVE  PrepareInv'
<1>0. NoDraft \in [pins : Pins, setup : BOOLEAN, tools : BOOLEAN]
  BY DEF NoDraft, Empty, Pins
<1>1. AnswerOK(NoAnswer) /\ NoAnswer.files = {}
  BY DEF NoAnswer, AnswerOK
<1> USE DEF PrepareInv, Shape, Steered, counters
<1>2. CASE CallFails
  BY <1>2, UnsealedKept DEF CallFails, Unsealed, Written
<1>3. ASSUME NEW a \in world.answers, NEW shape \in Shapes, CallAnswered(a, shape)
      PROVE  PrepareInv'
  <2>1. AnswerOK(a)
    BY AuthoringAssumption DEF AnswerOK
  <2>2. heard' = given /\ asked' \subseteq given'
        /\ UNCHANGED << world, disk, asked, given >>
    BY <1>3 DEF CallAnswered, Resumed, Fresh
  <2>3. CASE at' = "failed" /\ UNCHANGED << answer, todo, draft, writes >>
    BY <2>2, <2>3, UnsealedKept DEF Unsealed, Written
  <2>4. CASE /\ at' = "writing" /\ answer' = IF Planning THEN NoAnswer ELSE a
             /\ todo' = answer'.files /\ draft' = NoDraft /\ writes' = writes + 1
    <3>1. Shape'
      BY <1>0, <1>1, <2>1, <2>2, <2>4
    <3>2. Written' /\ Steered' /\ Unsealed'
      BY <2>2, <2>4 DEF Unsealed, Written
    <3> QED BY <3>1, <3>2, UnsealedKept
  <2> QED BY <1>3, <2>3, <2>4 DEF CallAnswered, Accept
<1>4. ASSUME NEW tools \in BOOLEAN, TakeTheCommand(tools) PROVE PrepareInv'
  <2>1. /\ answer' = [NoAnswer EXCEPT !.tools = tools] /\ at' = "writing" /\ heard' = given
        /\ todo' = {} /\ draft' = NoDraft
        /\ UNCHANGED << world, disk, writes, asked, given >>
    BY <1>4 DEF TakeTheCommand, Given
  <2>2. AnswerOK(answer') /\ answer'.files = {}
    BY <2>1 DEF NoAnswer, AnswerOK
  <2> QED BY <1>0, <2>1, <2>2, UnsealedKept DEF Unsealed, Written
<1>5. ASSUME NEW parses \in BOOLEAN, TakeThePlan(parses) PROVE PrepareInv'
  <2>1. /\ answer' = NoAnswer /\ at' \in {"writing", "failed"} /\ heard' = given
        /\ todo' = {} /\ draft' = NoDraft
        /\ UNCHANGED << world, disk, writes, asked, given >>
    BY <1>5 DEF TakeThePlan, Given
  <2> QED BY <1>0, <1>1, <2>1, UnsealedKept DEF Unsealed, Written
<1> QED BY <1>2, <1>3, <1>4, <1>5 DEF Call

(* Writing pins what is written: the last file done, all of them hold this  *)
(* attempt, whatever an attempt before it left half-written.                *)
LEMMA WriteKept ==
  ASSUME PrepareInv, Write, UNCHANGED prepareVars
  PROVE  PrepareInv'
<1> USE DEF counters, conversation
<1>1. ASSUME NEW f \in Files, WriteFile(f) PROVE PrepareInv'
  <2>1. UNCHANGED << world, answer, draft, writes, asked, given, heard >> /\ at = "writing"
        /\ f \in todo
    BY <1>1 DEF WriteFile
  <2>2. CASE at' = "failed" /\ UNCHANGED << disk, todo >>
    BY <2>1, <2>2, UnsealedKept DEF PrepareInv, Shape, Steered, Unsealed, Written
  <2>3. CASE /\ disk' = [disk EXCEPT ![f] = writes] /\ todo' = todo \ {f} /\ UNCHANGED at
    <3>1. Shape' /\ Written'
      BY <2>1, <2>3 DEF PrepareInv, Shape, Written
    <3> QED BY <2>1, <2>3, <3>1, UnsealedKept DEF PrepareInv, Steered, Unsealed
  <2> QED BY <1>1, <2>2, <2>3 DEF WriteFile
<1>2. CASE Freeze
  <2>1. /\ at = "writing" /\ todo = {} /\ at' = "drafted" /\ draft' = Frozen(answer)
        /\ UNCHANGED << world, answer, todo, disk, writes, asked, given, heard >>
    BY <1>2 DEF Freeze
  <2>2. draft'.pins = [f \in answer.files |-> writes]
        /\ draft' \in [pins : Pins, setup : BOOLEAN, tools : BOOLEAN]
    BY <2>1 DEF Frozen, HasSetup, PrepareInv, Shape, AnswerOK, Pins
  <2>3. Shape' /\ Written' /\ Steered'
    BY <2>1, <2>2 DEF PrepareInv, Shape, Written, Steered
  <2>4. Sealed'
    BY <2>1, <2>2 DEF PrepareInv, Shape, Written, Sealed
  <2>5. ControlsAreOfTheBar'
    BY <2>1 DEF ControlsAreOfTheBar, ControlMeasuresTheBar, PreparedRepairIsJudgedOrSaid
  <2> QED BY <2>3, <2>4, <2>5 DEF PrepareInv
<1> QED BY <1>1, <1>2 DEF Write

(* Moving on from the freeze with the draft and the files as they were.     *)
LEMMA SealedMoveKept ==
  ASSUME PrepareInv,
         at \in {"drafted", "criticised", "control", "gate", "preparing", "working"},
         at' \notin {"writing", "drafted", "control"},
         UNCHANGED << world, answer, todo, draft, disk, writes, asked, given >>,
         PreparedRepairIsJudgedOrSaid'
  PROVE  PrepareInv'
<1>1. Shape' /\ Written' /\ Steered'
  BY DEF PrepareInv, Shape, Written, Steered
<1>2. Sealed'
  BY DEF PrepareInv, Sealed
<1> QED BY <1>1, <1>2 DEF PrepareInv, ControlsAreOfTheBar, ControlMeasuresTheBar

(* A critic's round adds to what the author is told and to nothing else.    *)
LEMMA CriticiseKept ==
  ASSUME PrepareInv, NEW outputs, Criticise(outputs), UNCHANGED prepareVars
  PROVE  PrepareInv'
<1> USE DEF counters, conversation
<1>1. at = "drafted" /\ UNCHANGED << world, answer, todo, draft, disk, writes, asked >>
  BY DEF Criticise
<1>2. CASE at' = "authoring" /\ given' = WithCritique
  BY <1>1, <1>2, UnsealedKept DEF PrepareInv, Shape, Steered, Unsealed, Written, WithCritique
<1>3. CASE at' = "criticised" /\ UNCHANGED given
  BY <1>1, <1>3, SealedMoveKept DEF PreparedRepairIsJudgedOrSaid
<1> QED BY <1>2, <1>3 DEF Criticise

(* The scratch copy takes nothing of the reference's over a frozen file.    *)
LEMMA ControlKept ==
  ASSUME PrepareInv, Control, UNCHANGED prepareVars
  PROVE  PrepareInv'
<1> USE DEF counters, conversation
<1>1. CASE SkipControl
  BY <1>1, SealedMoveKept DEF SkipControl, PreparedRepairIsJudgedOrSaid
<1>2. ASSUME NEW result, EndControl(result) PROVE PrepareInv'
  BY <1>2, SealedMoveKept DEF EndControl, PreparedRepairIsJudgedOrSaid
<1>3. ASSUME NEW reference, BeginControl(reference) PROVE PrepareInv'
  <2> DEFINE kept == { file \in reference : ~NamesFrozenFile(file) }
             over == { file[1] : file \in kept } \cap Files
  <2>1. at = "criticised" /\ UNCHANGED << world, answer, todo, draft, disk, writes, asked, given >>
    BY <1>3 DEF BeginControl
  <2>2. CASE at' = "gate"
    BY <2>1, <2>2, SealedMoveKept DEF PreparedRepairIsJudgedOrSaid
  <2>3. CASE at' = "control" /\ scratch' = ScratchCopy(over)
    <3>1. ASSUME NEW f \in DOMAIN draft.pins PROVE scratch'[f] = draft.pins[f]
      <4>1. f \in Files
        BY DEF PrepareInv, Shape, Pins
      <4>2. f \notin over
        BY <3>1 DEF NamesFrozenFile
      <4>3. disk[f] = draft.pins[f]
        BY <2>1, <3>1 DEF PrepareInv, Sealed
      <4> QED BY <2>3, <4>1, <4>2, <4>3 DEF ScratchCopy
    <3>2. Shape' /\ Written' /\ Steered'
      BY <2>1, <2>3 DEF PrepareInv, Shape, Written, Steered
    <3>3. Sealed'
      BY <2>1 DEF PrepareInv, Sealed
    <3>4. ControlsAreOfTheBar'
      BY <2>1, <2>3, <3>1 DEF ControlsAreOfTheBar, ControlMeasuresTheBar,
                              PreparedRepairIsJudgedOrSaid
    <3> QED BY <3>2, <3>3, <3>4 DEF PrepareInv
  <2> QED BY <1>3, <2>2, <2>3 DEF BeginControl
<1> QED BY <1>1, <1>2, <1>3 DEF Control

(* A fresh command of the reducer's carries its own feedback and no other.  *)
LEMMA AskKept ==
  ASSUME PrepareInv, NEW feedback, Ask(feedback),
         UNCHANGED << world, answer, todo, draft, disk, writes >>
  PROVE  PrepareInv'
BY UnsealedKept DEF Ask, PrepareInv, Shape, Steered, Unsealed, Written

LEMMA FailedKept ==
  ASSUME PrepareInv, Retry \/ GiveUp, UNCHANGED prepareVars
  PROVE  PrepareInv'
<1> USE DEF counters, conversation
<1>1. CASE Retry
  BY <1>1, AskKept DEF Retry
<1>2. CASE GiveUp
  BY <1>2, UnsealedKept DEF GiveUp, PrepareInv, Shape, Steered, Unsealed, Written
<1> QED BY <1>1, <1>2

(* At the gate a draft is left as it is, asked for again, or pinned again   *)
(* by what the operator's edit left on disk.                                *)
LEMMA GateKept ==
  ASSUME PrepareInv, Gate, UNCHANGED prepareVars
  PROVE  PrepareInv'
<1> USE DEF counters, conversation, AtHumanGate
<1>1. CASE ApprovePlan
  BY <1>1, AskKept DEF ApprovePlan, Start
<1>2. CASE ApproveContract
  BY <1>2, SealedMoveKept DEF ApproveContract, PreparedRepairIsJudgedOrSaid, NeedsPreparation
<1>3. CASE Reject
  BY <1>3, SealedMoveKept DEF Reject, PreparedRepairIsJudgedOrSaid
<1>4. CASE Revise
  <2>1. CASE at' = "over" /\ UNCHANGED << asked, given >>
    BY <1>4, <2>1, SealedMoveKept DEF Revise, PreparedRepairIsJudgedOrSaid
  <2>2. CASE Ask({"revision"})
    BY <1>4, <2>2, AskKept DEF Revise
  <2> QED BY <1>4, <2>1, <2>2 DEF Revise
<1>5. ASSUME NEW f \in Files, NEW content \in {0, writes + 1}, NEW patches,
             Edited(f, content, patches)
      PROVE  PrepareInv'
  <2>1. /\ at = "gate" /\ disk' = [disk EXCEPT ![f] = content] /\ writes' = writes + 1
        /\ UNCHANGED << world, answer, todo, asked, given, heard >>
    BY <1>5 DEF Edited
  <2>2. disk' \in [Files -> Int] /\ writes' \in Nat
    BY <2>1 DEF PrepareInv, Shape
  <2>3. CASE at' = "failed" /\ UNCHANGED draft
    BY <2>1, <2>2, <2>3, UnsealedKept DEF PrepareInv, Shape, Steered, Unsealed, Written
  <2>4. CASE draft' = [draft EXCEPT !.pins = Repinned] /\ UNCHANGED at
    <3>1. DOMAIN draft.pins \subseteq Files /\ Repinned \in Pins
      BY <2>2 DEF PrepareInv, Shape, Pins, Repinned
    <3>2. draft'.pins = Repinned /\ draft' \in [pins : Pins, setup : BOOLEAN, tools : BOOLEAN]
      BY <2>4, <3>1 DEF PrepareInv, Shape
    <3>3. Shape' /\ Written' /\ Steered'
      BY <2>1, <2>2, <2>4, <3>2 DEF PrepareInv, Shape, Written, Steered
    <3>4. Sealed'
      BY <3>2 DEF Sealed, Repinned
    <3>5. ControlsAreOfTheBar'
      BY <2>1, <2>4 DEF ControlsAreOfTheBar, ControlMeasuresTheBar, PreparedRepairIsJudgedOrSaid
    <3> QED BY <3>3, <3>4, <3>5 DEF PrepareInv
  <2> QED BY <1>5, <2>3, <2>4 DEF Edited
<1> QED BY <1>1, <1>2, <1>3, <1>4, <1>5 DEF Gate

-----------------------------------------------------------------------------
(* Preparation. *)

(* It neither changes the draft nor the files it runs, and leads on to the  *)
(* work or to the end.                                                      *)
LEMMA PreparingKept ==
  ASSUME PrepareInv, at = "preparing", at' \in {"preparing", "working", "over"}, KeepAuthoring,
         at' = "working" /\ world.recontract => t0' = "red" \/ judged' \/ said'
  PROVE  PrepareInv'
BY SealedMoveKept DEF KeepAuthoring, PreparedRepairIsJudgedOrSaid

(* On each way to the work a repair's bar was red, judged, or its control   *)
(* is said not to have run.                                                 *)
LEMMA PreflightKept ==
  ASSUME PrepareInv, Preflight
  PROVE  PrepareInv'
<1> USE PreparingKept DEF Preparing, Proceed, Ends, Say, preflight
<1>1. ASSUME NEW missing, ProbeTools(missing) PROVE PrepareInv'
  BY <1>1 DEF ProbeTools
<1>2. ASSUME NEW ok, Setup(ok) PROVE PrepareInv'
  BY <1>2 DEF Setup
<1>3. ASSUME NEW answers, ReadTree(answers) PROVE PrepareInv'
  BY <1>3 DEF ReadTree
<1>4. CASE RungPasses
  BY <1>4 DEF RungPasses
<1>5. CASE RungErrors
  BY <1>5 DEF RungErrors
<1>6. CASE RungFails
  BY <1>6 DEF RungFails
<1>7. CASE AllGreen
  BY <1>7 DEF AllGreen, GreenIsSuspect
<1>8. ASSUME NEW ruling, Rules(ruling), at = "preparing" PROVE PrepareInv'
  BY <1>8 DEF Rules
<1>9. ASSUME NEW ruling, ClassifyRed(ruling) \/ ClassifyVacuous(ruling) \/ ClassifyRepair(ruling)
      PROVE  PrepareInv'
  BY <1>8, <1>9 DEF ClassifyRed, ClassifyVacuous, ClassifyRepair, Rules
<1> QED BY <1>1, <1>2, <1>3, <1>4, <1>5, <1>6, <1>7, <1>9 DEF Preflight

LEMMA WorkKept ==
  ASSUME PrepareInv, WorkPhase
  PROVE  PrepareInv'
<1>1. CASE at' = "over" /\ UNCHANGED << asked, given >>
  BY <1>1, SealedMoveKept DEF WorkPhase, PreparedRepairIsJudgedOrSaid
<1>2. CASE Start(phase + 1)
  BY <1>2, AskKept DEF WorkPhase, Start
<1> QED BY <1>1, <1>2 DEF WorkPhase

LEMMA PrepareInvNext == PrepareInv /\ [PrepareNext]_allVars => PrepareInv'
<1> SUFFICES ASSUME PrepareInv, [PrepareNext]_allVars PROVE PrepareInv'
  OBVIOUS
<1>1. CASE AuthoringNext /\ UNCHANGED prepareVars
  BY <1>1, CallKept, WriteKept, CriticiseKept, ControlKept, FailedKept, GateKept
     DEF AuthoringNext
<1>2. CASE UNCHANGED allVars
  BY <1>2 DEF allVars, authoringVars, prepareVars, preflight, PrepareInv, Shape, Written, Sealed, Steered,
              ControlsAreOfTheBar, ControlMeasuresTheBar, PreparedRepairIsJudgedOrSaid,
              NeedsPreparation
<1> QED BY <1>1, <1>2, PreflightKept, WorkKept DEF PrepareNext, Progress, Over

LEMMA PrepareInvariant == PrepareSpec => []PrepareInv
BY PrepareInvInit, PrepareInvNext, PTL DEF PrepareSpec

-----------------------------------------------------------------------------
(* The theorems. *)

(* For any files and worlds: what the human approves at the Seal and what   *)
(* preparation and the loop run is the disk (agent-compiler.ts, refreeze),  *)
(* over half-written attempts, revisions and edits at the gate.             *)
THEOREM SealHolds == PrepareSpec => []SealedIsOnDisk
<1>1. PrepareInv => SealedIsOnDisk
  BY DEF PrepareInv, Sealed, SealedIsOnDisk
<1> QED BY <1>1, PrepareInvariant, PTL

(* The positive control runs the frozen files however the reference spells  *)
(* a path to one (contract-dry-run.ts), and no repair's bar that is not red *)
(* starts the loop unjudged and unsaid (prepare.ts, greenNegativeControl).  *)
THEOREM ControlsHold == PrepareSpec => []ControlsAreOfTheBar
<1>1. PrepareInv => ControlsAreOfTheBar
  BY DEF PrepareInv
<1> QED BY <1>1, PrepareInvariant, PTL

(* No session, resumed, fresh or lost, keeps a note, a critique, a reason   *)
(* or a seed from the author (agent-compiler.ts, agent-planner.ts).         *)
THEOREM SteerHolds == PrepareSpec => []SteerReachesTheAuthor
<1>1. PrepareInv => SteerReachesTheAuthor
  BY DEF PrepareInv, Steered, SteerReachesTheAuthor
<1> QED BY <1>1, PrepareInvariant, PTL

=============================================================================
