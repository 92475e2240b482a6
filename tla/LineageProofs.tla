---------------------------- MODULE LineageProofs ----------------------------
(***************************************************************************)
(* Theorems about the memory that runs leave each other (Lineage, Corpus), *)
(* for any runs, lessons and bounds: whatever crashes, is copied, torn or  *)
(* cleared, what an author is shown of earlier runs is true of them.       *)
(***************************************************************************)
EXTENDS Lineage, FiniteSetTheorems, SequenceTheorems, TLAPS

-----------------------------------------------------------------------------
(* Induction. *)

(***************************************************************************)
(* A non-empty set of naturals has a least element: the sets of smaller    *)
(* members are finite, so strict inclusion among them is well founded.     *)
(***************************************************************************)
LEMMA LeastNat ==
  ASSUME NEW S, S \subseteq Nat, S # {}
  PROVE  \E m \in S : \A x \in S : m <= x
<1> DEFINE Below(m) == { y \in S : y < m }
           T        == { Below(m) : m \in S }
<1>0. \A x \in S : x \in Nat
  OBVIOUS
<1>1. T \subseteq FiniteSubsetsOf(Nat) /\ T # {}
  <2>1. ASSUME NEW x \in S PROVE IsFiniteSet(Below(x))
    <3>1. \A y \in Below(x) : y \in 0 .. x
      BY <1>0
    <3>2. IsFiniteSet(0 .. x)
      BY <1>0, FS_Interval
    <3>. QED BY <3>1, <3>2, FS_Subset
  <2>. QED BY <2>1 DEF FiniteSubsetsOf
<1>2. PICK x \in S : \A y \in S : ~ (<<Below(y), Below(x)>> \in StrictSubsetOrdering(Nat))
  <2>1. \E U \in T : \A V \in T : ~ (<<V, U>> \in StrictSubsetOrdering(Nat))
    <3> HIDE DEF T
    <3>. QED BY <1>1, FS_StrictSubsetOrderingWellFounded, WFMin
  <2>. QED BY <2>1
<1>3. ASSUME NEW y \in S, y < x PROVE FALSE
  <2>1. y \in Below(x) /\ y \notin Below(y)
    BY <1>0, <1>3
  <2>2. ASSUME NEW z \in Below(y) PROVE z \in Below(x)
    BY <1>0, <1>3
  <2>3. Below(y) \in SUBSET Nat /\ Below(x) \in SUBSET Nat
    BY <1>0
  <2>. QED BY <1>2, <2>1, <2>2, <2>3 DEF StrictSubsetOrdering
<1>4. \A y \in S : x <= y
  BY <1>0, <1>3
<1>. QED BY <1>4

(* What holds at 0 and passes from each position to the next holds up to n. *)
LEMMA PositionInduction ==
  ASSUME NEW n \in Nat, NEW T, 0 \in T,
         ASSUME NEW i \in 1 .. n, i - 1 \in T PROVE i \in T
  PROVE  0 .. n \subseteq T
<1> DEFINE S == (0 .. n) \ T
<1>1. CASE S # {}
  <2>1. S \subseteq Nat
    OBVIOUS
  <2>2. PICK m \in S : \A x \in S : m <= x
    <3> HIDE DEF S
    <3>. QED BY <1>1, <2>1, LeastNat
  <2>3. m \in 1 .. n /\ m - 1 \in 0 .. n /\ m - 1 \notin S
    BY <2>2
  <2>. QED BY <2>2, <2>3
<1>2. CASE S = {}
  BY <1>2
<1>. QED BY <1>1, <1>2

(* A sequence, of whatever it holds. *)
IsSequence(h) == h \in Seq({ h[i] : i \in DOMAIN h })

(* A sequence is a function on its positions. *)
LEMMA SequenceShape ==
  ASSUME NEW h, IsSequence(h)
  PROVE  Len(h) \in Nat /\ DOMAIN h = 1 .. Len(h)
BY LenProperties DEF IsSequence

(* Appending adds one position. *)
LEMMA SequenceAppend ==
  ASSUME NEW h, IsSequence(h), NEW x
  PROVE  /\ IsSequence(Append(h, x))
         /\ Len(Append(h, x)) = Len(h) + 1
         /\ DOMAIN Append(h, x) = 1 .. (Len(h) + 1)
         /\ \A i \in 1 .. Len(h) : Append(h, x)[i] = h[i]
         /\ Append(h, x)[Len(h) + 1] = x
<1> DEFINE S == { h[i] : i \in DOMAIN h }
           T == S \cup {x}
           g == Append(h, x)
           R == { g[i] : i \in DOMAIN g }
<1>1. h \in Seq(T) /\ x \in T
  <2>1. h \in Seq(S) /\ S \subseteq T
    BY DEF IsSequence
  <2>. QED BY <2>1, SeqMonotonic, Zenon
<1>2. /\ g \in Seq(T) /\ Len(g) = Len(h) + 1
      /\ \A i \in 1 .. Len(h) : g[i] = h[i]
      /\ g[Len(h) + 1] = x
  <2> HIDE DEF T
  <2>. QED BY <1>1, AppendProperties
<1>3. DOMAIN g = 1 .. (Len(h) + 1)
  <2> HIDE DEF T, g
  <2>. QED BY <1>2, LenProperties
<1>4. \A i \in DOMAIN g : g[i] \in R
  OBVIOUS
<1>5. g \in Seq(R)
  <2> HIDE DEF T, g, R
  <2>1. Len(h) \in Nat
    BY SequenceShape
  <2>2. g \in [1 .. Len(g) -> R]
    <3>1. g \in [1 .. Len(g) -> T]
      BY <1>2, LenProperties
    <3>. QED BY <1>2, <1>3, <1>4, <3>1
  <2>3. Len(g) \in Nat
    BY <1>2, <2>1
  <2>. QED BY <2>2, <2>3, SeqDef
<1>. QED BY <1>2, <1>3, <1>5 DEF IsSequence

(* The empty file is a sequence. *)
LEMMA EmptySequence == IsSequence(<< >>) /\ Len(<< >>) = 0
<1>1. << >> \in Seq({ << >>[i] : i \in DOMAIN << >> })
  BY EmptySeq
<1>. QED BY <1>1, EmptySeq DEF IsSequence

(* Striking out one position keeps the others. *)
LEMMA SequenceExcept ==
  ASSUME NEW h, IsSequence(h), NEW n, NEW x
  PROVE  /\ IsSequence([h EXCEPT ![n] = x])
         /\ DOMAIN [h EXCEPT ![n] = x] = DOMAIN h
         /\ \A i \in DOMAIN h : [h EXCEPT ![n] = x][i] = IF i = n THEN x ELSE h[i]
<1> DEFINE g == [h EXCEPT ![n] = x]
           R == { g[i] : i \in DOMAIN g }
<1>1. Len(h) \in Nat /\ DOMAIN h = 1 .. Len(h)
  BY SequenceShape
<1>2. h = [i \in DOMAIN h |-> h[i]]
  BY LenProperties DEF IsSequence
<1>3. g = [i \in DOMAIN h |-> IF i = n THEN x ELSE h[i]]
  BY <1>2
<1>4. g \in [1 .. Len(h) -> R]
  <2>1. DOMAIN g = 1 .. Len(h)
    BY <1>1, <1>3
  <2>2. \A i \in DOMAIN g : g[i] \in R
    OBVIOUS
  <2>3. g = [i \in DOMAIN g |-> g[i]]
    BY <1>3
  <2> HIDE DEF g, R
  <2>. QED BY <2>1, <2>2, <2>3
<1>5. g \in Seq(R)
  <2> HIDE DEF g, R
  <2>. QED BY <1>1, <1>4, SeqDef
<1>. QED BY <1>3, <1>5 DEF IsSequence

-----------------------------------------------------------------------------
(* Reading the corpus. *)

(* A record some run was told. *)
Genuine(rec) == rec.bar \in Runs /\ rec.lesson \in told[rec.bar]

(* A line that does not parse, or a signed record that is genuine. *)
LineOK(line) ==
  line # Junk => line = [record |-> line.record, key |-> line.key] /\ Genuine(line.record)

LinesOK ==
  /\ IsSequence(lines) /\ \A i \in DOMAIN lines : LineOK(lines[i])
  /\ open => lines # << >>

(* What has been read: genuine records, one for each bar and lesson. *)
ReadOK(read) ==
  /\ IsSequence(read)
  /\ \A i \in DOMAIN read : Genuine(read[i])
  /\ \A i, j \in DOMAIN read :
       read[i].bar = read[j].bar /\ read[i].lesson = read[j].lesson => i = j

(* A line adds one at most. *)
LEMMA ReadLineOK ==
  ASSUME NEW read, ReadOK(read), NEW line, LineOK(line)
  PROVE  ReadOK(ReadLine(read, line))
<1>1. CASE ~(Verified(line) /\ Admits(read, line.record))
  BY <1>1 DEF ReadLine
<1>2. CASE Verified(line) /\ Admits(read, line.record)
  <2> DEFINE g == Append(read, line.record)
             n == Len(read)
  <2>1. ReadLine(read, line) = g
    BY <1>2 DEF ReadLine
  <2>2. /\ IsSequence(g) /\ n \in Nat /\ DOMAIN read = 1 .. n /\ DOMAIN g = 1 .. (n + 1)
        /\ \A i \in 1 .. n : g[i] = read[i]
        /\ g[n + 1] = line.record
    BY SequenceAppend, SequenceShape DEF ReadOK
  <2>3. Genuine(line.record)
    BY <1>2 DEF LineOK, Verified
  <2>4. \A i \in 1 .. n : << read[i].bar, read[i].lesson >>
                            # << line.record.bar, line.record.lesson >>
    BY <1>2, <2>2 DEF Admits
  <2>5. \A i \in 1 .. n : ~(read[i].bar = line.record.bar /\ read[i].lesson = line.record.lesson)
    BY <2>4
  <2> HIDE DEF g, n
  <2>6. \A i \in 1 .. (n + 1) : i \in 1 .. n \/ i = n + 1
    BY <2>2
  <2>7. \A i \in DOMAIN g : Genuine(g[i])
    BY <2>2, <2>3, <2>6 DEF ReadOK
  <2>8. ASSUME NEW i \in DOMAIN g, NEW j \in DOMAIN g,
               g[i].bar = g[j].bar, g[i].lesson = g[j].lesson
        PROVE  i = j
    <3>1. CASE i \in 1 .. n /\ j \in 1 .. n
      BY <2>2, <2>8, <3>1 DEF ReadOK
    <3>2. CASE i \in 1 .. n /\ j = n + 1
      BY <2>2, <2>5, <2>8, <3>2
    <3>3. CASE i = n + 1 /\ j \in 1 .. n
      BY <2>2, <2>5, <2>8, <3>3
    <3>. QED BY <2>2, <2>6, <3>1, <3>2, <3>3
  <2>. QED BY <2>1, <2>2, <2>7, <2>8 DEF ReadOK
<1>. QED BY <1>1, <1>2

(* So does the whole file: the reading of its lines is a function of their *)
(* positions, and there is only one.                                       *)
LEMMA ReadIsGenuine ==
  ASSUME LinesOK
  PROVE  ReadOK(Read)
<1> DEFINE n == Len(lines)
           Is(f, m) == f = [i \in 0 .. m |-> IF i = 0 THEN << >> ELSE ReadLine(f[i - 1], lines[i])]
           T == { m \in 0 .. n : \E f : Is(f, m) }
           f == CHOOSE g : Is(g, n)
<1>0. n \in Nat /\ DOMAIN lines = 1 .. n
  BY SequenceShape DEF LinesOK
<1>1. ReadOK(<< >>)
  BY EmptySequence DEF ReadOK
<1>2. 0 \in T
  <2>1. Is([i \in 0 .. 0 |-> << >>], 0)
    OBVIOUS
  <2>2. 0 \in 0 .. n
    BY <1>0
  <2> HIDE DEF Is, n
  <2>. QED BY <2>1, <2>2
<1>3. ASSUME NEW m \in 1 .. n, m - 1 \in T PROVE m \in T
  <2>1. PICK g : Is(g, m - 1)
    BY <1>3
  <2> DEFINE h == [i \in 0 .. m |-> IF i = m THEN ReadLine(g[m - 1], lines[m]) ELSE g[i]]
  <2>2. m \in Nat /\ m >= 1
    BY <1>0
  <2>3. \A i \in 0 .. m : i # m => i \in 0 .. (m - 1)
    BY <2>2
  <2>4. \A i \in 0 .. (m - 1) : g[i] = IF i = 0 THEN << >> ELSE ReadLine(g[i - 1], lines[i])
    BY <2>1
  <2>5. \A i \in 0 .. m : i # 0 => h[i - 1] = g[i - 1]
    BY <2>2
  <2>6. \A i \in 0 .. m : h[i] = IF i = 0 THEN << >> ELSE ReadLine(h[i - 1], lines[i])
    <3>1. TAKE i \in 0 .. m
    <3>2. CASE i = m
      BY <2>2, <2>5, <3>2
    <3>3. CASE i # m
      <4>1. h[i] = g[i]
        BY <3>3
      <4>. QED BY <2>3, <2>4, <2>5, <3>3, <4>1
    <3>. QED BY <3>2, <3>3
  <2>7. h = [i \in 0 .. m |-> h[i]]
    OBVIOUS
  <2> HIDE DEF h
  <2>8. Is(h, m)
    BY <2>6, <2>7
  <2>9. m \in 0 .. n
    BY <1>0
  <2> HIDE DEF Is, n
  <2>. QED BY <2>8, <2>9
<1>4. 0 .. n \subseteq T
  <2> HIDE DEF T, n
  <2>. QED BY <1>0, <1>2, <1>3, PositionInduction
<1>5. Is(f, n)
  <2>1. n \in T
    BY <1>0, <1>4
  <2> HIDE DEF n
  <2>. QED BY <2>1
<1> HIDE DEF n
<1>6. \A i \in 0 .. n : f[i] = IF i = 0 THEN << >> ELSE ReadLine(f[i - 1], lines[i])
  <2> HIDE DEF f
  <2>. QED BY <1>5
<1> DEFINE U == { i \in 0 .. n : ReadOK(f[i]) }
<1>7. 0 \in U
  <2> HIDE DEF f
  <2>. QED BY <1>0, <1>1, <1>6
<1>8. ASSUME NEW i \in 1 .. n, i - 1 \in U PROVE i \in U
  <2> HIDE DEF f
  <2>1. f[i] = ReadLine(f[i - 1], lines[i]) /\ i \in 0 .. n
    BY <1>0, <1>6
  <2>2. LineOK(lines[i])
    BY <1>0 DEF LinesOK
  <2>. QED BY <1>8, <2>1, <2>2, ReadLineOK
<1>9. 0 .. n \subseteq U
  <2> HIDE DEF U
  <2>. QED BY <1>0, <1>7, <1>8, PositionInduction
<1>10. ReadOK(f[n])
  BY <1>0, <1>9
<1>11. CASE KeyReadable
  <2>1. Read = f[n]
    BY <1>11 DEF Read, n
  <2>. QED BY <1>10, <2>1
<1>12. CASE ~KeyReadable
  BY <1>1, <1>12 DEF Read
<1>. QED BY <1>11, <1>12

-----------------------------------------------------------------------------
(* The invariant. *)

Ended == {"DONE", "ABORTED"}

Stages == {"none", "compiling", "sealing", "preparing", "working", "adjudicating"} \cup Ended

Seeds ==
  [kind : {"none", "no provider", "digest", "brief"}, of : Nat, contract : Nat,
   verdict : Lessons \cup {None, "INCOMPLETE"} \cup Ended]

Logs ==
  [header : [kind : {"none", "fresh", "followup", "recontract"}, pred : Nat, depth : Nat,
             seed : Seeds],
   stage : Stages, note : BOOLEAN, contract : Nat, t0 : {"unrun", "red", "green", "unknown"},
   verdict : {"none", "sound", "defective"}, lesson : Lessons \cup {None}]

(* What the process of r may have to learn. *)
RecordsOf(r) ==
  { [lesson |-> l, line |-> FromAdjudication(n, r, Context[r], l)] : l \in Lessons, n \in Nat }

Procs ==
  [stage : {"down", "running", "learning", "minting", "learned"}, seed : Seeds,
   hints : SUBSET [lesson : Lessons, occurrences : Nat], successor : BOOLEAN, llm : BOOLEAN,
   record : {None} \cup UNION { RecordsOf(r) : r \in Runs }]

Shape ==
  /\ world \in Scenarios
  /\ log \in [Runs -> Logs] /\ proc \in [Runs -> Procs]
  /\ prompts = [r \in Runs |-> prompts[r]] /\ asked = [r \in Runs |-> asked[r]]
  /\ told \in [Runs -> SUBSET Lessons] /\ minted \in Nat

(* Runs are started in their order. *)
Ordered ==
  \A r \in Runs : Started(r) => r <= world.runs /\ \A q \in Runs : q < r => Started(q)

(* The runs that were told a lesson. *)
Tellers(lesson) == { q \in Runs : lesson \in told[q] }

(* Hints that no more runs stand behind than there are. *)
HintsOK(hints) ==
  \A hint \in hints : hint.occurrences \in Nat /\ hint.occurrences <= Cardinality(Tellers(hint.lesson))

(* What a bar did before the first turn is known once it was prepared, and  *)
(* a repair's was then compared, or what kept it from that was said.        *)
BarOK(l, shown) ==
  /\ l.stage \in {"none", "compiling", "sealing", "preparing"} => l.t0 = "unrun"
  /\ l.header.kind = "recontract" /\ l.stage \in {"working", "adjudicating"} =>
       /\ l.t0 = "green" => shown \in {l.header.seed, NoProvider}
       /\ l.t0 = "unknown" => shown = Unexecuted

(* Whatever happened to a run, it holds what it owes its predecessor. *)
RunOK(r) ==
  /\ ~Started(r) => log[r] = NoLog /\ proc[r] = Down /\ prompts[r] = {} /\ told[r] = {}
  /\ proc[r].stage # "down" =>
       /\ log[r].stage \notin {"none"} \cup Ended
       /\ proc[r].seed = log[r].header.seed
       /\ proc[r].successor = (log[r].header.kind = "recontract")
       /\ HintsOK(proc[r].hints)
  /\ proc[r].stage \in {"learning", "minting", "learned"} =>
       /\ log[r].stage = "adjudicating"
       /\ proc[r].record \in RecordsOf(r) /\ proc[r].record.lesson \in told[r]
  /\ \A prompt \in prompts[r] : prompt.seed = log[r].header.seed /\ HintsOK(prompt.hints)
  /\ BarOK(log[r], asked[r])

(* A link of a chain: its predecessor is over, condemned, and as it was. *)
LinkOK(r) ==
  LET h == log[r].header
      p == h.pred
  IN  /\ h.kind # "recontract" => h.depth = 0
      /\ h.kind = "recontract" =>
           /\ p \in Runs /\ p < r
           /\ log[p].stage = "ABORTED" /\ log[p].verdict = "defective"
           /\ h.seed = RecontractSeed(p)
           /\ h.depth = log[p].header.depth + 1 /\ h.depth <= MaxRecontracts

LineageInv ==
  /\ Shape
  /\ Ordered
  /\ LinesOK
  /\ \A r \in Runs : RunOK(r) /\ LinkOK(r)

-----------------------------------------------------------------------------
(* Counting. *)

(* Finitely many runs were told anything. *)
LEMMA TellersFinite ==
  ASSUME LineageInv, NEW lesson
  PROVE  IsFiniteSet(Tellers(lesson))
<1>1. world.runs \in Nat
  BY LineageAssumption DEF LineageInv, Shape
<1>2. ASSUME NEW q \in Tellers(lesson) PROVE q \in Nat /\ q <= world.runs
  <2>1. q \in Runs /\ told[q] # {}
    BY DEF Tellers
  <2>2. Started(q)
    BY <2>1 DEF LineageInv, RunOK
  <2>. QED BY <2>1, <2>2, LineageAssumption DEF LineageInv, Ordered
<1>3. Tellers(lesson) \in SUBSET Nat
  BY <1>2
<1>. QED BY <1>1, <1>2, <1>3, FS_BoundedSetOfNaturals

(* What is read of the corpus now is no more than the runs were told. *)
LEMMA HintsAreTold ==
  ASSUME LineageInv
  PROVE  HintsOK(Hints) /\ Hints \subseteq [lesson : Lessons, occurrences : Nat]
<1> DEFINE read == Read
           relevant == { i \in DOMAIN read : Relevant(read[i]) }
           of(lesson) == { i \in relevant : read[i].lesson = lesson }
<1>1. ReadOK(read)
  BY ReadIsGenuine DEF LineageInv
<1>2. ASSUME NEW lesson
      PROVE  /\ IsFiniteSet(of(lesson))
             /\ Cardinality(of(lesson)) \in Nat
             /\ Cardinality(of(lesson)) <= Cardinality(Tellers(lesson))
  <2> DEFINE f == [i \in of(lesson) |-> read[i].bar]
  <2> HIDE DEF read
  <2>1. \A i \in of(lesson) : i \in DOMAIN read /\ read[i].lesson = lesson
    OBVIOUS
  <2> HIDE DEF of
  <2>2. \A i \in of(lesson) : read[i].bar \in Tellers(lesson)
    BY <1>1, <2>1 DEF ReadOK, Genuine, Tellers
  <2>3. \A i, j \in of(lesson) : read[i].bar = read[j].bar => i = j
    BY <1>1, <2>1 DEF ReadOK
  <2>4. f \in Injection(of(lesson), Tellers(lesson))
    BY <2>2, <2>3 DEF Injection, IsInjective
  <2>5. IsFiniteSet(Tellers(lesson))
    BY TellersFinite
  <2> HIDE DEF f
  <2>6. IsFiniteSet(of(lesson)) /\ Cardinality(of(lesson)) <= Cardinality(Tellers(lesson))
    BY <2>4, <2>5, FS_Injection
  <2>. QED BY <2>6, FS_CardinalityType
<1>3. ASSUME NEW hint \in Hints
      PROVE  /\ hint.occurrences \in Nat
             /\ hint.occurrences <= Cardinality(Tellers(hint.lesson))
             /\ hint \in [lesson : Lessons, occurrences : Nat]
  <2>1. PICK b \in Buckets : hint = [lesson |-> b.lesson, occurrences |-> b.occurrences]
    BY DEF Hints
  <2>2. PICK i \in relevant : /\ b.lesson = read[i].lesson
                              /\ b.occurrences = Cardinality(of(b.lesson))
    <3>1. PICK l \in { read[i].lesson : i \in relevant } :
            b = [lesson |-> l, occurrences |-> Cardinality(of(l)),
                 score |-> Max({ Score(read[i]) : i \in of(l) }),
                 recent |-> Max({ read[i].nonce : i \in of(l) })]
      BY <2>1 DEF Buckets
    <3>. QED BY <3>1
  <2> HIDE DEF of
  <2>3. i \in DOMAIN read
    BY <2>2
  <2>4. b.lesson \in Lessons
    BY <1>1, <2>2, <2>3 DEF ReadOK, Genuine, LineageInv, Shape
  <2>. QED BY <1>2, <2>1, <2>2, <2>4
<1>. QED BY <1>3 DEF HintsOK

-----------------------------------------------------------------------------
(* The invariant holds at the beginning, *)

LEMMA SeedTypes == NoSeed \in Seeds /\ NoProvider \in Seeds /\ NoLog \in Logs /\ Down \in Procs
<1>1. NoSeed \in Seeds
  BY DEF NoSeed, Seeds
<1>2. NoProvider \in Seeds
  BY <1>1 DEF NoProvider, Seeds
<1>3. NoLog \in Logs
  BY <1>1 DEF NoLog, Logs, Header, Stages
<1>4. Down \in Procs
  BY <1>1 DEF Down, Procs
<1>. QED BY <1>1, <1>2, <1>3, <1>4

LEMMA LineageInit == Init => LineageInv
<1>1. SUFFICES ASSUME Init PROVE LineageInv
  OBVIOUS
<1>2. Shape
  <2>1. /\ log \in [Runs -> Logs] /\ proc \in [Runs -> Procs]
        /\ told \in [Runs -> SUBSET Lessons] /\ minted \in Nat
    BY <1>1, SeedTypes DEF Init
  <2>. QED BY <1>1, <2>1 DEF Init, Shape
<1>3. LinesOK
  BY <1>1, EmptySequence, SequenceShape DEF Init, InitCorpus, LinesOK
<1>4. ASSUME NEW r \in Runs
      PROVE  RunOK(r) /\ LinkOK(r) /\ ~Started(r)
  <2>1. log[r] = NoLog /\ proc[r] = Down /\ prompts[r] = {} /\ told[r] = {}
    BY <1>1 DEF Init
  <2>2. BarOK(log[r], asked[r])
    BY <2>1 DEF BarOK, NoLog, Header
  <2>. QED BY <2>1, <2>2 DEF RunOK, LinkOK, Started, NoLog, Down, Header
<1>. QED BY <1>2, <1>3, <1>4 DEF LineageInv, Ordered

-----------------------------------------------------------------------------
(* and every step keeps it. *)

(* Nothing is ever unlearned, so that what was true of a hint stays true, *)
LEMMA HintsStay ==
  ASSUME LineageInv, Shape', \A q \in Runs : told[q] \subseteq told'[q],
         \A q \in Runs : told'[q] # {} => q <= world.runs,
         NEW hints, HintsOK(hints)
  PROVE  HintsOK(hints)'
<1>1. SUFFICES ASSUME NEW hint \in hints
               PROVE  /\ hint.occurrences \in Nat
                      /\ hint.occurrences <= Cardinality(Tellers(hint.lesson)')
  BY DEF HintsOK
<1> DEFINE S == Tellers(hint.lesson)
           T == Tellers(hint.lesson)'
<1>2. hint.occurrences \in Nat /\ hint.occurrences <= Cardinality(S)
  BY DEF HintsOK
<1>3. S \subseteq T
  BY DEF Tellers
<1>4. IsFiniteSet(T)
  <2>1. world.runs \in Nat
    BY LineageAssumption DEF LineageInv, Shape
  <2>2. T \in SUBSET Nat /\ \A q \in T : q <= world.runs
    BY LineageAssumption DEF Tellers
  <2> HIDE DEF T
  <2>. QED BY <2>1, <2>2, FS_BoundedSetOfNaturals
<1> HIDE DEF S, T
<1>5. IsFiniteSet(S) /\ Cardinality(S) <= Cardinality(T)
  BY <1>3, <1>4, FS_Subset
<1>6. Cardinality(S) \in Nat /\ Cardinality(T) \in Nat
  BY <1>4, <1>5, FS_CardinalityType
<1>. QED BY <1>2, <1>5, <1>6 DEF S, T

(* and a line that was genuine is. *)
LEMMA LinesStay ==
  ASSUME LinesOK, UNCHANGED << lines, open >>, \A q \in Runs : told[q] \subseteq told'[q]
  PROVE  LinesOK'
<1>1. \A i \in DOMAIN lines : LineOK(lines[i]) => LineOK(lines[i])'
  BY DEF LineOK, Genuine
<1>. QED BY <1>1 DEF LinesOK

(***************************************************************************)
(* A step of one run: it keeps what holds of the run, and touches neither  *)
(* the other runs nor, once it is over, its own log.                       *)
(***************************************************************************)
LEMMA StepOfRun ==
  ASSUME LineageInv, NEW r \in Runs, Shape', LinesOK', UNCHANGED world,
         \A q \in Runs \ {r} : /\ log'[q] = log[q] /\ proc'[q] = proc[q]
                               /\ prompts'[q] = prompts[q] /\ asked'[q] = asked[q]
                               /\ told'[q] = told[q],
         told[r] \subseteq told'[r],
         log[r].stage \in Ended => log'[r] = log[r],
         Started(r)',
         Started(r) \/ (r <= world.runs /\ \A q \in Runs : q < r => Started(q)),
         (\A hints : HintsOK(hints) => HintsOK(hints)') => RunOK(r)',
         (\A p \in Runs : p < r /\ log[p].stage \in Ended => log'[p] = log[p]) => LinkOK(r)'
  PROVE  LineageInv'
<1>1. \A q \in Runs : Started(q) => Started(q)'
  BY DEF Started
<1>2. \A q \in Runs \ {r} : Started(q)' => Started(q)
  BY DEF Started
<1>3. Ordered'
  BY <1>1, <1>2 DEF LineageInv, Ordered
<1>4. \A q \in Runs : told[q] \subseteq told'[q]
  OBVIOUS
<1>5. \A q \in Runs : told'[q] # {} => q <= world.runs
  <2>1. \A q \in Runs : told[q] # {} => Started(q)
    BY DEF LineageInv, RunOK
  <2>2. \A q \in Runs : Started(q) => q <= world.runs
    BY DEF LineageInv, Ordered
  <2>. QED BY <2>1, <2>2 DEF LineageInv, Ordered
<1>6. ASSUME NEW hints, HintsOK(hints) PROVE HintsOK(hints)'
  BY <1>4, <1>5, <1>6, HintsStay
<1>7. \A p \in Runs : log[p].stage \in Ended => log'[p] = log[p]
  OBVIOUS
<1>8. RunOK(r)' /\ LinkOK(r)'
  BY <1>6, <1>7
<1>9. ASSUME NEW q \in Runs \ {r} PROVE RunOK(q)'
  <2>1. RunOK(q)
    BY DEF LineageInv
  <2>2. Started(q)' <=> Started(q)
    BY <1>1, <1>2
  <2>. QED BY <1>6, <2>1, <2>2 DEF RunOK
<1>10. ASSUME NEW q \in Runs \ {r} PROVE LinkOK(q)'
  <2>1. LinkOK(q) /\ log'[q] = log[q]
    BY DEF LineageInv
  <2>2. CASE log[q].header.kind = "recontract"
    <3> DEFINE p == log[q].header.pred
    <3>1. p \in Runs /\ log[p].stage = "ABORTED"
      BY <2>1, <2>2 DEF LinkOK
    <3>2. log'[p] = log[p]
      BY <1>7, <3>1 DEF Ended
    <3>3. RecontractSeed(p)' = RecontractSeed(p)
      BY <3>2 DEF RecontractSeed
    <3>. QED BY <2>1, <2>2, <3>1, <3>2, <3>3 DEF LinkOK
  <2>3. CASE log[q].header.kind # "recontract"
    BY <2>1, <2>3 DEF LinkOK
  <2>. QED BY <2>2, <2>3
<1>. QED BY <1>3, <1>8, <1>9, <1>10 DEF LineageInv

(* The header of a run that was begun is not written again. *)
LEMMA LinkStays ==
  ASSUME LineageInv, NEW r \in Runs, log'[r].header = log[r].header,
         \A p \in Runs : p < r /\ log[p].stage \in Ended => log'[p] = log[p]
  PROVE  LinkOK(r)'
<1>1. LinkOK(r)
  BY DEF LineageInv
<1>2. CASE log[r].header.kind = "recontract"
  <2> DEFINE p == log[r].header.pred
  <2>1. p \in Runs /\ p < r /\ log[p].stage = "ABORTED"
    BY <1>1, <1>2 DEF LinkOK
  <2>2. log'[p] = log[p]
    BY <2>1 DEF Ended
  <2>3. RecontractSeed(p)' = RecontractSeed(p)
    BY <2>2 DEF RecontractSeed
  <2>. QED BY <1>1, <1>2, <2>1, <2>2, <2>3 DEF LinkOK
<1>3. CASE log[r].header.kind # "recontract"
  BY <1>1, <1>3 DEF LinkOK
<1>. QED BY <1>2, <1>3

(* A process is composed of what the header and the corpus say. *)
LEMMA Composed ==
  ASSUME LineageInv, NEW r \in Runs, NEW seed \in Seeds, NEW successor \in BOOLEAN,
         Launch(r, "running", seed, successor)
  PROVE  /\ proc' \in [Runs -> Procs]
         /\ \A q \in Runs \ {r} : proc'[q] = proc[q]
         /\ proc'[r].stage = "running" /\ proc'[r].seed = seed
         /\ proc'[r].successor = successor /\ proc'[r].hints = Hints
<1>1. PICK llm \in BOOLEAN :
        proc' = [proc EXCEPT ![r] = [Down EXCEPT !.stage = "running", !.seed = seed, !.hints = Hints,
                                                 !.successor = successor, !.llm = llm]]
  BY DEF Launch
<1> DEFINE d == [Down EXCEPT !.stage = "running", !.seed = seed, !.hints = Hints,
                             !.successor = successor, !.llm = llm]
<1>2. Down \in Procs /\ Hints \in SUBSET [lesson : Lessons, occurrences : Nat]
  BY SeedTypes, HintsAreTold
<1>3. /\ d \in Procs /\ d.stage = "running" /\ d.seed = seed /\ d.successor = successor
      /\ d.hints = Hints
  BY <1>2 DEF Procs
<1>4. proc \in [Runs -> Procs]
  BY DEF LineageInv, Shape
<1> HIDE DEF d
<1>5. proc' = [proc EXCEPT ![r] = d]
  BY <1>1 DEF d
<1>6. /\ proc'[r] = d /\ proc' \in [Runs -> Procs]
      /\ \A q \in Runs \ {r} : proc'[q] = proc[q]
  BY <1>3, <1>4, <1>5
<1>7. /\ proc'[r].stage = "running" /\ proc'[r].seed = seed
      /\ proc'[r].successor = successor /\ proc'[r].hints = Hints
  BY <1>3, <1>6, Zenon
<1>. QED BY <1>6, <1>7

(* A run begins with a header whose link, if it is one, is sound. *)
LEMMA BeginKeeps ==
  ASSUME LineageInv, NEW r \in Runs, NEW header, Begin(r, header),
         header \in [kind : {"fresh", "followup", "recontract"}, pred : Nat, depth : Nat, seed : Seeds],
         header.kind # "recontract" => header.depth = 0,
         header.kind = "recontract" =>
           /\ header.pred \in Runs /\ header.pred < r
           /\ log[header.pred].stage = "ABORTED" /\ log[header.pred].verdict = "defective"
           /\ header.seed = RecontractSeed(header.pred)
           /\ header.depth = log[header.pred].header.depth + 1 /\ header.depth <= MaxRecontracts
  PROVE  LineageInv'
<1> DEFINE e == [NoLog EXCEPT !.header = header, !.stage = "compiling"]
<1>1. /\ ~Started(r) /\ r <= world.runs /\ \A q \in Runs : q < r => Started(q)
      /\ log' = [log EXCEPT ![r] = e]
      /\ Launch(r, "running", header.seed, header.kind = "recontract")
      /\ UNCHANGED << corpusVars, world, prompts, told, asked, minted >>
  BY DEF Begin
<1>2. e = [NoLog EXCEPT !.header = header, !.stage = "compiling"]
  OBVIOUS
<1>3. /\ e.header = header /\ e.stage = "compiling" /\ e.t0 = "unrun" /\ e \in Logs
  <2>1. NoLog \in Logs /\ NoLog.t0 = "unrun"
    BY SeedTypes DEF NoLog
  <2>2. header \in [kind : {"none", "fresh", "followup", "recontract"}, pred : Nat, depth : Nat,
                    seed : Seeds]
    OBVIOUS
  <2>. QED BY <2>1, <2>2 DEF Logs, Stages
<1> HIDE DEF e
<1>4. /\ log \in [Runs -> Logs] /\ prompts[r] = {} /\ told[r] = {}
  BY <1>1 DEF LineageInv, Shape, RunOK
<1>5. /\ log' \in [Runs -> Logs] /\ log'[r] = e /\ \A q \in Runs \ {r} : log'[q] = log[q]
  BY <1>1, <1>3, <1>4
<1>6. /\ proc' \in [Runs -> Procs]
      /\ \A q \in Runs \ {r} : proc'[q] = proc[q]
      /\ proc'[r].stage = "running" /\ proc'[r].seed = header.seed
      /\ proc'[r].successor = (header.kind = "recontract") /\ proc'[r].hints = Hints
  <2> DEFINE seed == header.seed
             repairs == header.kind = "recontract"
  <2>1. seed \in Seeds
    OBVIOUS
  <2>2. repairs \in BOOLEAN
    OBVIOUS
  <2>3. Launch(r, "running", seed, repairs)
    BY <1>1
  <2> HIDE DEF seed, repairs
  <2>4. /\ proc' \in [Runs -> Procs]
        /\ \A q \in Runs \ {r} : proc'[q] = proc[q]
        /\ proc'[r].stage = "running" /\ proc'[r].seed = seed
        /\ proc'[r].successor = repairs /\ proc'[r].hints = Hints
    BY <2>1, <2>2, <2>3, Composed
  <2>. QED BY <2>4 DEF seed, repairs
<1>7. Shape'
  BY <1>1, <1>5, <1>6 DEF LineageInv, Shape
<1>8. LinesOK'
  BY <1>1, LinesStay DEF LineageInv, corpusVars
<1>9. log[r].stage \notin Ended
  BY <1>1 DEF Started, Ended
<1>10. Started(r)'
  BY <1>3, <1>5 DEF Started
<1>11. HintsOK(Hints)
  BY HintsAreTold
<1>12. ASSUME \A hints : HintsOK(hints) => HintsOK(hints)' PROVE RunOK(r)'
  <2>1. HintsOK(proc[r].hints)'
    <3>1. PICK h : h = Hints
      OBVIOUS
    <3>2. HintsOK(h)'
      BY <1>11, <1>12, <3>1
    <3>. QED BY <1>6, <3>1, <3>2
  <2>2. BarOK(log[r], asked[r])'
    BY <1>3, <1>5 DEF BarOK
  <2>. QED BY <1>1, <1>3, <1>4, <1>5, <1>6, <1>10, <2>1, <2>2 DEF RunOK, Ended
<1>13. LinkOK(r)'
  <2>1. CASE header.kind = "recontract"
    <3>1. log'[header.pred] = log[header.pred]
      BY <1>5, <2>1, LineageAssumption
    <3>2. RecontractSeed(header.pred)' = RecontractSeed(header.pred)
      BY <3>1 DEF RecontractSeed
    <3>. QED BY <1>3, <1>5, <2>1, <3>1, <3>2 DEF LinkOK
  <2>2. CASE header.kind # "recontract"
    BY <1>3, <1>5, <2>2 DEF LinkOK
  <2>. QED BY <2>1, <2>2
<1>. QED BY <1>1, <1>5, <1>6, <1>7, <1>8, <1>9, <1>10, <1>12, <1>13, StepOfRun

LEMMA FreshKeeps == ASSUME LineageInv, NEW r \in Runs, Fresh(r) PROVE LineageInv'
<1>1. Begin(r, Header("fresh", 0, 0, NoSeed))
  BY DEF Fresh
<1>2. /\ Header("fresh", 0, 0, NoSeed).kind = "fresh" /\ Header("fresh", 0, 0, NoSeed).depth = 0
      /\ Header("fresh", 0, 0, NoSeed)
           \in [kind : {"fresh", "followup", "recontract"}, pred : Nat, depth : Nat, seed : Seeds]
  BY SeedTypes DEF Header
<1>. QED BY <1>1, <1>2, BeginKeeps

LEMMA FollowUpKeeps ==
  ASSUME LineageInv, NEW r \in Runs, NEW p \in Runs, FollowUp(r, p) PROVE LineageInv'
<1> DEFINE h == Header("followup", p, 0, CompactRun(p))
<1>1. Begin(r, h)
  BY DEF FollowUp
<1>2. CompactRun(p) \in Seeds
  <2>1. log[p].contract \in Nat /\ p \in Nat
    BY LineageAssumption DEF LineageInv, Shape, Logs
  <2>. QED BY <2>1 DEF CompactRun, Status, Seeds, Ended
<1>3. /\ h.kind = "followup" /\ h.depth = 0
      /\ h \in [kind : {"fresh", "followup", "recontract"}, pred : Nat, depth : Nat, seed : Seeds]
  BY <1>2, LineageAssumption DEF Header
<1> HIDE DEF h
<1>. QED BY <1>1, <1>3, BeginKeeps

LEMMA RecontractKeeps ==
  ASSUME LineageInv, NEW r \in Runs, NEW p \in Runs, Recontract(r, p) PROVE LineageInv'
<1> DEFINE h == Header("recontract", p, Depth(p), RecontractSeed(p))
<1>1. Begin(r, h) /\ PlanRecontract(p)
  BY DEF Recontract
<1>2. log[p] \in Logs /\ p \in Nat /\ r \in Nat
  BY LineageAssumption DEF LineageInv, Shape
<1>3. log[p].stage = "ABORTED" /\ log[p].verdict = "defective" /\ Depth(p) <= MaxRecontracts
  BY <1>1 DEF PlanRecontract, Status
<1>4. RecontractSeed(p) \in Seeds
  BY <1>2 DEF RecontractSeed, Seeds, Logs
<1>5. Depth(p) = log[p].header.depth + 1 /\ Depth(p) \in Nat
  BY <1>2 DEF Depth, Logs
<1>6. p < r
  <2>1. Started(p) /\ ~Started(r)
    BY <1>1, <1>3 DEF Started, Begin
  <2>2. ~(r < p) /\ r # p
    BY <2>1 DEF LineageInv, Ordered
  <2>. QED BY <1>2, <2>2
<1>7. /\ h.kind = "recontract" /\ h.pred = p /\ h.depth = Depth(p) /\ h.seed = RecontractSeed(p)
      /\ h \in [kind : {"fresh", "followup", "recontract"}, pred : Nat, depth : Nat, seed : Seeds]
  BY <1>2, <1>4, <1>5 DEF Header
<1> HIDE DEF h
<1>. QED BY <1>1, <1>3, <1>5, <1>6, <1>7, BeginKeeps

(* What a live process has, beside its log. *)
LEMMA AtRun ==
  ASSUME LineageInv, NEW r \in Runs, NEW stage, At(r, stage)
  PROVE  /\ log[r] \in Logs /\ log[r].stage = stage /\ proc[r] \in Procs /\ RunOK(r)
         /\ proc[r].stage = "running" /\ stage \notin {"none"} \cup Ended
         /\ proc[r].seed = log[r].header.seed /\ HintsOK(proc[r].hints)
         /\ proc[r].successor = (log[r].header.kind = "recontract")
<1>1. log[r] \in Logs /\ proc[r] \in Procs /\ RunOK(r)
  BY DEF LineageInv, Shape
<1>. QED BY <1>1 DEF At, RunOK

LEMMA ResumeKeeps == ASSUME LineageInv, NEW r \in Runs, Resume(r) PROVE LineageInv'
<1>1. /\ proc[r].stage = "down" /\ log[r].stage \notin {"none", "DONE", "ABORTED"}
      /\ Launch(r, "running", log[r].header.seed, log[r].header.kind = "recontract")
      /\ UNCHANGED << corpusVars, world, prompts, told, asked, minted >>
  BY DEF Resume, ResumeAuthoringSeed, Adopted
<1>2. log \in [Runs -> Logs] /\ log[r] \in Logs /\ RunOK(r)
  BY DEF LineageInv, Shape
<1>3. /\ log' \in [Runs -> Logs] /\ \A q \in Runs \ {r} : log'[q] = log[q]
      /\ log'[r].header = log[r].header /\ BarOK(log'[r], asked[r])
      /\ log'[r].stage \notin {"none"} \cup Ended
  <2>1. CASE log' = log
    BY <1>1, <1>2, <2>1 DEF Ended, RunOK
  <2>2. CASE log[r].stage = "adjudicating" /\ log' = [log EXCEPT ![r].stage = "working"]
    BY <1>2, <2>2 DEF Logs, Stages, Ended, RunOK, BarOK
  <2>. QED BY <2>1, <2>2 DEF Resume
<1>4. /\ proc' \in [Runs -> Procs]
      /\ \A q \in Runs \ {r} : proc'[q] = proc[q]
      /\ proc'[r].stage = "running" /\ proc'[r].seed = log[r].header.seed
      /\ proc'[r].successor = (log[r].header.kind = "recontract") /\ proc'[r].hints = Hints
  <2>1. log[r].header.seed \in Seeds
    BY <1>2 DEF Logs
  <2>. QED BY <1>1, <2>1, Composed
<1>5. Shape'
  BY <1>1, <1>3, <1>4 DEF LineageInv, Shape
<1>6. LinesOK'
  BY <1>1, LinesStay DEF LineageInv, corpusVars
<1>7. Started(r) /\ Started(r)' /\ log[r].stage \notin Ended
  BY <1>1, <1>3 DEF Started, Ended
<1>8. ASSUME \A hints : HintsOK(hints) => HintsOK(hints)' PROVE RunOK(r)'
  <2>1. HintsOK(Hints)
    BY HintsAreTold
  <2>2. HintsOK(proc[r].hints)'
    <3>1. PICK h : h = Hints
      OBVIOUS
    <3>2. HintsOK(h)'
      BY <1>8, <2>1, <3>1
    <3>. QED BY <1>4, <3>1, <3>2
  <2>3. \A prompt \in prompts'[r] : prompt.seed = log'[r].header.seed /\ HintsOK(prompt.hints)'
    BY <1>1, <1>2, <1>3, <1>8 DEF RunOK
  <2>. QED BY <1>1, <1>2, <1>3, <1>4, <1>7, <2>2, <2>3 DEF RunOK
<1>9. ASSUME \A p \in Runs : p < r /\ log[p].stage \in Ended => log'[p] = log[p] PROVE LinkOK(r)'
  BY <1>3, <1>9, LinkStays
<1>. QED BY <1>1, <1>3, <1>4, <1>5, <1>6, <1>7, <1>8, <1>9, StepOfRun

(***************************************************************************)
(* A step of a live run that leaves the corpus and what the run was told   *)
(* alone: what is left to show is about its stage, its bar and its prompts.*)
(***************************************************************************)
LEMMA LiveStep ==
  ASSUME LineageInv, NEW r \in Runs, log[r].stage \notin {"none"} \cup Ended,
         UNCHANGED << lines, open, world, told, minted >>,
         \A q \in Runs \ {r} : /\ log'[q] = log[q] /\ proc'[q] = proc[q]
                               /\ prompts'[q] = prompts[q] /\ asked'[q] = asked[q],
         log' \in [Runs -> Logs], proc' \in [Runs -> Procs],
         prompts' = [q \in Runs |-> prompts'[q]], asked' = [q \in Runs |-> asked'[q]],
         log'[r].header = log[r].header, log'[r].stage # "none",
         proc'[r].stage # "down" =>
           /\ log'[r].stage \notin Ended
           /\ proc'[r].seed = proc[r].seed /\ proc'[r].successor = proc[r].successor
           /\ proc'[r].hints = proc[r].hints /\ proc[r].stage # "down",
         proc'[r].stage \in {"learning", "minting", "learned"} =>
           /\ proc[r].stage \in {"learning", "minting", "learned"}
           /\ proc'[r].record = proc[r].record /\ log'[r].stage = log[r].stage,
         \A prompt \in prompts'[r] :
           prompt \in prompts[r]
             \/ (proc[r].stage # "down" /\ prompt.seed = proc[r].seed /\ prompt.hints = proc[r].hints),
         BarOK(log'[r], asked'[r])
  PROVE  LineageInv'
<1>1. RunOK(r)
  BY DEF LineageInv
<1>2. Shape'
  BY DEF LineageInv, Shape
<1>3. LinesOK'
  BY LinesStay DEF LineageInv
<1>4. Started(r) /\ Started(r)' /\ log[r].stage \notin Ended
  BY DEF Started
<1>5. ASSUME \A hints : HintsOK(hints) => HintsOK(hints)' PROVE RunOK(r)'
  <2>1. proc'[r].stage # "down" => HintsOK(proc[r].hints)'
    <3>1. PICK h : h = proc[r].hints
      OBVIOUS
    <3>2. proc'[r].stage # "down" => HintsOK(h)'
      BY <1>1, <1>5, <3>1 DEF RunOK
    <3>. QED BY <3>1, <3>2
  <2>2. \A prompt \in prompts'[r] : prompt.seed = log'[r].header.seed /\ HintsOK(prompt.hints)'
    <3>1. TAKE prompt \in prompts'[r]
    <3>2. prompt.seed = log[r].header.seed /\ HintsOK(prompt.hints)
      BY <1>1 DEF RunOK
    <3>. QED BY <1>5, <3>2
  <2>3. proc'[r].stage # "down" =>
          /\ log'[r].stage \notin {"none"} \cup Ended
          /\ proc'[r].seed = log'[r].header.seed
          /\ proc'[r].successor = (log'[r].header.kind = "recontract")
    BY <1>1 DEF RunOK
  <2>4. proc'[r].stage \in {"learning", "minting", "learned"} =>
          /\ log'[r].stage = "adjudicating"
          /\ proc'[r].record \in RecordsOf(r) /\ proc'[r].record.lesson \in told'[r]
    BY <1>1 DEF RunOK
  <2>5. RecordsOf(r)' = RecordsOf(r)
    BY DEF RecordsOf
  <2>. QED BY <1>4, <2>1, <2>2, <2>3, <2>4, <2>5 DEF RunOK
<1>6. ASSUME \A p \in Runs : p < r /\ log[p].stage \in Ended => log'[p] = log[p] PROVE LinkOK(r)'
  BY <1>6, LinkStays
<1>. QED BY <1>2, <1>3, <1>4, <1>5, <1>6, StepOfRun

LEMMA CompileKeeps == ASSUME LineageInv, NEW r \in Runs, Compile(r) PROVE LineageInv'
<1>1. At(r, "compiling")
  BY DEF Compile
<1>2. log \in [Runs -> Logs] /\ proc \in [Runs -> Procs] /\ prompts = [q \in Runs |-> prompts[q]]
  BY DEF LineageInv, Shape
<1>3. /\ log' \in [Runs -> Logs] /\ \A q \in Runs \ {r} : log'[q] = log[q]
      /\ log'[r].stage = "sealing" /\ log'[r].header = log[r].header
      /\ log'[r].t0 = log[r].t0
  BY <1>2 DEF Compile, Logs, Stages
<1>4. /\ prompts' = [q \in Runs |-> prompts'[q]]
      /\ \A q \in Runs \ {r} : prompts'[q] = prompts[q]
      /\ prompts'[r] = prompts[r] \cup {CombineFeedback(r)}
  BY <1>2 DEF Compile
<1>5. UNCHANGED << lines, open, world, told, minted, proc, asked >>
  BY DEF Compile, UnchangedByRun, corpusVars
<1>6. asked' = [q \in Runs |-> asked'[q]]
  BY <1>5 DEF LineageInv, Shape
<1>7. \A prompt \in prompts'[r] : prompt \in prompts[r]
        \/ (proc[r].stage # "down" /\ prompt.seed = proc[r].seed /\ prompt.hints = proc[r].hints)
  BY <1>1, <1>4, AtRun DEF CombineFeedback
<1>8. log[r].stage = "compiling" /\ proc[r].stage = "running"
  BY <1>1 DEF At
<1>9. BarOK(log'[r], asked'[r])
  BY <1>3, <1>8 DEF LineageInv, RunOK, BarOK
<1>. QED BY <1>2, <1>3, <1>4, <1>5, <1>6, <1>7, <1>8, <1>9, LiveStep DEF Ended

(* Of a run that only moves to another stage, or ends. *)
LEMMA MoveKeeps ==
  ASSUME LineageInv, NEW r \in Runs, NEW stage, At(r, stage), NEW next \in Stages \ {"none"},
         log' \in [Runs -> Logs], \A q \in Runs \ {r} : log'[q] = log[q],
         log'[r].header = log[r].header, log'[r].stage = next, log'[r].t0 = log[r].t0,
         \/ next \notin Ended /\ UNCHANGED proc
         \/ proc' = [proc EXCEPT ![r] = Down],
         next \in {"working", "adjudicating"} =>
           stage \in {"working", "adjudicating"} \/ log[r].t0 = "unrun",
         next \in {"compiling", "sealing", "preparing"} => log[r].t0 = "unrun",
         UNCHANGED << lines, open, world, told, minted, prompts, asked >>
  PROVE  LineageInv'
<1>1. /\ log[r].stage = stage /\ proc[r].stage = "running" /\ RunOK(r)
      /\ stage \notin {"none"} \cup Ended
  BY AtRun
<1>2. proc \in [Runs -> Procs] /\ Down \in Procs /\ Down.stage = "down"
  BY SeedTypes DEF LineageInv, Shape, Down
<1>3. /\ proc' \in [Runs -> Procs] /\ \A q \in Runs \ {r} : proc'[q] = proc[q]
      /\ (proc'[r] = proc[r] /\ next \notin Ended) \/ proc'[r].stage = "down"
  BY <1>2
<1>4. prompts' = [q \in Runs |-> prompts'[q]] /\ asked' = [q \in Runs |-> asked'[q]]
  BY DEF LineageInv, Shape
<1>5. BarOK(log'[r], asked'[r])
  BY <1>1 DEF RunOK, BarOK
<1>. QED BY <1>1, <1>3, <1>4, <1>5, LiveStep

LEMMA StageStep ==
  ASSUME LineageInv, NEW r \in Runs, NEW next \in Stages, log' = [log EXCEPT ![r].stage = next]
  PROVE  /\ log' \in [Runs -> Logs] /\ \A q \in Runs \ {r} : log'[q] = log[q]
         /\ log'[r].header = log[r].header /\ log'[r].stage = next /\ log'[r].t0 = log[r].t0
<1> DEFINE e == [log[r] EXCEPT !.stage = next]
<1>1. log \in [Runs -> Logs]
  BY DEF LineageInv, Shape
<1>2. e \in Logs /\ e.header = log[r].header /\ e.stage = next /\ e.t0 = log[r].t0
  <2>1. log[r] \in Logs
    BY <1>1
  <2>. QED BY <2>1 DEF Logs
<1>3. log' = [log EXCEPT ![r] = e]
  BY <1>1
<1> HIDE DEF e
<1>. QED BY <1>1, <1>2, <1>3

LEMMA StopKeeps ==
  ASSUME LineageInv, NEW r \in Runs, NEW stage, At(r, stage), NEW next \in {"ABORTED", "DONE"},
         log' = [log EXCEPT ![r].stage = next], proc' = [proc EXCEPT ![r] = Down],
         UNCHANGED << lines, open, world, told, minted, prompts, asked >>
  PROVE  LineageInv'
<1>1. next \in Stages \ {"none"}
  BY DEF Stages, Ended
<1>2. next \notin {"working", "adjudicating"} /\ next \notin {"compiling", "sealing", "preparing"}
  OBVIOUS
<1>. QED BY <1>1, <1>2, StageStep, MoveKeeps

LEMMA SealKeeps == ASSUME LineageInv, NEW r \in Runs, Seal(r) PROVE LineageInv'
<1>1. At(r, "sealing") /\ UNCHANGED << lines, open, world, told, minted, prompts, asked >>
  BY DEF Seal, UnchangedByRun, corpusVars
<1>2. log \in [Runs -> Logs]
  BY DEF LineageInv, Shape
<1>0. log[r].t0 = "unrun"
  BY <1>1, AtRun DEF RunOK, BarOK
<1>3. ASSUME NEW next \in {"preparing", "working"},
             log' = [log EXCEPT ![r].stage = next] /\ UNCHANGED proc
      PROVE  LineageInv'
  <2>1. next \in Stages \ {"none"} /\ next \notin Ended
    BY DEF Stages, Ended
  <2>. QED BY <1>0, <1>1, <1>3, <2>1, StageStep, MoveKeeps
<1>4. CASE log' = [log EXCEPT ![r].stage = "compiling", ![r].note = TRUE] /\ UNCHANGED proc
  <2> DEFINE e == [log[r] EXCEPT !.stage = "compiling", !.note = TRUE]
  <2>0. /\ e \in Logs /\ e.header = log[r].header /\ e.stage = "compiling"
        /\ e.t0 = log[r].t0
    <3>1. log[r] \in Logs /\ "compiling" \in Stages
      BY <1>2 DEF Stages
    <3>. QED BY <3>1 DEF Logs
  <2>9. log' = [log EXCEPT ![r] = e]
    BY <1>2, <1>4
  <2> HIDE DEF e
  <2>1. /\ log' \in [Runs -> Logs] /\ \A q \in Runs \ {r} : log'[q] = log[q]
        /\ log'[r].header = log[r].header /\ log'[r].stage = "compiling"
        /\ log'[r].t0 = log[r].t0
    BY <1>2, <2>0, <2>9
  <2>. QED BY <1>0, <1>1, <1>4, <2>1, MoveKeeps DEF Stages, Ended
<1>5. CASE log' = [log EXCEPT ![r].stage = "ABORTED"] /\ proc' = [proc EXCEPT ![r] = Down]
  BY <1>1, <1>5, StopKeeps
<1>. QED BY <1>3, <1>4, <1>5 DEF Seal

LEMMA LoopKeeps == ASSUME LineageInv, NEW r \in Runs, Loop(r) PROVE LineageInv'
<1>1. At(r, "working") /\ UNCHANGED << lines, open, world, told, minted, prompts, asked >>
  BY DEF Loop, UnchangedByRun, corpusVars
<1>3. CASE log' = [log EXCEPT ![r].stage = "adjudicating"] /\ UNCHANGED proc
  <2>1. "adjudicating" \in Stages \ {"none"} /\ "adjudicating" \notin Ended
    BY DEF Stages, Ended
  <2>2. "working" \in {"working", "adjudicating"}
    OBVIOUS
  <2>. QED BY <1>1, <1>3, <2>1, <2>2, StageStep, MoveKeeps
<1>4. CASE log' = [log EXCEPT ![r].stage = "DONE"] /\ proc' = [proc EXCEPT ![r] = Down]
  BY <1>1, <1>4, StopKeeps
<1>. QED BY <1>3, <1>4 DEF Loop

(* What a prepared bar did is what its control was asked about. *)
LEMMA PrepareKeeps == ASSUME LineageInv, NEW r \in Runs, Prepare(r) PROVE LineageInv'
<1>1. At(r, "preparing") /\ UNCHANGED << lines, open, world, told, minted, prompts >>
  BY DEF Prepare, UnchangedByRun, corpusVars
<1>2. /\ log \in [Runs -> Logs] /\ proc \in [Runs -> Procs] /\ asked = [q \in Runs |-> asked[q]]
      /\ prompts = [q \in Runs |-> prompts[q]]
  BY DEF LineageInv, Shape
<1>3. /\ log[r].stage = "preparing" /\ proc[r].stage = "running" /\ RunOK(r) /\ proc[r] \in Procs
      /\ proc[r].successor = (log[r].header.kind = "recontract") /\ log[r].t0 = "unrun"
  BY <1>1, AtRun DEF RunOK, BarOK
<1>4. ASSUME NEW t0 \in Starts(r), log' = [log EXCEPT ![r].stage = "working", ![r].t0 = t0],
             asked' = [asked EXCEPT ![r] = Control(r, t0)], UNCHANGED proc
      PROVE  LineageInv'
  <2> DEFINE e == [log[r] EXCEPT !.stage = "working", !.t0 = t0]
  <2>0. t0 \in {"unrun", "red", "green", "unknown"}
    BY DEF Starts
  <2>1. /\ e \in Logs /\ e.header = log[r].header /\ e.stage = "working" /\ e.t0 = t0
    <3>1. log[r] \in Logs /\ "working" \in Stages
      BY <1>2 DEF Stages
    <3>. QED BY <2>0, <3>1 DEF Logs
  <2>2. log' = [log EXCEPT ![r] = e]
    BY <1>2, <1>4
  <2> HIDE DEF e
  <2>3. /\ log' \in [Runs -> Logs] /\ \A q \in Runs \ {r} : log'[q] = log[q]
        /\ log'[r].header = log[r].header /\ log'[r].stage = "working" /\ log'[r].t0 = t0
    BY <1>2, <2>1, <2>2
  <2>4. /\ asked' = [q \in Runs |-> asked'[q]] /\ \A q \in Runs \ {r} : asked'[q] = asked[q]
        /\ asked'[r] = Control(r, t0)
    BY <1>2, <1>4
  <2>5. BarOK(log'[r], asked'[r])
    BY <1>3, <2>3, <2>4 DEF BarOK, Control
  <2>. QED BY <1>1, <1>2, <1>3, <1>4, <2>3, <2>4, <2>5, LiveStep DEF Ended
<1>5. CASE /\ log' = [log EXCEPT ![r].stage = "ABORTED"]
           /\ proc' = [proc EXCEPT ![r] = Down]
           /\ UNCHANGED asked
  BY <1>1, <1>5, StopKeeps
<1>. QED BY <1>4, <1>5 DEF Prepare

(* A verdict ends the run. *)
LEMMA JudgedKeeps ==
  ASSUME LineageInv, NEW r \in Runs, log[r].stage = "adjudicating",
         NEW verdict \in {"sound", "defective"}, NEW lesson \in Lessons \cup {None},
         Judged(r, verdict, lesson),
         UNCHANGED << lines, open, world, told, minted, prompts, asked >>
  PROVE  LineageInv'
<1>1. log \in [Runs -> Logs] /\ proc \in [Runs -> Procs] /\ Down \in Procs /\ Down.stage = "down"
  BY SeedTypes DEF LineageInv, Shape, Down
<1> DEFINE e == [log[r] EXCEPT !.stage = "ABORTED", !.verdict = verdict, !.lesson = lesson]
<1>2. e \in Logs /\ e.header = log[r].header /\ e.stage = "ABORTED"
  BY <1>1 DEF Logs, Stages, Ended
<1>3. log' = [log EXCEPT ![r] = e]
  BY <1>1 DEF Judged
<1> HIDE DEF e
<1>4. /\ log' \in [Runs -> Logs] /\ \A q \in Runs \ {r} : log'[q] = log[q]
      /\ log'[r].header = log[r].header /\ log'[r].stage = "ABORTED"
  BY <1>1, <1>2, <1>3
<1>5. /\ proc' \in [Runs -> Procs] /\ \A q \in Runs \ {r} : proc'[q] = proc[q]
      /\ proc'[r].stage = "down"
  BY <1>1 DEF Judged
<1>6. prompts' = [q \in Runs |-> prompts'[q]] /\ asked' = [q \in Runs |-> asked'[q]]
  BY DEF LineageInv, Shape
<1>7. log[r].stage \notin {"none"} \cup Ended
  BY DEF Ended
<1>8. BarOK(log'[r], asked'[r])
  BY <1>4 DEF BarOK
<1>. QED BY <1>4, <1>5, <1>6, <1>7, <1>8, LiveStep

LEMMA FindSoundKeeps == ASSUME LineageInv, NEW r \in Runs, FindSound(r) PROVE LineageInv'
<1>1. /\ log[r].stage = "adjudicating" /\ Judged(r, "sound", None)
      /\ UNCHANGED << lines, open, world, told, minted, prompts, asked >>
  BY DEF FindSound, At, UnchangedByRun, corpusVars
<1>. QED BY <1>1, JudgedKeeps

(* A process that learns has one lesson, that the run was told. *)
LEMMA LearningRun ==
  ASSUME LineageInv, NEW r \in Runs, proc[r].stage \in {"learning", "minting", "learned"}
  PROVE  /\ log[r].stage = "adjudicating"
         /\ proc[r].record.lesson \in told[r] /\ proc[r].record.lesson \in Lessons
         /\ proc[r].record.line # None =>
              proc[r].record.line.bar = r /\ proc[r].record.line.lesson \in told[r]
<1>1. /\ log[r].stage = "adjudicating" /\ proc[r].record \in RecordsOf(r)
      /\ proc[r].record.lesson \in told[r]
  BY DEF LineageInv, RunOK
<1>2. PICK l \in Lessons, n \in Nat :
        proc[r].record = [lesson |-> l, line |-> FromAdjudication(n, r, Context[r], l)]
  BY <1>1 DEF RecordsOf
<1>3. proc[r].record.lesson = l
  BY <1>2
<1>4. proc[r].record.line = FromAdjudication(n, r, Context[r], l)
  BY <1>2
<1>5. FromAdjudication(n, r, Context[r], l) # None =>
        /\ FromAdjudication(n, r, Context[r], l).bar = r
        /\ FromAdjudication(n, r, Context[r], l).lesson = l
  BY DEF FromAdjudication
<1>. QED BY <1>1, <1>3, <1>4, <1>5

LEMMA LogVerdictKeeps == ASSUME LineageInv, NEW r \in Runs, LogVerdict(r) PROVE LineageInv'
<1>1. /\ proc[r].stage \in {"learning", "learned"}
      /\ Judged(r, "defective", proc[r].record.lesson)
      /\ UNCHANGED << lines, open, world, told, minted, prompts, asked >>
  BY DEF LogVerdict, UnchangedByRun, corpusVars
<1>2. log[r].stage = "adjudicating" /\ proc[r].record.lesson \in Lessons
  BY <1>1, LearningRun
<1>. QED BY <1>1, <1>2, JudgedKeeps

(* The adjudicator names a lesson; it counts as told from then on. *)
LEMMA CondemnKeeps == ASSUME LineageInv, NEW r \in Runs, Condemn(r) PROVE LineageInv'
<1>1. /\ At(r, "adjudicating") /\ minted' = minted + 1
      /\ UNCHANGED << lines, open, world, log, prompts, asked >>
  BY DEF Condemn, corpusVars
<1>2. PICK lesson \in Lessons :
        /\ told' = [told EXCEPT ![r] = @ \cup {lesson}]
        /\ proc' = [proc EXCEPT
             ![r].stage = "learning",
             ![r].record = [lesson |-> lesson,
                            line |-> FromAdjudication(minted + 1, r, Context[r], lesson)]]
  BY DEF Condemn
<1>3. /\ log \in [Runs -> Logs] /\ proc \in [Runs -> Procs] /\ minted \in Nat
      /\ told \in [Runs -> SUBSET Lessons]
  BY DEF LineageInv, Shape
<1>4. /\ log[r].stage = "adjudicating" /\ proc[r].stage = "running" /\ RunOK(r)
      /\ proc[r].seed = log[r].header.seed /\ HintsOK(proc[r].hints)
      /\ proc[r].successor = (log[r].header.kind = "recontract")
  BY <1>1, AtRun
<1> DEFINE rec == [lesson |-> lesson, line |-> FromAdjudication(minted + 1, r, Context[r], lesson)]
           e   == [proc[r] EXCEPT !.stage = "learning", !.record = rec]
<1>5. rec \in RecordsOf(r) /\ rec.lesson = lesson
  BY <1>3 DEF RecordsOf
<1>6. proc' = [proc EXCEPT ![r] = e]
  BY <1>2, <1>3
<1> HIDE DEF rec
<1>7. /\ e \in Procs /\ e.stage = "learning" /\ e.record = rec /\ e.seed = proc[r].seed
      /\ e.hints = proc[r].hints
  <2>1. rec \in {None} \cup UNION { RecordsOf(q) : q \in Runs }
    BY <1>5
  <2> DEFINE R == {None} \cup UNION { RecordsOf(q) : q \in Runs }
  <2> HIDE DEF R
  <2>2. rec \in R
    BY <2>1 DEF R
  <2>. QED BY <1>3, <2>2 DEF Procs, R
<1>8. e.successor = proc[r].successor
  BY <1>3 DEF Procs
<1> HIDE DEF e
<1>9. /\ proc' \in [Runs -> Procs] /\ \A q \in Runs \ {r} : proc'[q] = proc[q]
      /\ proc'[r] = e
  BY <1>3, <1>6, <1>7
<1>10. /\ told' \in [Runs -> SUBSET Lessons] /\ \A q \in Runs \ {r} : told'[q] = told[q]
       /\ told'[r] = told[r] \cup {lesson}
  BY <1>2, <1>3
<1>11. Shape'
  BY <1>1, <1>3, <1>9, <1>10 DEF LineageInv, Shape
<1>12. LinesOK'
  BY <1>1, <1>10, LinesStay DEF LineageInv
<1>13. Started(r) /\ Started(r)' /\ log[r].stage \notin {"none"} \cup Ended
  BY <1>1, <1>4 DEF Started, Ended
<1>14. ASSUME \A hints : HintsOK(hints) => HintsOK(hints)' PROVE RunOK(r)'
  <2>1. HintsOK(proc[r].hints)'
    <3>1. PICK h : h = proc[r].hints
      OBVIOUS
    <3>2. HintsOK(h)'
      BY <1>4, <1>14, <3>1
    <3>. QED BY <1>7, <1>9, <3>1, <3>2
  <2>2. \A prompt \in prompts'[r] : prompt.seed = log'[r].header.seed /\ HintsOK(prompt.hints)'
    BY <1>1, <1>4, <1>14 DEF RunOK
  <2>3. RecordsOf(r)' = RecordsOf(r)
    BY DEF RecordsOf
  <2>4. proc'[r].successor = (log'[r].header.kind = "recontract")
    BY <1>1, <1>4, <1>8, <1>9
  <2>5. proc'[r].record \in RecordsOf(r) /\ proc'[r].record.lesson \in told'[r]
    BY <1>5, <1>7, <1>9, <1>10
  <2>. QED BY <1>1, <1>4, <1>7, <1>9, <1>13, <2>1, <2>2, <2>3, <2>4, <2>5 DEF RunOK
<1>15. ASSUME \A p \in Runs : p < r /\ log[p].stage \in Ended => log'[p] = log[p] PROVE LinkOK(r)'
  BY <1>1, <1>15, LinkStays
<1>. QED BY <1>1, <1>9, <1>10, <1>11, <1>12, <1>13, <1>14, <1>15, StepOfRun

(* A step of a live process that is learning: nothing but its stage moves, *)
(* and what it writes to the corpus is genuine.                            *)
LEMMA LearnStep ==
  ASSUME LineageInv, NEW r \in Runs, proc[r].stage \in {"learning", "minting", "learned"},
         UNCHANGED << world, log, told, minted, prompts, asked >>, LinesOK',
         \/ \E stage \in {"learning", "minting", "learned"} :
              proc' = [proc EXCEPT ![r].stage = stage]
         \/ proc' = [proc EXCEPT ![r] = Down]
  PROVE  LineageInv'
<1>1. /\ log \in [Runs -> Logs] /\ proc \in [Runs -> Procs] /\ Down \in Procs
      /\ Down.stage = "down" /\ RunOK(r)
  BY SeedTypes DEF LineageInv, Shape, Down
<1>2. /\ proc' \in [Runs -> Procs] /\ \A q \in Runs \ {r} : proc'[q] = proc[q]
      /\ proc'[r].stage # "down" =>
           /\ proc'[r].seed = proc[r].seed /\ proc'[r].hints = proc[r].hints
           /\ proc'[r].record = proc[r].record
  <2>1. CASE proc' = [proc EXCEPT ![r] = Down]
    BY <1>1, <2>1
  <2>2. ASSUME NEW stage \in {"learning", "minting", "learned"},
               proc' = [proc EXCEPT ![r].stage = stage]
        PROVE  /\ proc' \in [Runs -> Procs] /\ \A q \in Runs \ {r} : proc'[q] = proc[q]
               /\ proc'[r].seed = proc[r].seed /\ proc'[r].hints = proc[r].hints
               /\ proc'[r].record = proc[r].record
    BY <1>1, <2>2 DEF Procs
  <2>. QED BY <2>1, <2>2
<1>3. proc'[r].stage # "down" => proc'[r].successor = proc[r].successor
  BY <1>1 DEF Procs
<1>4. log[r].stage = "adjudicating"
  BY LearningRun
<1>5. Shape'
  BY <1>2 DEF LineageInv, Shape
<1>6. Started(r) /\ Started(r)' /\ log[r].stage \notin {"none"} \cup Ended
  BY <1>4 DEF Started, Ended
<1>7. ASSUME \A hints : HintsOK(hints) => HintsOK(hints)' PROVE RunOK(r)'
  <2>1. proc'[r].stage # "down" => HintsOK(proc[r].hints)'
    <3>1. PICK h : h = proc[r].hints
      OBVIOUS
    <3>2. HintsOK(h)'
      BY <1>1, <1>7, <3>1 DEF RunOK
    <3>. QED BY <1>2, <3>1, <3>2
  <2>2. \A prompt \in prompts'[r] : prompt.seed = log'[r].header.seed /\ HintsOK(prompt.hints)'
    BY <1>1, <1>7 DEF RunOK
  <2>3. RecordsOf(r)' = RecordsOf(r)
    BY DEF RecordsOf
  <2>4. proc'[r].stage # "down" =>
          /\ proc'[r].seed = log'[r].header.seed
          /\ proc'[r].successor = (log'[r].header.kind = "recontract")
    BY <1>1, <1>2, <1>3 DEF RunOK
  <2>5. proc'[r].stage \in {"learning", "minting", "learned"} =>
          proc'[r].record \in RecordsOf(r) /\ proc'[r].record.lesson \in told'[r]
    BY <1>1, <1>2 DEF RunOK
  <2>. QED BY <1>1, <1>4, <1>6, <2>1, <2>2, <2>3, <2>4, <2>5 DEF RunOK
<1>8. ASSUME \A p \in Runs : p < r /\ log[p].stage \in Ended => log'[p] = log[p] PROVE LinkOK(r)'
  BY <1>8, LinkStays
<1>. QED BY <1>2, <1>5, <1>6, <1>7, <1>8, StepOfRun

(* A step that touches the corpus only. *)
LEMMA RestStays ==
  ASSUME LineageInv, UNCHANGED << world, log, proc, prompts, told, asked, minted >>, LinesOK'
  PROVE  LineageInv'
<1>1. Shape' /\ Ordered'
  BY DEF LineageInv, Shape, Ordered, Started
<1>2. ASSUME NEW hints, HintsOK(hints) PROVE HintsOK(hints)'
  BY <1>2 DEF HintsOK, Tellers
<1>3. ASSUME NEW r \in Runs PROVE RunOK(r)' /\ LinkOK(r)'
  <2>1. RunOK(r) /\ LinkOK(r)
    BY DEF LineageInv
  <2>2. RecordsOf(r)' = RecordsOf(r)
    BY DEF RecordsOf
  <2>3. RunOK(r)'
    BY <1>2, <2>1, <2>2 DEF RunOK, Started
  <2>4. LinkOK(r)'
    BY <2>1 DEF LinkOK, RecontractSeed
  <2>. QED BY <2>3, <2>4
<1>. QED BY <1>1, <1>3 DEF LineageInv

-----------------------------------------------------------------------------
(* The corpus. *)

(* A line behind the others, or one that swallows the torn line before it. *)
LEMMA AppendedOK ==
  ASSUME LinesOK, NEW line, LineOK(line), lines' = Appended(line), open' \in BOOLEAN,
         UNCHANGED told
  PROVE  LinesOK'
<1>0. \A l : LineOK(l) => LineOK(l)'
  BY DEF LineOK, Genuine
<1>1. CASE open
  <2> DEFINE struck == [lines EXCEPT ![Len(lines)] = Junk]
  <2>1. /\ IsSequence(struck) /\ DOMAIN struck = DOMAIN lines
        /\ \A i \in DOMAIN lines : struck[i] = IF i = Len(lines) THEN Junk ELSE lines[i]
    BY SequenceExcept DEF LinesOK
  <2>2. /\ IsSequence(lines') /\ DOMAIN lines' = DOMAIN lines
        /\ \A i \in DOMAIN lines : lines'[i] = IF i = Len(lines) THEN Junk ELSE lines[i]
    <3>1. lines' = struck
      BY <1>1 DEF Appended
    <3> HIDE DEF struck
    <3>. QED BY <2>1, <3>1
  <2>3. \A i \in DOMAIN lines' : LineOK(lines'[i])
    BY <2>2 DEF LinesOK, LineOK
  <2>4. lines' # << >>
    <3>1. DOMAIN lines = 1 .. Len(lines) /\ Len(lines) \in Nat
      BY SequenceShape DEF LinesOK
    <3>2. Len(lines) # 0
      <4>1. IsSequence(lines) /\ lines # << >>
        BY <1>1 DEF LinesOK
      <4>. QED BY <4>1, EmptySeq, SeqDef, LenProperties DEF IsSequence
    <3>3. DOMAIN lines' # {}
      BY <2>2, <3>1, <3>2
    <3>. QED BY <3>3
  <2>5. \A i \in DOMAIN lines' : LineOK(lines[i])'
    BY <1>0, <2>3 DEF LineOK, Genuine
  <2>. QED BY <2>2, <2>4, <2>5 DEF LinesOK, IsSequence
<1>2. CASE ~open
  <2> DEFINE n == Len(lines)
  <2>1. lines' = Append(lines, line)
    BY <1>2 DEF Appended
  <2>2. /\ IsSequence(Append(lines, line)) /\ n \in Nat /\ DOMAIN lines = 1 .. n
        /\ DOMAIN Append(lines, line) = 1 .. (n + 1)
        /\ \A i \in 1 .. n : Append(lines, line)[i] = lines[i]
        /\ Append(lines, line)[n + 1] = line
    BY SequenceAppend, SequenceShape DEF LinesOK
  <2>3. /\ IsSequence(lines') /\ DOMAIN lines' = 1 .. (n + 1)
        /\ \A i \in 1 .. n : lines'[i] = lines[i]
        /\ lines'[n + 1] = line
    BY <2>1, <2>2
  <2> HIDE DEF n
  <2>4. \A i \in 1 .. (n + 1) : i \in 1 .. n \/ i = n + 1
    BY <2>2
  <2>5. \A i \in DOMAIN lines' : LineOK(lines'[i])
    BY <2>2, <2>3, <2>4 DEF LinesOK
  <2>6. lines' # << >>
    <3>1. n + 1 \in DOMAIN lines'
      BY <2>2, <2>3
    <3>. QED BY <3>1
  <2>7. \A i \in DOMAIN lines' : LineOK(lines[i])'
    BY <1>0, <2>5 DEF LineOK, Genuine
  <2>. QED BY <2>3, <2>6, <2>7 DEF LinesOK, IsSequence
<1>. QED BY <1>1, <1>2

LEMMA EnsureKeyKeeps == ASSUME LineageInv, NEW r \in Runs, EnsureKey(r) PROVE LineageInv'
<1>1. /\ proc[r].stage = "learning" /\ proc' = [proc EXCEPT ![r].stage = "minting"]
      /\ UNCHANGED << world, log, told, minted, prompts, asked, lines, open >>
  BY DEF EnsureKey, Learning, CreateKey, SetStage
<1>2. LinesOK'
  BY <1>1, LinesStay DEF LineageInv
<1>. QED BY <1>1, <1>2, LearnStep

LEMMA MintKeyKeeps == ASSUME LineageInv, NEW r \in Runs, MintKey(r) PROVE LineageInv'
<1>1. /\ proc[r].stage = "minting" /\ proc' = [proc EXCEPT ![r].stage = "learning"]
      /\ UNCHANGED << world, log, told, minted, prompts, asked, lines, open >>
  BY DEF MintKey, FillKey, SetStage
<1>2. LinesOK'
  BY <1>1, LinesStay DEF LineageInv
<1>. QED BY <1>1, <1>2, LearnStep

(* What a learning process signs is what its run was told. *)
LEMMA LineToLearn ==
  ASSUME LineageInv, NEW r \in Runs, Learning(r), NEW signer
  PROVE  LineOK([record |-> proc[r].record.line, key |-> signer])
<1>1. /\ proc[r].record.line.bar = r /\ proc[r].record.line.lesson \in told[r]
  BY LearningRun DEF Learning
<1> DEFINE line == [record |-> proc[r].record.line, key |-> signer]
<1>2. line = [record |-> line.record, key |-> line.key] /\ line.record = proc[r].record.line
  OBVIOUS
<1> HIDE DEF line
<1>3. LineOK(line)
  BY <1>1, <1>2 DEF LineOK, Genuine
<1>. QED BY <1>3 DEF line

LEMMA LearnKeeps == ASSUME LineageInv, NEW r \in Runs, Learn(r) PROVE LineageInv'
<1>1. /\ Learning(r) /\ proc[r].stage = "learning"
      /\ proc' = [proc EXCEPT ![r].stage = "learned"]
      /\ UNCHANGED << world, log, told, minted, prompts, asked >>
      /\ lines' = Appended([record |-> proc[r].record.line, key |-> key]) /\ open' = FALSE
  BY DEF Learn, Learning, AppendLine, SetStage
<1>2. LinesOK'
  BY <1>1, LineToLearn, AppendedOK DEF LineageInv
<1>. QED BY <1>1, <1>2, LearnStep

(* Copies of genuine lines are genuine, whoever's key they name. *)
LEMMA CopyKeeps == ASSUME LineageInv, Copy PROVE LineageInv'
<1>1. PICK i \in { j \in DOMAIN lines : lines[j] # Junk } :
        Tamper(lines[i]) \/ Tamper([lines[i] EXCEPT !.key = Foreign])
  BY DEF Copy
<1>2. UNCHANGED << world, log, proc, prompts, told, asked, minted >>
  BY DEF Copy
<1>3. LineOK(lines[i]) /\ lines[i] # Junk /\ LinesOK
  BY <1>1 DEF LineageInv, LinesOK
<1>4. LineOK([lines[i] EXCEPT !.key = Foreign])
  <2> DEFINE line == [lines[i] EXCEPT !.key = Foreign]
  <2>1. lines[i] = [record |-> lines[i].record, key |-> lines[i].key] /\ Genuine(lines[i].record)
    BY <1>3 DEF LineOK
  <2>2. line = [record |-> lines[i].record, key |-> Foreign]
    BY <2>1
  <2>3. line.record = lines[i].record /\ line = [record |-> line.record, key |-> line.key]
    BY <2>2
  <2> HIDE DEF line
  <2>4. LineOK(line)
    BY <2>1, <2>3 DEF LineOK
  <2>. QED BY <2>4 DEF line
<1>5. LinesOK'
  <2>1. ASSUME NEW line, LineOK(line), Tamper(line) PROVE LinesOK'
    BY <1>2, <1>3, <2>1, AppendedOK DEF Tamper
  <2>. QED BY <1>1, <1>3, <1>4, <2>1
<1>. QED BY <1>2, <1>5, RestStays

(* Nor does emptying the file. *)
LEMMA ClearKeeps == ASSUME LineageInv, ClearCorpus PROVE LineageInv'
<1>1. /\ lines' = << >> /\ open' = FALSE
      /\ UNCHANGED << world, log, proc, prompts, told, asked, minted >>
  BY DEF ClearCorpus, Clear
<1>2. LinesOK'
  BY <1>1, EmptySequence, SequenceShape DEF LinesOK, IsSequence
<1>. QED BY <1>1, <1>2, RestStays

(* A process dies; a line it was writing may be left torn. *)
LEMMA CrashKeeps == ASSUME LineageInv, NEW r \in Runs, Crash(r) PROVE LineageInv'
<1>1. /\ proc[r].stage # "down" /\ proc' = [proc EXCEPT ![r] = Down]
      /\ UNCHANGED << world, log, prompts, told, asked, minted >>
  BY DEF Crash
<1>2. LinesOK'
  <2>1. CASE UNCHANGED corpusVars
    BY <1>1, <2>1, LinesStay DEF LineageInv, corpusVars
  <2>2. CASE Learning(r) /\ TearLine(proc[r].record.line, key)
    <3>1. PICK line \in {Junk, [record |-> proc[r].record.line, key |-> key]} :
            lines' = Appended(line)
      BY <2>2 DEF TearLine
    <3>2. open' \in BOOLEAN
      BY <2>2 DEF TearLine
    <3>3. LineOK(Junk)
      BY DEF LineOK
    <3>4. LineOK(line)
      BY <2>2, <3>1, <3>3, LineToLearn
    <3>. QED BY <1>1, <3>1, <3>2, <3>4, AppendedOK DEF LineageInv
  <2>. QED BY <2>1, <2>2 DEF Crash
<1>3. log \in [Runs -> Logs] /\ proc \in [Runs -> Procs] /\ Down \in Procs /\ Down.stage = "down"
  BY SeedTypes DEF LineageInv, Shape, Down
<1>4. /\ proc' \in [Runs -> Procs] /\ \A q \in Runs \ {r} : proc'[q] = proc[q]
      /\ proc'[r].stage = "down"
  BY <1>1, <1>3
<1>5. RunOK(r) /\ Started(r) /\ Started(r)' /\ log[r].stage \notin Ended
  BY <1>1 DEF LineageInv, RunOK, Started
<1>6. Shape'
  BY <1>1, <1>4 DEF LineageInv, Shape
<1>7. ASSUME \A hints : HintsOK(hints) => HintsOK(hints)' PROVE RunOK(r)'
  BY <1>1, <1>4, <1>5, <1>7 DEF RunOK
<1>8. ASSUME \A p \in Runs : p < r /\ log[p].stage \in Ended => log'[p] = log[p] PROVE LinkOK(r)'
  BY <1>1, <1>8, LinkStays
<1>. QED BY <1>1, <1>2, <1>4, <1>5, <1>6, <1>7, <1>8, StepOfRun


-----------------------------------------------------------------------------
(* The theorems. *)

LEMMA LineageNext == LineageInv /\ [Next]_vars => LineageInv'
<1>1. SUFFICES ASSUME LineageInv, [Next]_vars PROVE LineageInv'
  OBVIOUS
<1>2. CASE UNCHANGED vars
  <2>1. UNCHANGED << world, log, proc, prompts, told, asked, minted, lines, open >>
    BY <1>2 DEF vars, corpusVars
  <2>2. LinesOK'
    BY <1>1, <2>1, LinesStay DEF LineageInv
  <2>. QED BY <1>1, <2>1, <2>2, RestStays
<1>3. ASSUME NEW r \in Runs, Fresh(r) PROVE LineageInv'
  BY <1>1, <1>3, FreshKeeps
<1>4. ASSUME NEW r \in Runs, Resume(r) PROVE LineageInv'
  BY <1>1, <1>4, ResumeKeeps
<1>5. ASSUME NEW r \in Runs, NEW p \in Runs, FollowUp(r, p) PROVE LineageInv'
  BY <1>1, <1>5, FollowUpKeeps
<1>6. ASSUME NEW r \in Runs, NEW p \in Runs, Recontract(r, p) PROVE LineageInv'
  BY <1>1, <1>6, RecontractKeeps
<1>7. ASSUME NEW r \in Runs, Compile(r) \/ Seal(r) \/ Prepare(r) \/ Loop(r) PROVE LineageInv'
  BY <1>1, <1>7, CompileKeeps, SealKeeps, PrepareKeeps, LoopKeeps
<1>8. ASSUME NEW r \in Runs, FindSound(r) \/ Condemn(r) \/ LogVerdict(r) PROVE LineageInv'
  BY <1>1, <1>8, FindSoundKeeps, CondemnKeeps, LogVerdictKeeps
<1>9. ASSUME NEW r \in Runs, EnsureKey(r) \/ MintKey(r) \/ Learn(r) PROVE LineageInv'
  BY <1>1, <1>9, EnsureKeyKeeps, MintKeyKeeps, LearnKeeps
<1>10. ASSUME NEW r \in Runs, Crash(r) PROVE LineageInv'
  BY <1>1, <1>10, CrashKeeps
<1>11. CASE Copy \/ ClearCorpus
  BY <1>1, <1>11, CopyKeeps, ClearKeeps
<1>. QED BY <1>1, <1>2, <1>3, <1>4, <1>5, <1>6, <1>7, <1>8, <1>9, <1>10, <1>11 DEF Next

(* The invariant holds throughout. *)
LEMMA LineageHolds == Spec => []LineageInv
BY LineageInit, LineageNext, PTL DEF Spec

(***************************************************************************)
(* An author is never told that a lesson was learned more often than runs  *)
(* learned it: every line that verifies is of a run that was told it, and  *)
(* one bar is read once for a lesson (corpus.ts: ReplayGuard).             *)
(***************************************************************************)
THEOREM HintsCount == Spec => []HintsCountRuns
<1>1. LineageInv => HintsCountRuns
  <2>1. SUFFICES ASSUME LineageInv, NEW r \in Runs, NEW prompt \in prompts[r],
                        NEW hint \in prompt.hints
                 PROVE  hint.occurrences <= Cardinality({ q \in Runs : hint.lesson \in told[q] })
    BY DEF HintsCountRuns
  <2>2. HintsOK(prompt.hints)
    BY <2>1 DEF LineageInv, RunOK
  <2>. QED BY <2>2 DEF HintsOK, Tellers
<1>. QED BY <1>1, LineageHolds, PTL

(***************************************************************************)
(* Every attempt to author the bar of a derived run has its predecessor in *)
(* view, in whichever process, and a brief still says what the log of the  *)
(* predecessor says: a log that was condemned is not written to again      *)
(* (followup-wiring.ts: resumeAuthoringSeed).                              *)
(***************************************************************************)
THEOREM SeedsSurvive == Spec => []SeedSurvivesResume
<1>1. LineageInv => SeedSurvivesResume
  <2>1. SUFFICES ASSUME LineageInv, NEW r \in Runs, NEW prompt \in prompts[r]
                 PROVE  /\ prompt.seed = log[r].header.seed
                        /\ log[r].header.kind = "recontract"
                             => prompt.seed = RecontractSeed(log[r].header.pred)
    BY DEF SeedSurvivesResume
  <2>2. prompt.seed = log[r].header.seed
    BY <2>1 DEF LineageInv, RunOK
  <2>3. log[r].header.kind = "recontract"
          => log[r].header.seed = RecontractSeed(log[r].header.pred)
    BY <2>1 DEF LineageInv, LinkOK
  <2>. QED BY <2>2, <2>3
<1>. QED BY <1>1, LineageHolds, PTL

(* The chain that a run ends is as long as its header says: the equation    *)
(* that defines it has a solution, and links lead to runs begun before.    *)
LEMMA ChainLength ==
  ASSUME LineageInv, NEW chain,
         chain = CHOOSE f : f = [r \in Runs |->
                   IF log[r].header.kind = "recontract" THEN f[log[r].header.pred] + 1 ELSE 0]
  PROVE  \A r \in Runs : chain[r] = log[r].header.depth
<1> DEFINE Is(f) == f = [r \in Runs |->
             IF log[r].header.kind = "recontract" THEN f[log[r].header.pred] + 1 ELSE 0]
           depth == [r \in Runs |-> log[r].header.depth]
<1>1. \A r \in Runs : log[r].header.depth \in Nat /\ LinkOK(r)
  BY DEF LineageInv, Shape, Logs
<1>2. Is(depth)
  <2>1. ASSUME NEW r \in Runs
        PROVE  depth[r] = IF log[r].header.kind = "recontract"
                          THEN depth[log[r].header.pred] + 1 ELSE 0
    BY <1>1 DEF LinkOK
  <2>2. depth = [r \in Runs |-> depth[r]]
    OBVIOUS
  <2> HIDE DEF depth
  <2>. QED BY <2>1, <2>2
<1>3. Is(chain)
  <2> HIDE DEF depth
  <2>. QED BY <1>2
<1>4. \A r \in Runs : chain[r] = IF log[r].header.kind = "recontract"
                                 THEN chain[log[r].header.pred] + 1 ELSE 0
  BY <1>3
<1> DEFINE S == { r \in Runs : chain[r] # log[r].header.depth }
<1>5. CASE S # {}
  <2>1. S \subseteq Nat
    BY LineageAssumption
  <2>2. PICK m \in S : \A x \in S : m <= x
    <3> HIDE DEF S
    <3>. QED BY <1>5, <2>1, LeastNat
  <2>3. m \in Runs /\ m \in Nat /\ chain[m] # log[m].header.depth
    BY <2>1, <2>2
  <2>4. CASE log[m].header.kind = "recontract"
    <3> DEFINE p == log[m].header.pred
    <3>1. p \in Runs /\ p < m /\ log[m].header.depth = log[p].header.depth + 1
      BY <1>1, <2>3, <2>4 DEF LinkOK
    <3>2. p \notin S
      <4>1. p \in Nat
        BY <3>1, LineageAssumption
      <4> HIDE DEF S, p
      <4>. QED BY <2>2, <2>3, <3>1, <4>1
    <3>3. chain[p] = log[p].header.depth
      BY <3>1, <3>2
    <3>. QED BY <1>4, <2>3, <2>4, <3>1, <3>3
  <2>5. CASE log[m].header.kind # "recontract"
    BY <1>1, <1>4, <2>3, <2>5 DEF LinkOK
  <2>. QED BY <2>4, <2>5
<1>6. CASE S = {}
  BY <1>6
<1>. QED BY <1>5, <1>6

(***************************************************************************)
(* A chain of re-contracts, however planned, crashed and resumed, is no    *)
(* longer than --max-recontracts and repairs what was condemned at each    *)
(* link; a bar of it that is prepared and passes at once is compared with  *)
(* the one it repairs, unless nobody is there to ask, and one that could   *)
(* not be executed is said not to have been.                               *)
(***************************************************************************)
THEOREM RepairsHold == Spec => []RepairsAreReal
<1>1. LineageInv => ChainIsBounded
  <2>1. SUFFICES ASSUME LineageInv PROVE ChainIsBounded
    OBVIOUS
  <2> DEFINE chain == CHOOSE f : f = [r \in Runs |->
               IF log[r].header.kind = "recontract" THEN f[log[r].header.pred] + 1 ELSE 0]
  <2>2. \A r \in Runs : chain[r] = log[r].header.depth
    <3> DEFINE c == chain
    <3>1. c = chain
      OBVIOUS
    <3> HIDE DEF c
    <3>2. \A r \in Runs : c[r] = log[r].header.depth
      BY <2>1, <3>1, ChainLength
    <3>. QED BY <3>1, <3>2
  <2>3. ASSUME NEW r \in Runs
        PROVE  /\ chain[r] <= MaxRecontracts
               /\ chain[r] > 0 => log[log[r].header.pred].verdict = "defective"
    <3> HIDE DEF chain
    <3>1. LinkOK(r) /\ log[r].header.depth \in Nat
      BY <2>1 DEF LineageInv, Shape, Logs
    <3>. QED BY <2>2, <3>1, LineageAssumption DEF LinkOK
  <2>. QED BY <2>3 DEF ChainIsBounded
<1>2. LineageInv => RepairIsCompared
  <2>1. SUFFICES ASSUME LineageInv, NEW r \in Runs, log[r].header.kind = "recontract",
                        At(r, "working")
                 PROVE  /\ log[r].t0 = "green" => asked[r] \in {log[r].header.seed, NoProvider}
                        /\ log[r].t0 = "unknown" => asked[r] = Unexecuted
    BY DEF RepairIsCompared
  <2>. QED BY <2>1 DEF LineageInv, RunOK, BarOK, At
<1>. QED BY <1>1, <1>2, LineageHolds, PTL DEF RepairsAreReal
=============================================================================
