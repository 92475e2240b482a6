------------------------------- MODULE Corpus -------------------------------
(***************************************************************************)
(* The defect corpus (src/src/defects): what a user's runs, in whatever    *)
(* workspace, have been told about bars nothing could satisfy.  One file   *)
(* of signed lines, one key beside it, no lock: every driver appends to    *)
(* it, every driver reads it once, and anybody may copy or break lines.    *)
(*                                                                         *)
(* A record is [nonce, bar, lesson, language, runner]: bar names the run   *)
(* and the frozen contract that were judged.  A line is [record, key], or  *)
(* Junk.  A contract's context is [files, tools, runner]: the languages    *)
(* its authored files and its required tools betray, in order.             *)
(***************************************************************************)
EXTENDS Naturals, SequencesExt

CONSTANTS
  None,
  Junk,              (* a line that does not parse *)
  NoKey, EmptyKey,   (* no key file, and one nobody has filled *)
  Foreign,           (* the key of somebody else's corpus *)
  Unknown,           (* no language, or no runner, that goaly recognises *)
  Effort,            (* lessons that argue from how hard the work was *)
  RunnerLanguage,    (* the language a runner implies *)
  Siblings,          (* pairs of languages that share a runner *)
  Manifests,         (* [language, runner] of each manifest in the workspace *)
  MaxRecordsPerRun,
  HintCap

ASSUME CorpusAssumption ==
  /\ MaxRecordsPerRun \in Nat \ {0} /\ HintCap \in Nat \ {0}
  /\ None \notin Effort
  /\ Unknown \in DOMAIN RunnerLanguage /\ RunnerLanguage[Unknown] = Unknown

VARIABLES
  lines,     (* the file *)
  open,      (* its last line lacks the newline *)
  key        (* the key file: NoKey, EmptyKey, or whose key it holds *)

corpusVars == << lines, open, key >>

KeyReadable == key \notin {NoKey, EmptyKey}

InitCorpus == lines = << >> /\ open = FALSE /\ key = NoKey

-----------------------------------------------------------------------------
(* Minting. *)

(* The first language that something of the frozen contract betrays. *)
Language(context) ==
  LET betrayed == SelectSeq(context.files \o context.tools, LAMBDA l : l # Unknown)
  IN  IF betrayed = << >> THEN RunnerLanguage[context.runner] ELSE Head(betrayed)

(* A lesson about effort is none. *)
Teaches(lesson) == lesson \notin Effort \cup {None}

FromAdjudication(nonce, bar, context, lesson) ==
  IF Teaches(lesson)
  THEN [nonce |-> nonce, bar |-> bar, lesson |-> lesson,
        language |-> Language(context), runner |-> context.runner]
  ELSE None

-----------------------------------------------------------------------------
(* Writing.  A key is created and then filled, and only by whoever created *)
(* the file; who finds it neither absent nor readable writes nothing.      *)

CreateKey == key = NoKey /\ key' = EmptyKey /\ UNCHANGED << lines, open >>

FillKey(owner) == key' = owner /\ UNCHANGED << lines, open >>

(* What follows a line without a newline becomes part of it. *)
Appended(line) ==
  IF open THEN [lines EXCEPT ![Len(lines)] = Junk] ELSE Append(lines, line)

AppendLine(record, signer) ==
  /\ lines' = Appended([record |-> record, key |-> signer])
  /\ open' = FALSE
  /\ UNCHANGED key

(* The process dies while it writes: without the newline, or with less. *)
TearLine(record, signer) ==
  /\ \E line \in {Junk, [record |-> record, key |-> signer]} : lines' = Appended(line)
  /\ open' = TRUE
  /\ UNCHANGED key

(* The signing key stays. *)
Clear == lines # << >> /\ lines' = << >> /\ open' = FALSE /\ UNCHANGED key

(* Somebody appends a line again, or a line of somebody else's corpus. *)
Tamper(line) ==
  /\ lines' = Appended(line) /\ open' = FALSE
  /\ UNCHANGED key

-----------------------------------------------------------------------------
(* Reading. *)

(* The signature is of the key that is there now. *)
Verified(line) == line # Junk /\ line.key = key

BrokenAdmits(read, r) == \A i \in DOMAIN read : read[i].nonce # r.nonce

(* The first line of a lesson counts, and a bar has few. *)
Admits(read, r) ==
  /\ \A i \in DOMAIN read :
       read[i].nonce # r.nonce /\ << read[i].bar, read[i].lesson >> # << r.bar, r.lesson >>
  /\ Cardinality({ i \in DOMAIN read : read[i].bar = r.bar }) < MaxRecordsPerRun

(* What is read once a line follows those that gave read. *)
ReadLine(read, line) ==
  IF Verified(line) /\ Admits(read, line.record) THEN Append(read, line.record) ELSE read

Read ==
  LET read[i \in 0 .. Len(lines)] ==
        IF i = 0 THEN << >> ELSE ReadLine(read[i - 1], lines[i])
  IN  IF KeyReadable THEN read[Len(lines)] ELSE << >>

WorkspaceLanguages == { m.language : m \in Manifests }

WorkspaceRunners == { m.runner : m \in Manifests } \ {Unknown}

Related == WorkspaceLanguages \cup
           { p[2] : p \in { q \in Siblings : q[1] \in WorkspaceLanguages } }

Relevant(r) == WorkspaceLanguages = {} \/ r.language \in Related \cup {Unknown}

Score(r) == (IF r.runner \in WorkspaceRunners THEN 2 ELSE 0)
          + (IF r.language \in Related THEN 1 ELSE 0)

(* One hint for each lesson; the later its last record, the more recent it is. *)
Buckets ==
  LET read == Read
      relevant == { i \in DOMAIN read : Relevant(read[i]) }
      of(lesson) == { i \in relevant : read[i].lesson = lesson }
  IN  { [lesson |-> l, occurrences |-> Cardinality(of(l)),
         score |-> Max({ Score(read[i]) : i \in of(l) }),
         recent |-> Max({ read[i].nonce : i \in of(l) })] :
          l \in { read[i].lesson : i \in relevant } }

Outranks(a, b) ==
  \/ a.score > b.score
  \/ a.score = b.score /\ a.occurrences > b.occurrences
  \/ a.score = b.score /\ a.occurrences = b.occurrences /\ a.recent > b.recent

(* The section of the authoring prompt. *)
Hints ==
  { [lesson |-> b.lesson, occurrences |-> b.occurrences] :
      b \in { x \in Buckets : Cardinality({ y \in Buckets : Outranks(y, x) }) < HintCap } }
=============================================================================
