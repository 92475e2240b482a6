--------------------------- MODULE DriversProofs ----------------------------
(***************************************************************************)
(* Theorems about the drivers of runs and the trees they share: those of   *)
(* one run directory exclude each other (RunLock), those of a wave share a *)
(* meter and hand on one tree (Wave), and the two keys a driver turns see  *)
(* the change they are to judge (Verify).                                  *)
(***************************************************************************)
EXTENDS RunLock, Wave, Verify, TLAPS

-----------------------------------------------------------------------------
(***************************************************************************)
(* The lock excludes, for any number of drivers and whatever crashes, as   *)
(* long as acquisitions do not overlap and a resident process drives the   *)
(* run once at a time: two that overlap may both succeed.  That a refusal  *)
(* has a living cause needs neither condition.                             *)
(***************************************************************************)

(* What the exclusion needs of the drivers' surroundings. *)
Orderly ==
  /\ ~Overlap
  /\ \A d, e \in Drivers : Pid[d] = Pid[e] /\ Pid[d] \in Resident => d = e

(* A lock file is told from the absence of one. *)
LEMMA NoFileIsNoRecord ==
  ASSUME NEW d \in Drivers, NEW p \in Pids \cup {NoPid}
  PROVE  [creator |-> d, holder |-> p] # NoFile
BY FileAssumption

OneAcquires ==
  \A d, e \in Drivers : pc[d] \in Acquiring /\ pc[e] \in Acquiring => d = e

PidsDiffer ==
  \A d, e \in Drivers : Up(d) /\ Up(e) /\ Pid[d] = Pid[e] => d = e

HolderNamed ==
  \A d \in Drivers : pc[d] = "driving" => file = [creator |-> d, holder |-> Pid[d]]

CreatorNamed ==
  \A d \in Drivers : pc[d] = "created" => file = [creator |-> d, holder |-> NoPid]

(* Whoever is about to unlink the path has nobody to take it from. *)
NobodyRobbed ==
  \A d, e \in Drivers : pc[d] = "reclaiming" => pc[e] # "driving"

LockInv ==
  /\ TypeOK
  /\ OneAcquires
  /\ PidsDiffer
  /\ HolderNamed
  /\ CreatorNamed
  /\ NobodyRobbed

(* Nothing is driven or acquired before the first driver starts. *)
LEMMA LockInvInit == LockInit => LockInv
BY DEF LockInit, LockInv, TypeOK, OneAcquires, PidsDiffer, HolderNamed, CreatorNamed,
       NobodyRobbed, Up, Acquiring

(* Every file-system call and every crash keeps the invariant. *)
LEMMA LockInvNext ==
  ASSUME Orderly, LockInv, [LockNext]_lockVars
  PROVE  LockInv'
<1> USE PidsAssumption
<1> USE DEF LockInv, Acquiring, Up
<1>1. ASSUME NEW d \in Drivers, Start(d) PROVE LockInv'
  <2>1. TypeOK'
    BY <1>1 DEF Start, TypeOK
  <2>2. OneAcquires' /\ HolderNamed' /\ CreatorNamed' /\ NobodyRobbed'
    BY <1>1 DEF Start, TypeOK, OneAcquires, HolderNamed, CreatorNamed, NobodyRobbed, Orderly
  <2>3. PidsDiffer'
    BY <1>1 DEF Start, TypeOK, PidsDiffer, IsPidAlive, Orderly
  <2>. QED BY <2>1, <2>2, <2>3
<1>2. ASSUME NEW d \in Drivers, Open(d) PROVE LockInv'
  <2>1. CASE file = NoFile
    <3>1. /\ file' = [creator |-> d, holder |-> NoPid]
          /\ pc' = [pc EXCEPT ![d] = "created"]
      BY <1>2, <2>1 DEF Open
    <3>2. \A e \in Drivers : pc[e] # "driving"
      BY <1>2, <2>1, NoFileIsNoRecord DEF HolderNamed, Pids
    <3>3. TypeOK'
      BY <1>2, <3>1 DEF Open, TypeOK
    <3>4. OneAcquires' /\ PidsDiffer' /\ HolderNamed' /\ CreatorNamed' /\ NobodyRobbed'
      BY <1>2, <3>1, <3>2
      DEF Open, TypeOK, OneAcquires, PidsDiffer, HolderNamed, CreatorNamed, NobodyRobbed
    <3>. QED BY <3>3, <3>4
  <2>2. CASE file # NoFile
    <3>1. file' = file /\ pc' = [pc EXCEPT ![d] = "reading"]
      BY <1>2, <2>2 DEF Open
    <3>2. TypeOK'
      BY <1>2, <3>1 DEF Open, TypeOK
    <3>3. OneAcquires' /\ PidsDiffer' /\ HolderNamed' /\ CreatorNamed' /\ NobodyRobbed'
      BY <1>2, <3>1
      DEF Open, TypeOK, OneAcquires, PidsDiffer, HolderNamed, CreatorNamed, NobodyRobbed
    <3>. QED BY <3>2, <3>3
  <2>. QED BY <2>1, <2>2
<1>3. ASSUME NEW d \in Drivers, WritePid(d) PROVE LockInv'
  <2>1. file = [creator |-> d, holder |-> NoPid] /\ file # NoFile
    BY <1>3, NoFileIsNoRecord DEF WritePid, CreatorNamed
  <2>2. /\ file' = [creator |-> d, holder |-> Pid[d]]
        /\ pc' = [pc EXCEPT ![d] = "driving"]
    BY <1>3, <2>1 DEF WritePid
  <2>3. \A e \in Drivers : pc[e] # "driving"
    BY <2>1 DEF HolderNamed, Pids
  <2>4. TypeOK'
    BY <1>3, <2>2 DEF WritePid, TypeOK, Pids
  <2>5. OneAcquires' /\ PidsDiffer' /\ HolderNamed' /\ CreatorNamed' /\ NobodyRobbed'
    BY <1>3, <2>2, <2>3
    DEF WritePid, TypeOK, OneAcquires, PidsDiffer, HolderNamed, CreatorNamed, NobodyRobbed
  <2>. QED BY <2>4, <2>5
<1>4. ASSUME NEW d \in Drivers, WriteFails(d) PROVE LockInv'
  BY <1>4
  DEF WriteFails, TypeOK, OneAcquires, PidsDiffer, HolderNamed, CreatorNamed, NobodyRobbed
<1>5. ASSUME NEW d \in Drivers, Probe(d) PROVE LockInv'
  <2>1. CASE pc' = [pc EXCEPT ![d] = "down"]
    <3>1. TypeOK'
      BY <1>5, <2>1 DEF Probe, TypeOK
    <3>2. OneAcquires' /\ PidsDiffer' /\ HolderNamed' /\ CreatorNamed' /\ NobodyRobbed'
      BY <1>5, <2>1
      DEF Probe, TypeOK, OneAcquires, PidsDiffer, HolderNamed, CreatorNamed, NobodyRobbed
    <3>. QED BY <3>1, <3>2
  <2>2. CASE /\ pc' = [pc EXCEPT ![d] = "reclaiming"]
             /\ refused' = refused
             /\ ~(ReadHolderPid # NoPid /\ ReadHolderPid # Pid[d] /\ IsPidAlive(ReadHolderPid))
    <3>1. TypeOK'
      BY <1>5, <2>2 DEF Probe, TypeOK
    <3>2. \A e \in Drivers : pc[e] # "driving"
      <4>1. SUFFICES ASSUME NEW e \in Drivers, pc[e] = "driving" PROVE FALSE
        OBVIOUS
      <4>2. file = [creator |-> e, holder |-> Pid[e]] /\ file # NoFile
        BY <4>1, NoFileIsNoRecord DEF HolderNamed, Pids
      <4>3. ReadHolderPid = Pid[e] /\ Pid[e] # NoPid /\ IsPidAlive(Pid[e])
        BY <4>1, <4>2 DEF ReadHolderPid, IsPidAlive, Pids
      <4>4. Pid[e] = Pid[d]
        BY <2>2, <4>3
      <4>5. e = d
        BY <1>5, <4>1, <4>4 DEF Probe, PidsDiffer
      <4>. QED BY <1>5, <4>1, <4>5 DEF Probe
    <3>3. OneAcquires' /\ PidsDiffer' /\ HolderNamed' /\ CreatorNamed' /\ NobodyRobbed'
      BY <1>5, <2>2, <3>2
      DEF Probe, TypeOK, OneAcquires, PidsDiffer, HolderNamed, CreatorNamed, NobodyRobbed
    <3>. QED BY <3>1, <3>3
  <2>. QED BY <1>5, <2>1, <2>2 DEF Probe
<1>6. ASSUME NEW d \in Drivers, Reclaim(d) PROVE LockInv'
  <2>1. \A e \in Drivers : pc[e] # "driving" /\ pc[e] # "created"
    BY <1>6 DEF Reclaim, NobodyRobbed, OneAcquires
  <2>2. TypeOK'
    BY <1>6 DEF Reclaim, TypeOK
  <2>3. OneAcquires' /\ PidsDiffer' /\ HolderNamed' /\ CreatorNamed' /\ NobodyRobbed'
    BY <1>6, <2>1
    DEF Reclaim, TypeOK, OneAcquires, PidsDiffer, HolderNamed, CreatorNamed, NobodyRobbed
  <2>. QED BY <2>2, <2>3
<1>7. ASSUME NEW d \in Drivers, Release(d) PROVE LockInv'
  <2>1. file = [creator |-> d, holder |-> Pid[d]] /\ Pid[d] # NoPid
    BY <1>7 DEF Release, HolderNamed, Pids
  <2>2. \A e \in Drivers : pc[e] # "created" /\ (pc[e] = "driving" => e = d)
    BY <2>1 DEF HolderNamed, CreatorNamed
  <2>3. TypeOK'
    BY <1>7 DEF Release, TypeOK
  <2>4. OneAcquires' /\ PidsDiffer' /\ HolderNamed' /\ CreatorNamed' /\ NobodyRobbed'
    BY <1>7, <2>2
    DEF Release, TypeOK, OneAcquires, PidsDiffer, HolderNamed, CreatorNamed, NobodyRobbed
  <2>. QED BY <2>3, <2>4
<1>8. ASSUME NEW d \in Drivers, DriverCrash(d) PROVE LockInv'
  BY <1>8
  DEF DriverCrash, TypeOK, OneAcquires, PidsDiffer, HolderNamed, CreatorNamed, NobodyRobbed
<1>9. ASSUME UNCHANGED lockVars PROVE LockInv'
  BY <1>9 DEF lockVars, TypeOK, OneAcquires, PidsDiffer, HolderNamed, CreatorNamed, NobodyRobbed
<1>. QED BY <1>1, <1>2, <1>3, <1>4, <1>5, <1>6, <1>7, <1>8, <1>9 DEF LockNext

(* The files that name a driver account for both of the promised properties. *)
LEMMA LockInvEnough ==
  ASSUME LockInv
  PROVE  AtMostOneDriver /\ DriverHoldsFile
<1>1. AtMostOneDriver
  BY DEF LockInv, HolderNamed, AtMostOneDriver
<1>2. ASSUME NEW d \in Drivers, pc[d] = "driving"
      PROVE  file = [creator |-> d, holder |-> Pid[d]] /\ RunLockActive
  <2>1. file = [creator |-> d, holder |-> Pid[d]] /\ file # NoFile
    BY <1>2, NoFileIsNoRecord DEF LockInv, HolderNamed, Pids
  <2>2. ReadHolderPid = Pid[d] /\ Pid[d] # NoPid
    BY <2>1, PidsAssumption DEF ReadHolderPid, Pids
  <2>. QED BY <1>2, <2>1, <2>2 DEF RunLockActive, IsPidAlive, Up
<1>. QED BY <1>1, <1>2 DEF DriverHoldsFile

(***************************************************************************)
(* One driver at a time, for any number of drivers, pids and crashes: the  *)
(* promise of acquireRunLock, on the assumption that makes it true.        *)
(***************************************************************************)
THEOREM LockExcludes ==
  ASSUME Orderly
  PROVE  LockSpec => []AtMostOneDriver
<1>1. LockInv /\ [LockNext]_lockVars => LockInv'
  BY LockInvNext
<1>. QED BY <1>1, LockInvInit, LockInvEnough, PTL DEF LockSpec

(***************************************************************************)
(* A run that is being driven keeps its lock file, whatever other drivers  *)
(* probed, reclaimed or left behind.                                       *)
(***************************************************************************)
THEOREM LockIsKept ==
  ASSUME Orderly
  PROVE  LockSpec => []DriverHoldsFile
<1>1. LockInv /\ [LockNext]_lockVars => LockInv'
  BY LockInvNext
<1>. QED BY <1>1, LockInvInit, LockInvEnough, PTL DEF LockSpec

-----------------------------------------------------------------------------
(* The lock heals itself, overlapping acquisitions or not. *)

(* A pid of a process that lives on is in the file only while it drives.    *)
HolderDrives ==
  file # NoFile /\ file.holder # NoPid =>
    /\ file.holder = Pid[file.creator]
    /\ Pid[file.creator] \in Resident => pc[file.creator] = "driving"

(* Who acquires alone finds the path free after its one reclaim.            *)
AloneIsQuick ==
  \A d \in Drivers : pc[d] \in Acquiring =>
    /\ attempt[d] \in {1, 2}
    /\ rivals[d] = {} =>
         /\ \A e \in Drivers : e # d => pc[e] = "down"
         /\ pc[d] = "opening" /\ attempt[d] = 2 => file = NoFile
         /\ pc[d] \in {"reading", "reclaiming"} => attempt[d] = 1

RefusalInv == TypeOK /\ HolderDrives /\ AloneIsQuick /\ RefusedOnlyByRivals

LEMMA RefusalInvInit == LockInit => RefusalInv
BY DEF LockInit, RefusalInv, TypeOK, HolderDrives, AloneIsQuick, RefusedOnlyByRivals, Acquiring

(* A lock that refuses names a process other than the one that asks. *)
LEMMA RefusedByAnother ==
  ASSUME RefusalInv, NEW d \in Drivers, pc[d] = "reading",
         ReadHolderPid # NoPid, ReadHolderPid # Pid[d], IsPidAlive(ReadHolderPid)
  PROVE  rivals[d] # {}
<1>1. file # NoFile /\ file.creator \in Drivers /\ ReadHolderPid = file.holder
  BY DEF ReadHolderPid, RefusalInv, TypeOK
<1>2. \E e \in Drivers : e # d /\ pc[e] # "down"
  BY <1>1 DEF RefusalInv, HolderDrives, IsPidAlive, Up
<1> QED BY <1>2 DEF RefusalInv, AloneIsQuick, Acquiring

LEMMA RefusalInvNext ==
  ASSUME RefusalInv, [LockNext]_lockVars
  PROVE  RefusalInv'
<1> USE PidsAssumption
<1> USE DEF RefusalInv, Acquiring
<1>1. ASSUME NEW d \in Drivers, Start(d) PROVE RefusalInv'
  <2>1. TypeOK'
    BY <1>1 DEF Start, TypeOK, Up
  <2>2. HolderDrives'
    BY <1>1 DEF Start, TypeOK, HolderDrives
  <2>3. AloneIsQuick'
    BY <1>1 DEF Start, TypeOK, AloneIsQuick, Up
  <2>4. RefusedOnlyByRivals'
    BY <1>1 DEF Start, TypeOK, RefusedOnlyByRivals
  <2> QED BY <2>1, <2>2, <2>3, <2>4
<1>2. ASSUME NEW d \in Drivers, Open(d) PROVE RefusalInv'
  <2>1. TypeOK'
    BY <1>2 DEF Open, TypeOK
  <2>2. HolderDrives'
    BY <1>2 DEF Open, TypeOK, HolderDrives
  <2>3. AloneIsQuick'
    BY <1>2 DEF Open, TypeOK, AloneIsQuick
  <2>4. RefusedOnlyByRivals'
    BY <1>2 DEF Open, RefusedOnlyByRivals
  <2> QED BY <2>1, <2>2, <2>3, <2>4
<1>3. ASSUME NEW d \in Drivers, WritePid(d) PROVE RefusalInv'
  <2>1. TypeOK'
    BY <1>3 DEF WritePid, TypeOK, Pids
  <2>2. HolderDrives'
    BY <1>3 DEF WritePid, TypeOK, HolderDrives
  <2>3. AloneIsQuick'
    BY <1>3 DEF WritePid, TypeOK, AloneIsQuick
  <2>4. RefusedOnlyByRivals'
    BY <1>3 DEF WritePid, RefusedOnlyByRivals
  <2> QED BY <2>1, <2>2, <2>3, <2>4
<1>4. ASSUME NEW d \in Drivers, WriteFails(d) \/ DriverCrash(d) PROVE RefusalInv'
  BY <1>4 DEF WriteFails, DriverCrash, TypeOK, HolderDrives, AloneIsQuick, RefusedOnlyByRivals
<1>5. ASSUME NEW d \in Drivers, Probe(d) PROVE RefusalInv'
  <2>1. TypeOK'
    BY <1>5 DEF Probe, TypeOK
  <2>2. HolderDrives'
    BY <1>5 DEF Probe, TypeOK, HolderDrives
  <2>3. AloneIsQuick'
    BY <1>5 DEF Probe, TypeOK, AloneIsQuick
  <2>4. RefusedOnlyByRivals'
    BY <1>5, RefusedByAnother DEF Probe, TypeOK, RefusedOnlyByRivals
  <2> QED BY <2>1, <2>2, <2>3, <2>4
<1>6. ASSUME NEW d \in Drivers, Reclaim(d) PROVE RefusalInv'
  <2>1. attempt[d] = 2 => rivals[d] # {}
    BY <1>6 DEF Reclaim, AloneIsQuick
  <2>2. TypeOK'
    BY <1>6 DEF Reclaim, TypeOK
  <2>3. HolderDrives' /\ AloneIsQuick'
    BY <1>6 DEF Reclaim, TypeOK, HolderDrives, AloneIsQuick
  <2>4. RefusedOnlyByRivals'
    BY <1>6, <2>1 DEF Reclaim, TypeOK, RefusedOnlyByRivals
  <2> QED BY <2>2, <2>3, <2>4
<1>7. ASSUME NEW d \in Drivers, Release(d) PROVE RefusalInv'
  BY <1>7 DEF Release, TypeOK, HolderDrives, AloneIsQuick, RefusedOnlyByRivals
<1>8. ASSUME UNCHANGED lockVars PROVE RefusalInv'
  BY <1>8 DEF lockVars, TypeOK, HolderDrives, AloneIsQuick, RefusedOnlyByRivals
<1> QED BY <1>1, <1>2, <1>3, <1>4, <1>5, <1>6, <1>7, <1>8 DEF LockNext

(***************************************************************************)
(* acquireRunLock refuses nobody who is alone: a lock a crash, a failed    *)
(* write or a race left behind is reclaimed in the two attempts it makes,  *)
(* for any drivers and pids, and whether acquisitions overlap or not.      *)
(***************************************************************************)
THEOREM LockHeals == LockSpec => []RefusedOnlyByRivals
<1>1. RefusalInv => RefusedOnlyByRivals
  BY DEF RefusalInv
<1> QED BY <1>1, RefusalInvInit, RefusalInvNext, PTL DEF LockSpec

-----------------------------------------------------------------------------
(***************************************************************************)
(* A wave of any members, over any tree and whatever throws or dies, hands *)
(* on finished and verified work, shares one cap and leaves no worktree.   *)
(***************************************************************************)

Stages == {"none", "preparing", "prepared", "ready", "working", "turned", "done", "stopped"}

ChildShape(c) ==
  /\ c = [stage |-> c.stage, tree |-> c.tree, turns |-> c.turns, own |-> c.own,
          pastCap |-> c.pastCap, checked |-> c.checked]
  /\ c.stage \in Stages /\ c.pastCap \in Nat

WaveShape ==
  /\ world \in Waves
  /\ wave = [stage |-> wave.stage, base |-> wave.base, acc |-> wave.acc, queue |-> wave.queue,
             merged |-> wave.merged, outcomes |-> wave.outcomes]
  /\ wave.stage \in {"down", "running", "copying", "verifying"}
  /\ wave.queue \subseteq Members /\ wave.merged \subseteq Members
  /\ child = [i \in Members |-> child[i]] /\ \A i \in Members : ChildShape(child[i])
  /\ meter \in Nat

(* Who began a turn past the cap is in it or after it, and the meter has not *)
(* come down since: Continue reads it and does not let that child go on.     *)
CapRead ==
  \A i \in Members :
    child[i].pastCap # 0 =>
      child[i].pastCap = 1 /\ meter >= Cap
        /\ child[i].stage \in {"working", "turned", "done", "stopped"}

(* Between the checkpoint and the event: the three trees are over the same   *)
(* files, and the accumulated one is the base with the changes of who merged. *)
Accumulated ==
  wave.stage # "down" =>
    /\ DOMAIN wave.acc = DOMAIN wave.base /\ DOMAIN tree = DOMAIN wave.base
    /\ \A i \in Members : DOMAIN child[i].tree = DOMAIN wave.base
    /\ \A i \in wave.merged : child[i].stage = "done"
    /\ \A i \in wave.merged : \A f \in DOMAIN wave.base :
         child[i].tree[f] # wave.base[f] => wave.acc[f] = child[i].tree[f]
    /\ \A f \in DOMAIN wave.base :
         wave.acc[f] # wave.base[f] => \E i \in wave.merged : child[i].tree[f] = wave.acc[f]
    /\ wave.merged = {} => wave.acc = wave.base
    /\ tree = IF wave.stage = "running" THEN wave.base ELSE wave.acc

(* The authored files of who merged are copied, all of them before a rung runs. *)
Copied ==
  wave.stage \in {"copying", "verifying"} =>
    /\ wave.stage = "verifying" => wave.queue = {}
    /\ \A i \in wave.merged \ wave.queue : \A p \in world.authored[i] : authored[p] # Nothing

Checked(i, t) ==
  /\ child[i].checked.pass /\ child[i].checked.tree = t
  /\ \A p \in world.authored[i] : child[i].checked.files[p] # Nothing

(* An outcome "merged" is that of a merged member that passed where it landed. *)
ChildrenJudged ==
  wave.stage # "down" =>
    \A i \in Members \cap DOMAIN wave.outcomes :
      wave.outcomes[i] = "merged" =>
        i \in wave.merged /\ wave.stage = "verifying" /\ Checked(i, tree)

Landed == reported # Nothing => wave.stage = "down" /\ MergedIsVerified /\ OnlyFinishedWork

(* Only the process that made a worktree is still there to remove it. *)
Cleaned == reported # Nothing => wave.stage = "down" /\ Mine = {}

WaveInv == WaveShape /\ CapRead /\ Accumulated /\ Copied /\ ChildrenJudged /\ Landed /\ Cleaned

-----------------------------------------------------------------------------
(* What every step of a child's run has in common. *)
ChildMoved(i) ==
  /\ wave.stage = "running" /\ child[i].stage # "done"
  /\ child' = [child EXCEPT ![i] = child'[i]]
  /\ ChildShape(child'[i]) /\ DOMAIN child'[i].tree = DOMAIN child[i].tree
  /\ meter' \in Nat /\ meter' >= meter
  /\ child'[i].pastCap # 0 =>
       child'[i].pastCap = 1 /\ meter' >= Cap
         /\ child'[i].stage \in {"working", "turned", "done", "stopped"}
  /\ UNCHANGED << world, tree, authored, wave, reported, processes >>

(* A child's step changes its own run and worktree, keeps the files of the  *)
(* tree, and begins no second turn past the cap.                            *)
LEMMA ChildMoves ==
  ASSUME WaveShape, CapRead, NEW i \in Members, ChildNext(i)
  PROVE  ChildMoved(i)
<1> DEFINE c == child[i]
<1> USE DEF SetChild, UnchangedByChild
<1>0. /\ child = [j \in Members |-> child[j]] /\ ChildShape(c)
      /\ meter \in Nat /\ Cap \in Nat
      /\ c.pastCap # 0 => c.pastCap = 1 /\ meter >= Cap
                            /\ c.stage \in {"working", "turned", "done", "stopped"}
  BY WaveAssumption DEF WaveShape, CapRead
<1>1. ASSUME Prepare(i) PROVE ChildMoved(i)
  BY <1>0, <1>1 DEF Prepare, ChildMoved, ChildShape, Stages
<1>2. ASSUME StartTurn(i) PROVE ChildMoved(i)
  <2>1. c.pastCap = 0
    BY <1>0, <1>2 DEF StartTurn
  <2>2. child' = [child EXCEPT ![i] = [c EXCEPT !.stage = "working",
                    !.pastCap = c.pastCap + (IF meter >= Cap THEN 1 ELSE 0)]]
    BY <1>2 DEF StartTurn
  <2>3. c.pastCap + (IF meter >= Cap THEN 1 ELSE 0) = IF meter >= Cap THEN 1 ELSE 0
    BY <2>1
  <2>4. child'[i] = [stage |-> "working", tree |-> c.tree, turns |-> c.turns, own |-> c.own,
                     pastCap |-> IF meter >= Cap THEN 1 ELSE 0, checked |-> c.checked]
    BY <1>0, <2>2, <2>3 DEF ChildShape
  <2>5. child' = [child EXCEPT ![i] = child'[i]]
    BY <1>0, <2>2
  <2> HIDE DEF c
  <2>6. /\ ChildShape(child'[i]) /\ DOMAIN child'[i].tree = DOMAIN c.tree
        /\ child'[i].pastCap # 0 => child'[i].pastCap = 1 /\ meter >= Cap
        /\ child'[i].stage = "working"
    BY <2>4 DEF ChildShape, Stages
  <2> QED BY <1>0, <1>2, <2>5, <2>6 DEF StartTurn, ChildMoved, c
<1>3. ASSUME Continue(i) PROVE ChildMoved(i)
  BY <1>0, <1>3 DEF Continue, OverCap, ChildMoved, ChildShape, Stages
<1>4. ASSUME ChildDone(i) PROVE ChildMoved(i)
  BY <1>0, <1>4 DEF ChildDone, ChildMoved, ChildShape, Stages
<1>5. ASSUME ChildStops(i) PROVE ChildMoved(i)
  BY <1>0, <1>5 DEF ChildStops, ChildMoved, ChildShape, Stages
<1>6. ASSUME NEW edit \in world.edits, NEW cost \in world.costs, EndTurn(i, edit, cost)
      PROVE  ChildMoved(i)
  <2>1. cost \in Nat
    BY WaveAssumption DEF WaveShape
  <2>2. DOMAIN Alter(c.tree, edit) = DOMAIN c.tree
    BY DEF Alter
  <2>3. child' = [child EXCEPT ![i] = [c EXCEPT !.stage = "turned", !.turns = @ + 1,
                    !.own = @ + cost, !.tree = Alter(c.tree, edit)]]
    BY <1>6 DEF EndTurn
  <2>4. meter' \in Nat /\ meter' >= meter
    BY <1>0, <1>6, <2>1 DEF EndTurn
  <2>5. child'[i] = [stage |-> "turned", tree |-> Alter(c.tree, edit), turns |-> c.turns + 1,
                     own |-> c.own + cost, pastCap |-> c.pastCap, checked |-> c.checked]
    BY <1>0, <2>3 DEF ChildShape
  <2>6. child' = [child EXCEPT ![i] = child'[i]]
    BY <1>0, <2>3
  <2>7. ChildShape(child'[i])
    BY <1>0, <2>5 DEF ChildShape, Stages
  <2>8. child'[i].pastCap # 0 => child'[i].pastCap = 1 /\ meter' >= Cap
    BY <1>0, <2>4, <2>5
  <2> QED BY <1>6, <2>2, <2>4, <2>5, <2>6, <2>7, <2>8 DEF EndTurn, ChildMoved
<1> QED BY <1>1, <1>2, <1>3, <1>4, <1>5, <1>6 DEF ChildNext

(* No member is merged twice or while it runs, so its step disturbs nothing. *)
LEMMA ChildMovedKept ==
  ASSUME WaveInv, NEW i \in Members, ChildMoved(i)
  PROVE  WaveInv'
<1> USE DEF WaveInv, ChildMoved
<1>1. WaveShape'
  BY DEF WaveShape
<1>2. CapRead'
  BY WaveAssumption DEF CapRead, WaveShape
<1>3. Accumulated'
  <2>1. wave.stage = "running" /\ UNCHANGED << wave, tree >>
    OBVIOUS
  <2>2. \A j \in Members : DOMAIN child'[j].tree = DOMAIN child[j].tree
    BY DEF WaveShape
  <2>3. \A j \in wave.merged : child'[j] = child[j]
    BY <2>1 DEF Accumulated, WaveShape
  <2>4. wave.merged \subseteq Members /\ DOMAIN wave.acc = DOMAIN wave.base
        /\ DOMAIN tree = DOMAIN wave.base /\ (wave.merged = {} => wave.acc = wave.base)
        /\ tree = wave.base
    BY <2>1 DEF Accumulated, WaveShape
  <2>5. \A j \in Members : DOMAIN child'[j].tree = DOMAIN wave.base
    BY <2>1, <2>2 DEF Accumulated
  <2>6. \A j \in wave.merged :
          /\ child'[j].stage = "done"
          /\ \A f \in DOMAIN wave.base :
               child'[j].tree[f] # wave.base[f] => wave.acc[f] = child'[j].tree[f]
    BY <2>1, <2>3 DEF Accumulated
  <2>7. \A f \in DOMAIN wave.base :
          wave.acc[f] # wave.base[f] => \E j \in wave.merged : child'[j].tree[f] = wave.acc[f]
    BY <2>1, <2>3 DEF Accumulated
  <2> HIDE DEF WaveInv, ChildMoved
  <2> QED BY <2>1, <2>4, <2>5, <2>6, <2>7 DEF Accumulated
<1>4. Copied'
  BY DEF Copied
<1>5. ChildrenJudged'
  BY DEF ChildrenJudged
<1>6. Landed' /\ Cleaned'
  BY DEF Landed, Cleaned
<1> QED BY <1>1, <1>2, <1>3, <1>4, <1>5, <1>6

-----------------------------------------------------------------------------
(* A wave starts with nothing merged, on the tree it was checkpointed from. *)
LEMMA ForkKept ==
  ASSUME WaveInv, Fork
  PROVE  WaveInv'
<1> USE DEF WaveInv, Fork
<1>1. wave' = [stage |-> "running", base |-> tree, acc |-> tree, queue |-> Members,
               merged |-> {}, outcomes |-> << >>]
  BY DEF Down
<1>2. child' = [i \in Members |-> [stage |-> "preparing", tree |-> tree, turns |-> 0,
                  own |-> 0, pastCap |-> 0, checked |-> Nothing]]
  <2>1. ASSUME NEW i \in Members
        PROVE  child'[i] = [stage |-> "preparing", tree |-> tree, turns |-> 0, own |-> 0,
                            pastCap |-> 0, checked |-> Nothing]
    <3>1. child'[i] = [NoChild EXCEPT !.stage = "preparing", !.tree = tree]
      BY DEF Fresh
    <3> QED BY <3>1 DEF NoChild
  <2>2. child' = [i \in Members |-> child'[i]]
    OBVIOUS
  <2> QED BY <2>1, <2>2
<1>a. UNCHANGED << world, tree, meter, reported >> /\ reported = Nothing
  OBVIOUS
<1>b. world \in Waves /\ meter \in Nat
  BY DEF WaveShape
<1> HIDE DEF WaveInv, Fork
<1>c. WaveShape'
  BY <1>1, <1>2, <1>a, <1>b DEF WaveShape, ChildShape, Stages
<1>3. CapRead'
  BY <1>2 DEF CapRead
<1>4. Accumulated'
  <2>1. \A i \in Members : DOMAIN child'[i].tree = DOMAIN tree
    BY <1>2
  <2>2. wave'.merged = {} /\ wave'.base = tree /\ wave'.acc = tree /\ wave'.stage = "running"
    BY <1>1
  <2> QED BY <2>1, <2>2, <1>a DEF Accumulated
<1>5. Copied'
  BY <1>1 DEF Copied
<1>6. ChildrenJudged'
  <2>1. DOMAIN << >> = {}
    OBVIOUS
  <2>2. DOMAIN wave'.outcomes = {}
    BY <1>1, <2>1
  <2> QED BY <2>2 DEF ChildrenJudged
<1>7. Landed' /\ Cleaned'
  BY <1>a DEF Landed, Cleaned
<1> QED BY <1>c, <1>3, <1>4, <1>5, <1>6, <1>7 DEF WaveInv

(* A new outcome leaves the others as they were. *)
LEMMA OutcomeAdded ==
  ASSUME NEW i, NEW kind
  PROVE  /\ DOMAIN Outcome(i, kind) = {i} \cup DOMAIN wave.outcomes
         /\ Outcome(i, kind)[i] = kind
         /\ \A j \in DOMAIN wave.outcomes : j # i => Outcome(i, kind)[j] = wave.outcomes[j]
BY DEF Outcome

(* What is left out of the merge changes nothing but the outcomes. *)
LEMMA UnmergeKept ==
  ASSUME WaveInv, wave.stage = "running", NEW i \in Members, Unmerge(i), UnchangedByMerge
  PROVE  WaveInv'
<1> USE DEF WaveInv, UnchangedByMerge
<1>1. /\ wave' = [stage |-> "running", base |-> wave.base, acc |-> wave.acc,
                  queue |-> wave.queue \ {i}, merged |-> wave.merged,
                  outcomes |-> Outcome(i, "unmerged")]
      /\ UNCHANGED << world, tree, authored, child, meter, reported, worktrees, processes >>
  BY DEF Unmerge, WaveShape
<1>2. WaveShape' /\ CapRead'
  <2>1. WaveShape'
    BY <1>1 DEF WaveShape
  <2>2. CapRead'
    BY <1>1 DEF CapRead
  <2> QED BY <2>1, <2>2
<1>3. Accumulated'
  BY <1>1 DEF Accumulated
<1>4. Copied'
  BY <1>1 DEF Copied
<1>5. ChildrenJudged'
  <2>1. ASSUME NEW j \in Members, j \in DOMAIN wave'.outcomes, wave'.outcomes[j] = "merged"
        PROVE  FALSE
    <3>1. wave'.outcomes = Outcome(i, "unmerged") /\ "unmerged" # "merged"
      BY <1>1
    <3>2. j # i
      BY <2>1, <3>1 DEF Outcome
    <3>3. j \in DOMAIN wave.outcomes /\ wave.outcomes[j] = "merged"
      BY <2>1, <3>1, <3>2 DEF Outcome
    <3> QED BY <3>3 DEF ChildrenJudged
  <2> QED BY <2>1 DEF ChildrenJudged
<1>6. Landed' /\ Cleaned'
  BY <1>1 DEF Landed, Cleaned
<1> QED BY <1>2, <1>3, <1>4, <1>5, <1>6

(* The parts of Accumulated, for the steps that build it anew. *)
LEMMA AccumulatedIsKept ==
  ASSUME wave'.stage = "running" => tree' = wave'.base,
         wave'.stage # "running" => tree' = wave'.acc,
         DOMAIN wave'.acc = DOMAIN wave'.base, DOMAIN tree' = DOMAIN wave'.base,
         \A i \in Members : DOMAIN child'[i].tree = DOMAIN wave'.base,
         \A i \in wave'.merged : child'[i].stage = "done",
         \A i \in wave'.merged : \A f \in DOMAIN wave'.base :
           child'[i].tree[f] # wave'.base[f] => wave'.acc[f] = child'[i].tree[f],
         \A f \in DOMAIN wave'.base :
           wave'.acc[f] # wave'.base[f] =>
             \E i \in wave'.merged : child'[i].tree[f] = wave'.acc[f],
         wave'.merged = {} => wave'.acc = wave'.base
  PROVE  Accumulated'
BY DEF Accumulated

(* Without a conflict the merge keeps every change merged before and adds   *)
(* every change of the member, and none that is neither's.                  *)
LEMMA MergeTreesIsBoth ==
  ASSUME NEW base, NEW ours, NEW theirs, NEW f \in DOMAIN base,
         ~Conflict(base, ours, theirs)
  PROVE  LET both == MergeTrees(base, ours, theirs) IN
           /\ theirs[f] # base[f] => both[f] = theirs[f]
           /\ ours[f] # base[f] => both[f] = ours[f]
           /\ both[f] \in {ours[f], theirs[f]}
           /\ both[f] = ours[f] \/ theirs[f] # base[f]
BY DEF Conflict, MergeTrees

LEMMA MergedKept ==
  ASSUME WaveInv, wave.stage = "running", NEW i \in Members, Finished(i),
         ~Conflict(wave.base, wave.acc, child[i].tree),
         wave' = [wave EXCEPT !.queue = @ \ {i}, !.merged = @ \cup {i},
                              !.acc = MergeTrees(wave.base, wave.acc, child[i].tree)],
         UnchangedByMerge
  PROVE  WaveInv'
<1> PICK both : both = MergeTrees(wave.base, wave.acc, child[i].tree)
  OBVIOUS
<1> USE DEF WaveInv, UnchangedByMerge
<1>1. /\ wave' = [stage |-> "running", base |-> wave.base, acc |-> both,
                  queue |-> wave.queue \ {i}, merged |-> wave.merged \cup {i},
                  outcomes |-> wave.outcomes]
      /\ UNCHANGED << world, tree, authored, child, meter, reported, worktrees, processes >>
  BY DEF WaveShape
<1>2. WaveShape' /\ CapRead'
  <2>1. WaveShape'
    <3>1. /\ wave'.stage = "running" /\ wave'.merged = wave.merged \cup {i}
          /\ wave'.queue = wave.queue \ {i}
      BY <1>1
    <3> QED BY <1>1, <3>1 DEF WaveShape
  <2>2. CapRead'
    BY <1>1 DEF CapRead
  <2> QED BY <2>1, <2>2
<1>3. Accumulated'
  <2>1. /\ DOMAIN both = DOMAIN wave.base /\ DOMAIN tree = DOMAIN wave.base
        /\ tree = wave.base
        /\ \A j \in Members : DOMAIN child[j].tree = DOMAIN wave.base
        /\ \A j \in wave.merged \cup {i} : child[j].stage = "done"
    BY DEF Accumulated, MergeTrees, Finished
  <2>2. ASSUME NEW j \in wave.merged \cup {i}, NEW f \in DOMAIN wave.base,
               child[j].tree[f] # wave.base[f]
        PROVE  both[f] = child[j].tree[f]
    BY <2>2, MergeTreesIsBoth DEF Accumulated
  <2>3. ASSUME NEW f \in DOMAIN wave.base, both[f] # wave.base[f]
        PROVE  \E j \in wave.merged \cup {i} : child[j].tree[f] = both[f]
    BY <2>3, MergeTreesIsBoth DEF Accumulated
  <2> HIDE DEF WaveInv
  <2>4. /\ wave'.stage = "running" /\ wave'.base = wave.base /\ wave'.acc = both
        /\ wave'.merged = wave.merged \cup {i}
    BY <1>1
  <2> QED BY <1>1, <2>1, <2>2, <2>3, <2>4, AccumulatedIsKept
<1>4. Copied'
  BY <1>1 DEF Copied
<1>5. ChildrenJudged'
  BY <1>1 DEF ChildrenJudged
<1>6. Landed' /\ Cleaned'
  BY <1>1 DEF Landed, Cleaned
<1> QED BY <1>2, <1>3, <1>4, <1>5, <1>6

LEMMA MergeKept ==
  ASSUME WaveInv, NEW i \in Members, Merge(i)
  PROVE  WaveInv'
BY UnmergeKept, MergedKept DEF Merge

(* The accumulated tree becomes the canonical one. *)
LEMMA PromoteKept ==
  ASSUME WaveInv, Promote
  PROVE  WaveInv'
<1> USE DEF WaveInv, Promote
<1>1. /\ wave' = [stage |-> IF wave.merged = {} THEN "verifying" ELSE "copying",
                  base |-> wave.base, acc |-> wave.acc, queue |-> wave.merged,
                  merged |-> wave.merged, outcomes |-> wave.outcomes]
      /\ UNCHANGED << world, authored, child, meter, reported, worktrees, processes >>
      /\ wave.stage = "running" /\ wave.queue = {}
  BY DEF WaveShape
<1>2. WaveShape' /\ CapRead'
  <2>1. WaveShape'
    BY <1>1 DEF WaveShape
  <2>2. CapRead'
    BY <1>1 DEF CapRead
  <2> QED BY <2>1, <2>2
<1>3. tree' = wave.acc
  BY DEF Accumulated
<1>4. Accumulated'
  BY <1>1, <1>3 DEF Accumulated
<1>5. Copied'
  BY <1>1 DEF Copied
<1>6. ChildrenJudged'
  BY <1>1 DEF ChildrenJudged
<1>7. Landed' /\ Cleaned'
  BY <1>1 DEF Landed, Cleaned
<1> QED BY <1>2, <1>4, <1>5, <1>6, <1>7

(* A copied file is somebody's, and what is copied later leaves it somebody's. *)
LEMMA CopyKept ==
  ASSUME WaveInv, NEW i \in Members, CopyGeneratedFiles(i)
  PROVE  WaveInv'
<1> USE DEF WaveInv, CopyGeneratedFiles
<1>1. /\ wave' = [stage |-> IF wave.queue = {i} THEN "verifying" ELSE "copying",
                  base |-> wave.base, acc |-> wave.acc, queue |-> wave.queue \ {i},
                  merged |-> wave.merged, outcomes |-> wave.outcomes]
      /\ UNCHANGED << world, tree, child, meter, reported, worktrees, processes >>
      /\ wave.stage = "copying"
  BY DEF WaveShape
<1>2. WaveShape' /\ CapRead'
  <2>1. WaveShape'
    BY <1>1 DEF WaveShape
  <2>2. CapRead'
    BY <1>1 DEF CapRead
  <2> QED BY <2>1, <2>2
<1>3. Accumulated'
  <2>1. /\ wave'.base = wave.base /\ wave'.acc = wave.acc /\ wave'.merged = wave.merged
        /\ wave'.stage # "running" /\ wave.stage = "copying"
    BY <1>1
  <2> HIDE DEF CopyGeneratedFiles
  <2> QED BY <1>1, <2>1 DEF Accumulated
<1>4. Copied'
  <2>1. ASSUME NEW j \in wave.merged \ (wave.queue \ {i}), NEW p \in world.authored[j]
        PROVE  authored'[p] # Nothing
    <3>1. j \in Members /\ p \in Paths
      BY DEF WaveShape, Paths
    <3>2. authored'[p] = IF p \in world.authored[i] THEN i ELSE authored[p]
      BY <3>1 DEF Beside
    <3> QED BY <1>1, <3>2, WaveAssumption DEF Copied
  <2> QED BY <1>1, <2>1 DEF Copied
<1>5. ChildrenJudged'
  BY <1>1 DEF ChildrenJudged
<1>6. Landed' /\ Cleaned'
  BY <1>1 DEF Landed, Cleaned
<1> QED BY <1>2, <1>3, <1>4, <1>5, <1>6

(* A rung judges the tree and the files it finds. *)
LEMMA ReverifyKept ==
  ASSUME WaveInv, NEW i \in Members, NEW pass \in BOOLEAN, Reverify(i, pass)
  PROVE  WaveInv'
<1> DEFINE c == child[i]
<1> PICK check : check = [pass |-> pass, tree |-> tree,
                          files |-> [p \in world.authored[i] |-> authored[p]]]
  OBVIOUS
<1> USE DEF WaveInv
<1>0. /\ wave' = [wave EXCEPT !.outcomes = Outcome(i, Reverified(pass))]
      /\ child' = [child EXCEPT ![i] = [c EXCEPT !.checked = check]]
      /\ UNCHANGED << world, tree, authored, meter, reported, worktrees, processes >>
      /\ wave.stage = "verifying" /\ i \in wave.merged
  BY DEF Reverify
<1>1. /\ wave' = [stage |-> "verifying", base |-> wave.base, acc |-> wave.acc,
                  queue |-> wave.queue, merged |-> wave.merged,
                  outcomes |-> Outcome(i, Reverified(pass))]
      /\ UNCHANGED << world, tree, authored, meter, reported, worktrees, processes >>
      /\ wave.stage = "verifying" /\ i \in wave.merged
  BY <1>0 DEF WaveShape
<1>a. child' = [child EXCEPT ![i] = [stage |-> c.stage, tree |-> c.tree, turns |-> c.turns,
                  own |-> c.own, pastCap |-> c.pastCap, checked |-> check]]
  <2>1. PICK d : d = [c EXCEPT !.checked = check]
    OBVIOUS
  <2>2. d = [stage |-> c.stage, tree |-> c.tree, turns |-> c.turns,
             own |-> c.own, pastCap |-> c.pastCap, checked |-> check]
    BY <2>1 DEF WaveShape, ChildShape
  <2> QED BY <1>0, <2>1, <2>2
<1>2. /\ \A j \in Members : j # i => child'[j] = child[j]
      /\ \A j \in Members : /\ child'[j].stage = child[j].stage
                            /\ child'[j].tree = child[j].tree
                            /\ child'[j].pastCap = child[j].pastCap
                            /\ ChildShape(child'[j])
      /\ child'[i].checked = check
  BY <1>a DEF WaveShape, ChildShape
<1>3. WaveShape'
  BY <1>1, <1>2, <1>a DEF WaveShape
<1>4. CapRead'
  BY <1>1, <1>2 DEF CapRead
<1>5. Accumulated'
  <2>1. /\ wave'.base = wave.base /\ wave'.acc = wave.acc /\ wave'.merged = wave.merged
        /\ wave'.stage = wave.stage /\ wave.stage = "verifying" /\ wave.merged \subseteq Members
    BY <1>1 DEF WaveShape
  <2> QED BY <1>1, <1>2, <2>1 DEF Accumulated
<1>6. Copied'
  BY <1>1 DEF Copied
<1>7. ChildrenJudged'
  <2>1. ASSUME Outcome(i, Reverified(pass))[i] = "merged" PROVE Checked(i, tree)'
    <3>1. pass
      <4>1. Reverified(pass) = "merged"
        BY <2>1 DEF Outcome
      <4> QED BY <4>1 DEF Reverified
    <3>2. \A p \in world.authored[i] : authored[p] # Nothing
      BY <1>1 DEF Copied
    <3>3. check.pass
      BY <3>1, Zenon
    <3>4. check.tree = tree /\ \A p \in world.authored[i] : check.files[p] = authored[p]
      OBVIOUS
    <3> QED BY <1>1, <1>2, <3>2, <3>3, <3>4 DEF Checked
  <2>2. ASSUME NEW j \in Members, j \in DOMAIN wave'.outcomes, j # i,
               wave'.outcomes[j] = "merged"
        PROVE  j \in wave.merged /\ Checked(j, tree)'
    <3>1. wave'.outcomes = Outcome(i, Reverified(pass))
      BY <1>1
    <3>2. j \in DOMAIN wave.outcomes /\ wave.outcomes[j] = "merged"
      BY <2>2, <3>1 DEF Outcome
    <3>3. j \in wave.merged /\ Checked(j, tree)
      BY <1>1, <3>2 DEF ChildrenJudged
    <3> QED BY <1>1, <1>2, <2>2, <3>3 DEF Checked
  <2> QED BY <1>1, <2>1, <2>2 DEF ChildrenJudged
<1>8. Landed' /\ Cleaned'
  BY <1>1 DEF Landed, Cleaned
<1> QED BY <1>3, <1>4, <1>5, <1>6, <1>7, <1>8

-----------------------------------------------------------------------------
(* Whatever is reported, by the runner or for it, is sound where only a     *)
(* member checked on the reported tree is called merged, and the tree holds *)
(* the base with nothing but accumulated changes.                           *)
LEMMA ReportKept ==
  ASSUME WaveInv, wave.stage # "down", NEW outcomes, NEW t, Report(outcomes, t),
         DOMAIN t = DOMAIN wave.base,
         \A f \in DOMAIN wave.base : t[f] # wave.base[f] => t[f] = wave.acc[f],
         \A i \in Members :
           outcomes[i] = "merged" => i \in wave.merged /\ t = wave.acc /\ Checked(i, t)
  PROVE  WaveInv'
<1> USE DEF WaveInv, Report
<1>1. /\ wave' = Down /\ reported' = [outcomes |-> outcomes, tree |-> t, base |-> wave.base]
      /\ worktrees' = worktrees \ Swept
      /\ UNCHANGED << world, authored, child, meter, processes >>
  OBVIOUS
<1>2. wave' = [stage |-> "down", base |-> Nothing, acc |-> Nothing, queue |-> {},
               merged |-> {}, outcomes |-> << >>]
  BY <1>1 DEF Down
<1>3. reported'.outcomes = outcomes /\ reported'.tree = t /\ reported'.base = wave.base
  BY <1>1
<1>4. WaveShape'
  BY <1>1, <1>2 DEF WaveShape
<1>5. CapRead'
  BY <1>1 DEF CapRead
<1>6. Accumulated' /\ Copied' /\ ChildrenJudged'
  BY <1>2 DEF Accumulated, Copied, ChildrenJudged
<1>7. MergedIsVerified'
  <2> SUFFICES ASSUME NEW i \in Members, outcomes[i] = "merged"
               PROVE  /\ child[i].stage = "done"
                      /\ \A f \in DOMAIN child[i].tree :
                           child[i].tree[f] # wave.base[f] => t[f] = child[i].tree[f]
                      /\ Checked(i, t)
    BY <1>1, <1>3 DEF MergedIsVerified, Merged, Changed, Checked
  <2>1. i \in wave.merged /\ t = wave.acc /\ Checked(i, t)
    OBVIOUS
  <2> QED BY <2>1 DEF Accumulated
<1>8. OnlyFinishedWork'
  <2> SUFFICES ASSUME NEW f \in DOMAIN t, t[f] # wave.base[f]
               PROVE  \E i \in Members : child[i].stage = "done" /\ child[i].tree[f] = t[f]
    BY <1>1, <1>3 DEF OnlyFinishedWork, Changed
  <2>1. t[f] = wave.acc[f] /\ f \in DOMAIN wave.base
    OBVIOUS
  <2> QED BY <2>1 DEF Accumulated, WaveShape
<1>9. Mine' = {}
  BY <1>1 DEF Mine, Swept
<1>10. Landed' /\ Cleaned'
  BY <1>2, <1>7, <1>8, <1>9 DEF Landed, Cleaned
<1> QED BY <1>4, <1>5, <1>6, <1>10

LEMMA ConcludeKept ==
  ASSUME WaveInv, Conclude
  PROVE  WaveInv'
<1>1. wave.stage = "verifying" /\ Report(wave.outcomes, tree) /\ DOMAIN wave.outcomes = Members
  BY DEF Conclude
<1>2. tree = wave.acc /\ DOMAIN tree = DOMAIN wave.base
  BY <1>1 DEF WaveInv, Accumulated
<1>3. \A i \in Members :
        wave.outcomes[i] = "merged" => i \in wave.merged /\ tree = wave.acc /\ Checked(i, tree)
  BY <1>1, <1>2 DEF WaveInv, ChildrenJudged
<1> QED BY <1>1, <1>2, <1>3, ReportKept

(* What a runner that threw leaves behind holds accumulated changes only, *)
LEMMA ThrownTrees ==
  ASSUME WaveInv, NEW t \in Thrown
  PROVE  /\ wave.stage # "down"
         /\ DOMAIN t = DOMAIN wave.base
         /\ \A f \in DOMAIN wave.base : t[f] # wave.base[f] => t[f] = wave.acc[f]
<1>1. CASE t = tree /\ wave.stage = "running"
  <2>1. tree = wave.base
    BY <1>1 DEF WaveInv, Accumulated
  <2> QED BY <1>1, <2>1
<1>2. CASE t = tree /\ wave.stage \in {"copying", "verifying"}
  <2>1. tree = wave.acc /\ DOMAIN tree = DOMAIN wave.base
    BY <1>2 DEF WaveInv, Accumulated
  <2> QED BY <1>2, <2>1
<1>3. ASSUME wave.stage = "running", NEW files \in SUBSET DOMAIN tree, t = Partly(files)
      PROVE  /\ DOMAIN t = DOMAIN wave.base
             /\ \A f \in DOMAIN wave.base : t[f] # wave.base[f] => t[f] = wave.acc[f]
  <2>1. tree = wave.base
    BY <1>3 DEF WaveInv, Accumulated
  <2> QED BY <1>3, <2>1 DEF Partly
<1> QED BY <1>1, <1>2, <1>3 DEF Thrown

(* and it reports nobody as merged. *)
LEMMA DowngradeKept ==
  ASSUME WaveInv, Downgrade
  PROVE  WaveInv'
<1>1. \A i \in Members : Unmerged[i] # "merged"
  BY DEF Unmerged
<1>2. PICK t \in Thrown : Report(Unmerged, t)
  BY DEF Downgrade
<1> QED BY <1>1, <1>2, ThrownTrees, ReportKept

(* A wave whose downgrade throws leaves no child, no worktree and no event. *)
LEMMA DowngradeFailsKept ==
  ASSUME WaveInv, DowngradeFails
  PROVE  WaveInv'
<1>1. /\ wave' = [stage |-> "down", base |-> Nothing, acc |-> Nothing, queue |-> {},
                  merged |-> {}, outcomes |-> << >>]
      /\ meter' = 0 /\ worktrees' = worktrees \ Swept
      /\ UNCHANGED << world, authored, reported, processes >>
      /\ wave.stage # "down"
  BY ThrownTrees DEF DowngradeFails, Down
<1>2. child' = [i \in Members |->
                  [stage |-> "none", tree |-> Nothing, turns |-> 0, own |-> 0, pastCap |-> 0,
                   checked |-> Nothing]]
  BY DEF DowngradeFails, NoChild
<1>3. WaveShape'
  BY <1>1, <1>2 DEF WaveInv, WaveShape, ChildShape, Stages
<1>4. CapRead'
  BY <1>2 DEF CapRead
<1>5. Accumulated' /\ Copied' /\ ChildrenJudged'
  BY <1>1 DEF Accumulated, Copied, ChildrenJudged
<1>6. Landed' /\ Cleaned'
  BY <1>1 DEF WaveInv, Landed, Cleaned
<1> QED BY <1>3, <1>4, <1>5, <1>6 DEF WaveInv

(* A killed process leaves no child and no wave, and no event. *)
LEMMA KillKept ==
  ASSUME WaveInv, Kill
  PROVE  WaveInv'
<1>1. /\ wave' = [stage |-> "down", base |-> Nothing, acc |-> Nothing, queue |-> {},
                  merged |-> {}, outcomes |-> << >>]
      /\ meter' = 0 /\ UNCHANGED << world, tree, authored, reported, worktrees, processes >>
      /\ wave.stage # "down"
  BY DEF Kill, Down
<1>2. child' = [i \in Members |->
                  [stage |-> "none", tree |-> Nothing, turns |-> 0, own |-> 0, pastCap |-> 0,
                   checked |-> Nothing]]
  BY DEF Kill, NoChild
<1>3. WaveShape'
  BY <1>1, <1>2 DEF WaveInv, WaveShape, ChildShape, Stages
<1>4. CapRead'
  BY <1>2 DEF CapRead
<1>5. Accumulated' /\ Copied' /\ ChildrenJudged'
  BY <1>1 DEF Accumulated, Copied, ChildrenJudged
<1>6. Landed' /\ Cleaned'
  BY <1>1 DEF WaveInv, Landed, Cleaned
<1> QED BY <1>3, <1>4, <1>5, <1>6 DEF WaveInv

-----------------------------------------------------------------------------
LEMMA WaveInvInit == WaveInit => WaveInv
<1> SUFFICES ASSUME WaveInit PROVE WaveInv
  OBVIOUS
<1>1. wave = [stage |-> "down", base |-> Nothing, acc |-> Nothing, queue |-> {},
              merged |-> {}, outcomes |-> << >>]
  BY DEF WaveInit, Down
<1>2. child = [i \in Members |->
                 [stage |-> "none", tree |-> Nothing, turns |-> 0, own |-> 0, pastCap |-> 0,
                  checked |-> Nothing]]
  BY DEF WaveInit, NoChild
<1>3. WaveShape
  BY <1>1, <1>2 DEF WaveInit, WaveShape, ChildShape, Stages
<1>4. CapRead
  BY <1>2 DEF CapRead
<1>5. Accumulated /\ Copied /\ ChildrenJudged
  BY <1>1 DEF Accumulated, Copied, ChildrenJudged
<1>6. Landed /\ Cleaned
  BY DEF WaveInit, Landed, Cleaned
<1> QED BY <1>3, <1>4, <1>5, <1>6 DEF WaveInv

(* Every step of a wave keeps what makes it sound. *)
LEMMA WaveInvNext ==
  ASSUME WaveInv, [WaveNext]_waveVars
  PROVE  WaveInv'
<1>1. ASSUME NEW i \in Members, ChildNext(i) PROVE WaveInv'
  <2>1. ChildMoved(i)
    BY <1>1, ChildMoves DEF WaveInv
  <2> QED BY <2>1, ChildMovedKept
<1>2. ASSUME NEW i \in Members, MergeNext(i) PROVE WaveInv'
  BY <1>2, MergeKept, CopyKept, ReverifyKept DEF MergeNext
<1>3. ASSUME UNCHANGED waveVars PROVE WaveInv'
  <2>1. UNCHANGED << world, tree, authored, wave, child, meter, reported, worktrees, processes >>
    BY <1>3 DEF waveVars
  <2>2. WaveShape' /\ CapRead'
    BY <2>1 DEF WaveInv, WaveShape, CapRead
  <2>3. Accumulated' /\ Copied'
    BY <2>1 DEF WaveInv, Accumulated, Copied
  <2>4. ChildrenJudged'
    BY <2>1 DEF WaveInv, ChildrenJudged, Checked
  <2>5. Landed'
    BY <2>1 DEF WaveInv, Landed, MergedIsVerified, OnlyFinishedWork, Merged, Changed
  <2>6. Cleaned'
    BY <2>1 DEF WaveInv, Cleaned, Mine
  <2> QED BY <2>2, <2>3, <2>4, <2>5, <2>6 DEF WaveInv
<1> QED
  BY <1>1, <1>2, <1>3, ForkKept, PromoteKept, ConcludeKept, DowngradeKept, DowngradeFailsKept, KillKept
     DEF WaveNext

LEMMA WaveInvariant == WaveSpec => []WaveInv
BY WaveInvInit, WaveInvNext, PTL DEF WaveSpec

(* For any members, trees and contracts, and whatever fails, conflicts or   *)
(* dies on the way: mergeAndReverify and performRunWave report a phase as   *)
(* merged only if it turned both keys and its rungs passed on the very tree *)
(* handed on, its changes and its files in place, and hand on no change of  *)
(* a phase that did not finish.                                             *)
THEOREM WaveIsSound == WaveSpec => []MergeIsSound
<1>1. WaveInv => MergeIsSound
  BY DEF WaveInv, Landed, MergeIsSound, MergedIsVerified, OnlyFinishedWork, Merged
<1> QED BY WaveInvariant, <1>1, PTL

(* Concurrent children read one meter (buildWaveRunner's budget): however   *)
(* their turns interleave, none begins a second one once the cap is spent.  *)
THEOREM CapIsShared == WaveSpec => []OneTurnPastCap
<1>1. WaveInv => OneTurnPastCap
  BY DEF WaveInv, CapRead, OneTurnPastCap, WaveShape, ChildShape
<1> QED BY WaveInvariant, <1>1, PTL

(* run's finally hands every worktree made to removal, those of failed      *)
(* children and of a wave that threw too, before the event is out.          *)
THEOREM WorktreesAreSwept == WaveSpec => []NoWorktreeLeft
<1>1. WaveInv => NoWorktreeLeft
  BY DEF WaveInv, Cleaned, NoWorktreeLeft
<1> QED BY WaveInvariant, <1>1, PTL

-----------------------------------------------------------------------------
(***************************************************************************)
(* The two keys of a run of any scenario see the change they are to judge, *)
(* whatever trees, edits, failures and crashes there are, and their panels *)
(* decide by the votes cast, whatever the size.                            *)
(***************************************************************************)

(* A resume that raises the autonomy lets HEAD, a baseline nobody pinned,   *)
(* move: that run is MCVerifyResume, and no scenario here.                  *)
NeverRaised == \A o \in Scenarios : ~o.mayRaise

Shape ==
  /\ opts \in Scenarios
  /\ w = [disk |-> w.disk, head |-> w.head, ignored |-> w.ignored, index |-> w.index]
  /\ log = [stage |-> log.stage, header |-> log.header, active |-> log.active,
            phase |-> log.phase, pinned |-> log.pinned, phases |-> log.phases]
  /\ mem = [up |-> mem.up, active |-> mem.active, approver |-> mem.approver,
            includes |-> mem.includes, edited |-> mem.edited,
            checkpoint |-> mem.checkpoint, prior |-> mem.prior, raised |-> mem.raised]
  /\ past = [phase |-> past.phase, judged |-> past.judged]
  /\ mem.up \in BOOLEAN /\ mem.raised \in BOOLEAN

(* The baseline a resumed process starts from before the log is read.       *)
RunStartAgain == AdoptRunStart(IF Git THEN HeadRef ELSE Fixed(EmptyTree))

Judged(b) == TreeOf(b) \in past.judged

(* What a process holds: the judge's baseline is a tree that was judged in  *)
(* this phase, the approver's the one the phase started from.               *)
Held ==
  mem.up =>
    /\ Judged(mem.active) /\ TreeOf(mem.approver) = past.phase
    /\ ~opts.delta => mem.active = mem.approver

(* What the log holds would give a resumed process the same.                *)
Kept ==
  /\ past.phase \in past.judged
  /\ log.active # NoBase => log.active.at = "tree" /\ log.active.tree \in past.judged
  /\ log.phase # NoBase =>
       log.phase.at = "tree" /\ log.phase.tree = past.phase /\ log.active # NoBase
  /\ log.phase = NoBase => TreeOf(RunStartAgain) = past.phase
  /\ ~opts.delta => log.active = log.phase

(* A checkpoint under way is of a judged tree, and can be taken back.       *)
Checkpointing ==
  /\ mem.checkpoint \in {"no", "due", "taken"}
  /\ mem.checkpoint # "no" => mem.up /\ log.stage = "work" /\ opts.delta
  /\ mem.checkpoint = "due" => Snapshot \in past.judged
  /\ mem.checkpoint = "taken" => Judged(mem.prior) /\ mem.active.at = "tree"

(* No baseline is HEAD where the worker may commit.                         *)
Pinned ==
  /\ mem.raised => opts.raised
  /\ opts.raised => /\ log.header.at = "tree"
                    /\ mem.active.at # "head" /\ mem.approver.at # "head"
                    /\ mem.prior.at # "head"

BaseInv == Shape /\ Held /\ Kept /\ Checkpointing /\ Pinned

(* What decides a panel that stopped.                                       *)
Decided(poll, size) == Cast(poll) = size \/ Settled(poll, size)

PollShape ==
  /\ opts \in Scenarios
  /\ log = [stage |-> log.stage, header |-> log.header, active |-> log.active,
            phase |-> log.phase, pinned |-> log.pinned, phases |-> log.phases]
  /\ lad = [i |-> lad.i, poll |-> lad.poll, calls |-> lad.calls]
  /\ lad.poll = [yes |-> lad.poll.yes, no |-> lad.poll.no, lost |-> lad.poll.lost,
                 sure |-> lad.poll.sure, stop |-> lad.poll.stop]
  /\ lad.poll.yes \in Nat /\ lad.poll.no \in Nat /\ lad.poll.lost \in Nat

PollInv ==
  /\ PollShape
  /\ lad.poll.stop =>
       /\ log.stage = "signoff" => Decided(lad.poll, opts.panel)
       /\ log.stage = "verify" /\ Rung = "refute" => Decided(lad.poll, opts.refuters)
       /\ log.stage \in {"verify", "signoff"}

-----------------------------------------------------------------------------
(* Differences. *)

(* A changed file is in the difference of a git tree as it now is, tracked  *)
(* or not, committed or not, and where git ignores it, if it is included.   *)
LEMMA GitDiffShows ==
  ASSUME NEW base, NEW includes, NEW f \in Files, f \notin Excluded,
         f \notin w.ignored \/ f \in includes, w.disk[f] # base[f]
  PROVE  Shows(GitDiff(w, base, includes), f)
<1> DEFINE diff == GitDiff(w, base, includes)
           tracked == Change(f, base[f], Only(w.disk, w.index)[f])
<1>1. ASSUME f \in w.index \/ w.disk[f] = None PROVE tracked \in diff /\ tracked.to = w.disk[f]
  <2>1. Only(w.disk, w.index)[f] = w.disk[f]
    BY <1>1 DEF Only
  <2>2. tracked \in Changes(base, Only(w.disk, w.index)) /\ tracked.file = f
    BY <2>1 DEF Changes, Change
  <2> QED BY <2>1, <2>2 DEF GitDiff, GitTracked, Change
<1>2. ASSUME f \notin w.index, w.disk[f] # None
      PROVE  \E d \in diff : d.file = f /\ d.to = w.disk[f]
  <2>1. f \in Untracked(w) \cup Forced(w, includes)
    BY <1>2 DEF Untracked, Forced
  <2>2. Change(f, None, w.disk[f]) \in diff
    BY <2>1 DEF GitDiff
  <2> QED BY <2>2 DEF Change
<1>3. ASSUME w.disk[f] = None, NEW d \in diff, d.file = f PROVE d.to = None
  <2>1. f \notin Untracked(w) \cup Forced(w, includes)
    BY <1>3 DEF Untracked, Forced
  <2>2. d \in Changes(base, Only(w.disk, w.index))
    BY <1>3, <2>1 DEF GitDiff, GitTracked, Change
  <2>3. d.to = Only(w.disk, w.index)[f]
    BY <1>3, <2>2 DEF Changes, Change
  <2> QED BY <1>3, <2>3 DEF Only
<1>4. tracked.file = f
  BY DEF Change
<1> HIDE DEF diff, tracked
<1>5. CASE w.disk[f] = None
  BY <1>1, <1>3, <1>4, <1>5 DEF Shows, diff
<1>6. CASE w.disk[f] # None
  BY <1>1, <1>2, <1>4, <1>6 DEF Shows, diff
<1> QED BY <1>5, <1>6

(* The same of a plain directory, where every file is walked. *)
LEMMA FileDiffShows ==
  ASSUME NEW base, NEW includes, NEW f \in Files, f \notin Excluded, w.disk[f] # base[f]
  PROVE  Shows(FileDiff(w, base, includes), f)
<1> DEFINE diff == FileDiff(w, base, includes)
           walked == Change(f, base[f], FileSnapshot(w)[f])
<1>1. FileSnapshot(w)[f] = w.disk[f]
  BY DEF FileSnapshot, Only
<1>2. walked \in Changes(base, FileSnapshot(w)) /\ walked.file = f /\ walked.to = w.disk[f]
  BY <1>1 DEF Changes, Change
<1>3. walked \in diff
  BY <1>2 DEF FileDiff
<1>4. f \notin FileForced(w, base, includes)
  BY <1>2 DEF FileForced
<1>5. ASSUME NEW d \in diff, d.file = f PROVE d.to = w.disk[f]
  <2>1. d \in Changes(base, FileSnapshot(w))
    BY <1>4, <1>5 DEF FileDiff, Change
  <2> QED BY <1>1, <1>5, <2>1 DEF Changes, Change
<1> HIDE DEF diff, walked
<1> QED BY <1>2, <1>3, <1>5 DEF Shows, diff

(* What a key is shown covers everything that differs from its baseline.    *)
LEMMA DiffCovers ==
  ASSUME NEW b
  PROVE  Covers(Diff(b), TreeOf(b))
<1> SUFFICES ASSUME NEW f \in Reviewable, w.disk[f] # TreeOf(b)[f]
             PROVE  Shows(Diff(b), f)
  BY DEF Covers
<1>1. f \in Files /\ f \notin Excluded /\ (f \notin w.ignored \/ f \in mem.includes)
  BY DEF Reviewable
<1>2. CASE Git
  BY <1>1, <1>2, GitDiffShows DEF Diff
<1>3. CASE ~Git
  BY <1>1, <1>3, FileDiffShows DEF Diff
<1> QED BY <1>2, <1>3

(* Git hides the authored bar; a difference that includes it shows it.      *)
LEMMA GitDiffShowsIncluded ==
  ASSUME NEW base, NEW includes, NEW f \in includes, w.disk[f] # None
  PROVE  Shows(GitDiff(w, base, includes), f)
<1>1. f \in Untracked(w) \cup Forced(w, includes)
  BY DEF Forced
<1>2. Change(f, None, w.disk[f]) \in GitDiff(w, base, includes)
  BY <1>1 DEF GitDiff
<1> QED BY <1>2 DEF Shows, Change

-----------------------------------------------------------------------------
(* Baselines. *)

TreeShape(x) == x = [disk |-> x.disk, head |-> x.head, ignored |-> x.ignored, index |-> x.index]

(* What every step of the ladder, the panel and the log has in common: no   *)
(* baseline moves, and a checkpoint comes due only on a tree just judged.   *)
Graded ==
  /\ mem.up /\ UNCHANGED opts
  /\ TreeShape(w') /\ w'.head = w.head
  /\ Shape'
  /\ mem'.up /\ mem'.active = mem.active /\ mem'.approver = mem.approver
  /\ mem'.prior = mem.prior /\ mem'.raised = mem.raised
  /\ log'.header = log.header /\ log'.active = log.active /\ log'.phase = log.phase
  /\ past'.phase = past.phase /\ past.judged \subseteq past'.judged
  /\ \/ mem'.checkpoint = "no"
     \/ mem'.checkpoint = "due" /\ log'.stage = "work" /\ opts.delta /\ Snapshot' \in past'.judged
     \/ mem'.checkpoint = mem.checkpoint /\ log'.stage = log.stage /\ w' = w

(* A logged step may make a checkpoint due, where the worker goes on. *)
LEMMA LoggedGrades ==
  ASSUME Shape, mem.up, UNCHANGED opts, TreeShape(w'), w'.head = w.head,
         NEW event, NEW next, Logged(event, next)
  PROVE  Graded
<1>1. log' = [stage |-> next, header |-> log.header, active |-> log.active,
              phase |-> log.phase, pinned |-> log.pinned, phases |-> log.phases]
  BY DEF Logged, Shape
<1>2. PICK check : check = IF Continues(event, next) THEN "due" ELSE "no"
  OBVIOUS
<1>3. mem' = [up |-> mem.up, active |-> mem.active, approver |-> mem.approver,
              includes |-> mem.includes, edited |-> FALSE,
              checkpoint |-> check, prior |-> mem.prior, raised |-> mem.raised]
  BY <1>2 DEF Logged, Shape
<1>4. PICK more : past' = [phase |-> past.phase, judged |-> past.judged \cup more]
                  /\ (event # "AGENT_RAN" => SnapshotOf(w') \in more)
  <2>1. CASE event = "AGENT_RAN"
    <3>1. past' = [phase |-> past.phase, judged |-> past.judged \cup {}]
      BY <2>1 DEF Logged, Shape
    <3> QED BY <2>1, <3>1
  <2>2. CASE event # "AGENT_RAN"
    <3>1. past' = [phase |-> past.phase, judged |-> past.judged \cup {SnapshotOf(w')}]
      BY <2>2 DEF Logged, Shape
    <3> QED BY <3>1
  <2> QED BY <2>1, <2>2
<1>5. Shape'
  BY <1>1, <1>3, <1>4 DEF Shape, TreeShape
<1>6. \/ check = "no"
      \/ check = "due" /\ next = "work" /\ opts.delta /\ Snapshot' \in past'.judged
  <2>1. CASE Continues(event, next)
    <3>1. opts.delta /\ next = "work" /\ event # "AGENT_RAN"
      BY <2>1 DEF Continues
    <3>2. Snapshot' = SnapshotOf(w')
      BY DEF Snapshot, SnapshotOf, Git
    <3> QED BY <1>2, <1>4, <2>1, <3>1, <3>2
  <2> QED BY <1>2, <2>1
<1> QED BY <1>1, <1>3, <1>4, <1>5, <1>6 DEF Graded

(* A step that is not logged changes at most the files a command wrote. *)
LEMMA UnloggedGrades ==
  ASSUME Shape, mem.up, UNCHANGED <<opts, log, mem, past>>, TreeShape(w'), w'.head = w.head,
         w' = w \/ mem.checkpoint = "no"
  PROVE  Graded
BY DEF Graded, Shape, TreeShape

LEMMA VerdictGrades ==
  ASSUME Shape, mem.up, mem.checkpoint = "no", UNCHANGED opts, TreeShape(w'), w'.head = w.head,
         NEW v, Verdict(v)
  PROVE  Graded
BY LoggedGrades, UnloggedGrades DEF Verdict

GraderNext ==
  \/ RunAgent \/ GuardRung \/ DeterministicRung \/ GateRung
  \/ AskJudge \/ JudgeRung \/ AskRefuter \/ RefuterRung \/ RungThrows
  \/ LadderGreen \/ AskApprover \/ Signoff \/ SignoffThrows

LEMMA GraderGrades ==
  ASSUME Shape, GraderNext
  PROVE  Graded
<1> USE DEF At, Grading, Idle
<1>1. TreeShape(w)
  BY DEF Shape, TreeShape
<1>2. CASE RunAgent
  BY <1>1, <1>2, LoggedGrades DEF RunAgent
<1>3. CASE GuardRung
  BY <1>1, <1>3, VerdictGrades DEF GuardRung
<1>4. CASE DeterministicRung
  <2>1. PICK exit \in Exits, written \in SUBSET {Output} :
               /\ w' = [w EXCEPT !.disk = [f \in Files |->
                          IF f \in written THEN CHOOSE c \in Contents : TRUE ELSE w.disk[f]]]
               /\ Verdict(Deterministic(exit))
    BY <1>4 DEF DeterministicRung
  <2>2. TreeShape(w') /\ w'.head = w.head
    BY <1>1, <2>1 DEF TreeShape
  <2> QED BY <1>4, <2>1, <2>2, VerdictGrades DEF DeterministicRung
<1>5. CASE GateRung
  BY <1>1, <1>5, VerdictGrades, UnloggedGrades DEF GateRung
<1>6. CASE AskJudge
  BY <1>1, <1>6, UnloggedGrades DEF AskJudge, Poll
<1>7. CASE JudgeRung
  BY <1>1, <1>7, VerdictGrades DEF JudgeRung
<1>8. CASE AskRefuter
  BY <1>1, <1>8, UnloggedGrades DEF AskRefuter, Poll
<1>9. CASE RefuterRung
  BY <1>1, <1>9, VerdictGrades DEF RefuterRung
<1>10. CASE RungThrows
  BY <1>1, <1>10, VerdictGrades DEF RungThrows
<1>11. CASE LadderGreen
  BY <1>1, <1>11, LoggedGrades DEF LadderGreen
<1>12. CASE AskApprover
  BY <1>1, <1>12, UnloggedGrades DEF AskApprover, Poll
<1>13. CASE Signoff
  BY <1>1, <1>13, LoggedGrades DEF Signoff
<1>14. CASE SignoffThrows
  BY <1>1, <1>14, LoggedGrades DEF SignoffThrows
<1> QED
  BY <1>2, <1>3, <1>4, <1>5, <1>6, <1>7, <1>8, <1>9, <1>10, <1>11, <1>12, <1>13, <1>14
     DEF GraderNext

(* The trees the baselines stand for do not change with a grade. *)
LEMMA GradedKept ==
  ASSUME BaseInv, Graded
  PROVE  BaseInv'
<1> USE DEF BaseInv
<1>2. Held'
  BY DEF Graded, Held, Judged, TreeOf
<1>3. Kept'
  BY DEF Graded, Kept, TreeOf, RunStartAgain, AdoptRunStart, Git
<1>4. Checkpointing'
  BY DEF Graded, Checkpointing, Judged, TreeOf, Snapshot, SnapshotOf, Git
<1>5. Pinned'
  BY DEF Graded, Pinned
<1>6. Shape'
  BY DEF Graded
<1> QED BY <1>2, <1>3, <1>4, <1>5, <1>6

(* A crash leaves the log, and the tree no checkpoint was promised of. *)
LEMMA CrashKept ==
  ASSUME BaseInv, Crash
  PROVE  BaseInv'
<1> USE DEF BaseInv
<1>1. /\ mem' = [up |-> FALSE, active |-> NoBase, approver |-> NoBase, includes |-> {},
                 edited |-> FALSE, checkpoint |-> "no", prior |-> NoBase, raised |-> mem.raised]
      /\ UNCHANGED <<opts, w, log, past>>
  BY DEF Crash, Shape
<1>2. Shape'
  BY <1>1 DEF Shape
<1>3. Held' /\ Checkpointing'
  BY <1>1 DEF Held, Checkpointing
<1>4. Kept'
  BY <1>1 DEF Kept, TreeOf, RunStartAgain, AdoptRunStart, Git
<1>5. Pinned'
  BY <1>1 DEF Pinned, NoBase
<1> QED BY <1>2, <1>3, <1>4, <1>5

(* A resumed process finds in the log, or in the run's start, what the dead *)
(* one held or a tree judged before it.                                     *)
LEMMA ResumeKept ==
  ASSUME NeverRaised, BaseInv, Resume
  PROVE  BaseInv'
<1> USE DEF BaseInv
<1>1. PICK raised \in BOOLEAN :
        /\ raised => opts.raised
        /\ mem' = [up |-> TRUE, active |-> Hydrated(log.active, RunStartAgain),
                   approver |-> Hydrated(log.phase, RunStartAgain),
                   includes |-> IF log.pinned # None THEN {Bar} ELSE {},
                   edited |-> mem.edited, checkpoint |-> mem.checkpoint, prior |-> mem.prior,
                   raised |-> raised]
  <2>1. PICK raised \in BOOLEAN :
          /\ raised => Git /\ (opts.raised \/ opts.mayRaise)
          /\ mem' = [mem EXCEPT !.up = TRUE, !.active = Hydrated(log.active, RunStartAgain),
                       !.approver = Hydrated(log.phase, RunStartAgain),
                       !.includes = IF log.pinned # None THEN {Bar} ELSE {},
                       !.raised = raised]
    BY DEF Resume, RunStartAgain
  <2>2. raised => opts.raised
    BY <2>1 DEF NeverRaised, Shape
  <2> QED BY <2>1, <2>2 DEF Shape
<1>2. UNCHANGED <<opts, w, log, past>> /\ ~mem.up
  BY DEF Resume
<1>3. Shape'
  BY <1>1, <1>2 DEF Shape
<1>4. mem'.active = Hydrated(log.active, RunStartAgain)
      /\ mem'.approver = Hydrated(log.phase, RunStartAgain)
      /\ mem'.checkpoint = mem.checkpoint /\ mem'.prior = mem.prior
  BY <1>1
<1>5. \A b : b.at = "tree" => TreeOf(b) = b.tree
  BY DEF TreeOf
<1>6. TreeOf(mem'.approver) = past.phase
  BY <1>4, <1>5 DEF Kept, Hydrated
<1>7. TreeOf(mem'.active) \in past.judged
  BY <1>4, <1>5 DEF Kept, Hydrated
<1>8. ~opts.delta => mem'.active = mem'.approver
  BY <1>4 DEF Kept, Hydrated
<1>9. Held'
  BY <1>2, <1>6, <1>7, <1>8 DEF Held, Judged, TreeOf
<1>10. Kept'
  BY <1>2 DEF Kept, TreeOf, RunStartAgain, AdoptRunStart, Git
<1>11. Checkpointing'
  BY <1>2, <1>4 DEF Checkpointing
<1>12. Pinned'
  <2>1. opts.raised => RunStartAgain.at # "head"
    <3>1. HeadRef.at = "head" /\ Fixed(EmptyTree).at = "tree" /\ NoBase.at = "none"
      BY DEF HeadRef, Fixed, NoBase
    <3> QED BY <3>1 DEF RunStartAgain, AdoptRunStart, Pinned
  <2>2. mem'.raised => opts.raised
    BY <1>1
  <2>3. opts.raised => mem'.active.at # "head" /\ mem'.approver.at # "head"
    BY <1>4, <2>1 DEF Hydrated, Kept
  <2> QED BY <1>2, <1>4, <2>2, <2>3 DEF Pinned
<1> QED BY <1>3, <1>9, <1>10, <1>11, <1>12

(* The bar is written and pinned before any baseline of its phase moves. *)
LEMMA FreezeKept ==
  ASSUME BaseInv, Freeze
  PROVE  BaseInv'
<1> USE DEF BaseInv
<1>1. /\ UNCHANGED <<opts, past>> /\ mem.up /\ log.stage = "seal"
      /\ TreeShape(w') /\ w'.head = w.head
      /\ \E includes : mem' = [mem EXCEPT !.includes = includes]
      /\ \E pinned : log' = [log EXCEPT !.stage = "work", !.pinned = pinned]
  <2>1. TreeShape(w)
    BY DEF Shape, TreeShape
  <2>2. CASE opts.authored
    <3>1. PICK disk, ignored, c :
            /\ w' = [w EXCEPT !.disk = disk, !.ignored = ignored]
            /\ log' = [log EXCEPT !.stage = "work", !.pinned = c]
      <4>1. PICK c \in Contents, hidden \in BOOLEAN :
              /\ w' = [w EXCEPT !.disk[Bar] = c, !.ignored = ExcludeFromGit(hidden)]
              /\ log' = [log EXCEPT !.stage = "work", !.pinned = c]
        BY <2>2 DEF Freeze
      <4>2. w' = [w EXCEPT !.disk = [w.disk EXCEPT ![Bar] = c],
                           !.ignored = ExcludeFromGit(hidden)]
        BY <2>1, <4>1 DEF TreeShape
      <4> QED BY <4>1, <4>2
    <3>2. TreeShape(w') /\ w'.head = w.head
      BY <2>1, <3>1 DEF TreeShape
    <3> QED BY <2>2, <3>1, <3>2 DEF Freeze, At
  <2>3. CASE ~opts.authored
    BY <2>1, <2>3 DEF Freeze, At
  <2> QED BY <2>2, <2>3
<1>2. PICK includes : mem' = [up |-> mem.up, active |-> mem.active, approver |-> mem.approver,
              includes |-> includes, edited |-> mem.edited,
              checkpoint |-> mem.checkpoint, prior |-> mem.prior, raised |-> mem.raised]
  BY <1>1 DEF Shape
<1>3. PICK pinned : log' = [stage |-> "work", header |-> log.header, active |-> log.active,
              phase |-> log.phase, pinned |-> pinned, phases |-> log.phases]
  BY <1>1 DEF Shape
<1>4. Shape'
  BY <1>1, <1>2, <1>3 DEF Shape, TreeShape
<1>5. mem.checkpoint = "no"
  BY <1>1 DEF Checkpointing
<1>6. Held'
  BY <1>1, <1>2 DEF Held, Judged, TreeOf
<1>7. Kept'
  BY <1>1, <1>3 DEF Kept, TreeOf, RunStartAgain, AdoptRunStart, Git
<1>8. Checkpointing'
  BY <1>2, <1>5 DEF Checkpointing
<1>9. Pinned'
  BY <1>1, <1>2, <1>3 DEF Pinned
<1> QED BY <1>4, <1>6, <1>7, <1>8, <1>9

(* A worker that may commit moves a HEAD no baseline is. *)
LEMMA EditKept ==
  ASSUME BaseInv, Edit
  PROVE  BaseInv'
<1> USE DEF BaseInv
<1>1. PICK disk, head, index :
        /\ w' = [w EXCEPT !.disk = disk, !.head = head, !.index = index]
        /\ head # w.head => mem.raised
  <2> DEFINE Disk(f, c) == [w.disk EXCEPT ![f] = c]
             Tracked(f, c) == {g \in Files \ (w.ignored \cup Excluded) : Disk(f, c)[g] # None}
  <2>1. PICK f \in Files \ Excluded, c \in Contents \cup {None}, commits \in BOOLEAN :
          /\ commits => mem.raised
          /\ w' = [w EXCEPT !.disk = Disk(f, c),
                            !.head = IF commits THEN Only(Disk(f, c), Tracked(f, c)) ELSE @,
                            !.index = IF commits THEN Tracked(f, c) ELSE @]
    BY DEF Edit
  <2> HIDE DEF Disk, Tracked
  <2>2. CASE commits
    <3>1. w' = [w EXCEPT !.disk = Disk(f, c), !.head = Only(Disk(f, c), Tracked(f, c)),
                         !.index = Tracked(f, c)]
      BY <2>1, <2>2
    <3>2. mem.raised
      BY <2>1, <2>2
    <3> QED BY <3>1, <3>2
  <2>3. CASE ~commits
    <3>1. w' = [w EXCEPT !.disk = Disk(f, c), !.head = w.head, !.index = w.index]
      BY <2>1, <2>3
    <3> QED BY <3>1
  <2> QED BY <2>2, <2>3
<1>2. w' = [disk |-> disk, head |-> head, ignored |-> w.ignored, index |-> index]
  BY <1>1 DEF Shape
<1>3. /\ mem' = [up |-> mem.up, active |-> mem.active, approver |-> mem.approver,
                 includes |-> mem.includes, edited |-> TRUE, checkpoint |-> mem.checkpoint,
                 prior |-> mem.prior, raised |-> mem.raised]
      /\ UNCHANGED <<opts, log, past>> /\ mem.checkpoint = "no" /\ mem.up
  BY DEF Edit, At, Shape
<1>4. Shape'
  BY <1>2, <1>3 DEF Shape
<1>5. w'.head = w.head \/ opts.raised
  BY <1>1, <1>2 DEF Pinned
<1>6. Held'
  BY <1>3, <1>5 DEF Held, Judged, TreeOf, Pinned
<1>7. Kept'
  <2>1. TreeOf(RunStartAgain)' = TreeOf(RunStartAgain)
    <3>1. CASE w'.head = w.head
      BY <1>3, <3>1 DEF TreeOf, RunStartAgain, AdoptRunStart, Git
    <3>2. CASE opts.raised
      <4>1. RunStartAgain' = RunStartAgain
        BY <1>3 DEF RunStartAgain, AdoptRunStart, Git
      <4>2. RunStartAgain.at # "head"
        <5>1. HeadRef.at = "head" /\ Fixed(EmptyTree).at = "tree" /\ NoBase.at = "none"
          BY DEF HeadRef, Fixed, NoBase
        <5> QED BY <3>2, <5>1 DEF RunStartAgain, AdoptRunStart, Pinned
      <4> QED BY <4>1, <4>2 DEF TreeOf
    <3> QED BY <1>5, <3>1, <3>2
  <2> QED BY <1>3, <2>1 DEF Kept
<1>8. Checkpointing'
  BY <1>3 DEF Checkpointing
<1>9. Pinned'
  BY <1>3 DEF Pinned
<1> QED BY <1>4, <1>6, <1>7, <1>8, <1>9

(* The checkpoint is of the tree the verdict was about. *)
LEMMA CheckpointTreeKept ==
  ASSUME BaseInv, CheckpointTree
  PROVE  BaseInv'
<1> USE DEF BaseInv
<1>1. /\ mem' = [up |-> mem.up, active |-> Fixed(Snapshot), approver |-> mem.approver,
                 includes |-> mem.includes, edited |-> mem.edited, checkpoint |-> "taken",
                 prior |-> mem.active, raised |-> mem.raised]
      /\ UNCHANGED <<opts, w, log, past>> /\ mem.up /\ mem.checkpoint = "due"
  BY DEF CheckpointTree, Shape
<1>2. Fixed(Snapshot).at = "tree" /\ Fixed(Snapshot).tree = Snapshot
  BY DEF Fixed
<1>3. Snapshot \in past.judged /\ opts.delta /\ log.stage = "work"
  BY <1>1 DEF Checkpointing
<1>4. Shape'
  BY <1>1 DEF Shape
<1>5. mem'.active = Fixed(Snapshot) /\ mem'.approver = mem.approver /\ mem'.prior = mem.active
  BY <1>1
<1>6. Held'
  BY <1>1, <1>2, <1>3, <1>5 DEF Held, Judged, TreeOf
<1>7. Kept'
  BY <1>1 DEF Kept, TreeOf, RunStartAgain, AdoptRunStart, Git
<1>8. Checkpointing'
  BY <1>1, <1>2, <1>3, <1>5 DEF Checkpointing, Held, Judged, TreeOf
<1>9. Pinned'
  BY <1>1, <1>2, <1>5 DEF Pinned
<1> QED BY <1>4, <1>6, <1>7, <1>8, <1>9

(* The log takes over a judged tree. *)
LEMMA RecordCheckpointKept ==
  ASSUME BaseInv, RecordCheckpoint
  PROVE  BaseInv'
<1> USE DEF BaseInv
<1>1. /\ mem' = [up |-> mem.up, active |-> mem.active, approver |-> mem.approver,
                 includes |-> mem.includes, edited |-> mem.edited, checkpoint |-> "no",
                 prior |-> NoBase, raised |-> mem.raised]
      /\ log' = [stage |-> log.stage, header |-> log.header, active |-> mem.active,
                 phase |-> log.phase, pinned |-> log.pinned, phases |-> log.phases]
      /\ UNCHANGED <<opts, w, past>> /\ mem.up /\ mem.checkpoint = "taken"
  BY DEF RecordCheckpoint, Shape
<1>2. mem.active.at = "tree" /\ mem.active.tree \in past.judged /\ opts.delta
  BY <1>1 DEF Checkpointing, Held, Judged, TreeOf
<1>3. mem.active # NoBase
  BY <1>2 DEF NoBase
<1>4. Shape'
  BY <1>1 DEF Shape
<1>5. Held'
  BY <1>1 DEF Held, Judged, TreeOf
<1>6. Kept'
  BY <1>1, <1>2, <1>3 DEF Kept, TreeOf, RunStartAgain, AdoptRunStart, Git
<1>7. Checkpointing'
  BY <1>1 DEF Checkpointing
<1>8. Pinned'
  BY <1>1 DEF Pinned, NoBase
<1> QED BY <1>4, <1>5, <1>6, <1>7, <1>8

(* A checkpoint that fails leaves, or gives back, the baseline before it. *)
LEMMA CheckpointFailsKept ==
  ASSUME BaseInv, CheckpointFails
  PROVE  BaseInv'
<1> USE DEF BaseInv
<1>1. PICK active : active = IF mem.checkpoint = "taken" THEN mem.prior ELSE mem.active
  OBVIOUS
<1>2. /\ mem' = [up |-> mem.up, active |-> active, approver |-> mem.approver,
                 includes |-> mem.includes, edited |-> mem.edited, checkpoint |-> "no",
                 prior |-> NoBase, raised |-> mem.raised]
      /\ UNCHANGED <<opts, w, log, past>> /\ mem.up /\ mem.checkpoint \in {"due", "taken"}
  BY <1>1 DEF CheckpointFails, Shape
<1>3. opts.delta /\ TreeOf(active) \in past.judged
  BY <1>1, <1>2 DEF Checkpointing, Held, Judged
<1>4. Shape'
  BY <1>2 DEF Shape
<1>5. Held'
  BY <1>2, <1>3 DEF Held, Judged, TreeOf
<1>6. Kept'
  BY <1>2 DEF Kept, TreeOf, RunStartAgain, AdoptRunStart, Git
<1>7. Checkpointing'
  BY <1>2 DEF Checkpointing
<1>8. Pinned'
  BY <1>1, <1>2 DEF Pinned, NoBase
<1> QED BY <1>4, <1>5, <1>6, <1>7, <1>8

(* The next phase starts from the tree both baselines and the log now name. *)
LEMMA AdvanceKept ==
  ASSUME BaseInv, CheckpointAndAdvance
  PROVE  BaseInv'
<1> USE DEF BaseInv
<1>1. PICK base : base = Fixed(Snapshot)
  OBVIOUS
<1>2. /\ log' = [log EXCEPT !.stage = "seal", !.active = base, !.phase = base,
                            !.phases = @ - 1, !.pinned = None]
      /\ mem' = [mem EXCEPT !.active = base, !.approver = base]
      /\ past' = [phase |-> Snapshot, judged |-> {Snapshot}]
      /\ UNCHANGED <<opts, w>> /\ mem.up /\ log.stage = "advance"
  BY <1>1 DEF CheckpointAndAdvance, At
<1>3. log' = [stage |-> "seal", header |-> log.header, active |-> base, phase |-> base,
              pinned |-> None, phases |-> log.phases - 1]
  BY <1>2 DEF Shape
<1>4. mem' = [up |-> mem.up, active |-> base, approver |-> base, includes |-> mem.includes,
              edited |-> mem.edited, checkpoint |-> mem.checkpoint, prior |-> mem.prior,
              raised |-> mem.raised]
  BY <1>2 DEF Shape
<1>5. base.at = "tree" /\ base.tree = Snapshot /\ base # NoBase
  BY <1>1 DEF Fixed, NoBase
<1>6. past'.phase = Snapshot /\ past'.judged = {Snapshot} /\ mem.checkpoint = "no"
  BY <1>2 DEF Checkpointing
<1>7. Shape'
  BY <1>2, <1>3, <1>4 DEF Shape
<1>8. Held'
  BY <1>4, <1>5, <1>6 DEF Held, Judged, TreeOf
<1>9. Kept'
  BY <1>3, <1>5, <1>6 DEF Kept
<1>10. Checkpointing'
  BY <1>4, <1>6 DEF Checkpointing
<1>11. Pinned'
  BY <1>2, <1>3, <1>4, <1>5 DEF Pinned
<1> QED BY <1>7, <1>8, <1>9, <1>10, <1>11

LEMMA BaseInvInit ==
  ASSUME NeverRaised, Init
  PROVE  BaseInv
<1> PICK disk, head : 
      /\ opts.mode = "file" => head = EmptyTree
      /\ opts.raised \/ opts.mayRaise => head # EmptyTree
      /\ w = [disk |-> disk, head |-> head, ignored |-> {},
              index |-> {f \in Files : head[f] # None}]
      /\ log = [stage |-> "seal", header |-> Recorded(RunStart(opts, head)),
                active |-> NoBase, phase |-> NoBase,
                pinned |-> None, phases |-> opts.phases]
      /\ mem = [up |-> TRUE, active |-> RunStart(opts, head),
                approver |-> RunStart(opts, head), includes |-> {},
                edited |-> FALSE, checkpoint |-> "no", prior |-> NoBase,
                raised |-> opts.raised]
      /\ past = [phase |-> head, judged |-> {head}]
      /\ opts \in Scenarios
  BY DEF Init
<1>1. PICK start : start = RunStart(opts, head)
  OBVIOUS
<1>2. /\ mem.active = start /\ mem.approver = start /\ mem.checkpoint = "no"
      /\ log.header = Recorded(start) /\ log.active = NoBase /\ log.phase = NoBase
      /\ past.phase = head /\ past.judged = {head} /\ mem.prior = NoBase /\ w.head = head
  BY <1>1
<1>3. /\ HeadRef.at = "head" /\ NoBase.at = "none"
      /\ \A t : Fixed(t).at = "tree" /\ Fixed(t).tree = t
  BY DEF HeadRef, Fixed, NoBase
<1>4. TreeOf(start) = head
  BY <1>1, <1>2, <1>3 DEF RunStart, TreeOf
<1>5. TreeOf(RunStartAgain) = head
  <2>1. CASE opts.mode = "file"
    BY <1>3, <2>1 DEF RunStartAgain, AdoptRunStart, TreeOf, Git
  <2>2. CASE opts.mode = "git" /\ start = HeadRef
    BY <1>2, <1>3, <2>2 DEF RunStartAgain, AdoptRunStart, Recorded, TreeOf, Git
  <2>3. CASE opts.mode = "git" /\ start = Fixed(head)
    BY <1>2, <1>3, <2>3 DEF RunStartAgain, AdoptRunStart, Recorded, TreeOf, Git
  <2>4. opts.mode \in {"git", "file"}
    BY ScenariosAssumption
  <2> QED BY <1>1, <2>1, <2>2, <2>3, <2>4 DEF RunStart
<1>6. opts.raised => start.at = "tree" /\ Recorded(start) = start
  BY <1>1, <1>3 DEF RunStart, Recorded
<1>7. Shape
  BY ScenariosAssumption DEF Shape
<1>8. Held
  BY <1>2, <1>4 DEF Held, Judged
<1>9. Kept
  BY <1>2, <1>5 DEF Kept
<1>10. Checkpointing
  BY <1>2 DEF Checkpointing
<1>11. Pinned
  <2>1. mem.raised = opts.raised
    OBVIOUS
  <2> QED BY <1>2, <1>3, <1>6, <2>1 DEF Pinned
<1> QED BY <1>7, <1>8, <1>9, <1>10, <1>11 DEF BaseInv

LEMMA BaseInvNext ==
  ASSUME NeverRaised, BaseInv, [Next]_vars
  PROVE  BaseInv'
<1>1. ASSUME GraderNext PROVE BaseInv'
  BY <1>1, GraderGrades, GradedKept DEF BaseInv
<1>2. ASSUME UNCHANGED vars PROVE BaseInv'
  <2>1. UNCHANGED <<opts, w, log, mem, past>>
    BY <1>2 DEF vars
  <2>2. Shape'
    BY <2>1 DEF BaseInv, Shape
  <2>3. Held' /\ Checkpointing'
    BY <2>1 DEF BaseInv, Held, Checkpointing, Judged, TreeOf, Snapshot, SnapshotOf, Git
  <2>4. Kept' /\ Pinned'
    BY <2>1 DEF BaseInv, Kept, Pinned, TreeOf, RunStartAgain, AdoptRunStart, Git
  <2> QED BY <2>2, <2>3, <2>4 DEF BaseInv
<1> QED
  BY <1>1, <1>2, CrashKept, ResumeKept, FreezeKept, EditKept, CheckpointTreeKept,
     RecordCheckpointKept, CheckpointFailsKept, AdvanceKept DEF Next, GraderNext

LEMMA BaseInvariant == NeverRaised => (Spec => []BaseInv)
<1> SUFFICES ASSUME NeverRaised PROVE Spec => []BaseInv
  OBVIOUS
<1>1. Init => BaseInv
  BY BaseInvInit
<1>2. BaseInv /\ [Next]_vars => BaseInv'
  BY BaseInvNext
<1> QED BY <1>1, <1>2, PTL DEF Spec

(* For any repository, edits and commits, in git or a plain directory, with *)
(* checkpoints that fail anywhere and crashes anywhere: approverDiff shows  *)
(* the sign-off panel the whole change of its phase, where no resume raises *)
(* the autonomy over an unpinned baseline (the finding of MCVerifyResume).  *)
THEOREM WholeChangeIsReviewed == NeverRaised => (Spec => []ApproverSeesWholeChange)
<1> SUFFICES ASSUME NeverRaised PROVE Spec => []ApproverSeesWholeChange
  OBVIOUS
<1>1. BaseInv => ApproverSeesWholeChange
  <2> SUFFICES ASSUME BaseInv, mem.up PROVE Covers(ApproverDiff, past.phase)
    BY DEF ApproverSeesWholeChange, At
  <2>1. TreeOf(mem.approver) = past.phase /\ (~opts.delta => mem.active = mem.approver)
    BY DEF BaseInv, Held
  <2>2. TreeOf(IF opts.delta THEN mem.approver ELSE mem.active) = past.phase
    BY <2>1
  <2> QED BY <2>2, DiffCovers DEF ApproverDiff
<1> QED BY BaseInvariant, <1>1, PTL

(* Under the same condition the judge is shown at least what changed since  *)
(* some verdict of its phase (onTransition moves its baseline to judged     *)
(* trees only), and in a git tree both keys are shown the authored bar.     *)
THEOREM NothingPassesTheJudge == NeverRaised => (Spec => []JudgeSeesTheWork)
<1> SUFFICES ASSUME NeverRaised PROVE Spec => []JudgeSeesTheWork
  OBVIOUS
<1>1. BaseInv => JudgeSeesItsDelta
  BY DiffCovers DEF BaseInv, Held, Judged, JudgeSeesItsDelta, At, JudgeDiff
<1>2. BarIsShown
  BY GitDiffShowsIncluded DEF BarIsShown, JudgeDiff, ApproverDiff, Diff
<1> QED BY BaseInvariant, <1>1, <1>2, PTL DEF JudgeSeesTheWork

-----------------------------------------------------------------------------
(* Panels. *)

(* Votes still out cannot turn a panel whose answer is settled. *)
LEMMA SettledIsFinal ==
  ASSUME NEW poll, NEW size \in Nat, poll.yes \in Nat, poll.no \in Nat, poll.lost \in Nat,
         Decided(poll, size), NEW more \in 0..(size - Cast(poll))
  PROVE  poll.yes * 2 > size <=> (poll.yes + more) * 2 > size
BY DEF Decided, Settled, Cast, Parsed

(* A vote is counted once. *)
LEMMA CountedIsPoll ==
  ASSUME NEW poll, NEW vote \in Votes, NEW confidence, NEW stop,
         poll = [yes |-> poll.yes, no |-> poll.no, lost |-> poll.lost,
                 sure |-> poll.sure, stop |-> poll.stop],
         poll.yes \in Nat, poll.no \in Nat, poll.lost \in Nat,
         NEW counted, counted = [Counted(poll, vote, confidence) EXCEPT !.stop = stop]
  PROVE  /\ counted = [yes |-> counted.yes, no |-> counted.no, lost |-> counted.lost,
                       sure |-> counted.sure, stop |-> stop]
         /\ counted.yes \in Nat /\ counted.no \in Nat /\ counted.lost \in Nat
<1>1. CASE vote = "for"
  <2>1. counted = [yes |-> poll.yes + 1, no |-> poll.no, lost |-> poll.lost,
                   sure |-> poll.sure + confidence, stop |-> stop]
    BY <1>1 DEF Counted
  <2>2. counted.yes \in Nat /\ counted.no \in Nat /\ counted.lost \in Nat
    BY <2>1
  <2> QED BY <2>1, <2>2
<1>2. CASE vote = "against"
  <2>1. counted = [yes |-> poll.yes, no |-> poll.no + 1, lost |-> poll.lost,
                   sure |-> poll.sure + confidence, stop |-> stop]
    BY <1>2 DEF Counted
  <2>2. counted.yes \in Nat /\ counted.no \in Nat /\ counted.lost \in Nat
    BY <2>1
  <2> QED BY <2>1, <2>2
<1>3. CASE vote \notin {"for", "against"}
  <2>1. counted = [yes |-> poll.yes, no |-> poll.no, lost |-> poll.lost + 1,
                   sure |-> poll.sure, stop |-> stop]
    BY <1>3 DEF Counted
  <2>2. counted.yes \in Nat /\ counted.no \in Nat /\ counted.lost \in Nat
    BY <2>1
  <2> QED BY <2>1, <2>2
<1> QED BY <1>1, <1>2, <1>3

(* The ladder and the poll begin anew. *)
LEMMA NoPollIsDecided ==
  ASSUME PollShape, opts' = opts,
         log' = [stage |-> log'.stage, header |-> log'.header, active |-> log'.active,
                 phase |-> log'.phase, pinned |-> log'.pinned, phases |-> log'.phases],
         NEW i, NEW calls, lad' = [i |-> i, poll |-> NoPoll, calls |-> calls]
  PROVE  PollInv'
<1>1. lad'.poll = [yes |-> 0, no |-> 0, lost |-> 0, sure |-> 0, stop |-> FALSE]
  BY DEF NoPoll
<1> QED BY <1>1 DEF PollInv, PollShape

LEMMA PollKept ==
  ASSUME PollInv, NEW panel \in {"judge", "refute", "approve"}, NEW size, Poll(panel, size),
         log.stage \in {"verify", "signoff"},
         panel = "approve" => log.stage = "signoff" /\ size = opts.panel,
         panel = "refute" => log.stage = "verify" /\ size = opts.refuters,
         panel = "judge" => log.stage = "verify" /\ Rung = "judge"
  PROVE  PollInv'
<1> USE DEF PollInv
<1>1. PICK vote \in Votes, confidence \in Confidences(panel) :
        lad' = [lad EXCEPT !.poll =
                  [Counted(lad.poll, vote, confidence) EXCEPT
                     !.stop = Stops(panel, Counted(lad.poll, vote, confidence), vote, size)]]
  BY DEF Poll
<1>2. PICK counted : counted = Counted(lad.poll, vote, confidence)
  OBVIOUS
<1>3. PICK stop : stop = Stops(panel, counted, vote, size)
  OBVIOUS
<1>4. PICK polled : polled = [Counted(lad.poll, vote, confidence) EXCEPT !.stop = stop]
  OBVIOUS
<1>5. /\ polled = [yes |-> polled.yes, no |-> polled.no, lost |-> polled.lost,
                   sure |-> polled.sure, stop |-> stop]
      /\ polled.yes \in Nat /\ polled.no \in Nat /\ polled.lost \in Nat
  BY <1>4, CountedIsPoll DEF PollShape
<1>6. counted.yes = polled.yes /\ counted.no = polled.no /\ counted.lost = polled.lost
  BY <1>2, <1>4
<1>7. /\ lad' = [i |-> lad.i, poll |-> polled, calls |-> lad.calls]
      /\ UNCHANGED <<opts, log>>
  BY <1>1, <1>2, <1>3, <1>4 DEF Poll, PollShape
<1>a. lad'.poll = polled /\ lad'.i = lad.i /\ polled.stop = stop
  BY <1>5, <1>7
<1>8. PollShape'
  BY <1>5, <1>7 DEF PollShape
<1>9. ASSUME stop, panel # "judge" PROVE Decided(polled, size)
  <2>1. Decided(counted, size)
    BY <1>3, <1>9 DEF Stops, RefuterStops, ApproverStops, Decided
  <2> QED BY <1>6, <2>1 DEF Decided, Settled, Cast, Parsed
<1>10. Rung' = Rung
  BY <1>7, <1>a DEF Rung, Ladder
<1> QED BY <1>7, <1>a, <1>8, <1>9, <1>10

LogShape(l) ==
  l = [stage |-> l.stage, header |-> l.header, active |-> l.active,
       phase |-> l.phase, pinned |-> l.pinned, phases |-> l.phases]

(* A step that leaves the poll alone. *)
LEMMA PollFrame ==
  ASSUME PollInv, opts' = opts, LogShape(log'), lad'.poll = lad.poll, lad'.i = lad.i,
         lad' = [i |-> lad'.i, poll |-> lad'.poll, calls |-> lad'.calls],
         log'.stage = log.stage \/ log.stage \notin {"verify", "signoff"}
  PROVE  PollInv'
<1>1. PollShape'
  BY DEF PollInv, PollShape, LogShape
<1>2. Rung' = Rung
  BY DEF Rung, Ladder
<1>3. lad.poll.stop => log'.stage = log.stage
  BY DEF PollInv
<1> QED BY <1>1, <1>2, <1>3 DEF PollInv

(* After a logged step, and after a green rung, nobody has voted yet. *)
LEMMA LoggedPolls ==
  ASSUME PollInv, opts' = opts, NEW event, NEW next, Logged(event, next)
  PROVE  PollInv'
<1>1. LogShape(log')
  BY DEF Logged, PollInv, PollShape, LogShape
<1>2. lad' = [i |-> 1, poll |-> NoPoll, calls |-> 0]
  BY DEF Logged, NoLadder
<1> QED BY <1>1, <1>2, NoPollIsDecided DEF PollInv, LogShape

LEMMA VerdictPolls ==
  ASSUME PollInv, opts' = opts, NEW v, Verdict(v)
  PROVE  PollInv'
<1>1. ASSUME lad' = [NoLadder EXCEPT !.i = lad.i + 1], log' = log PROVE PollInv'
  <2>1. lad' = [i |-> lad.i + 1, poll |-> NoPoll, calls |-> 0]
    BY <1>1 DEF NoLadder
  <2> QED BY <1>1, <2>1, NoPollIsDecided DEF PollInv, PollShape
<1> QED BY <1>1, LoggedPolls DEF Verdict

LEMMA PollInvNext ==
  ASSUME PollInv, [Next]_vars
  PROVE  PollInv'
<1> USE DEF At, Grading
<1>1. LogShape(log) /\ lad = [i |-> lad.i, poll |-> lad.poll, calls |-> lad.calls]
  BY DEF PollInv, PollShape, LogShape
<1>2. CASE Crash \/ Freeze
  <2>1. LogShape(log')
    BY <1>1, <1>2 DEF Crash, Freeze, LogShape
  <2>2. lad' = [i |-> 1, poll |-> NoPoll, calls |-> 0] /\ opts' = opts
    BY <1>2 DEF Crash, Freeze, NoLadder
  <2> QED BY <2>1, <2>2, NoPollIsDecided DEF PollInv, LogShape
<1>3. CASE Resume \/ Edit \/ CheckpointTree \/ CheckpointFails \/ UNCHANGED vars
  <2>1. UNCHANGED <<opts, log, lad>>
    BY <1>3 DEF Resume, Edit, CheckpointTree, CheckpointFails, vars
  <2> QED BY <1>1, <2>1, PollFrame
<1>4. CASE RecordCheckpoint \/ CheckpointAndAdvance
  <2>1. UNCHANGED <<opts, lad>> /\ LogShape(log')
        /\ (log'.stage = log.stage \/ log.stage \notin {"verify", "signoff"})
    BY <1>1, <1>4 DEF RecordCheckpoint, CheckpointAndAdvance, LogShape
  <2> QED BY <1>1, <2>1, PollFrame
<1>5. CASE GateRung
  <2>1. CASE lad' = [lad EXCEPT !.calls = lad.calls + 1] /\ UNCHANGED <<opts, log>>
    BY <1>1, <2>1, PollFrame
  <2> QED BY <1>5, <2>1, VerdictPolls DEF GateRung
<1>6. CASE RunAgent \/ LadderGreen \/ Signoff \/ SignoffThrows
  BY <1>6, LoggedPolls DEF RunAgent, LadderGreen, Signoff, SignoffThrows
<1>7. CASE GuardRung \/ JudgeRung \/ RefuterRung \/ RungThrows \/ DeterministicRung
  BY <1>7, VerdictPolls DEF GuardRung, JudgeRung, RefuterRung, RungThrows, DeterministicRung
<1>8. CASE AskJudge
  BY <1>8, PollKept DEF AskJudge
<1>9. CASE AskRefuter
  BY <1>9, PollKept DEF AskRefuter
<1>10. CASE AskApprover
  BY <1>10, PollKept DEF AskApprover
<1> QED BY <1>2, <1>3, <1>4, <1>5, <1>6, <1>7, <1>8, <1>9, <1>10 DEF Next

LEMMA PollInvInit == Init => PollInv
<1> SUFFICES ASSUME Init PROVE PollInv
  OBVIOUS
<1>1. /\ lad = [i |-> 1, calls |-> 0,
                poll |-> [yes |-> 0, no |-> 0, lost |-> 0, sure |-> 0, stop |-> FALSE]]
      /\ opts \in Scenarios
  BY DEF Init, NoLadder, NoPoll
<1>2. log = [stage |-> log.stage, header |-> log.header, active |-> log.active,
             phase |-> log.phase, pinned |-> log.pinned, phases |-> log.phases]
  BY DEF Init
<1> QED BY <1>1, <1>2 DEF PollInv, PollShape

(* For quorums, refuters and sign-off panels of every size, whatever is     *)
(* voted, lost or thrown: where review and AdversarialReviewRung stop early *)
(* no vote they did not take could have changed the answer, and the judge   *)
(* blames the work for no sample it lost.                                   *)
THEOREM VotesCastDecide == Spec => []VotesDecide
<1>1. PollInv => EarlyExitIsFullPoll
  <2> SUFFICES ASSUME PollInv, lad.poll.stop,
                      NEW size \in Nat, Decided(lad.poll, size),
                      NEW more \in 0..(size - Cast(lad.poll))
               PROVE  Approves(lad.poll, size)
                        <=> Approves([lad.poll EXCEPT !.yes = @ + more], size)
    <3>1. PollInv => opts.refuters \in Nat /\ opts.panel \in Nat
      BY ScenariosAssumption DEF PollInv, PollShape
    <3> QED BY <3>1 DEF EarlyExitIsFullPoll, PollInv, Grading, At
  <2>1. [lad.poll EXCEPT !.yes = @ + more].yes = lad.poll.yes + more
    BY DEF PollInv, PollShape
  <2> QED BY <2>1, SettledIsFinal DEF Approves, PollInv, PollShape
<1>2. PollInv => LostSamplesAreNotBlamed
  <2> SUFFICES ASSUME PollInv, Judge(lad.poll, opts.quorum) = Red,
                      ~Majority(lad.poll, opts.quorum)
               PROVE  ~Majority([lad.poll EXCEPT !.yes = @ + lad.poll.lost], opts.quorum)
    BY DEF LostSamplesAreNotBlamed
  <2>1. CouldNotRun # Red
    BY DEF CouldNotRun, Red
  <2>2. opts.quorum \in Nat /\ lad.poll.yes \in Nat /\ lad.poll.lost \in Nat
    BY ScenariosAssumption DEF PollInv, PollShape
  <2>3. ~(lad.poll.lost > 0 /\ lad.poll.yes + lad.poll.lost >= (opts.quorum \div 2) + 1)
    BY <2>1 DEF Judge
  <2>4. [lad.poll EXCEPT !.yes = @ + lad.poll.lost].yes = lad.poll.yes + lad.poll.lost
    BY DEF PollInv, PollShape
  <2> QED BY <2>2, <2>3, <2>4 DEF Majority
<1> QED BY PollInvInit, PollInvNext, <1>1, <1>2, PTL DEF Spec, VotesDecide

=============================================================================
