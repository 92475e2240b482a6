------------------------------ MODULE RunLock ------------------------------
(***************************************************************************)
(* The per-run lock file (src/src/runlog/lock.ts) as executeRun uses it    *)
(* (src/src/cli/run-cmd.ts): drivers, each an executeRun in some process,  *)
(* compete for one run directory.  Every file-system call is a step of its *)
(* own, so drivers interleave between them and a process may die between   *)
(* any two, leaving the file behind.                                       *)
(*                                                                         *)
(* The file at the lock's path is the driver that created it and the pid   *)
(* written into it so far.  A write goes to the file a driver opened, even *)
(* if the path has been unlinked or replaced since.                        *)
(***************************************************************************)
EXTENDS Integers, FiniteSets

CONSTANTS
  Drivers,
  Pid,        (* the pid of each driver's process *)
  Resident,   (* pids of processes that outlive their drivers: a UI server *)
  NoFile,
  NoPid,
  Overlap     (* whether acquisitions may overlap in time *)

Pids == { Pid[d] : d \in Drivers }

ASSUME PidsAssumption ==
  /\ Pid = [d \in Drivers |-> Pid[d]]
  /\ NoPid \notin Pids
  /\ Overlap \in BOOLEAN

ASSUME FileAssumption ==
  NoFile \notin [creator : Drivers, holder : Pids \cup {NoPid}]

VARIABLES
  file,     (* the lock file at its path, or NoFile *)
  pc,       (* where each driver is *)
  attempt,  (* the attempts it has made to create the file *)
  rivals,   (* drivers that were up at some time while it was acquiring *)
  refused   (* whether its last acquisition ended in RunLockedError *)

lockVars == << file, pc, attempt, rivals, refused >>

Acquiring == {"opening", "created", "reading", "reclaiming"}

Up(d) == pc[d] # "down"

(* kill(pid, 0): also true of a process that has nothing to do with this run. *)
IsPidAlive(pid) == pid \in Resident \/ \E d \in Drivers : Up(d) /\ Pid[d] = pid

ReadHolderPid == IF file = NoFile THEN NoPid ELSE file.holder

RunLockActive == ReadHolderPid # NoPid /\ IsPidAlive(ReadHolderPid)

-----------------------------------------------------------------------------
(* No two live processes share a pid; a resident process may host several drivers. *)
Start(d) ==
  /\ pc[d] = "down"
  /\ Pid[d] \in Resident \/ ~IsPidAlive(Pid[d])
  /\ Overlap \/ \A e \in Drivers : pc[e] \notin Acquiring
  /\ pc'      = [pc EXCEPT ![d] = "opening"]
  /\ attempt' = [attempt EXCEPT ![d] = 1]
  /\ rivals'  = [e \in Drivers |-> IF e = d THEN { f \in Drivers : Up(f) }
                                  ELSE IF pc[e] \in Acquiring THEN rivals[e] \cup {d}
                                  ELSE rivals[e]]
  /\ refused' = [refused EXCEPT ![d] = FALSE]
  /\ UNCHANGED file

(* open(path, 'wx'): creates the file, empty, or fails because it is there. *)
Open(d) ==
  /\ pc[d] = "opening"
  /\ IF file = NoFile
     THEN /\ file' = [creator |-> d, holder |-> NoPid]
          /\ pc'   = [pc EXCEPT ![d] = "created"]
     ELSE /\ pc'   = [pc EXCEPT ![d] = "reading"]
          /\ UNCHANGED file
  /\ UNCHANGED << attempt, rivals, refused >>

BrokenWritePid(d) ==
  /\ pc[d] = "created"
  /\ pc' = [pc EXCEPT ![d] = "driving"]
  /\ UNCHANGED << file, attempt, rivals, refused >>

WritePid(d) ==
  /\ pc[d] = "created"
  /\ file' = IF file # NoFile /\ file.creator = d THEN [file EXCEPT !.holder = Pid[d]] ELSE file
  /\ pc'   = [pc EXCEPT ![d] = "driving"]
  /\ UNCHANGED << attempt, rivals, refused >>

(* The write or the sync throws: acquireRunLock throws too, and the file stays. *)
WriteFails(d) ==
  /\ pc[d] = "created"
  /\ pc' = [pc EXCEPT ![d] = "down"]
  /\ UNCHANGED << file, attempt, rivals, refused >>

BrokenProbe(d) ==
  /\ pc[d] = "reading"
  /\ pc' = [pc EXCEPT ![d] = "reclaiming"]
  /\ UNCHANGED << file, attempt, rivals, refused >>

(* A live holder other than this process refuses; anything else is reclaimed. *)
Probe(d) ==
  LET holder == ReadHolderPid IN
  /\ pc[d] = "reading"
  /\ IF holder # NoPid /\ holder # Pid[d] /\ IsPidAlive(holder)
     THEN /\ pc'      = [pc EXCEPT ![d] = "down"]
          /\ refused' = [refused EXCEPT ![d] = TRUE]
     ELSE /\ pc' = [pc EXCEPT ![d] = "reclaiming"]
          /\ UNCHANGED refused
  /\ UNCHANGED << file, attempt, rivals >>

BrokenReclaim(d) ==
  /\ pc[d] = "reclaiming"
  /\ pc'      = [pc EXCEPT ![d] = IF attempt[d] = 2 THEN "down" ELSE "opening"]
  /\ refused' = [refused EXCEPT ![d] = attempt[d] = 2]
  /\ attempt' = [attempt EXCEPT ![d] = 2]
  /\ UNCHANGED << file, rivals >>

(* rm(path): whatever is there by now.  Two attempts in all. *)
Reclaim(d) ==
  /\ pc[d] = "reclaiming"
  /\ file'    = NoFile
  /\ pc'      = [pc EXCEPT ![d] = IF attempt[d] = 2 THEN "down" ELSE "opening"]
  /\ refused' = [refused EXCEPT ![d] = attempt[d] = 2]
  /\ attempt' = [attempt EXCEPT ![d] = 2]
  /\ UNCHANGED rivals

(* The run ended: release unlinks the path, whosever file it is by now. *)
Release(d) ==
  /\ pc[d] = "driving"
  /\ file' = NoFile
  /\ pc'   = [pc EXCEPT ![d] = "down"]
  /\ UNCHANGED << attempt, rivals, refused >>

(* The process dies: nothing is cleaned up.  Resident processes stay up. *)
DriverCrash(d) ==
  /\ Up(d) /\ Pid[d] \notin Resident
  /\ pc' = [pc EXCEPT ![d] = "down"]
  /\ UNCHANGED << file, attempt, rivals, refused >>

LockInit ==
  /\ file    = NoFile
  /\ pc      = [d \in Drivers |-> "down"]
  /\ attempt = [d \in Drivers |-> 0]
  /\ rivals  = [d \in Drivers |-> {}]
  /\ refused = [d \in Drivers |-> FALSE]

LockNext ==
  \E d \in Drivers :
    \/ Start(d) \/ Open(d) \/ WritePid(d) \/ WriteFails(d) \/ Probe(d)
    \/ Reclaim(d) \/ Release(d) \/ DriverCrash(d)

LockSpec == LockInit /\ [][LockNext]_lockVars

-----------------------------------------------------------------------------
(* Properties. *)

TypeOK ==
  /\ file \in {NoFile} \cup [creator : Drivers, holder : Pids \cup {NoPid}]
  /\ pc \in [Drivers -> Acquiring \cup {"down", "driving"}]
  /\ attempt \in [Drivers -> 0 .. 2]
  /\ rivals \in [Drivers -> SUBSET Drivers]
  /\ refused \in [Drivers -> BOOLEAN]

(***************************************************************************)
(* "Two goaly processes can never drive the same run directory": at most   *)
(* one driver is past its acquisition, whatever crashed before it.         *)
(***************************************************************************)
AtMostOneDriver ==
  \A d, e \in Drivers : pc[d] = "driving" /\ pc[e] = "driving" => d = e

(***************************************************************************)
(* While a run is driven its lock file names the process that drives it:   *)
(* nobody has unlinked it, and a watcher reads the run as live.            *)
(***************************************************************************)
DriverHoldsFile ==
  \A d \in Drivers : pc[d] = "driving" =>
    file = [creator |-> d, holder |-> Pid[d]] /\ RunLockActive

(***************************************************************************)
(* The lock heals itself: an acquisition with no other driver up at any    *)
(* time is never refused, wherever an earlier holder was killed, so that a *)
(* crashed run needs no manual cleanup.                                    *)
(***************************************************************************)
RefusedOnlyByRivals ==
  \A d \in Drivers : refused[d] => rivals[d] # {}
=============================================================================
