---------------------------- MODULE LaunchProofs ----------------------------
(***************************************************************************)
(* For any requests, terminals, runs and trees: who works in a tree works  *)
(* there alone, a lock that refuses is driven, and a parked gate is shown  *)
(* and answered once.                                                      *)
(***************************************************************************)
EXTENDS Follow, TLAPS

Places == {"idle", "probing", "preparing", "refused", "booting", "between", "doing", "parked",
           "unwinding", "ended", "thrown"}

Shape ==
  /\ world \in Scenarios
  /\ pc = [d \in Drivers |-> pc[d]] /\ \A d \in Drivers : pc[d] \in Places
  /\ \A d \in Drivers : pc[d] # "ended" => d \in DOMAIN world.run
  /\ at = [d \in Drivers |-> at[d]]
  /\ lock = [s \in DOMAIN world.root |-> lock[s]]
  /\ sessions \subseteq Requests /\ life \in {1, 2}

(* The sessions of the server are of different trees, and a run that is not *)
(* among them was told to stop before its first step.                       *)
Registered ==
  /\ \A d, e \in sessions : Root(d) = Root(e) => d = e
  /\ \A d \in Requests :
       /\ Working(d) => d \in sessions
       /\ pc[d] \in {"booting", "between"} => d \in sessions \cup stopping
       /\ d \in sessions => Live(d)

(* Whose lock file nobody took away is named in it. *)
Guarded == \A d \in Drivers : Live(d) /\ d \notin unguarded => lock[Run(d)] = Process(d)

(* A lock names a process that was there, and that drives the run if it is. *)
LocksNamed ==
  \A s \in DOMAIN lock :
    /\ life = 1 => lock[s] # << "server", 2 >>
    /\ lock[s] = << "server", life >> =>
         \E d \in Requests \cap DOMAIN world.run : Run(d) = s /\ (Live(d) \/ pc[d] = "thrown")
    /\ \A t \in Terminals :
         lock[s] = << "terminal", t >> =>
           t \in DOMAIN world.run /\ Run(t) = s /\ (Live(t) \/ pc[t] \in {"ended", "thrown"})

(* A run's gates are numbered, its last is the one parked, and those decided *)
(* are behind it.                                                            *)
Numbered ==
  \A d \in Drivers :
    /\ gate[d] = [asked |-> gate[d].asked, parked |-> gate[d].parked,
                  decided |-> gate[d].decided]
    /\ gate[d].asked \in Nat /\ gate[d].parked \in {0, gate[d].asked}
    /\ \A x \in gate[d].decided :
         /\ x.gate \in 1 .. gate[d].asked /\ x.gate # gate[d].parked
         /\ x.addressed \in {0, x.gate}
    /\ \A x, y \in gate[d].decided : x.gate = y.gate => x = y

(* Whoever has a gate parked waits at it. *)
Waiting == \A d \in Drivers : gate[d].parked # 0 => pc[d] = "parked" /\ d \in Requests

TreeInv == Shape /\ Registered /\ Guarded /\ LocksNamed
GateInv == gate = [d \in Drivers |-> gate[d]] /\ Numbered /\ Waiting
LaunchInv == TreeInv /\ GateInv

(* Behind the frames under way to an open page is the gate that is parked. *)
FrameSet == { Gate(g) : g \in Nat } \cup {Resolved, Terminal}

ModalFollows ==
  /\ page = [v \in Pages |-> page[v]]
  /\ \A v \in Pages :
       /\ page[v] = [stream |-> page[v].stream, session |-> page[v].session,
                     queue |-> page[v].queue, modal |-> page[v].modal]
       /\ page[v].session \in Requests \cup {Nobody}
       /\ page[v].queue \in Seq(FrameSet)
       /\ Open(v) /\ page[v].session # Nobody /\ gate[page[v].session].parked # 0 =>
            IF page[v].queue = << >> THEN page[v].modal = gate[page[v].session].parked
            ELSE page[v].queue[Len(page[v].queue)] = Gate(gate[page[v].session].parked)

-----------------------------------------------------------------------------
(* A driver goes a step of its way: no lock, session or process changes, it *)
(* is live after the step iff before, and works only if registered.         *)
Walk(d) ==
  /\ pc[d] \notin {"ended", "thrown"} /\ pc' = [pc EXCEPT ![d] = pc'[d]] /\ pc'[d] \in Places
  /\ UNCHANGED << world, unguarded, lock, sessions, life >>
  /\ at' = [e \in Drivers |-> at'[e]]
  /\ stopping \subseteq stopping'
  /\ Live(d) <=> Live(d)'
  /\ d \in Requests =>
       /\ Working(d)' => d \in sessions
       /\ pc'[d] \in {"booting", "between"} => d \in sessions \cup stopping'

LEMMA DriversHaveRuns ==
  ASSUME Shape, NEW d \in Drivers, pc[d] # "ended"
  PROVE  d \in DOMAIN world.run /\ Run(d) \in DOMAIN world.root /\ d \in Requests \cup Terminals
BY LaunchAssumption DEF Shape, Run, Drivers

LEMMA WalkKept ==
  ASSUME TreeInv, NEW d \in Drivers, Walk(d)
  PROVE  TreeInv'
<1> USE DEF TreeInv
<1>1. /\ \A e \in Drivers : e # d => pc'[e] = pc[e]
      /\ \A e \in Drivers : (Live(e) <=> Live(e)')
      /\ \A e \in Drivers : pc[e] \in {"ended", "thrown"} => pc'[e] = pc[e]
  BY DEF Walk, Shape, Live
<1>2. Shape'
  BY DEF Walk, Shape
<1>3. Registered'
  BY <1>1, LaunchAssumption DEF Walk, Registered, Root, Run, Working, Drivers
<1>4. Guarded'
  BY <1>1 DEF Walk, Guarded, Run, Process
<1>5. LocksNamed'
  BY <1>1 DEF Walk, LocksNamed, Run, Drivers
<1> QED BY <1>2, <1>3, <1>4, <1>5

LEMMA TreeFrame ==
  ASSUME TreeInv, UNCHANGED << world, pc, unguarded, lock, sessions, life >>,
         at' = [e \in Drivers |-> at'[e]], stopping \subseteq stopping'
  PROVE  TreeInv'
<1> USE DEF TreeInv
<1>1. Shape'
  BY DEF Shape
<1>2. Registered'
  BY DEF Registered, Root, Run, Working, Live
<1>3. Guarded'
  BY DEF Guarded, Live, Run, Process
<1>4. LocksNamed'
  BY DEF LocksNamed, Run, Live
<1> QED BY <1>1, <1>2, <1>3, <1>4

(* Steps that walk. *)
LEMMA StepsWalk ==
  ASSUME TreeInv, NEW d \in Drivers,
         \/ Arrive(d) \/ Probe(d) \/ Prepare(d) \/ Boot(d) \/ Leave(d) \/ Begin(d) \/ End(d) \/ Lost(d)
         \/ pc[d] = "between" /\ Ask(d)
  PROVE  Walk(d)
<1> USE DEF To, UnchangedByRequest, UnchangedByRun, Walk, Live, Working, Places
<1>1. pc = [e \in Drivers |-> pc[e]] /\ at = [e \in Drivers |-> at[e]] /\ pc[d] \in Places
  BY DEF TreeInv, Shape
<1>2. CASE Arrive(d)
  BY <1>1, <1>2 DEF Arrive
<1>10. CASE Probe(d)
  BY <1>1, <1>10 DEF Probe
<1>3. CASE Prepare(d)
  BY <1>1, <1>3 DEF Prepare
<1>4. CASE Boot(d)
  BY <1>1, <1>4 DEF Boot, TreeInv, Registered
<1>5. CASE Leave(d)
  BY <1>1, <1>5 DEF Leave
<1>6. CASE Begin(d)
  BY <1>1, <1>6 DEF Begin, TreeInv, Registered
<1>7. CASE End(d)
  BY <1>1, <1>7 DEF End, Commit, TreeInv, Registered
<1>8. CASE Lost(d)
  BY <1>1, <1>8 DEF Lost
<1>9. CASE pc[d] = "between" /\ Ask(d)
  BY <1>1, <1>9 DEF Ask, Commit, TreeInv, Registered
<1> QED BY <1>2, <1>3, <1>4, <1>5, <1>6, <1>7, <1>8, <1>9, <1>10

(* Whoever is live is a process that is alive, and not nobody. *)
LEMMA DriversAreAlive ==
  ASSUME TreeInv, NEW e \in Drivers, Live(e)
  PROVE  Process(e) # Nobody /\ IsAlive(Process(e))
<1>1. Process(e) # Nobody
  <2>1. /\ Nobody # << "server", 1 >> /\ Nobody # << "server", 2 >>
        /\ \A t \in Terminals : Nobody # << "terminal", t >>
    BY LaunchAssumption
  <2>2. (life = 1 \/ life = 2) /\ (e \in Requests \/ e \in Terminals)
    BY DEF TreeInv, Shape, Drivers
  <2> QED BY <2>1, <2>2 DEF Process
<1>2. IsAlive(Process(e))
  BY DEF Process, IsAlive, Drivers
<1> QED BY <1>1, <1>2

(* Whose lock is in place is seen by whoever looks. *)
LEMMA GuardedIsSeen ==
  ASSUME TreeInv, NEW e \in Drivers, Live(e), e \notin unguarded
  PROVE  AnyRunLockActive(Root(e))
<1>1. lock[Run(e)] = Process(e)
  BY DEF TreeInv, Guarded
<1>2. Run(e) \in RunsIn(Root(e))
  BY DriversHaveRuns DEF TreeInv, Live, Root, RunsIn
<1> QED BY <1>1, <1>2, DriversAreAlive DEF AnyRunLockActive

(* A driver names itself in the lock; a request registers, or is stopped. *)
LEMMA AcquireKeeps ==
  ASSUME TreeInv, NEW d \in Drivers, Acquire(d)
  PROVE  TreeInv'
<1> USE DEF TreeInv
<1>1. /\ pc[d] = "preparing" /\ d \in DOMAIN world.run /\ Run(d) \in DOMAIN world.root
      /\ pc' = [pc EXCEPT ![d] = pc'[d]] /\ pc'[d] \in {"refused", "booting"}
      /\ UNCHANGED << world, at, unguarded, life >>
  BY DriversHaveRuns DEF Acquire, To, Shape
<1>2. \A e \in Drivers : e # d => /\ pc'[e] = pc[e] /\ (Live(e) <=> Live(e)')
                                  /\ (Working(e) <=> Working(e)')
  BY <1>1 DEF Shape, Live, Working
<1>3. ~Live(d) /\ ~Working(d)' /\ pc'[d] \notin {"preparing", "between"}
  BY <1>1 DEF Live, Working
<1>4. CASE pc'[d] = "refused"
  <2>1. UNCHANGED << lock, sessions, stopping >>
    BY <1>4, <1>1 DEF Acquire, To, Shape
  <2>2. Shape'
    BY <1>1, <1>4, <2>1 DEF Shape, Places
  <2>3. Registered'
    BY <1>1, <1>2, <1>3, <1>4, <2>1 DEF Registered, Root, Run, Drivers
  <2>4. Guarded'
    BY <1>1, <1>2, <1>3, <1>4, <2>1 DEF Guarded, Run, Process, Live
  <2>5. LocksNamed'
    BY <1>1, <1>2, <1>3, <1>4, <2>1 DEF LocksNamed, Run, Drivers
  <2> QED BY <2>2, <2>3, <2>4, <2>5
<1>5. CASE pc'[d] = "booting"
  <2>1. /\ lock' = [lock EXCEPT ![Run(d)] = Process(d)]
        /\ sessions' = sessions \cup { e \in {d} \cap Requests : Clashes(d) = {} }
        /\ stopping' = stopping \cup { e \in {d} \cap Requests : Clashes(d) # {} }
    BY <1>5, <1>1 DEF Acquire, To, Shape
  <2>2. d \notin sessions /\ Live(d)'
    BY <1>3, <1>5 DEF Registered, Shape, Live
  <2>3. Shape'
    BY <1>1, <1>5, <2>1 DEF Shape, Places
  <2>4. Registered'
    <3>1. \A e \in sessions : sessions' # sessions => Root(e) # Root(d)
      BY <2>1 DEF Clashes
    <3>2. \A e \in Drivers : Root(e)' = Root(e)
      BY <1>1 DEF Root, Run
    <3>3. \A e, f \in sessions' : Root(e)' = Root(f)' => e = f
      BY <2>1, <3>1, <3>2 DEF Registered, Shape, Drivers
    <3>4. \A e \in Requests : pc'[e] \in {"booting", "between"} => e \in sessions' \cup stopping'
      BY <1>2, <2>1 DEF Registered, Drivers
    <3>5. \A e \in Requests : /\ Working(e)' => e \in sessions'
                              /\ e \in sessions' => Live(e)'
      BY <1>2, <1>3, <2>1, <2>2 DEF Registered, Drivers
    <3> QED BY <3>3, <3>4, <3>5 DEF Registered
  <2>5. Guarded'
    <3> SUFFICES ASSUME NEW e \in Drivers, Live(e)', e \notin unguarded
        PROVE  lock'[Run(e)] = Process(e)
      BY <1>1 DEF Guarded, Run, Process
    <3>1. CASE e = d
      BY <1>1, <2>1, <3>1 DEF Shape
    <3>2. CASE e # d
      <4>1. Live(e) /\ lock[Run(e)] = Process(e)
        BY <1>2, <3>2 DEF Guarded
      <4>2. Run(e) # Run(d) => lock'[Run(e)] = lock[Run(e)]
        BY <2>1, DriversHaveRuns, <4>1 DEF Shape, Live
      <4>3. Run(e) = Run(d) => lock[Run(d)] = Process(d)
        BY <1>5, <1>1, <4>1, DriversAreAlive DEF Acquire, Held, To, Shape
      <4>4. Run(e) = Run(d) => lock'[Run(e)] = Process(d)
        BY <1>1, <2>1 DEF Shape
      <4> QED BY <4>1, <4>2, <4>3, <4>4
    <3> QED BY <3>1, <3>2
  <2>6. LocksNamed'
    <3> SUFFICES ASSUME NEW s \in DOMAIN lock
        PROVE  /\ life = 1 => lock'[s] # << "server", 2 >>
               /\ lock'[s] = << "server", life >> =>
                    \E e \in Requests \cap DOMAIN world.run :
                      Run(e) = s /\ (Live(e)' \/ pc'[e] = "thrown")
               /\ \A t \in Terminals : lock'[s] = << "terminal", t >> =>
                    t \in DOMAIN world.run /\ Run(t) = s /\ (Live(t)' \/ pc'[t] \in {"ended", "thrown"})
      BY <1>1, <2>1 DEF LocksNamed, Run
    <3>1. CASE s # Run(d)
      <4>1. lock'[s] = lock[s] /\ pc[d] = "preparing" /\ ~Live(d)
        BY <1>1, <1>3, <2>1, <3>1 DEF Shape
      <4>2. \A e \in Drivers : /\ Live(e) => e # d /\ Live(e)'
                               /\ pc[e] \in {"ended", "thrown"} => e # d /\ pc'[e] = pc[e]
        BY <1>2, <4>1
      <4> QED BY <1>1, <4>1, <4>2 DEF LocksNamed, Drivers
    <3>2. CASE s = Run(d)
      <4>1. lock'[s] = Process(d)
        BY <2>1, <3>2
      <4>2. CASE d \in Requests
        BY <1>1, <2>2, <3>2, <4>1, <4>2 DEF Process, Shape
      <4>3. CASE d \in Terminals /\ d \notin Requests
        BY <1>1, <2>2, <3>2, <4>1, <4>3 DEF Process, Shape
      <4> QED BY <4>2, <4>3 DEF Drivers
    <3> QED BY <3>1, <3>2
  <2> QED BY <2>3, <2>4, <2>5, <2>6
<1> QED BY <1>1, <1>4, <1>5

(* Who leaves its lock behind has it named by a driver that threw. *)
LEMMA ProxyKeeps ==
  ASSUME TreeInv, NEW d \in Drivers, ProxyThrows(d)
  PROVE  TreeInv'
<1> USE DEF TreeInv
<1>1. /\ pc[d] = "booting" /\ pc' = [pc EXCEPT ![d] = "thrown"] /\ sessions' = sessions \ {d}
      /\ UNCHANGED << world, at, unguarded, lock, stopping, life >>
  BY DEF ProxyThrows, To, UnchangedByRun
<1>2. /\ pc'[d] = "thrown" /\ ~Live(d)' /\ ~Working(d)'
      /\ \A e \in Drivers : e # d => /\ pc'[e] = pc[e] /\ (Live(e) <=> Live(e)')
                                     /\ (Working(e) <=> Working(e)')
  BY <1>1 DEF Shape, Live, Working
<1>3. Shape'
  BY <1>1 DEF Shape, Places
<1>4. Registered'
  BY <1>1, <1>2 DEF Registered, Root, Run, Drivers, Shape
<1>5. Guarded'
  BY <1>1, <1>2 DEF Guarded, Run, Process
<1>6. LocksNamed'
  BY <1>1, <1>2 DEF LocksNamed, Run, Drivers
<1> QED BY <1>3, <1>4, <1>5, <1>6

(* Who is through unlinks the lock, whoever is named in it. *)
LEMMA SettleKeeps ==
  ASSUME TreeInv, NEW d \in Drivers, Settle(d)
  PROVE  TreeInv'
<1> USE DEF TreeInv
<1>1. /\ pc[d] = "unwinding" /\ pc' = [pc EXCEPT ![d] = "ended"] /\ sessions' = sessions \ {d}
      /\ lock' = [lock EXCEPT ![Run(d)] = Nobody]
      /\ unguarded' = unguarded \cup { e \in Drivers \ {d} : Live(e) /\ Run(e) = Run(d) }
      /\ UNCHANGED << world, at, stopping, life >>
  BY DEF Settle, To, UnchangedByRun, Released
<1>2. /\ pc'[d] = "ended" /\ ~Live(d)' /\ ~Working(d)'
      /\ \A e \in Drivers : e # d => /\ pc'[e] = pc[e] /\ (Live(e) <=> Live(e)')
                                     /\ (Working(e) <=> Working(e)')
  BY <1>1 DEF Shape, Live, Working
<1>3. Shape'
  BY <1>1 DEF Shape, Places
<1>4. Registered'
  <2>1. \A e \in Drivers : Root(e)' = Root(e)
    BY <1>1 DEF Root, Run
  <2>2. sessions' = sessions \ {d} /\ stopping' = stopping
    BY <1>1
  <2> QED BY <1>2, <2>1, <2>2 DEF Registered, Drivers, Shape
<1>5. Guarded'
  <2> SUFFICES ASSUME NEW e \in Drivers, Live(e)', e \notin unguarded'
      PROVE  lock'[Run(e)] = Process(e)
    BY <1>1 DEF Guarded, Run, Process
  <2>1. e # d /\ Live(e) /\ Run(e) # Run(d) /\ e \notin unguarded
    BY <1>1, <1>2
  <2> QED BY <1>1, <2>1, DriversHaveRuns DEF Guarded, Shape, Live
<1>6. LocksNamed'
  <2> SUFFICES ASSUME NEW s \in DOMAIN lock
      PROVE  /\ life = 1 => lock'[s] # << "server", 2 >>
             /\ lock'[s] = << "server", life >> =>
                  \E e \in Requests \cap DOMAIN world.run :
                    Run(e) = s /\ (Live(e)' \/ pc'[e] = "thrown")
             /\ \A t \in Terminals : lock'[s] = << "terminal", t >> =>
                  t \in DOMAIN world.run /\ Run(t) = s /\ (Live(t)' \/ pc'[t] \in {"ended", "thrown"})
    BY <1>1 DEF LocksNamed, Run
  <2>1. CASE s = Run(d)
    <3>1. lock'[s] = Nobody
      BY <1>1, <2>1 DEF Shape
    <3>2. lock'[s] # << "server", 1 >> /\ lock'[s] # << "server", 2 >> /\ life \in {1, 2}
      BY <3>1, LaunchAssumption DEF Shape
    <3>3. \A t \in Terminals : lock'[s] # << "terminal", t >>
      BY <3>1, LaunchAssumption
    <3> QED BY <3>2, <3>3
  <2>2. CASE s # Run(d)
    <3>1. lock'[s] = lock[s]
      BY <1>1, <2>2 DEF Shape
    <3>2. \A e \in Drivers \cap DOMAIN world.run :
            Run(e) = s => e # d /\ pc'[e] = pc[e] /\ (Live(e) => Live(e)')
      BY <1>2, <2>2
    <3> QED BY <3>1, <3>2 DEF LocksNamed, Drivers
  <2> QED BY <2>1, <2>2
<1> QED BY <1>3, <1>4, <1>5, <1>6

(* A removal that looks changes nothing yet. *)
LEMMA CheckRemovalKeeps ==
  ASSUME TreeInv, NEW r \in DOMAIN tree, NEW force \in BOOLEAN, CheckRemoval(r, force)
  PROVE  TreeInv'
<1> USE DEF TreeInv
<1>1. UNCHANGED << world, pc, at, unguarded, lock, sessions, stopping, life >>
  BY DEF CheckRemoval
<1>2. at' = [d \in Drivers |-> at'[d]]
  BY <1>1 DEF Shape
<1> QED BY <1>1, <1>2, TreeFrame

(* What is removed takes the locks in it along. *)
LEMMA RemoveKeeps ==
  ASSUME TreeInv, NEW r \in DOMAIN tree, Remove(r)
  PROVE  TreeInv'
<1> USE DEF TreeInv
<1>1. /\ UNCHANGED << world, pc, at, sessions, stopping, life >>
      /\ lock' = [s \in DOMAIN lock |-> IF s \in RunsIn(r) THEN Nobody ELSE lock[s]]
      /\ unguarded' = unguarded \cup { d \in Drivers : Live(d) /\ Root(d) = r }
  BY DEF Remove
<1>4. Shape'
  BY <1>1 DEF Shape
<1>5. Registered'
  BY <1>1 DEF Registered, Root, Run, Working, Live
<1>6. Guarded'
  <2> SUFFICES ASSUME NEW e \in Drivers, Live(e), e \notin unguarded'
      PROVE  lock'[Run(e)] = Process(e)
    BY <1>1 DEF Guarded, Run, Process, Live
  <2>1. Root(e) # r /\ lock[Run(e)] = Process(e)
    BY <1>1 DEF Guarded
  <2>2. Run(e) \in DOMAIN lock /\ Run(e) \notin RunsIn(r)
    BY <2>1, DriversHaveRuns DEF Shape, Live, RunsIn, Root
  <2> QED BY <1>1, <2>1, <2>2
<1>7. LocksNamed'
  <2>1. \A s \in DOMAIN lock : lock'[s] \in {Nobody, lock[s]}
    BY <1>1
  <2>2. Nobody # << "server", 1 >> /\ Nobody # << "server", 2 >> /\ life \in {1, 2}
    BY LaunchAssumption DEF Shape
  <2>3. \A t \in Terminals : Nobody # << "terminal", t >>
    BY LaunchAssumption
  <2>4. DOMAIN lock' = DOMAIN lock
    BY <1>1
  <2>5. \A e : (Live(e) <=> Live(e)') /\ Run(e)' = Run(e)
    BY <1>1 DEF Live, Run
  <2> HIDE DEF TreeInv
  <2>6. LocksNamed
    BY DEF TreeInv
  <2> QED BY <1>1, <2>1, <2>2, <2>3, <2>4, <2>5, <2>6 DEF LocksNamed
<1> QED BY <1>4, <1>5, <1>6, <1>7

(* The server's runs die with it, and its locks name another process. *)
LEMMA KillServerKeeps ==
  ASSUME TreeInv, KillServer
  PROVE  TreeInv'
<1> USE DEF TreeInv
<1>1. /\ life = 1 /\ life' = 2 /\ sessions' = {}
      /\ pc' = [d \in Drivers |-> IF d \in Requests /\ pc[d] # "idle" THEN "ended" ELSE pc[d]]
      /\ UNCHANGED << world, at, unguarded, lock, stopping >>
  BY DEF KillServer
<1>2. /\ \A d \in Requests : pc'[d] \in {"idle", "ended"} /\ ~Live(d)' /\ ~Working(d)'
      /\ \A t \in Terminals : pc'[t] = pc[t] /\ (Live(t) <=> Live(t)')
  BY <1>1, LaunchAssumption DEF Drivers, Live, Working
<1>3. Shape'
  BY <1>1 DEF Shape, Places
<1>4. Registered'
  BY <1>1, <1>2 DEF Registered
<1>5. Guarded'
  BY <1>1, <1>2, LaunchAssumption DEF Guarded, Run, Process, Drivers
<1>6. LocksNamed'
  BY <1>1, <1>2 DEF LocksNamed, Run
<1> QED BY <1>3, <1>4, <1>5, <1>6

(* A terminal that dies leaves its lock to a dead process. *)
LEMMA KillTerminalKeeps ==
  ASSUME TreeInv, NEW t \in Terminals, KillTerminal(t)
  PROVE  TreeInv'
<1> USE DEF TreeInv
<1>1. /\ Live(t) /\ pc' = [pc EXCEPT ![t] = "ended"] /\ t \in Drivers /\ t \notin Requests
      /\ UNCHANGED << world, at, unguarded, lock, sessions, stopping, life >>
  BY LaunchAssumption DEF KillTerminal, To, UnchangedByRequest, Drivers
<1>2. /\ pc'[t] = "ended"
      /\ \A e \in Drivers : e # t => /\ pc'[e] = pc[e] /\ (Live(e) <=> Live(e)')
                                     /\ (Working(e) <=> Working(e)')
  BY <1>1 DEF Shape, Live, Working
<1>3. Shape'
  BY <1>1 DEF Shape, Places
<1>4. Registered'
  BY <1>1, <1>2 DEF Registered, Root, Run, Drivers
<1>5. Guarded'
  BY <1>1, <1>2 DEF Guarded, Run, Process
<1>6. LocksNamed'
  BY <1>1, <1>2 DEF LocksNamed, Run, Drivers
<1> QED BY <1>3, <1>4, <1>5, <1>6

-----------------------------------------------------------------------------
(* The gates. *)

(* A decision takes the gate that is parked, and only it. *)
LEMMA DecideKeeps ==
  ASSUME GateInv, NEW d \in Requests, NEW g, NEW decision, gate[d].parked # 0,
         g \in {0, gate[d].parked}, pc = [e \in Drivers |-> pc[e]], Decide(d, g, decision)
  PROVE  GateInv'
<1> USE DEF GateInv
<1>1. d \in Drivers /\ gate[d].parked = gate[d].asked /\ gate[d].asked \in Nat \ {0}
  BY DEF Numbered, Drivers
<1>2. gate' = [gate EXCEPT ![d] = [asked |-> gate[d].asked, parked |-> 0,
                 decided |-> gate[d].decided \cup {[gate |-> gate[d].parked, addressed |-> g]}]]
  <2>1. PICK r : r = gate[d]
    OBVIOUS
  <2>2. PICK y : y = [r EXCEPT !.parked = 0,
                               !.decided = @ \cup {[gate |-> r.parked, addressed |-> g]}]
    OBVIOUS
  <2>3. r = [asked |-> r.asked, parked |-> r.parked, decided |-> r.decided]
    BY <1>1, <2>1 DEF Numbered
  <2>4. y = [asked |-> r.asked, parked |-> 0,
             decided |-> r.decided \cup {[gate |-> r.parked, addressed |-> g]}]
    BY <2>2, <2>3
  <2>5. gate' = [gate EXCEPT ![d] = y]
    BY <1>1, <2>1, <2>2, <2>3 DEF Decide
  <2> QED BY <2>1, <2>4, <2>5
<1>3. \A e \in Drivers : e # d => pc'[e] = pc[e] /\ gate'[e] = gate[e]
  BY <1>2 DEF Decide, Commit, To
<1>4. /\ gate'[d].asked = gate[d].asked /\ gate'[d].parked = 0
      /\ gate'[d].decided = gate[d].decided \cup {[gate |-> gate[d].asked, addressed |-> g]}
      /\ gate'[d] = [asked |-> gate'[d].asked, parked |-> gate'[d].parked,
                     decided |-> gate'[d].decided]
  BY <1>1, <1>2
<1>5. \A x \in gate[d].decided : x.gate \in 1 .. gate[d].asked /\ x.gate # gate[d].asked
                                 /\ x.addressed \in {0, x.gate}
  BY <1>1 DEF Numbered
<1>6. /\ \A x \in gate'[d].decided : /\ x.gate \in 1 .. gate'[d].asked /\ x.gate # gate'[d].parked
                                      /\ x.addressed \in {0, x.gate}
      /\ \A x, y \in gate'[d].decided : x.gate = y.gate => x = y
  <2>1. PICK new : new = [gate |-> gate[d].asked, addressed |-> g]
    OBVIOUS
  <2>2. new.gate = gate[d].asked /\ new.addressed \in {0, new.gate}
    BY <1>1, <2>1
  <2>3. gate'[d].decided = gate[d].decided \cup {new}
    BY <1>4, <2>1
  <2>4. \A x, y \in gate[d].decided : x.gate = y.gate => x = y
    BY <1>1 DEF Numbered
  <2> QED BY <1>1, <1>4, <1>5, <2>2, <2>3, <2>4
<1>7. Numbered'
  <2>1. \A e \in Drivers : e # d =>
          /\ gate'[e] = [asked |-> gate'[e].asked, parked |-> gate'[e].parked,
                         decided |-> gate'[e].decided]
          /\ gate'[e].asked \in Nat /\ gate'[e].parked \in {0, gate'[e].asked}
          /\ \A x \in gate'[e].decided :
               /\ x.gate \in 1 .. gate'[e].asked /\ x.gate # gate'[e].parked
               /\ x.addressed \in {0, x.gate}
          /\ \A x, y \in gate'[e].decided : x.gate = y.gate => x = y
    BY <1>3 DEF Numbered
  <2>2. gate'[d].asked \in Nat /\ gate'[d].parked \in {0, gate'[d].asked}
    BY <1>1, <1>4
  <2> QED BY <1>4, <1>6, <2>1, <2>2 DEF Numbered
<1>8. Waiting'
  BY <1>3, <1>4 DEF Waiting
<1>9. gate' = [e \in Drivers |-> gate'[e]]
  BY <1>2
<1> QED BY <1>7, <1>8, <1>9

(* Where no gate changes, a run that waits must go on waiting. *)
LEMMA GateFrame ==
  ASSUME GateInv, gate' = gate,
         \A d \in Drivers : gate[d].parked # 0 => pc'[d] = pc[d]
  PROVE  GateInv'
BY DEF GateInv, Numbered, Waiting

(* A gate is parked under a fresh number, behind every decision. *)
LEMMA AskKeeps ==
  ASSUME GateInv, Shape, NEW d \in Drivers, Ask(d)
  PROVE  GateInv'
<1> USE DEF GateInv
<1>0. pc[d] = "between" /\ gate[d].parked = 0 /\ pc = [e \in Drivers |-> pc[e]]
  BY DEF Ask, Waiting, Shape
<1>1. CASE d \in world.gated
  <2>1. d \in Requests
    BY <1>1, LaunchAssumption DEF Shape
  <2>2. /\ gate' = [gate EXCEPT ![d] = [asked |-> gate[d].asked + 1, parked |-> gate[d].asked + 1,
                                        decided |-> gate[d].decided]]
        /\ pc' = [pc EXCEPT ![d] = "parked"]
    <3>1. PICK r : r = gate[d]
      OBVIOUS
    <3>2. PICK y : y = [r EXCEPT !.asked = @ + 1, !.parked = r.asked + 1]
      OBVIOUS
    <3>3. r = [asked |-> r.asked, parked |-> r.parked, decided |-> r.decided]
      BY <3>1 DEF Numbered
    <3>4. y = [asked |-> r.asked + 1, parked |-> r.asked + 1, decided |-> r.decided]
      BY <3>2, <3>3
    <3>5. gate' = [gate EXCEPT ![d] = y]
      BY <1>1, <3>1, <3>2, <3>3 DEF Ask
    <3> QED BY <1>1, <3>1, <3>4, <3>5 DEF Ask, To
  <2>3. \A e \in Drivers : e # d => pc'[e] = pc[e] /\ gate'[e] = gate[e]
    BY <1>0, <2>2
  <2>4. /\ gate'[d].asked = gate[d].asked + 1 /\ gate'[d].parked = gate[d].asked + 1
        /\ gate'[d].decided = gate[d].decided /\ pc'[d] = "parked"
        /\ gate'[d] = [asked |-> gate'[d].asked, parked |-> gate'[d].parked,
                       decided |-> gate'[d].decided]
    BY <1>0, <2>2
  <2>5. gate[d].asked \in Nat /\ \A x \in gate[d].decided : x.gate \in 1 .. gate[d].asked
    BY DEF Numbered
  <2>6. Numbered'
    <3>1. \A e \in Drivers : e # d =>
            /\ gate'[e] = [asked |-> gate'[e].asked, parked |-> gate'[e].parked,
                           decided |-> gate'[e].decided]
            /\ gate'[e].asked \in Nat /\ gate'[e].parked \in {0, gate'[e].asked}
            /\ \A x \in gate'[e].decided :
                 /\ x.gate \in 1 .. gate'[e].asked /\ x.gate # gate'[e].parked
                 /\ x.addressed \in {0, x.gate}
            /\ \A x, y \in gate'[e].decided : x.gate = y.gate => x = y
      BY <2>3 DEF Numbered
    <3>2. \A x \in gate'[d].decided :
             x.gate \in 1 .. gate'[d].asked /\ x.gate # gate'[d].parked
      BY <2>4, <2>5
    <3>3. /\ \A x \in gate'[d].decided : x.addressed \in {0, x.gate}
          /\ \A x, y \in gate'[d].decided : x.gate = y.gate => x = y
      BY <2>4 DEF Numbered
    <3>4. gate'[d].asked \in Nat /\ gate'[d].parked \in {0, gate'[d].asked}
      BY <2>4, <2>5
    <3> QED BY <2>4, <3>1, <3>2, <3>3, <3>4 DEF Numbered
  <2>7. Waiting'
    BY <2>1, <2>3, <2>4 DEF Waiting
  <2>8. gate' = [e \in Drivers |-> gate'[e]]
    BY <2>2
  <2> QED BY <2>6, <2>7, <2>8
<1>2. CASE d \notin world.gated
  <2>1. gate' = gate /\ gate[d].parked = 0
    BY <1>0, <1>2 DEF Ask
  <2>2. \A e \in Drivers : e # d => pc'[e] = pc[e]
    BY <1>0, <1>2 DEF Ask, Commit, To
  <2> QED BY <2>1, <2>2, GateFrame
<1> QED BY <1>1, <1>2

-----------------------------------------------------------------------------
(* Both, step by step. *)

(* A decision moves the run on from its gate, or out of a tree that is gone. *)
LEMMA DecideWalks ==
  ASSUME LaunchInv, NEW d \in Requests, NEW g, NEW decision, Decide(d, g, decision),
         gate[d].parked # 0, stopping \subseteq stopping', UnchangedByAnswer
  PROVE  Walk(d)
<1>1. /\ pc[d] = "parked" /\ d \in Drivers /\ pc = [e \in Drivers |-> pc[e]]
      /\ at = [e \in Drivers |-> at[e]] /\ d \in sessions
  BY DEF LaunchInv, GateInv, Waiting, TreeInv, Shape, Registered, Working, Drivers
<1>2. pc' = [pc EXCEPT ![d] = pc'[d]] /\ pc'[d] \in {"between", "unwinding"}
  BY <1>1 DEF Decide, Commit, To
<1>3. at' = [e \in Drivers |-> at'[e]]
  BY <1>1 DEF Decide, Commit
<1>4. Live(d) /\ Live(d)' /\ ~Working(d)'
  BY <1>1, <1>2 DEF Live, Working
<1> QED BY <1>1, <1>2, <1>3, <1>4 DEF Walk, UnchangedByAnswer, Places

LEMMA TreeStep ==
  ASSUME LaunchInv, [Next]_vars
  PROVE  TreeInv'
<1>1. TreeInv
  BY DEF LaunchInv
<1>2. at = [e \in Drivers |-> at[e]]
  BY <1>1 DEF TreeInv, Shape
<1>3. CASE UNCHANGED vars
  BY <1>1, <1>2, <1>3, TreeFrame DEF vars
<1>4. ASSUME NEW d \in Requests, Arrive(d) \/ Probe(d) PROVE TreeInv'
  BY <1>1, <1>4, StepsWalk, WalkKept DEF Drivers
<1>5. ASSUME NEW d \in Requests, NEW g \in 1 .. gate[d].asked, NEW decision, Answer(d, g, decision)
      PROVE  TreeInv'
  <2>1. Walk(d)
    BY <1>5, DecideWalks DEF Answer, Names
  <2> QED BY <1>1, <2>1, WalkKept DEF Drivers
<1>6. ASSUME NEW d \in Requests, NEW g \in 1 .. gate[d].asked, CheckDrift(d, g)
      PROVE  TreeInv'
  BY <1>1, <1>2, <1>6, TreeFrame DEF CheckDrift, UnchangedByAnswer
<1>7. ASSUME NEW d \in Requests, NEW g \in 1 .. gate[d].asked, Approve(d, g)
      PROVE  TreeInv'
  <2>1. CASE Names(d, g)
    <3>1. Walk(d)
      BY <1>7, <2>1, DecideWalks DEF Approve, Names
    <3> QED BY <1>1, <3>1, WalkKept DEF Drivers
  <2>2. CASE ~Names(d, g)
    BY <1>1, <1>2, <1>7, <2>2, TreeFrame DEF Approve, UnchangedByAnswer
  <2> QED BY <2>1, <2>2
<1>8. ASSUME NEW d \in Drivers, Prepare(d) \/ Acquire(d) \/ ProxyThrows(d)
      PROVE  TreeInv'
  BY <1>1, <1>8, StepsWalk, WalkKept, AcquireKeeps, ProxyKeeps
<1>9. ASSUME NEW d \in Drivers, RunNext(d)
      PROVE  TreeInv'
  BY <1>1, <1>9, StepsWalk, WalkKept, SettleKeeps DEF RunNext, Ask
<1>10. ASSUME NEW d \in Drivers, Stop(d)
       PROVE  TreeInv'
  <2>1. stopping \subseteq stopping' /\ UnchangedByAnswer
    BY <1>10 DEF Stop
  <2>2. CASE gate[d].parked # 0
    <3>1. d \in Requests
      BY <2>2 DEF LaunchInv, GateInv, Waiting
    <3>2. Walk(d)
      BY <1>10, <2>1, <2>2, <3>1, DecideWalks DEF Stop, StopGates
    <3> QED BY <1>1, <3>2, WalkKept
  <2>3. CASE gate[d].parked = 0
    BY <1>1, <1>2, <1>10, <2>1, <2>3, TreeFrame DEF Stop, StopGates, UnchangedByAnswer
  <2> QED BY <2>2, <2>3
<1>11. ASSUME NEW t \in Terminals, KillTerminal(t) PROVE TreeInv'
  BY <1>1, <1>11, KillTerminalKeeps
<1>12. ASSUME NEW r \in DOMAIN tree, Remove(r) \/ (\E force \in BOOLEAN : CheckRemoval(r, force))
       PROVE  TreeInv'
  BY <1>1, <1>12, RemoveKeeps, CheckRemovalKeeps
<1>13. CASE KillServer
  BY <1>1, <1>13, KillServerKeeps
<1>14. ASSUME NEW d \in Requests, AnswerNext(d) PROVE TreeInv'
  BY <1>5, <1>6, <1>7, <1>14 DEF AnswerNext
<1> QED
  BY <1>3, <1>4, <1>8, <1>9, <1>10, <1>11, <1>12, <1>13, <1>14 DEF Next

LEMMA GateStep ==
  ASSUME LaunchInv, [Next]_vars
  PROVE  GateInv'
<1>1. GateInv /\ Shape /\ pc = [e \in Drivers |-> pc[e]]
  BY DEF LaunchInv, TreeInv, Shape
<1>2. \A d \in Drivers : gate[d].parked # 0 => pc[d] = "parked" /\ d \in Requests
  BY <1>1 DEF GateInv, Waiting
<1>3. CASE UNCHANGED vars
  BY <1>1, <1>3, GateFrame DEF vars
<1>4. ASSUME NEW d \in Drivers,
             \/ Arrive(d) \/ Probe(d) \/ Prepare(d) \/ Acquire(d) \/ ProxyThrows(d) \/ Boot(d)
             \/ Leave(d) \/ Begin(d) \/ End(d) \/ Lost(d) \/ Settle(d)
      PROVE  GateInv'
  <2>1. pc[d] # "parked" /\ gate' = gate /\ \A e \in Drivers : e # d => pc'[e] = pc[e]
    BY <1>1, <1>4 DEF Arrive, Probe, Prepare, Acquire, ProxyThrows, Boot, Leave, Begin, End, Lost,
      Settle, Commit, To, UnchangedByRequest, UnchangedByRun
  <2> QED BY <1>1, <1>2, <2>1, GateFrame
<1>5. ASSUME NEW d \in Requests, NEW g \in 1 .. gate[d].asked, NEW decision, Answer(d, g, decision)
      PROVE  GateInv'
  BY <1>1, <1>5, DecideKeeps DEF Answer, Names
<1>6. ASSUME NEW d \in Requests, NEW g \in 1 .. gate[d].asked, CheckDrift(d, g)
      PROVE  GateInv'
  BY <1>1, <1>6, GateFrame DEF CheckDrift
<1>7. ASSUME NEW d \in Requests, NEW g \in 1 .. gate[d].asked, Approve(d, g)
      PROVE  GateInv'
  <2>1. CASE Names(d, g)
    BY <1>1, <1>7, <2>1, DecideKeeps DEF Approve, Names
  <2>2. CASE ~Names(d, g)
    BY <1>1, <1>7, <2>2, GateFrame DEF Approve
  <2> QED BY <2>1, <2>2
<1>8. ASSUME NEW d \in Drivers, Stop(d)
      PROVE  GateInv'
  <2>1. CASE gate[d].parked # 0
    BY <1>1, <1>2, <1>8, <2>1, DecideKeeps DEF Stop, StopGates
  <2>2. CASE gate[d].parked = 0
    BY <1>1, <1>8, <2>2, GateFrame DEF Stop, StopGates
  <2> QED BY <2>1, <2>2
<1>9. ASSUME NEW t \in Terminals, KillTerminal(t) PROVE GateInv'
  <2>1. t \notin Requests /\ gate' = gate /\ \A e \in Drivers : e # t => pc'[e] = pc[e]
    BY <1>1, <1>9, LaunchAssumption DEF KillTerminal, To, UnchangedByRequest
  <2> QED BY <1>1, <1>2, <2>1, GateFrame
<1>10. ASSUME NEW r \in DOMAIN tree, Remove(r) \/ (\E force \in BOOLEAN : CheckRemoval(r, force))
       PROVE  GateInv'
  BY <1>1, <1>10, GateFrame DEF Remove, CheckRemoval
<1>11. CASE KillServer
  <2>1. gate' = [d \in Drivers |-> [gate[d] EXCEPT !.parked = 0]]
    BY <1>11 DEF KillServer
  <2>2. \A d \in Drivers : gate'[d] = [asked |-> gate[d].asked, parked |-> 0, decided |-> gate[d].decided]
    BY <1>1, <2>1 DEF GateInv, Numbered
  <2>3. \A d \in Drivers :
          /\ gate'[d] = [asked |-> gate'[d].asked, parked |-> gate'[d].parked,
                         decided |-> gate'[d].decided]
          /\ gate'[d].asked = gate[d].asked /\ gate'[d].parked = 0 /\ gate'[d].decided = gate[d].decided
    <3> SUFFICES ASSUME NEW d \in Drivers
        PROVE  /\ gate'[d] = [asked |-> gate'[d].asked, parked |-> gate'[d].parked,
                              decided |-> gate'[d].decided]
               /\ gate'[d].asked = gate[d].asked /\ gate'[d].parked = 0
               /\ gate'[d].decided = gate[d].decided
      OBVIOUS
    <3>1. PICK y : y = gate'[d]
      OBVIOUS
    <3>2. y = [asked |-> gate[d].asked, parked |-> 0, decided |-> gate[d].decided]
      BY <2>2, <3>1
    <3> QED BY <3>1, <3>2
  <2>4. Numbered'
    <3>1. \A d \in Drivers :
            /\ gate[d].asked \in Nat
            /\ \A x \in gate[d].decided : x.gate \in 1 .. gate[d].asked /\ x.addressed \in {0, x.gate}
            /\ \A x, y \in gate[d].decided : x.gate = y.gate => x = y
      BY <1>1 DEF GateInv, Numbered
    <3> SUFFICES ASSUME NEW d \in Drivers
        PROVE  /\ gate'[d].asked \in Nat /\ gate'[d].parked \in {0, gate'[d].asked}
               /\ \A x \in gate'[d].decided :
                    /\ x.gate \in 1 .. gate'[d].asked /\ x.gate # gate'[d].parked
                    /\ x.addressed \in {0, x.gate}
               /\ \A x, y \in gate'[d].decided : x.gate = y.gate => x = y
      BY <2>3 DEF Numbered
    <3>2. gate'[d].asked \in Nat /\ gate'[d].parked \in {0, gate'[d].asked}
      BY <2>3, <3>1
    <3>3. \A x \in gate'[d].decided :
             /\ x.gate \in 1 .. gate'[d].asked /\ x.gate # gate'[d].parked
             /\ x.addressed \in {0, x.gate}
      <4> SUFFICES ASSUME NEW x \in gate'[d].decided
          PROVE  /\ x.gate \in 1 .. gate'[d].asked /\ x.gate # gate'[d].parked
                 /\ x.addressed \in {0, x.gate}
        OBVIOUS
      <4>1. /\ gate'[d].asked = gate[d].asked /\ gate'[d].parked = 0
            /\ gate'[d].decided = gate[d].decided
        BY <2>3
      <4>2. x \in gate[d].decided
        BY <4>1
      <4>3. gate[d].asked \in Nat /\ x.gate \in 1 .. gate[d].asked /\ x.addressed \in {0, x.gate}
        BY <3>1, <4>2
      <4>4. x.gate # 0
        BY <4>3
      <4> QED BY <4>1, <4>3, <4>4
    <3>4. \A x, y \in gate'[d].decided : x.gate = y.gate => x = y
      BY <2>3, <3>1
    <3> QED BY <3>2, <3>3, <3>4
  <2> QED BY <2>1, <2>3, <2>4 DEF GateInv, Waiting
<1>12. ASSUME NEW d \in Requests, AnswerNext(d) PROVE GateInv'
  BY <1>5, <1>6, <1>7, <1>12 DEF AnswerNext
<1>13. ASSUME NEW d \in Drivers, RunNext(d) PROVE GateInv'
  BY <1>1, <1>4, <1>13, AskKeeps DEF RunNext
<1> QED
  BY <1>3, <1>4, <1>8, <1>9, <1>10, <1>11, <1>12, <1>13 DEF Next, Drivers

LEMMA LaunchInit ==
  ASSUME Init
  PROVE  LaunchInv
<1> USE LaunchAssumption DEF Init
<1>1. Shape
  <2>1. \A d \in Drivers : /\ pc[d] \in {"idle", "ended"}
                           /\ pc[d] # "ended" => d \in DOMAIN world.run
    OBVIOUS
  <2> QED BY <2>1 DEF Shape, Places
<1>2. \A d \in Drivers : pc[d] \in {"idle", "ended"} /\ ~Live(d) /\ ~Working(d)
  BY DEF Live, Working
<1>3. Registered /\ Guarded
  BY <1>2 DEF Registered, Guarded, Drivers
<1>4. LocksNamed
  <2>1. Nobody # << "server", 1 >> /\ Nobody # << "server", 2 >> /\ life = 1
    OBVIOUS
  <2>2. \A t \in Terminals : Nobody # << "terminal", t >>
    OBVIOUS
  <2>3. \A s \in DOMAIN lock : lock[s] = Nobody
    OBVIOUS
  <2> QED BY ONLY <2>1, <2>2, <2>3 DEF LocksNamed
<1>5. GateInv
  <2>1. \A d \in Drivers : gate[d] = [asked |-> 0, parked |-> 0, decided |-> {}]
    BY DEF NoGate
  <2>2. \A d \in Drivers :
          /\ gate[d] = [asked |-> gate[d].asked, parked |-> gate[d].parked,
                        decided |-> gate[d].decided]
          /\ gate[d].asked = 0 /\ gate[d].parked = 0 /\ gate[d].decided = {}
    BY <2>1
  <2>3. Numbered
    BY <2>2 DEF Numbered
  <2>4. Waiting
    BY <2>2 DEF Waiting
  <2> QED BY <2>3, <2>4 DEF GateInv
<1> QED BY <1>1, <1>3, <1>4, <1>5 DEF LaunchInv, TreeInv

THEOREM LaunchInvariant == Spec => []LaunchInv
<1>1. LaunchInv /\ [Next]_vars => LaunchInv'
  BY TreeStep, GateStep DEF LaunchInv
<1> QED BY LaunchInit, <1>1, PTL DEF Spec

-----------------------------------------------------------------------------
(* What the runs check, for any number of requests, terminals and trees. *)

(* A registered session claims its tree before the run's first await, a     *)
(* request that lost the claim never works, and the lock file of a driver   *)
(* stays its own until a removal or a twin takes it: what start-run.ts and  *)
(* worktree-manager.ts look for is there over every interleaving.           *)
THEOREM TreesAreClaimed == Spec => []TreesAreExclusive
<1>1. LaunchInv => TreesAreExclusive
  <2> SUFFICES ASSUME LaunchInv PROVE TreesAreExclusive
    OBVIOUS
  <2>1. Registered /\ TreeInv
    BY DEF LaunchInv, TreeInv
  <2>2. OneServerRunPerTree
    BY <2>1 DEF Registered, OneServerRunPerTree
  <2>3. DrivenTreesRefuse
    BY <2>1, GuardedIsSeen DEF DrivenTreesRefuse
  <2> QED BY <2>2, <2>3 DEF TreesAreExclusive
<1> QED BY LaunchInvariant, <1>1, PTL

(* No tree stays refused for a process that drives nothing in it. *)
THEOREM RefusalsHaveDrivers == Spec => []LocksAreDriven
<1>1. LaunchInv => LocksAreDriven
  <2> SUFFICES ASSUME LaunchInv, NEW s \in DOMAIN lock, lock[s] # Nobody, IsAlive(lock[s])
      PROVE  \E d \in DOMAIN world.run : Run(d) = s /\ (Live(d) \/ pc[d] = "thrown")
    BY DEF LocksAreDriven
  <2>1. LocksNamed /\ Shape
    BY DEF LaunchInv, TreeInv
  <2>2. CASE lock[s] = << "server", life >>
    BY <2>1, <2>2 DEF LocksNamed
  <2>3. ASSUME NEW t \in Terminals, lock[s] = << "terminal", t >>, Live(t) \/ pc[t] = "preparing"
        PROVE  \E d \in DOMAIN world.run : Run(d) = s /\ (Live(d) \/ pc[d] = "thrown")
    BY <2>1, <2>3 DEF LocksNamed
  <2> QED BY <2>2, <2>3 DEF IsAlive
<1> QED BY LaunchInvariant, <1>1, PTL

-----------------------------------------------------------------------------
(* The page. *)

(* What the page with stream p shows and has under way leads to gate g. *)
LeadsTo(p, g) ==
  IF p.queue = << >> THEN p.modal = g ELSE p.queue[Len(p.queue)] = Gate(g)

PageOK(p) ==
  /\ p = [stream |-> p.stream, session |-> p.session, queue |-> p.queue, modal |-> p.modal]
  /\ p.session \in Requests \cup {Nobody}
  /\ p.queue \in Seq(FrameSet)
  /\ p.stream \in {"read", "probe"} /\ p.session # Nobody /\ gate[p.session].parked # 0 =>
       LeadsTo(p, gate[p.session].parked)

LEMMA ModalIsPages ==
  ModalFollows <=> page = [v \in Pages |-> page[v]] /\ \A v \in Pages : PageOK(page[v])
BY DEF ModalFollows, PageOK, Open, LeadsTo

LEMMA PagesFollowNext ==
  ASSUME page' = [v \in Pages |-> page'[v]], \A v \in Pages : PageOK(page[v])'
  PROVE  ModalFollows'
BY DEF ModalFollows, PageOK, Open, LeadsTo

(* One page changes, to one that follows the gates as they are. *)
LEMMA OnePage ==
  ASSUME ModalFollows, NEW v \in Pages, NEW p, page' = [page EXCEPT ![v] = p], gate' = gate,
         PageOK(p)
  PROVE  ModalFollows'
<1>1. page' = [u \in Pages |-> page'[u]] /\ \A u \in Pages : page'[u] = IF u = v THEN p ELSE page[u]
  BY DEF ModalFollows
<1>2. \A u \in Pages : PageOK(page'[u])
  BY <1>1, ModalIsPages
<1>3. \A u \in Pages : PageOK(page[u])'
  BY <1>2 DEF PageOK, LeadsTo, FrameSet
<1> QED BY <1>1, <1>3, PagesFollowNext

LEMMA LastOfTail ==
  ASSUME NEW S, NEW s \in Seq(S), s # << >>
  PROVE  /\ Tail(s) \in Seq(S)
         /\ Tail(s) = << >> => s[Len(s)] = Head(s)
         /\ Tail(s) # << >> => Tail(s)[Len(Tail(s))] = s[Len(s)]
<1>1. Len(s) \in Nat \ {0}
  OBVIOUS
<1>2. Tail(s) \in Seq(S) /\ Len(Tail(s)) = Len(s) - 1
  BY <1>1
<1>3. \A i \in 1 .. Len(Tail(s)) : Tail(s)[i] = s[i + 1]
  BY <1>1
<1>4. CASE Tail(s) = << >>
  BY <1>1, <1>2, <1>4
<1>5. CASE Tail(s) # << >>
  <2>1. Len(Tail(s)) \in 1 .. Len(Tail(s))
    BY <1>2, <1>5
  <2> QED BY <1>1, <1>2, <1>3, <1>5, <2>1
<1> QED BY <1>2, <1>4, <1>5

LEMMA ParkedIsNat ==
  ASSUME LaunchInv, NEW d \in Requests
  PROVE  gate[d].parked \in Nat
<1>1. gate[d].asked \in Nat /\ gate[d].parked \in {0, gate[d].asked}
  BY DEF LaunchInv, GateInv, Numbered, Drivers
<1> QED BY <1>1

LEMMA StreamsKeep ==
  ASSUME ModalFollows, LaunchInv, NEW v \in Pages,
         Connect(v) \/ Disconnect(v) \/ Streaming(v)
  PROVE  ModalFollows'
<1> DEFINE q == page[v]
<1>1. PageOK(q) /\ gate' = gate /\ page = [u \in Pages |-> page[u]]
  BY ModalIsPages DEF Connect, Disconnect, Streaming, Poll, Probed, Deliver, vars
<1>2. CASE Connect(v)
  <2>1. PICK p : /\ page' = [page EXCEPT ![v] = p]
                 /\ p.stream = "read" /\ p = [stream |-> p.stream, session |-> p.session,
                                               queue |-> p.queue, modal |-> p.modal]
                 /\ p.session = IF SessionOf(Here) = {} THEN Nobody
                                ELSE CHOOSE d \in SessionOf(Here) : TRUE
                 /\ p.queue = IF SessionOf(Here) = {} THEN << >>
                              ELSE Replayed(CHOOSE d \in SessionOf(Here) : TRUE)
    <3>1. PICK shown \in {page[v], Closed} :
            page' = [page EXCEPT ![v] =
              [shown EXCEPT
                 !.stream = "read",
                 !.session = IF SessionOf(Here) = {} THEN Nobody
                             ELSE CHOOSE d \in SessionOf(Here) : TRUE,
                 !.queue = IF SessionOf(Here) = {} THEN << >>
                           ELSE Replayed(CHOOSE d \in SessionOf(Here) : TRUE)]]
      BY <1>2 DEF Connect
    <3>2. shown = [stream |-> shown.stream, session |-> shown.session,
                   queue |-> shown.queue, modal |-> shown.modal]
      BY <1>1, <3>1 DEF PageOK, Closed
    <3>3. PICK who : who = IF SessionOf(Here) = {} THEN Nobody
                           ELSE CHOOSE d \in SessionOf(Here) : TRUE
      OBVIOUS
    <3>4. PICK sent : sent = IF SessionOf(Here) = {} THEN << >>
                             ELSE Replayed(CHOOSE d \in SessionOf(Here) : TRUE)
      OBVIOUS
    <3>5. PICK p : p = [shown EXCEPT !.stream = "read", !.session = who, !.queue = sent]
      OBVIOUS
    <3>6. p = [stream |-> "read", session |-> who, queue |-> sent, modal |-> shown.modal]
      BY <3>2, <3>5
    <3> QED BY <3>1, <3>3, <3>4, <3>5, <3>6
  <2>2. PageOK(p)
    <3>1. CASE SessionOf(Here) = {}
      BY <2>1, <3>1 DEF PageOK
    <3>2. CASE SessionOf(Here) # {}
      <4>1. PICK d : d = CHOOSE e \in SessionOf(Here) : TRUE
        OBVIOUS
      <4>2. d \in SessionOf(Here)
        BY <3>2, <4>1
      <4>3. d \in Requests /\ gate[d].parked \in Nat
        <5>1. d \in Requests
          BY <4>2 DEF SessionOf, LaunchInv, TreeInv, Shape
        <5> QED BY <5>1, ParkedIsNat
      <4>4. p.session = d /\ p.queue = Replayed(d)
        BY <2>1, <3>2, <4>1
      <4>5. p.queue \in Seq(FrameSet)
        <5>1. Gate(gate[d].parked) \in FrameSet
          BY <4>3 DEF FrameSet
        <5> QED BY <4>4, <5>1 DEF Replayed
      <4>6. gate[d].parked # 0 => LeadsTo(p, gate[d].parked)
        BY <4>4 DEF LeadsTo, Replayed
      <4> QED BY <2>1, <4>3, <4>4, <4>5, <4>6 DEF PageOK
    <3> QED BY <3>1, <3>2
  <2> QED BY <1>1, <2>1, <2>2, OnePage
<1>3. CASE Disconnect(v)
  <2>1. PICK p : p = [stream |-> "closed", session |-> q.session, queue |-> << >>, modal |-> q.modal]
    OBVIOUS
  <2>2. page' = [page EXCEPT ![v] = p]
    <3>1. PICK r : r = page[v]
      OBVIOUS
    <3>4. PICK y : y = [r EXCEPT !.stream = "closed", !.queue = << >>]
      OBVIOUS
    <3>2. r = [stream |-> r.stream, session |-> r.session, queue |-> r.queue, modal |-> r.modal]
      BY <1>1, <3>1 DEF PageOK
    <3>3. y = [stream |-> "closed", session |-> r.session, queue |-> << >>, modal |-> r.modal]
      BY <3>2, <3>4
    <3>5. page' = [page EXCEPT ![v] = y]
      BY <1>1, <1>3, <3>1, <3>2, <3>4 DEF Disconnect
    <3> QED BY <2>1, <3>1, <3>3, <3>5
  <2>3. PageOK(p)
    BY <1>1, <2>1 DEF PageOK
  <2> QED BY <1>1, <2>2, <2>3, OnePage
<1>4. CASE Poll(v) \/ Probed(v)
  <2>1. PICK p : /\ page' = [page EXCEPT ![v] = p]
                 /\ p = [stream |-> p.stream, session |-> q.session, queue |-> p.queue,
                         modal |-> q.modal]
                 /\ \/ p.stream \in {"read", "probe"} /\ p.queue = q.queue
                    \/ p.stream = "ended" /\ p.queue = Append(q.queue, Terminal)
    <3>1. PICK r : r = page[v]
      OBVIOUS
    <3>2. r = [stream |-> r.stream, session |-> r.session, queue |-> r.queue, modal |-> r.modal]
      BY <1>1, <3>1 DEF PageOK
    <3>3. PICK s, l : /\ page' = [page EXCEPT ![v] = [r EXCEPT !.stream = s, !.queue = l]]
                      /\ \/ s \in {"read", "probe"} /\ l = r.queue
                         \/ s = "ended" /\ l = Append(r.queue, Terminal)
      <4>1. CASE Poll(v)
        <5>1. page' = [page EXCEPT ![v] =
                [r EXCEPT !.stream = IF Final THEN "ended" ELSE "probe",
                          !.queue = IF Final THEN Append(r.queue, Terminal) ELSE r.queue]]
          BY <1>1, <3>1, <3>2, <4>1 DEF Poll
        <5>2. CASE Final
          BY <5>1, <5>2
        <5>3. CASE ~Final
          BY <5>1, <5>3
        <5> QED BY <5>2, <5>3
      <4>2. CASE Probed(v)
        <5>1. page' = [page EXCEPT ![v] = [r EXCEPT !.stream = "read", !.queue = r.queue]]
          BY <1>1, <3>1, <3>2, <4>2 DEF Probed
        <5> QED BY <5>1
      <4> QED BY <1>4, <4>1, <4>2
    <3>4. PICK p : p = [r EXCEPT !.stream = s, !.queue = l]
      OBVIOUS
    <3>5. p = [stream |-> s, session |-> r.session, queue |-> l, modal |-> r.modal]
      BY <3>2, <3>4
    <3>6. /\ p.stream = s /\ p.queue = l
          /\ p = [stream |-> p.stream, session |-> r.session, queue |-> p.queue, modal |-> r.modal]
      BY <3>5
    <3>7. page' = [page EXCEPT ![v] = p]
      BY <3>3, <3>4
    <3> QED BY <3>1, <3>3, <3>6, <3>7
  <2>2. PageOK(p)
    <3>1. q.stream \in {"read", "probe"}
      BY <1>4 DEF Poll, Probed
    <3>2. Terminal \in FrameSet
      BY DEF FrameSet
    <3> QED BY <1>1, <2>1, <3>1, <3>2 DEF PageOK, LeadsTo
  <2> QED BY <1>1, <2>1, <2>2, OnePage
<1>5. CASE Deliver(v)
  <2>1. PICK p : /\ page' = [page EXCEPT ![v] = p]
                 /\ p = [stream |-> p.stream, session |-> q.session, queue |-> Tail(q.queue),
                         modal |-> p.modal]
                 /\ p.stream \in {q.stream, "over"}
                 /\ Head(q.queue).event = "gate" => p.modal = Head(q.queue).gate
    <3>1. PICK f : f = Head(q.queue)
      OBVIOUS
    <3>2. PICK r : r = [q EXCEPT !.queue = Tail(@)]
      OBVIOUS
    <3>3. r = [stream |-> q.stream, session |-> q.session, queue |-> Tail(q.queue), modal |-> q.modal]
      BY <1>1, <3>2 DEF PageOK
    <3>4. PICK p : p = Shown(r, f)
      OBVIOUS
    <3>5. /\ p = [stream |-> p.stream, session |-> r.session, queue |-> r.queue, modal |-> p.modal]
          /\ p.stream \in {r.stream, "over"}
          /\ f.event = "gate" => p.modal = f.gate
      <4>1. CASE f.event = "gate"
        BY <3>3, <3>4, <4>1 DEF Shown
      <4>2. CASE f.event = "gate-resolved"
        BY <3>3, <3>4, <4>2 DEF Shown
      <4>3. CASE f.event \notin {"gate", "gate-resolved"}
        BY <3>3, <3>4, <4>3 DEF Shown
      <4> QED BY <4>1, <4>2, <4>3
    <3>6. page' = [page EXCEPT ![v] = p]
      BY <1>5, <3>1, <3>2, <3>4 DEF Deliver
    <3> QED BY <3>1, <3>3, <3>5, <3>6
  <2>2. PageOK(p)
    <3>1. q.queue # << >> /\ q.queue \in Seq(FrameSet)
      BY <1>1, <1>5 DEF Deliver, PageOK
    <3>2. Tail(q.queue) \in Seq(FrameSet)
      BY <3>1
    <3>3. ASSUME p.stream \in {"read", "probe"}, p.session # Nobody, gate[p.session].parked # 0
          PROVE  LeadsTo(p, gate[p.session].parked)
      <4>1. PICK g : g = gate[p.session].parked
        OBVIOUS
      <4>2. q.queue[Len(q.queue)] = Gate(g)
        BY <1>1, <2>1, <3>1, <3>3, <4>1 DEF PageOK, LeadsTo
      <4>3. CASE Tail(q.queue) = << >>
        <5>1. Head(q.queue) = Gate(g)
          BY <3>1, <4>2, <4>3, LastOfTail
        <5>2. p.modal = g
          BY <2>1, <5>1 DEF Gate
        <5>3. p.queue = Tail(q.queue)
          BY <2>1
        <5>4. p.queue = << >>
          BY <4>3, <5>3
        <5> QED BY <4>1, <5>2, <5>4 DEF LeadsTo
      <4>4. CASE Tail(q.queue) # << >>
        <5>1. Tail(q.queue)[Len(Tail(q.queue))] = Gate(g)
          BY <3>1, <4>2, <4>4, LastOfTail
        <5>2. p.queue = Tail(q.queue)
          BY <2>1
        <5> QED BY <4>1, <4>4, <5>1, <5>2 DEF LeadsTo
      <4> QED BY <4>3, <4>4
    <3>4. /\ p.session = q.session /\ p.queue = Tail(q.queue)
          /\ p = [stream |-> p.stream, session |-> p.session, queue |-> p.queue, modal |-> p.modal]
      BY <2>1
    <3> QED BY <1>1, <3>2, <3>3, <3>4 DEF PageOK
  <2> QED BY <1>1, <2>1, <2>2, OnePage
<1> QED BY <1>2, <1>3, <1>4, <1>5 DEF Streaming

(* Whatever the server does, its streams get the frames of it. *)
LEMMA LaunchingKeeps ==
  ASSUME ModalFollows, LaunchInv, LaunchInv', Launching
  PROVE  ModalFollows'
<1>1. page' = [v \in Pages |-> Pushed(v)]
  BY DEF Launching
<1> SUFFICES ASSUME NEW v \in Pages
    PROVE  PageOK(page[v])'
  <2>1. page' = [u \in Pages |-> page'[u]]
    BY <1>1
  <2> QED BY <2>1, PagesFollowNext
<1> DEFINE q == page[v]
<1>2. PageOK(q) /\ page'[v] = Pushed(v)
  BY <1>1, ModalIsPages
<1>3. CASE life' # life
  <2>1. PICK p : p = [stream |-> "closed", session |-> q.session, queue |-> << >>, modal |-> q.modal]
    OBVIOUS
  <2>2. page'[v] = p
    BY <1>2, <1>3, <2>1 DEF Pushed, PageOK
  <2> QED BY <1>2, <2>1, <2>2 DEF PageOK
<1>4. CASE life' = life
  <2>1. PICK sent : sent = IF Open(v) THEN Frames(q.session) ELSE << >>
    OBVIOUS
  <2>2. PICK p : p = [stream |-> q.stream, session |-> q.session, queue |-> q.queue \o sent,
                     modal |-> q.modal]
    OBVIOUS
  <2>3. page'[v] = p
    BY <1>2, <1>4, <2>1, <2>2 DEF Pushed, PageOK
  <2>4. q.session # Nobody => q.session \in Requests /\ gate'[q.session].parked \in Nat
    <3>1. q.session # Nobody => q.session \in Requests
      BY <1>2 DEF PageOK
    <3>2. \A d \in Requests : gate'[d].parked \in Nat
      <4>1. \A d \in Drivers : gate'[d].asked \in Nat /\ gate'[d].parked \in {0, gate'[d].asked}
        BY DEF LaunchInv, GateInv, Numbered
      <4> QED BY <4>1 DEF Drivers
    <3> QED BY <3>1, <3>2
  <2>5. sent \in Seq(FrameSet)
    <3>1. q.session # Nobody => Gate(gate'[q.session].parked) \in FrameSet
      BY <2>4 DEF FrameSet
    <3>2. Resolved \in FrameSet
      BY DEF FrameSet
    <3> QED BY <2>1, <3>1, <3>2 DEF Frames
  <2>6. q.queue \in Seq(FrameSet) /\ p.queue \in Seq(FrameSet)
    BY <1>2, <2>2, <2>5 DEF PageOK
  <2>7. ASSUME q.stream \in {"read", "probe"}, q.session # Nobody, gate'[q.session].parked # 0
        PROVE  LeadsTo(p, gate'[q.session].parked)
    <3>1. PICK g : g = gate'[q.session].parked
      OBVIOUS
    <3>2. CASE gate'[q.session].parked = gate[q.session].parked
      <4>1. sent = << >> /\ p.queue = q.queue
        BY <2>1, <2>2, <2>6, <2>7, <3>2 DEF Frames
      <4>2. LeadsTo(q, g)
        BY <1>2, <2>7, <3>1, <3>2 DEF PageOK
      <4> QED BY <2>2, <3>1, <4>1, <4>2 DEF LeadsTo
    <3>3. CASE gate'[q.session].parked # gate[q.session].parked
      <4>1. sent = << Gate(g) >>
        BY <2>1, <2>7, <3>1, <3>3 DEF Frames, Open
      <4>2. p.queue # << >> /\ p.queue[Len(p.queue)] = Gate(g)
        BY <2>2, <2>6, <4>1
      <4> QED BY <3>1, <4>2 DEF LeadsTo
    <3> QED BY <3>2, <3>3
  <2> QED BY <1>2, <2>2, <2>3, <2>6, <2>7 DEF PageOK, LeadsTo, FrameSet
<1> QED BY <1>3, <1>4

THEOREM PagesFollow == FollowSpec => [](LaunchInv /\ ModalFollows)
<1>1. FollowInit => LaunchInv /\ ModalFollows
  <2> SUFFICES ASSUME FollowInit PROVE LaunchInv /\ ModalFollows
    OBVIOUS
  <2>1. LaunchInv
    BY LaunchInit DEF FollowInit
  <2>2. \A v \in Pages : PageOK(page[v])
    <3> SUFFICES ASSUME NEW v \in Pages PROVE PageOK(page[v])
      OBVIOUS
    <3>1. page[v] = [stream |-> "closed", session |-> Nobody, queue |-> << >>, modal |-> 0]
      BY DEF FollowInit, Closed
    <3> QED BY <3>1 DEF PageOK
  <2>3. page = [v \in Pages |-> page[v]]
    BY DEF FollowInit
  <2> QED BY <2>1, <2>2, <2>3, ModalIsPages
<1>2. LaunchInv /\ ModalFollows /\ [FollowNext]_followVars => (LaunchInv /\ ModalFollows)'
  <2> SUFFICES ASSUME LaunchInv, ModalFollows, [FollowNext]_followVars
      PROVE  LaunchInv' /\ ModalFollows'
    OBVIOUS
  <2>1. [Next]_vars
    BY DEF FollowNext, followVars, Launching, Connect, Disconnect, Streaming, Poll, Probed, Deliver,
      Watch, WatchPoll, WatchProbe
  <2>2. LaunchInv'
    BY <2>1, TreeStep, GateStep DEF LaunchInv
  <2>3. CASE Launching
    BY <2>2, <2>3, LaunchingKeeps
  <2>4. ASSUME NEW v \in Pages, Connect(v) \/ Disconnect(v) \/ Streaming(v)
        PROVE  ModalFollows'
    BY <2>4, StreamsKeep
  <2>5. CASE Watch \/ WatchPoll \/ WatchProbe \/ UNCHANGED followVars
    <3>1. page' = page /\ gate' = gate
      BY <2>5 DEF Watch, WatchPoll, WatchProbe, followVars, vars
    <3>2. page = [v \in Pages |-> page[v]] /\ \A v \in Pages : PageOK(page[v])
      BY ModalIsPages
    <3>3. \A v \in Pages : PageOK(page[v])'
      BY <3>1, <3>2 DEF PageOK, LeadsTo, FrameSet
    <3>4. page' = [v \in Pages |-> page'[v]]
      BY <3>1, <3>2
    <3> QED BY <2>2, <3>3, <3>4, PagesFollowNext
  <2> QED BY <2>2, <2>3, <2>4, <2>5 DEF FollowNext
<1> QED BY <1>1, <1>2, PTL DEF FollowSpec

(* Of however many pages on however many runs: a stream that has caught up *)
(* shows the gate that is parked, and ui-gates.ts takes one decision for   *)
(* each gate, the one that was made for it, or the stop's rejection.       *)
THEOREM GatesAreMet == FollowSpec => []GatesMeetTheirHuman
<1>1. LaunchInv /\ ModalFollows => GatesMeetTheirHuman
  <2> SUFFICES ASSUME LaunchInv, ModalFollows PROVE GatesMeetTheirHuman
    OBVIOUS
  <2>1. DecisionsAnswerTheirGate
    BY DEF LaunchInv, GateInv, Numbered, Drivers, DecisionsAnswerTheirGate
  <2>2. ParkedGateIsShown
    BY DEF ModalFollows, ParkedGateIsShown
  <2> QED BY <2>1, <2>2 DEF GatesMeetTheirHuman
<1> QED BY PagesFollow, <1>1, PTL
=============================================================================
