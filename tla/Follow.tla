------------------------------- MODULE Follow -------------------------------
(***************************************************************************)
(* Following a run while others drive it: the event stream of the web UI   *)
(* (src/src/ui/sse.ts, server.ts serveSse), the page that shows it         *)
(* (ui/web/api.ts, views.ts) and `runs watch' (cli/watch.ts).              *)
(*                                                                         *)
(* A stream joins a tail of the log, which it polls, with the gate events  *)
(* of a run of this server, which are pushed.  Streams come and go.        *)
(***************************************************************************)
EXTENDS UiLaunch, Sequences

CONSTANTS
  Pages,     (* browser pages, each on one run *)
  Watched    (* the scenarios in which somebody watches, and the runs they watch *)

ASSUME FollowAssumption ==
  /\ DOMAIN Watched \subseteq Scenarios
  /\ \A w \in DOMAIN Watched : Watched[w] \in DOMAIN w.root

VARIABLES
  page,     (* what each page shows, and its stream *)
  watcher   (* a terminal that watches *)

followVars == << vars, page, watcher >>

(* The stream: its place in the polling loop, the session whose gates it    *)
(* takes, the frames queued for the page.  The page: the gate in its modal. *)
Closed == [stream |-> "closed", session |-> Nobody, queue |-> << >>, modal |-> 0]

Here == Watched[world]

Entries == log[Here].entries

(* The last entry, and only the last, says that the run is over. *)
Ended == log[Here].stage = "over"

RunLockActive ==
  /\ world \in DOMAIN Watched
  /\ lock[Here] # Nobody /\ IsAlive(lock[Here])

SessionOf(s) == { d \in sessions : Run(d) = s }

Gate(g)     == [event |-> "gate", gate |-> g]
Resolved    == [event |-> "gate-resolved"]
Terminal    == [event |-> "terminal"]

-----------------------------------------------------------------------------
(* A gate parked before the page came is replayed to it. *)
Replayed(d) == IF gate[d].parked # 0 THEN << Gate(gate[d].parked) >> ELSE << >>

(* A page opens, or its stream is opened again while it shows what it did. *)
Connect(v) ==
  /\ world \in DOMAIN Watched /\ Entries > 0 /\ life = 1
  /\ page[v].stream = "closed"
  /\ \E shown \in {page[v], Closed} :
       page' = [page EXCEPT ![v] =
         [shown EXCEPT
            !.stream = "read",
            !.session = IF SessionOf(Here) = {} THEN Nobody
                        ELSE CHOOSE d \in SessionOf(Here) : TRUE,
            !.queue = IF SessionOf(Here) = {} THEN << >>
                      ELSE Replayed(CHOOSE d \in SessionOf(Here) : TRUE)]]
  /\ UNCHANGED << vars, watcher >>

(* The connection is lost: what was queued for it is gone. *)
Disconnect(v) ==
  /\ page[v].stream \in {"read", "probe", "ended"}
  /\ page' = [page EXCEPT ![v].stream = "closed", ![v].queue = << >>]
  /\ UNCHANGED << vars, watcher >>

(* The last entry ends a tail, whether anyone drives the run or not. *)
Final == Entries > 0 /\ Ended

(* One poll sends what is new in the log, and ends behind a last entry. *)
Poll(v) ==
  /\ page[v].stream = "read"
  /\ page' = [page EXCEPT
       ![v].stream = IF Final THEN "ended" ELSE "probe",
       ![v].queue = IF Final THEN Append(@, Terminal) ELSE @]
  /\ UNCHANGED << vars, watcher >>

(* Then, not in the same breath, it asks who holds the lock, and waits. *)
Probed(v) ==
  /\ page[v].stream = "probe"
  /\ page' = [page EXCEPT ![v].stream = "read"]
  /\ UNCHANGED << vars, watcher >>

(* The page takes a frame. *)
Shown(p, frame) ==
  CASE frame.event = "gate"          -> [p EXCEPT !.modal = frame.gate]
    [] frame.event = "gate-resolved" -> [p EXCEPT !.modal = 0]
    [] OTHER                         -> [p EXCEPT !.modal = 0, !.stream = "over"]

Deliver(v) ==
  /\ page[v].stream # "closed" /\ page[v].queue # << >>
  /\ page' = [page EXCEPT ![v] = Shown([page[v] EXCEPT !.queue = Tail(@)], Head(page[v].queue))]
  /\ UNCHANGED << vars, watcher >>

Open(v) == page[v].stream \in {"read", "probe"}

(* A gate parked or answered is pushed to the streams of its session. *)
Frames(d) ==
  IF d = Nobody \/ gate'[d].parked = gate[d].parked THEN << >>
  ELSE << IF gate'[d].parked # 0 THEN Gate(gate'[d].parked) ELSE Resolved >>

(* The server takes its streams with it. *)
Pushed(v) ==
  IF life' # life THEN [page[v] EXCEPT !.stream = "closed", !.queue = << >>]
  ELSE [page[v] EXCEPT !.queue = @ \o (IF Open(v) THEN Frames(page[v].session) ELSE << >>)]

-----------------------------------------------------------------------------
(* `runs watch': it renders what is new, and looks at the lock only behind *)
(* a poll that found nothing.                                              *)

NotWatching == [at |-> "off", rendered |-> 0]

Watch ==
  /\ world \in DOMAIN Watched /\ watcher.at = "off" /\ Entries > 0
  /\ watcher' = [watcher EXCEPT !.at = "read"]
  /\ UNCHANGED << vars, page >>

WatchPoll ==
  /\ watcher.at = "read"
  /\ watcher' = [rendered |-> Entries,
                 at |-> IF Final THEN "finished"
                        ELSE IF Entries = watcher.rendered THEN "probe" ELSE "read"]
  /\ UNCHANGED << vars, page >>

WatchProbe ==
  /\ watcher.at = "probe"
  /\ watcher' = [watcher EXCEPT !.at = IF RunLockActive THEN "read" ELSE "incomplete"]
  /\ UNCHANGED << vars, page >>

-----------------------------------------------------------------------------
FollowInit ==
  /\ Init
  /\ page = [v \in Pages |-> Closed]
  /\ watcher = NotWatching

Launching ==
  /\ Next
  /\ page' = [v \in Pages |-> Pushed(v)]
  /\ UNCHANGED watcher

Streaming(v) == Poll(v) \/ Probed(v) \/ Deliver(v)

FollowNext ==
  \/ Launching
  \/ \E v \in Pages : Connect(v) \/ Disconnect(v) \/ Streaming(v)
  \/ Watch \/ WatchPoll \/ WatchProbe

(* Polls and frames are the timers and the sockets of a live process. *)
FollowSpec ==
  /\ FollowInit /\ [][FollowNext]_followVars
  /\ \A d \in Drivers : WF_vars(RunNext(d))
  /\ \A v \in Pages : WF_followVars(Poll(v)) /\ WF_followVars(Probed(v))
                       /\ WF_followVars(Deliver(v))
  /\ WF_followVars(WatchPoll) /\ WF_followVars(WatchProbe)

-----------------------------------------------------------------------------
(* Properties. *)

(***************************************************************************)
(* Who follows a run to its end is told so: a stream behind the last entry *)
(* ends, and a watch ends unless a live process holds the lock.            *)
(***************************************************************************)
FollowersEnd ==
  /\ \A v \in Pages : (Open(v) /\ Ended) ~> page[v].stream \in {"over", "closed"}
  /\ (watcher.at = "read") ~> (watcher.at \in {"finished", "incomplete"} \/ RunLockActive)

(* Whoever waits for a run to end, after stopping it or following it, is let go. *)
WaitsEnd ==
  /\ StopEnds
  /\ FollowersEnd

(***************************************************************************)
(* Nobody waits unseen: a page whose stream takes the gates of a run, and  *)
(* that has taken every frame, shows the gate that is parked, whenever it  *)
(* came and however often its connection broke.                            *)
(***************************************************************************)
ParkedGateIsShown ==
  \A v \in Pages :
    LET d == page[v].session
    IN  Open(v) /\ page[v].queue = << >> /\ d # Nobody =>
          gate[d].parked \in {0, page[v].modal}

(***************************************************************************)
(* A gate and its human find each other: what is parked is shown, and what *)
(* is decided is the answer to the gate the human was shown, given once.   *)
(***************************************************************************)
GatesMeetTheirHuman ==
  /\ DecisionsAnswerTheirGate
  /\ ParkedGateIsShown
=============================================================================
