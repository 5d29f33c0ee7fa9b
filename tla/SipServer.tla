------------------------------ MODULE SipServer ------------------------------
(***************************************************************************)
(* A SipServer around the calls of CallHandler, from its creation on: the  *)
(* loop that takes requests from the endpoint, the state loop, the drain   *)
(* monitor and the cancel token. run() selects over the endpoint and the   *)
(* two loops and returns when the first of them ends; tasks that were      *)
(* spawned go on.                                                          *)
(*                                                                         *)
(* The calls in Calls are followed in every detail; of other calls, which  *)
(* come and go without end, the model keeps what a drain sees of them.     *)
(*                                                                         *)
(* A definition introduced as a "Variant" is deliberately wrong and is not *)
(* part of the specification: it shows which property notices the slip.    *)
(***************************************************************************)
EXTENDS Integers, Sequences, FiniteSets

CONSTANTS Calls, Pairs, NoPair  \* of CallHandler

CONSTANT Others  \* bound: other calls that have a dialog at the same time

ASSUME CallsAssumption == IsFiniteSet(Calls)
ASSUME NoPairAssumption == NoPair \notin Pairs

VARIABLES  \* of CallHandler
  dialog, layer, events, cancelled, mediaCancelled, pc, rtp, rtcp, recv, send,
  app, active, accepted, rejected, terminated

VARIABLES
  initialized, \* INIT, the Once of the process that ensure_initialized runs
  run,       \* the server: none, new, serving in run(), or returned from it
  others,    \* other calls whose dialog the dialog layer knows
  requests,  \* process_incoming_requests: receiving, replying, or ended
  draining,  \* the drain token is cancelled
  respond,   \* respond_to_options
  monitor,   \* the drain monitor: waiting, polling, or it saw no dialog
  shutdown,  \* the server's cancel token is cancelled
  late       \* calls that came since the monitor saw no dialog; history, read
             \*  by the properties only

Call == INSTANCE CallHandler

calls  == <<dialog, layer, events, cancelled, mediaCancelled, pc, rtp, rtcp, recv,
            send, app, active, accepted, rejected, terminated>>
loops  == <<requests, respond>>
tokens == <<draining, shutdown>>
drain  == <<monitor, late>>
server == <<initialized, run, others, loops, tokens, drain>>
vars   == <<calls, server>>

Replies == {"ok", "refusal"}

Init ==
  /\ Call!Init
  /\ initialized = FALSE
  /\ run = "none"
  /\ others = {}
  /\ requests = "receive"
  /\ draining = FALSE
  /\ respond = TRUE
  /\ monitor = "waiting"
  /\ shutdown = FALSE
  /\ late = {}

----------------------------------------------------------------------------
(* The servers of the process *)

(* Variant: without the Once, every server sets the metrics to zero.       *)
EnsureInitializedAgain ==
  /\ initialized' = TRUE
  /\ active' = 0
  /\ UNCHANGED <<dialog, layer, events, cancelled, mediaCancelled, pc, rtp, rtcp, recv,
                 send, app, accepted, rejected, terminated>>

(* ensure_initialized: once in the process the gauge of active calls is    *)
(* set to zero. Absolute values never lower a counter.                     *)
EnsureInitialized ==
  IF initialized
  THEN UNCHANGED <<initialized, calls>>
  ELSE /\ initialized' = TRUE
       /\ active' = 0
       /\ UNCHANGED <<dialog, layer, events, cancelled, mediaCancelled, pc, rtp, rtcp,
                      recv, send, app, accepted, rejected, terminated>>

(* SipServer::new, for this server or for another of the process. It may   *)
(* fail after ensure_initialized: no address, no socket, no port range.    *)
NewServer ==
  /\ EnsureInitialized
  /\ run' = run \/ (run = "none" /\ run' = "new")
  /\ UNCHANGED <<others, loops, tokens, drain>>

(* The application calls run(), which spawns the drain monitor.            *)
Run ==
  /\ run = "new"
  /\ run' = "serving"
  /\ UNCHANGED <<calls, initialized, others, loops, tokens, drain>>

Serving == run = "serving"

(* The endpoint ends with the cancel token, the request loop by an error.  *)
Return ==
  /\ Serving
  /\ shutdown \/ requests = "ended"
  /\ run' = "returned"
  /\ UNCHANGED <<calls, initialized, others, loops, tokens, drain>>

----------------------------------------------------------------------------
(* The request loop *)

Receiving == Serving /\ requests = "receive"

(* An INVITE that opens a dialog, in drain mode as well ...                *)
ReceiveInvite(c) ==
  /\ Receiving
  /\ Call!Invite(c)
  /\ late' = IF monitor = "empty" THEN late \cup {c} ELSE late
  /\ UNCHANGED <<initialized, run, others, loops, tokens, monitor>>

(* ... of one of the other calls: an ended one makes room for the next.    *)
ReceiveOther(d) ==
  /\ Receiving
  /\ d \notin others
  /\ others' = others \cup {d}
  /\ UNCHANGED <<calls, initialized, run, loops, tokens, drain>>

(* An INVITE whose dialog cannot be created (500), a request of a dialog   *)
(* that is gone (481), and any other method (405).                         *)
ReceiveRefused ==
  /\ Receiving
  /\ requests' = "refusal"
  /\ UNCHANGED <<calls, initialized, run, others, respond, tokens, drain>>

(* A request of a dialog: the dialog handles it in a task of its own.      *)
ReceiveHangUp(c) ==
  /\ Receiving
  /\ Call!PeerHangsUp(c)
  /\ UNCHANGED server

(* OPTIONS; in drain mode nothing is answered.                             *)
ReceiveOptions ==
  /\ Receiving
  /\ respond
  /\ requests' = "ok"
  /\ UNCHANGED <<calls, initialized, run, others, respond, tokens, drain>>

(* The loop waits for its reply to be sent, and ends when that fails.      *)
Reply(result) ==
  /\ Serving
  /\ requests \in Replies
  /\ requests' = result
  /\ UNCHANGED <<calls, initialized, run, others, respond, tokens, drain>>

ReplySent  == Reply("receive")
ReplyFails == Reply("ended")

----------------------------------------------------------------------------
(* The state loop is polled by run() only.                                 *)
StateLoop == Serving /\ Call!StateLoop /\ UNCHANGED server

(* It removes the dialog of another call that has ended.                   *)
OtherEnds(d) ==
  /\ Serving
  /\ d \in others
  /\ others' = others \ {d}
  /\ UNCHANGED <<calls, initialized, run, loops, tokens, drain>>

----------------------------------------------------------------------------
(* The drain monitor *)

(* DrainToken::start_drain, by the application.                            *)
StartDrain ==
  /\ run # "none" /\ ~ draining
  /\ draining' = TRUE
  /\ UNCHANGED <<calls, initialized, run, others, loops, shutdown, drain>>

Spawned == run \in {"serving", "returned"}

(* Variant: OPTIONS is answered until the drain is over.                   *)
MonitorStartsOnly ==
  /\ Spawned /\ draining /\ monitor = "waiting"
  /\ monitor' = "polling"
  /\ UNCHANGED <<calls, initialized, run, others, loops, tokens, late>>

MonitorStarts ==
  /\ Spawned /\ draining /\ monitor = "waiting"
  /\ respond' = FALSE
  /\ monitor' = "polling"
  /\ UNCHANGED <<calls, initialized, run, others, requests, tokens, late>>

(* Variant: asks the gauge of active calls, which knows no call in setup.  *)
NoActiveCall == active = 0

NoDialogLeft == layer = {} /\ others = {}

(* Variant: asks once, when the drain starts.                              *)
MonitorPollsOnce ==
  /\ monitor = "polling"
  /\ monitor' = IF NoDialogLeft THEN "empty" ELSE "stopped"
  /\ late' = {}
  /\ UNCHANGED <<calls, initialized, run, others, loops, tokens>>

(* Every five seconds it asks the dialog layer whether it is empty ...     *)
MonitorPolls ==
  /\ monitor = "polling"
  /\ NoDialogLeft
  /\ monitor' = "empty"
  /\ late' = {}
  /\ UNCHANGED <<calls, initialized, run, others, loops, tokens>>

(* ... and then cancels the server. The loop has no end.                   *)
MonitorCancels ==
  /\ monitor = "empty"
  /\ shutdown' = TRUE
  /\ monitor' = "polling"
  /\ UNCHANGED <<calls, initialized, run, others, loops, draining, late>>

(* The application cancels the server's token itself.                      *)
Cancel ==
  /\ run # "none" /\ ~ shutdown
  /\ shutdown' = TRUE
  /\ UNCHANGED <<calls, initialized, run, others, loops, draining, drain>>

----------------------------------------------------------------------------
(* The specification *)

RequestLoop == ReceiveRefused \/ ReceiveOptions \/ ReplySent \/ ReplyFails

Monitor == MonitorStarts \/ MonitorPolls \/ MonitorCancels

(* What the spawned tasks of the calls do, their transactions with the     *)
(* peers included.                                                         *)
CallStep(c) ==
  (Call!PeerAck(c) \/ Call!PeerGivesUp(c) \/ Call!CallStep(c)) /\ UNCHANGED server

Next ==
  \/ NewServer \/ Run \/ Return
  \/ RequestLoop \/ StateLoop \/ StartDrain \/ Monitor \/ Cancel
  \/ \E d \in Others : ReceiveOther(d) \/ OtherEnds(d)
  \/ \E c \in Calls : ReceiveInvite(c) \/ ReceiveHangUp(c) \/ CallStep(c)

(* Polled tasks go on; whether a reply can be sent is not up to the server *)
(* but it is decided. Nothing is assumed of the peers or the application.  *)
Fairness ==
  /\ Call!TaskFairness
  /\ WF_vars(StateLoop)
  /\ WF_vars(ReplySent \/ ReplyFails)
  /\ WF_vars(Return)
  /\ WF_vars(Monitor)

Spec == Init /\ [][Next]_vars /\ Fairness

----------------------------------------------------------------------------
(* Properties *)

(* Every variable keeps its type.                                          *)
TypeOK ==
  /\ Call!TypeOK
  /\ initialized \in BOOLEAN /\ draining \in BOOLEAN
  /\ respond \in BOOLEAN /\ shutdown \in BOOLEAN
  /\ run \in {"none", "new", "serving", "returned"}
  /\ others \subseteq Others
  /\ requests \in {"receive", "ended"} \cup Replies
  /\ monitor \in {"waiting", "polling", "empty"}
  /\ late \subseteq Calls

(* The gauge of active calls belongs to the process, and so does the Once  *)
(* that sets it to zero: no server that is created in between, or whose    *)
(* creation fails, makes it forget a call that is up, not even one that is *)
(* left to itself by a server that has returned.                           *)
GaugeCountsCalls == active = Cardinality({c \in Calls : pc[c] \in Call!Up})

(* A drain is graceful: when the monitor is about to cancel the server,    *)
(* every call that was there when it looked has been answered and ended,   *)
(* or refused, and is counted if it was accepted; only a call that came in *)
(* since is cut off.                                                       *)
DrainCutsOnlyLateCalls ==
  monitor = "empty" =>
    /\ \A c \in Calls \ late : dialog[c] \in {"none", "terminated"}
    /\ terminated >= Cardinality({c \in Call!Admitted \ late : dialog[c] = "terminated"})

(* A drain ends run(), unless a dialog stays in the layer for good: once   *)
(* no INVITE opens a dialog any more. Until then calls that overlap may    *)
(* keep the layer from being empty whenever the monitor looks.             *)
DrainCompletes ==
  <>[][layer' \subseteq layer /\ others' \subseteq others]_vars =>
    (draining /\ Serving ~>
       \/ run = "returned"
       \/ \E c \in Calls : [](c \in layer)
       \/ \E d \in Others : [](d \in others))

(* From some moment after start_drain no OPTIONS request is answered.      *)
DrainSilencesOptions == draining ~> [](~ Serving \/ requests # "ok")

(* run(): "This will block until the server is shut down (via Ctrl+C or    *)
(* cancellation token)".                                                   *)
RunsUntilShutdown == run = "returned" => shutdown
============================================================================
