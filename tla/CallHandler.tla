---------------------------- MODULE CallHandler ----------------------------
(***************************************************************************)
(* The life of incoming calls: the SIP dialog of each call, the state loop *)
(* that reacts to dialog states (process_dialog_states), the task that     *)
(* handles one call (CallHandler::handle_call), the two RTP tasks of its   *)
(* media session (MediaSession::start) and the audio handler task.         *)
(*                                                                         *)
(* The dialogs, their layer and their state channel belong to the external *)
(* rsipstack crate and are modelled by how this crate uses them.           *)
(*                                                                         *)
(* A definition introduced as a "Variant" is deliberately wrong and is not *)
(* part of the specification: put in the place of the definition after it, *)
(* it shows which property notices the slip.                               *)
(***************************************************************************)
EXTENDS Integers, Sequences, FiniteSets

CONSTANTS
  Calls,    \* the INVITEs the server may receive, one dialog each
  Pairs,    \* the RTP/RTCP port pairs of the configured range
  NoPair    \* "no socket bound"

ASSUME CallsAssumption == IsFiniteSet(Calls)
ASSUME NoPairAssumption == NoPair \notin Pairs

VARIABLES
  dialog,         \* [Calls -> state of the call's SIP dialog]
  layer,          \* calls whose dialog the dialog layer knows
  events,         \* the dialog state channel: unbounded, first in first out
  cancelled,      \* calls whose dialog's cancel token is cancelled
  mediaCancelled, \* calls whose media session's child token is cancelled
  pc,             \* [Calls -> where the call's handle_call task is]
  rtp,            \* [Calls -> pair whose RTP port the call has bound]
  rtcp,           \* [Calls -> pair whose RTCP port the call has bound]
  recv,           \* [Calls -> state of rtp_receive_task]
  send,           \* [Calls -> state of rtp_send_task]
  app,            \* [Calls -> state of the audio handler's task]
  active,         \* gauge   rsipstack_server.calls.active
  accepted,       \* counter rsipstack_server.calls.accepted_total
  rejected,       \* counter rsipstack_server.calls.rejected_total
  terminated      \* counter rsipstack_server.calls.terminated_total

sip   == <<dialog, layer, events, cancelled>>
ports == <<rtp, rtcp>>
media == <<mediaCancelled, recv, send>>
stats == <<active, accepted, rejected, terminated>>
vars  == <<sip, ports, media, stats, pc, app>>

----------------------------------------------------------------------------
(* The states of each part *)

DialogStates == {"none", "created", "calling", "early",
                 "waitack", "confirmed", "terminated"}
Answered     == {"waitack", "confirmed"}

Setup    == {"parse", "allocate", "connect", "codec", "ring", "accept", "start"}
Up       == {"spawn", "wait", "bye"}
Returned == {"rejected", "unreplied", "uncounted", "unaccepted", "ended"}
Places   == {"idle"} \cup Setup \cup Up \cup Returned

TaskStates == {"off", "running", "stopped"}
AppStates  == TaskStates \cup {"aborting"}

MaybePair  == Pairs \cup {NoPair}
StateEvent == [kind : {"Calling", "Terminated"}, call : Calls]

(* Variant: only the RTCP port, which is closed when the media starts.     *)
FreeByRtcp(p) == \A c \in Calls : rtcp[c] # p

(* bind(2) fails on a port some socket still has: the pair is free when no *)
(* call has bound either of its ports.                                     *)
Free(p) == \A c \in Calls : rtp[c] # p /\ rtcp[c] # p

(* The media session listens to a child of the dialog's token: cancelling  *)
(* the parent cancels the child, never the other way round.                *)
MediaOver(c) == c \in cancelled \cup mediaCancelled

Init ==
  /\ dialog = [c \in Calls |-> "none"]
  /\ layer = {}
  /\ events = <<>>
  /\ cancelled = {}
  /\ mediaCancelled = {}
  /\ pc = [c \in Calls |-> "idle"]
  /\ rtp = [c \in Calls |-> NoPair]
  /\ rtcp = [c \in Calls |-> NoPair]
  /\ recv = [c \in Calls |-> "off"]
  /\ send = [c \in Calls |-> "off"]
  /\ app = [c \in Calls |-> "off"]
  /\ active = 0 /\ accepted = 0 /\ rejected = 0 /\ terminated = 0

----------------------------------------------------------------------------
(* The SIP side: the dialog layer and the peer *)

Goto(c, place) == pc' = [pc EXCEPT ![c] = place]

SetDialog(c, state) == dialog' = [dialog EXCEPT ![c] = state]

(* Variant: the newest state is taken first.                               *)
NotifyFirst(kind, c) == events' = <<[kind |-> kind, call |-> c]>> \o events

Notify(kind, c) == events' = Append(events, [kind |-> kind, call |-> c])

(* A dialog terminates once: a later reject, bye or peer message finds it  *)
(* terminated and changes nothing.                                         *)
EndDialog(c) ==
  IF dialog[c] = "terminated"
  THEN UNCHANGED <<dialog, events>>
  ELSE SetDialog(c, "terminated") /\ Notify("Terminated", c)

(* A new INVITE creates the dialog and spawns its transaction handler ...  *)
Invite(c) ==
  /\ dialog[c] = "none"
  /\ SetDialog(c, "created")
  /\ layer' = layer \cup {c}
  /\ UNCHANGED <<events, cancelled, ports, media, stats, pc, app>>

(* ... which announces the call to the state loop.                         *)
DialogCalling(c) ==
  /\ dialog[c] = "created"
  /\ SetDialog(c, "calling")
  /\ Notify("Calling", c)
  /\ UNCHANGED <<layer, cancelled, ports, media, stats, pc, app>>

(* The peer acknowledges the answer.                                       *)
PeerAck(c) ==
  /\ dialog[c] = "waitack"
  /\ SetDialog(c, "confirmed")
  /\ UNCHANGED <<layer, events, cancelled, ports, media, stats, pc, app>>

(* The peer cancels an unanswered call or never acknowledges the answer:   *)
(* the INVITE's own transaction handler sees that.                         *)
PeerGivesUp(c) ==
  /\ dialog[c] \in {"calling", "early", "waitack"}
  /\ EndDialog(c)
  /\ UNCHANGED <<layer, cancelled, ports, media, stats, pc, app>>

(* The peer hangs up: a request of the dialog, if the layer still has it.  *)
PeerHangsUp(c) ==
  /\ c \in layer
  /\ dialog[c] \in {"early"} \cup Answered
  /\ EndDialog(c)
  /\ UNCHANGED <<layer, cancelled, ports, media, stats, pc, app>>

----------------------------------------------------------------------------
(* The state loop takes the dialog states one at a time, oldest first *)

TakeEvent(kind, c) ==
  /\ events # <<>>
  /\ Head(events) = [kind |-> kind, call |-> c]
  /\ events' = Tail(events)

(* A new call gets a handler task, if its dialog is still in the layer.    *)
OnCalling(c) ==
  /\ TakeEvent("Calling", c)
  /\ IF c \in layer THEN Goto(c, "parse") ELSE UNCHANGED pc
  /\ UNCHANGED <<dialog, layer, cancelled, ports, media, stats, app>>

(* Variant: the token of the removed dialog is not cancelled.              *)
RemoveOnly(c) == layer' = layer \ {c} /\ UNCHANGED cancelled

(* Removing a dialog from the layer cancels its token.                     *)
Remove(c) ==
  /\ layer' = layer \ {c}
  /\ cancelled' = IF c \in layer THEN cancelled \cup {c} ELSE cancelled

OnTerminated(c) ==
  /\ TakeEvent("Terminated", c)
  /\ terminated' = terminated + 1
  /\ Remove(c)
  /\ UNCHANGED <<dialog, ports, media, active, accepted, rejected, pc, app>>

----------------------------------------------------------------------------
(* The call's handler task, handle_call, one await or reply per step *)

BindPair(c, p) ==
  /\ rtp' = [rtp EXCEPT ![c] = p]
  /\ rtcp' = [rtcp EXCEPT ![c] = p]

(* Returning from the setup drops the sockets bound so far.                *)
DropPair(c) == BindPair(c, NoPair)

Parse(c) ==
  /\ pc[c] = "parse"
  /\ Goto(c, "allocate")
  /\ UNCHANGED <<sip, ports, media, stats, app>>

(* Variant: counted first, like the other rejections.                      *)
RefuseOfferCounted(c) ==
  /\ pc[c] = "parse"
  /\ rejected' = rejected + 1
  /\ \/ EndDialog(c) /\ Goto(c, "rejected")
     \/ Goto(c, "uncounted") /\ UNCHANGED <<dialog, events>>
  /\ UNCHANGED <<layer, cancelled, ports, media, active, accepted, terminated, app>>

(* Variant: returns without a reply.                                       *)
RefuseOfferSilently(c) ==
  /\ pc[c] = "parse"
  /\ rejected' = rejected + 1
  /\ Goto(c, "rejected")
  /\ UNCHANGED <<sip, ports, media, active, accepted, terminated, app>>

(* An unusable offer is answered with 488. The rejection is counted after  *)
(* the reply, so it is not when the reply fails.                           *)
RefuseOffer(c) ==
  /\ pc[c] = "parse"
  /\ \/ /\ EndDialog(c)
        /\ rejected' = rejected + 1
        /\ Goto(c, "rejected")
     \/ /\ Goto(c, "uncounted")
        /\ UNCHANGED <<dialog, events, rejected>>
  /\ UNCHANGED <<layer, cancelled, ports, media, active, accepted, terminated, app>>

Allocate(c) ==
  /\ pc[c] = "allocate"
  /\ \E p \in Pairs : Free(p) /\ BindPair(c, p)
  /\ Goto(c, "connect")
  /\ UNCHANGED <<sip, media, stats, app>>

Connect(c) ==
  /\ pc[c] = "connect"
  /\ Goto(c, "codec")
  /\ UNCHANGED <<sip, ports, media, stats, app>>

CreateSession(c) ==
  /\ pc[c] = "codec"
  /\ Goto(c, "ring")
  /\ UNCHANGED <<sip, ports, media, stats, app>>

(* No port pair (503), no connection to the peer or no codec (500): the    *)
(* rejection is counted, then replied; the reply may fail.                 *)
Refuse(c) ==
  /\ pc[c] \in {"allocate", "connect", "codec"}
  /\ rejected' = rejected + 1
  /\ DropPair(c)
  /\ \/ EndDialog(c) /\ Goto(c, "rejected")
     \/ Goto(c, "unreplied") /\ UNCHANGED <<dialog, events>>
  /\ UNCHANGED <<layer, cancelled, media, active, accepted, terminated, app>>

(* 180 Ringing; a failure is only logged.                                  *)
Ring(c) ==
  /\ pc[c] = "ring"
  /\ Goto(c, "accept")
  /\ \/ dialog[c] = "calling" /\ SetDialog(c, "early")
     \/ UNCHANGED dialog
  /\ UNCHANGED <<layer, events, cancelled, ports, media, stats, app>>

(* 200 OK with the answer. On a dialog the peer has just cancelled the     *)
(* reply has no effect, whether or not it reports an error.                *)
Accept(c) ==
  /\ pc[c] = "accept"
  /\ IF dialog[c] = "terminated" THEN UNCHANGED dialog
                                 ELSE SetDialog(c, "waitack")
  /\ Goto(c, "start")
  /\ UNCHANGED <<layer, events, cancelled, ports, media, stats, app>>

(* Variant: the gauge's guard is dropped here too.                         *)
AcceptFailsReleases(c) ==
  /\ pc[c] = "accept"
  /\ active' = active - 1
  /\ DropPair(c)
  /\ Goto(c, "unaccepted")
  /\ UNCHANGED <<sip, media, accepted, rejected, terminated, app>>

AcceptFails(c) ==
  /\ pc[c] = "accept"
  /\ DropPair(c)
  /\ Goto(c, "unaccepted")
  /\ UNCHANGED <<sip, media, stats, app>>

(* The gauge and the counter, then the media session: it keeps the RTP     *)
(* socket, shared by its two tasks, and drops the RTCP socket.             *)
StartMedia(c) ==
  /\ pc[c] = "start"
  /\ active' = active + 1
  /\ accepted' = accepted + 1
  /\ rtcp' = [rtcp EXCEPT ![c] = NoPair]
  /\ recv' = [recv EXCEPT ![c] = "running"]
  /\ send' = [send EXCEPT ![c] = "running"]
  /\ Goto(c, "spawn")
  /\ UNCHANGED <<sip, mediaCancelled, rtp, rejected, terminated, app>>

SpawnApp(c) ==
  /\ pc[c] = "spawn"
  /\ app' = [app EXCEPT ![c] = "running"]
  /\ Goto(c, "wait")
  /\ UNCHANGED <<sip, ports, media, stats>>

(* Variant: waits for the token of the media session.                      *)
CallEndedWithMedia(c) == MediaOver(c)

(* The handler waits for the dialog's token, not for the media session's.  *)
CallEnded(c) == c \in cancelled

EndWait(c) ==
  /\ pc[c] = "wait"
  /\ CallEnded(c)
  /\ app' = [app EXCEPT ![c] = IF @ = "running" THEN "aborting" ELSE @]
  /\ Goto(c, "bye")
  /\ UNCHANGED <<sip, ports, media, stats>>

(* Variant: counts the end itself, which the state loop counts as well.    *)
ByeCounts(c) ==
  /\ pc[c] = "bye"
  /\ EndDialog(c) \/ UNCHANGED <<dialog, events>>
  /\ active' = active - 1
  /\ terminated' = terminated + 1
  /\ Goto(c, "ended")
  /\ UNCHANGED <<layer, cancelled, ports, media, accepted, rejected, app>>

(* BYE, whose failure is only logged; returning drops the gauge's guard.   *)
Bye(c) ==
  /\ pc[c] = "bye"
  /\ EndDialog(c) \/ UNCHANGED <<dialog, events>>
  /\ active' = active - 1
  /\ Goto(c, "ended")
  /\ UNCHANGED <<layer, cancelled, ports, media, accepted, rejected, terminated, app>>

----------------------------------------------------------------------------
(* The RTP tasks share the socket: the last one to end closes it *)

(* Variant: the socket goes with the first task.                           *)
AnyTask(c, other) == TRUE

LastTask(c, other) == other[c] # "running"

RecvEnds(c) ==
  /\ recv' = [recv EXCEPT ![c] = "stopped"]
  /\ rtp' = [rtp EXCEPT ![c] = IF LastTask(c, send) THEN NoPair ELSE @]
  /\ UNCHANGED <<sip, mediaCancelled, rtcp, send, stats, pc, app>>

SendEnds(c) ==
  /\ send' = [send EXCEPT ![c] = "stopped"]
  /\ rtp' = [rtp EXCEPT ![c] = IF LastTask(c, recv) THEN NoPair ELSE @]
  /\ UNCHANGED <<sip, mediaCancelled, rtcp, recv, stats, pc, app>>

RecvCancelled(c) == recv[c] = "running" /\ MediaOver(c) /\ RecvEnds(c)

(* No valid packet for media_receive_timeout: the child token is cancelled *)
RecvDeadline(c) ==
  /\ recv[c] = "running" /\ ~ MediaOver(c)
  /\ mediaCancelled' = mediaCancelled \cup {c}
  /\ UNCHANGED <<sip, ports, recv, send, stats, pc, app>>

(* The socket fails, or a packet finds the audio channel closed.           *)
RecvBreaks(c) == recv[c] = "running" /\ ~ MediaOver(c) /\ RecvEnds(c)

SendCancelled(c) == send[c] = "running" /\ MediaOver(c) /\ SendEnds(c)

(* The ended audio handler has dropped its sender.                         *)
SendChannelClosed(c) == send[c] = "running" /\ app[c] = "stopped" /\ SendEnds(c)

(* The socket fails, or the audio handler drops its sender while it runs.  *)
SendBreaks(c) ==
  /\ send[c] = "running"
  /\ SendEnds(c)

----------------------------------------------------------------------------
(* The audio handler: application code *)

AppStops(c) ==
  /\ app' = [app EXCEPT ![c] = "stopped"]
  /\ UNCHANGED <<sip, ports, media, stats, pc>>

AppReturns(c) == app[c] = "running" /\ AppStops(c)

(* An aborted task is dropped by the runtime at its next await.            *)
AppAborted(c) == app[c] = "aborting" /\ AppStops(c)

(* The handler is given a clone of the dialog's token and may cancel it.   *)
AppHangsUp(c) ==
  /\ app[c] = "running"
  /\ c \notin cancelled
  /\ cancelled' = cancelled \cup {c}
  /\ UNCHANGED <<dialog, layer, events, ports, media, stats, pc, app>>

----------------------------------------------------------------------------
(* The specification *)

PeerEnds(c) == PeerGivesUp(c) \/ PeerHangsUp(c)
Peer(c)     == Invite(c) \/ PeerAck(c) \/ PeerEnds(c)

StateLoop == \E c \in Calls : OnCalling(c) \/ OnTerminated(c)

SetupStep(c) ==
  \/ Parse(c) \/ RefuseOffer(c) \/ Allocate(c) \/ Connect(c) \/ CreateSession(c)
  \/ Refuse(c) \/ Ring(c) \/ Accept(c) \/ AcceptFails(c) \/ StartMedia(c)

HandleCall(c) == SetupStep(c) \/ SpawnApp(c) \/ EndWait(c) \/ Bye(c)

RecvTask(c) == RecvCancelled(c) \/ RecvDeadline(c) \/ RecvBreaks(c)
SendTask(c) == SendCancelled(c) \/ SendChannelClosed(c) \/ SendBreaks(c)
App(c)      == AppReturns(c) \/ AppAborted(c) \/ AppHangsUp(c)

CallStep(c) == DialogCalling(c) \/ HandleCall(c) \/ RecvTask(c) \/ SendTask(c) \/ App(c)

Next == StateLoop \/ \E c \in Calls : Peer(c) \/ CallStep(c)

(* The runtime polls every task that can go on. Nothing is assumed of the  *)
(* peers, the sockets, the audio handler or the deadline.                  *)
TaskFairness ==
  \A c \in Calls : /\ WF_vars(DialogCalling(c))
                   /\ WF_vars(HandleCall(c))
                   /\ WF_vars(RecvCancelled(c))
                   /\ WF_vars(SendCancelled(c) \/ SendChannelClosed(c))
                   /\ WF_vars(AppAborted(c))

Fairness == WF_vars(StateLoop) /\ TaskFairness

Spec == Init /\ [][Next]_vars /\ Fairness

----------------------------------------------------------------------------
(* Properties *)

(* Every variable keeps its type.                                          *)
TypeOK ==
  /\ dialog \in [Calls -> DialogStates]
  /\ layer \subseteq Calls
  /\ events \in Seq(StateEvent)
  /\ cancelled \subseteq Calls
  /\ mediaCancelled \subseteq Calls
  /\ pc \in [Calls -> Places]
  /\ rtp \in [Calls -> MaybePair]
  /\ rtcp \in [Calls -> MaybePair]
  /\ recv \in [Calls -> TaskStates]
  /\ send \in [Calls -> TaskStates]
  /\ app \in [Calls -> AppStates]
  /\ active \in Nat /\ accepted \in Nat /\ rejected \in Nat /\ terminated \in Nat

(* Where handle_call holds the socket pair itself.                         *)
Holding == {"connect", "codec", "ring", "accept", "start"}

(* Sockets are neither leaked nor closed early: on every path through      *)
(* handle_call a call has its RTP port bound exactly while the handler     *)
(* holds the pair or one of the media tasks runs, and the RTCP port only   *)
(* while the handler holds the pair.                                       *)
SocketsOwned ==
  \A c \in Calls :
    /\ rtp[c] # NoPair <=>
         pc[c] \in Holding \/ recv[c] = "running" \/ send[c] = "running"
    /\ rtcp[c] # NoPair <=> pc[c] \in Holding

(* Two calls never have the same pair, although a call keeps its RTP port  *)
(* long after it has closed the RTCP port of the same pair.                *)
ExclusivePairs ==
  /\ \A c \in Calls : rtcp[c] \in {rtp[c], NoPair}
  /\ \A c, d \in Calls : c # d /\ rtp[c] = rtp[d] => rtp[c] = NoPair

(* process_dialog_states never answers "Dialog not found": the dialog of a *)
(* Calling state is in the layer however late the state is taken, and has  *)
(* no handler yet.                                                         *)
CallingFindsDialog ==
  \A i \in DOMAIN events :
    events[i].kind = "Calling" =>
      /\ events[i].call \in layer
      /\ pc[events[i].call] = "idle"

(* A call that was answered and not ended has a handler that will see its  *)
(* end: no path of handle_call leaves an answered call behind.             *)
AnsweredIsSupervised ==
  \A c \in Calls :
    dialog[c] \in Answered /\ c \notin cancelled =>
      pc[c] \in {"start", "spawn", "wait"}

(* The calls that were answered with 200 OK.                               *)
Admitted == {c \in Calls : pc[c] \in {"start", "ended"} \cup Up}

(* A dialog stays in the layer until its one Terminated state is taken     *)
(* from the channel, whoever ended it (reject, bye, peer) and in whatever  *)
(* order. Then an accepted call is counted, and no end is counted twice or *)
(* before; that the others are counted too is left open, see below.        *)
TerminationsCountedOnce ==
  LET over == {c \in Calls : dialog[c] = "terminated" /\ c \notin layer} IN
  /\ layer = {c \in Calls : dialog[c] # "none" /\
                 (dialog[c] = "terminated" =>
                    \E i \in DOMAIN events : events[i] = [kind |-> "Terminated", call |-> c])}
  /\ Cardinality(over \cap Admitted) <= terminated
  /\ terminated <= Cardinality(over)

(* calls.terminated_total: "Calls terminated after being accepted".        *)
TerminatedWereAccepted == terminated <= Cardinality(Admitted)

(* The metrics tell the calls' story: the gauge counts the calls being     *)
(* served and comes back down for each, and a call is counted at most once *)
(* as accepted or rejected.                                                *)
CallsAccounted ==
  /\ active = Cardinality({c \in Calls : pc[c] \in Up})
  /\ accepted = Cardinality({c \in Calls : pc[c] \in Up \cup {"ended"}})
  /\ rejected = Cardinality({c \in Calls : pc[c] \in {"rejected", "unreplied"}})

(* The port named in the answer stays bound to the call from 200 OK until  *)
(* the media session is cancelled or its receive task has ended.           *)
AnsweredPortKept ==
  [][\A c \in Calls :
       dialog[c] \in Answered /\ ~ MediaOver(c) /\ recv[c] # "stopped"
         => rtp'[c] = rtp[c] \/ recv'[c] = "stopped"]_vars

(* A dialog that has ended, at whatever point of the setup or of the call, *)
(* leaves nothing behind: it leaves the layer, its handler returns, its    *)
(* sockets are closed and the application's task is gone.                  *)
Released(c) ==
  /\ c \notin layer
  /\ pc[c] \in Returned
  /\ rtp[c] = NoPair /\ rtcp[c] = NoPair
  /\ app[c] \in {"off", "stopped"}

TerminatedIsReleased == \A c \in Calls : dialog[c] = "terminated" ~> Released(c)

(* Every INVITE gets its final answer, unless sending that answer fails.   *)
EveryCallDecided ==
  \A c \in Calls :
    dialog[c] = "created" ~>
      \/ dialog[c] \in Answered \cup {"terminated"}
      \/ pc[c] \in {"unreplied", "uncounted", "unaccepted"}

(* ServerConfig::media_receive_timeout: "after which the call will be      *)
(* stopped (using the cancel token)".                                      *)
MediaTimeoutStopsCall == \A c \in Calls : c \in mediaCancelled ~> c \in cancelled

----------------------------------------------------------------------------
(* What a caller may rely on, whatever goes wrong: see CallSpec *)

phase == [c \in Calls |-> CASE pc[c] = "idle" -> "idle"
                           [] pc[c] \in Setup -> "setup"
                           [] pc[c] \in Up -> "up"
                           [] OTHER -> "over"]

Abstract == INSTANCE CallSpec WITH line <- rtp

(* The calls implement the abstract telephone exchange.                    *)
ImplementsCallSpec == Abstract!Spec
============================================================================
