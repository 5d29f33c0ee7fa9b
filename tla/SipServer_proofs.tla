-------------------------- MODULE SipServer_proofs --------------------------
(***************************************************************************)
(* Proofs about SipServer, for any finite set of calls, any pairs, any     *)
(* other calls and any number of servers in the process. The calls of a    *)
(* server are those of CallHandler, so that what CallHandler_proofs shows  *)
(* of every step of a call holds here; only CallHandler's fairness is not  *)
(* needed for it.                                                          *)
(***************************************************************************)
EXTENDS SipServer, FiniteSetTheorems, TLAPS

P == INSTANCE CallHandler_proofs

(* The instances have operators of their own for finite sets; they are     *)
(* equal.                                                                  *)
LEMMA SameCardinality ==
  \A S : P!Cardinality(S) = Cardinality(S) /\ Call!Cardinality(S) = Cardinality(S)
BY DEF P!Cardinality, Cardinality, P!IsFiniteSet, IsFiniteSet, Call!Cardinality, Call!IsFiniteSet

(* What the lemmas of the instance assume of the constants holds here.     *)
LEMMA CallsAssumed == P!IsFiniteSet(Calls) /\ NoPair \notin Pairs
BY CallsAssumption, NoPairAssumption DEF P!IsFiniteSet, IsFiniteSet

----------------------------------------------------------------------------
(* The server's calls are calls of CallHandler *)

(* The calls of a process without a server have not begun.                 *)
LEMMA ServerCallsInit == Init => P!Init
BY DEF Init, Call!Init, P!Init

(* What the request loop does to a call.                                   *)
LEMMA ServerReceives ==
  ASSUME NEW c \in Calls, ReceiveInvite(c) \/ ReceiveHangUp(c)
  PROVE  P!Invite(c) \/ P!PeerHangsUp(c)
BY DEF ReceiveInvite, ReceiveHangUp, Call!Invite, P!Invite,
       Call!PeerHangsUp, P!PeerHangsUp, Call!EndDialog, P!EndDialog,
       Call!SetDialog, P!SetDialog, Call!Notify, P!Notify, Call!Answered, P!Answered,
       Call!ports, P!ports, Call!media, P!media, Call!stats, P!stats

(* What the state loop, polled by run(), does.                             *)
LEMMA ServerStateLoop == StateLoop => P!StateLoop
BY DEF StateLoop, Call!StateLoop, P!StateLoop, Call!OnCalling, P!OnCalling,
       Call!OnTerminated, P!OnTerminated, Call!Remove, P!Remove,
       Call!TakeEvent, P!TakeEvent, Call!Goto, P!Goto,
       Call!ports, P!ports, Call!media, P!media, Call!stats, P!stats

(* What the spawned tasks of a call do.                                    *)
LEMMA ServerCallStep ==
  ASSUME NEW c \in Calls, CallStep(c)
  PROVE  P!PeerAck(c) \/ P!PeerGivesUp(c) \/ P!CallStep(c)
<1> USE DEF Call!Goto, P!Goto, Call!SetDialog, P!SetDialog, Call!Notify, P!Notify,
            Call!EndDialog, P!EndDialog, Call!MediaOver, P!MediaOver,
            Call!sip, P!sip, Call!ports, P!ports, Call!media, P!media,
            Call!stats, P!stats
<1>1. CASE Call!PeerAck(c) \/ Call!PeerGivesUp(c) \/ Call!DialogCalling(c)
  BY <1>1 DEF Call!PeerAck, P!PeerAck, Call!PeerGivesUp, P!PeerGivesUp,
              Call!DialogCalling, P!DialogCalling, P!CallStep
<1>2. CASE Call!SetupStep(c)
  BY <1>2
     DEF Call!SetupStep, P!SetupStep, P!HandleCall, P!CallStep, Call!Parse, P!Parse,
         Call!RefuseOffer, P!RefuseOffer, Call!Allocate, P!Allocate,
         Call!Connect, P!Connect, Call!CreateSession, P!CreateSession,
         Call!Refuse, P!Refuse, Call!Ring, P!Ring, Call!Accept, P!Accept,
         Call!AcceptFails, P!AcceptFails, Call!StartMedia, P!StartMedia,
         Call!BindPair, P!BindPair, Call!DropPair, P!DropPair, Call!Free, P!Free
<1>3. CASE Call!SpawnApp(c) \/ Call!EndWait(c) \/ Call!Bye(c)
  BY <1>3
     DEF P!HandleCall, P!CallStep, Call!SpawnApp, P!SpawnApp, Call!EndWait, P!EndWait,
         Call!CallEnded, P!CallEnded, Call!Bye, P!Bye
<1>4. CASE Call!RecvTask(c) \/ Call!SendTask(c)
  BY <1>4
     DEF P!CallStep, Call!RecvTask, P!RecvTask, Call!SendTask, P!SendTask,
         Call!RecvCancelled, P!RecvCancelled, Call!RecvDeadline, P!RecvDeadline,
         Call!RecvBreaks, P!RecvBreaks, Call!SendCancelled, P!SendCancelled,
         Call!SendChannelClosed, P!SendChannelClosed, Call!SendBreaks, P!SendBreaks,
         Call!RecvEnds, P!RecvEnds, Call!SendEnds, P!SendEnds,
         Call!LastTask, P!LastTask
<1>5. CASE Call!App(c)
  BY <1>5
     DEF P!CallStep, Call!App, P!App, Call!AppReturns, P!AppReturns,
         Call!AppAborted, P!AppAborted, Call!AppHangsUp, P!AppHangsUp,
         Call!AppStops, P!AppStops
<1> QED
  BY <1>1, <1>2, <1>3, <1>4, <1>5 DEF CallStep, Call!CallStep, Call!HandleCall

----------------------------------------------------------------------------
(* Before run() *)

(* ensure_initialized has run when a server is there, and until the server *)
(* runs no call begins.                                                    *)
Quiet ==
  /\ ~ initialized => run = "none"
  /\ run \in {"none", "new"} => P!Init

(* A call that has not begun begins with its INVITE only.                  *)
LEMMA NothingToDo ==
  ASSUME P!Init, NEW c \in Calls
  PROVE  ~ (P!PeerAck(c) \/ P!PeerGivesUp(c) \/ P!CallStep(c))
<1>1. /\ dialog[c] = "none" /\ pc[c] = "idle"
      /\ recv[c] = "off" /\ send[c] = "off" /\ app[c] = "off"
  BY DEF P!Init
<1>2. ~ (P!PeerAck(c) \/ P!PeerGivesUp(c) \/ P!DialogCalling(c))
  BY <1>1 DEF P!PeerAck, P!PeerGivesUp, P!DialogCalling
<1>3. ~ P!HandleCall(c)
  BY <1>1
     DEF P!HandleCall, P!SetupStep, P!Parse, P!RefuseOffer, P!Allocate, P!Connect,
         P!CreateSession, P!Refuse, P!Ring, P!Accept, P!AcceptFails, P!StartMedia,
         P!SpawnApp, P!EndWait, P!Bye
<1>4. ~ (P!RecvTask(c) \/ P!SendTask(c) \/ P!App(c))
  BY <1>1
     DEF P!RecvTask, P!RecvCancelled, P!RecvDeadline, P!RecvBreaks,
         P!SendTask, P!SendCancelled, P!SendChannelClosed, P!SendBreaks,
         P!App, P!AppReturns, P!AppAborted, P!AppHangsUp
<1> QED
  BY <1>2, <1>3, <1>4 DEF P!CallStep

(* Steps of the application, of run() and of its tasks that concern none   *)
(* of the calls.                                                           *)
ServerOnly ==
  \/ Run \/ Return \/ RequestLoop \/ StartDrain \/ Monitor \/ Cancel
  \/ \E d \in Others : ReceiveOther(d) \/ OtherEnds(d)

(* They leave the calls and the Once alone.                                *)
LEMMA ServerOnlyKeepsCalls == ServerOnly => UNCHANGED <<initialized, P!vars>>
BY DEF ServerOnly, Run, Return, RequestLoop, ReceiveRefused, ReceiveOptions,
       ReplySent, ReplyFails, Reply, StartDrain,
       Monitor, MonitorStarts, MonitorPolls, MonitorCancels,
       Cancel, ReceiveOther, OtherEnds, calls,
       P!vars, P!sip, P!ports, P!media, P!stats

(* The one time that the gauge is set to zero it is zero.                  *)
LEMMA NewServerKeepsCalls ==
  ASSUME Quiet, NewServer
  PROVE  /\ UNCHANGED P!vars
         /\ initialized' /\ (run' = run \/ (run = "none" /\ run' = "new"))
<1>1. CASE initialized
  BY <1>1 DEF NewServer, EnsureInitialized, calls,
              P!vars, P!sip, P!ports, P!media, P!stats
<1>2. CASE ~ initialized
  <2>1. active = 0
    BY <1>2 DEF Quiet, P!Init
  <2> QED
    BY <1>2, <2>1 DEF NewServer, EnsureInitialized, P!vars, P!sip, P!ports, P!media, P!stats
<1> QED
  BY <1>1, <1>2

(* Calls that have not begun and are left alone have not begun.            *)
LEMMA SameInit == UNCHANGED P!vars => P!Init' = P!Init
BY DEF P!Init, P!vars, P!sip, P!ports, P!media, P!stats

(* No step lets a call begin before run(), or a server be there before     *)
(* ensure_initialized has run.                                             *)
LEMMA QuietStep == Quiet /\ [Next]_vars => Quiet'
<1> SUFFICES ASSUME Quiet, [Next]_vars
             PROVE  Quiet'
  OBVIOUS
<1>1. CASE NewServer
  BY <1>1, NewServerKeepsCalls, SameInit DEF Quiet
<1>2. CASE ServerOnly
  <2>1. UNCHANGED initialized /\ P!Init' = P!Init
    BY <1>2, ServerOnlyKeepsCalls, SameInit
  <2>2. run' = run \/ (run = "new" /\ run' = "serving")
                   \/ (run = "serving" /\ run' = "returned")
    BY <1>2
       DEF ServerOnly, Run, Return, Serving, RequestLoop, ReceiveRefused, ReceiveOptions,
           ReplySent, ReplyFails, Reply, StartDrain,
           Monitor, MonitorStarts, MonitorPolls, MonitorCancels,
           Cancel, ReceiveOther, OtherEnds
  <2> QED
    BY <2>1, <2>2 DEF Quiet
<1>3. CASE StateLoop \/ \E c \in Calls : ReceiveInvite(c) \/ ReceiveHangUp(c)
  <2>1. run = "serving" /\ UNCHANGED <<initialized, run>>
    BY <1>3 DEF StateLoop, ReceiveInvite, ReceiveHangUp, Receiving, Serving, server
  <2> QED
    BY <2>1 DEF Quiet
<1>4. ASSUME NEW c \in Calls, CallStep(c)
      PROVE  Quiet'
  <2>1. ~ P!Init /\ UNCHANGED <<initialized, run>>
    BY <1>4, ServerCallStep, NothingToDo DEF CallStep, server
  <2> QED
    BY <2>1 DEF Quiet
<1>5. CASE UNCHANGED vars
  <2>1. UNCHANGED <<initialized, run>> /\ UNCHANGED P!vars
    BY <1>5 DEF vars, server, calls, P!vars, P!sip, P!ports, P!media, P!stats
  <2> QED
    BY <2>1, SameInit DEF Quiet
<1> QED
  BY <1>1, <1>2, <1>3, <1>4, <1>5 DEF Next, ServerOnly

LEMMA InitQuiet == Init => Quiet
BY ServerCallsInit DEF Init, Quiet

(* Every step of the server is a step of its calls or leaves them alone.   *)
LEMMA ServerCallsStep == Quiet /\ [Next]_vars => [P!Next]_(P!vars)
<1> SUFFICES ASSUME Quiet, [Next]_vars
             PROVE  [P!Next]_(P!vars)
  OBVIOUS
<1>1. CASE UNCHANGED vars
  BY <1>1 DEF vars, calls, P!vars, P!sip, P!ports, P!media, P!stats
<1>2. CASE ServerOnly
  BY <1>2, ServerOnlyKeepsCalls
<1>3. CASE NewServer
  BY <1>3, NewServerKeepsCalls
<1>4. CASE StateLoop
  BY <1>4, ServerStateLoop DEF P!Next
<1>5. ASSUME NEW c \in Calls, ReceiveInvite(c) \/ ReceiveHangUp(c)
      PROVE  P!Next
  BY <1>5, ServerReceives DEF P!Next, P!Peer, P!PeerEnds
<1>6. ASSUME NEW c \in Calls, CallStep(c)
      PROVE  P!Next
  BY <1>6, ServerCallStep DEF P!Next, P!Peer, P!PeerEnds
<1> QED
  BY <1>1, <1>2, <1>3, <1>4, <1>5, <1>6 DEF Next, ServerOnly

----------------------------------------------------------------------------
(* The invariant *)

(* The types of the server's own variables.                                *)
ServerTyped ==
  /\ initialized \in BOOLEAN /\ draining \in BOOLEAN
  /\ respond \in BOOLEAN /\ shutdown \in BOOLEAN
  /\ run \in {"none", "new", "serving", "returned"}
  /\ others \subseteq Others
  /\ requests \in {"receive", "ended"} \cup Replies
  /\ monitor \in {"waiting", "polling", "empty"}
  /\ late \subseteq Calls

(* Once the monitor has seen no dialog, only a call that has come since    *)
(* has one.                                                                *)
DrainSawNoDialog ==
  monitor = "empty" => \A c \in Calls \ late :
                         dialog[c] \in {"none", "terminated"} /\ c \notin layer

ServerInv ==
  /\ P!Typed /\ P!Channel /\ P!CallsAccounted /\ P!TerminationsCounted
  /\ Quiet /\ ServerTyped /\ DrainSawNoDialog

(* Every step keeps the types of the server's variables.                   *)
LEMMA ServerTypedStep == ServerTyped /\ [Next]_vars => ServerTyped'
<1> SUFFICES ASSUME ServerTyped, [Next]_vars
             PROVE  ServerTyped'
  OBVIOUS
<1> USE DEF ServerTyped, Replies, loops, tokens, drain
<1>1. CASE RequestLoop
  <2>1. /\ requests' \in {"receive", "ended"} \cup Replies
        /\ UNCHANGED <<initialized, run, others, draining, respond, shutdown, monitor, late>>
    BY <1>1
       DEF RequestLoop, ReceiveRefused, ReceiveOptions, ReplySent, ReplyFails, Reply
  <2> QED
    BY <2>1
<1>2. CASE Monitor
  BY <1>2 DEF Monitor, MonitorStarts, MonitorPolls, MonitorCancels
<1>3. CASE Run \/ Return \/ StartDrain \/ Cancel
  BY <1>3 DEF Run, Return, StartDrain, Cancel
<1>4. CASE NewServer
  <2>1. initialized' \in BOOLEAN
    BY <1>4 DEF NewServer, EnsureInitialized
  <2> QED
    BY <1>4, <2>1 DEF NewServer
<1>5. ASSUME NEW c \in Calls, ReceiveInvite(c)
      PROVE  ServerTyped'
  <2>1. late' \in {late, late \cup {c}}
    BY <1>5 DEF ReceiveInvite
  <2> QED
    BY <1>5, <2>1 DEF ReceiveInvite
<1>6. CASE UNCHANGED server
  BY <1>6 DEF server
<1>7. ASSUME NEW d \in Others, ReceiveOther(d) \/ OtherEnds(d)
      PROVE  ServerTyped'
  BY <1>7 DEF ReceiveOther, OtherEnds
<1> QED
  BY <1>1, <1>2, <1>3, <1>4, <1>5, <1>6, <1>7
     DEF Next, vars, StateLoop, ReceiveHangUp, CallStep

(* Of a call only its INVITE begins a dialog and puts it into the layer.   *)
LEMMA OnlyInviteOpens ==
  ASSUME P!Typed, P!Channel, NEW c \in Calls, NEW d \in Calls,
         P!PeerAck(d) \/ P!PeerEnds(d) \/ P!OnCalling(d) \/ P!OnTerminated(d) \/ P!CallStep(d),
         dialog[c] \in {"none", "terminated"}, c \notin layer
  PROVE  dialog'[c] \in {"none", "terminated"} /\ c \notin layer'
<1> DEFINE stays == dialog'[c] \in {"none", "terminated"} /\ c \notin layer'
<1>1. CASE P!DialogCalling(d) \/ P!PeerAck(d)
  BY <1>1 DEF P!DialogCalling, P!PeerAck, P!SetDialog, P!Typed
<1>2. CASE P!PeerEnds(d) \/ P!RefuseOffer(d) \/ P!Refuse(d) \/ P!Bye(d)
  BY <1>2
     DEF P!PeerEnds, P!PeerGivesUp, P!PeerHangsUp, P!RefuseOffer, P!Refuse, P!Bye, P!EndDialog,
         P!SetDialog, P!Typed
<1>3. CASE P!OnCalling(d) \/ P!OnTerminated(d)
  BY <1>3 DEF P!OnCalling, P!OnTerminated, P!Remove
<1>4. CASE P!Ring(d) \/ P!Accept(d)
  <2>1. dialog[d] \notin P!Unannounced
    BY <1>4, CallsAssumed, P!StartedIsAnnounced DEF P!Ring, P!Accept
  <2> QED
    BY <1>4, <2>1 DEF P!Ring, P!Accept, P!SetDialog, P!Unannounced, P!Typed
<1>5. CASE UNCHANGED <<dialog, layer>>
  BY <1>5
<1> QED
  BY <1>1, <1>2, <1>3, <1>4, <1>5
     DEF P!CallStep, P!HandleCall, P!SetupStep, P!sip,
         P!Parse, P!Allocate, P!Connect, P!CreateSession, P!AcceptFails, P!StartMedia,
         P!SpawnApp, P!EndWait,
         P!RecvTask, P!RecvCancelled, P!RecvDeadline, P!RecvBreaks, P!RecvEnds,
         P!SendTask, P!SendCancelled, P!SendChannelClosed, P!SendBreaks, P!SendEnds,
         P!App, P!AppReturns, P!AppAborted, P!AppHangsUp, P!AppStops

(* After the monitor has looked, the request loop adds the call of every   *)
(* INVITE to those that are late; nothing else opens a dialog.             *)
LEMMA DrainStep ==
  P!Typed /\ P!Channel /\ Quiet /\ DrainSawNoDialog /\ [Next]_vars => DrainSawNoDialog'
<1> SUFFICES ASSUME P!Typed, P!Channel, Quiet, DrainSawNoDialog, [Next]_vars
             PROVE  DrainSawNoDialog'
  OBVIOUS
<1> USE DEF DrainSawNoDialog
<1>1. ASSUME NEW d \in Calls, ReceiveInvite(d)
      PROVE  DrainSawNoDialog'
  <2>1. /\ late' = IF monitor = "empty" THEN late \cup {d} ELSE late
        /\ monitor' = monitor
    BY <1>1 DEF ReceiveInvite
  <2>2. dialog' = [dialog EXCEPT ![d] = "created"] /\ layer' = layer \cup {d}
    BY <1>1 DEF ReceiveInvite, Call!Invite, Call!SetDialog
  <2> QED
    BY <2>1, <2>2 DEF P!Typed
<1>2. ASSUME NEW d \in Calls, UNCHANGED server,
             P!PeerAck(d) \/ P!PeerEnds(d) \/ P!OnCalling(d) \/ P!OnTerminated(d) \/ P!CallStep(d)
      PROVE  DrainSawNoDialog'
  BY <1>2, OnlyInviteOpens DEF server, drain
<1>3. CASE MonitorPolls
  <2>1. layer = {} /\ UNCHANGED <<dialog, layer>>
    BY <1>3 DEF MonitorPolls, NoDialogLeft, calls
  <2> QED
    BY <2>1 DEF P!Channel, P!InLayer
<1>4. CASE UNCHANGED <<dialog, layer, late>> /\ monitor' \in {monitor, "waiting", "polling"}
  BY <1>4
<1>5. CASE ServerOnly
  BY <1>3, <1>4, <1>5
     DEF ServerOnly, Run, Return, RequestLoop, ReceiveRefused, ReceiveOptions,
         ReplySent, ReplyFails, Reply, StartDrain,
         Monitor, MonitorStarts, MonitorCancels, Cancel,
         ReceiveOther, OtherEnds, calls, drain
<1>6. CASE StateLoop
  <2>1. P!StateLoop /\ UNCHANGED server
    BY <1>6, ServerStateLoop DEF StateLoop
  <2> QED
    BY <1>2, <2>1 DEF P!StateLoop
<1>7. ASSUME NEW d \in Calls, ReceiveHangUp(d)
      PROVE  DrainSawNoDialog'
  <2>1. P!PeerHangsUp(d) /\ UNCHANGED server
    BY <1>7
       DEF ReceiveHangUp, Call!PeerHangsUp, P!PeerHangsUp, Call!EndDialog,
           P!EndDialog, Call!SetDialog, P!SetDialog, Call!Notify, P!Notify,
           Call!Answered, P!Answered, Call!ports, P!ports, Call!media, P!media,
           Call!stats, P!stats
  <2> QED
    BY <1>2, <2>1 DEF P!PeerEnds
<1>8. ASSUME NEW d \in Calls, CallStep(d)
      PROVE  DrainSawNoDialog'
  BY <1>2, <1>8, ServerCallStep DEF CallStep, P!PeerEnds
<1>9. CASE UNCHANGED vars
  BY <1>4, <1>9 DEF vars, calls, server, drain
<1>10. CASE NewServer
  BY <1>4, <1>10, NewServerKeepsCalls DEF NewServer, drain, P!vars, P!sip
<1> QED
  BY <1>1, <1>5, <1>6, <1>7, <1>8, <1>9, <1>10 DEF Next, ServerOnly

(* The invariant holds before the first server is created.                 *)
LEMMA InitServerInv == Init => ServerInv
<1> SUFFICES ASSUME Init
             PROVE  ServerInv
  OBVIOUS
<1>1. P!Typed /\ P!Channel /\ P!CallsAccounted
  BY CallsAssumed, ServerCallsInit, P!ChannelInit, P!AccountedInit
<1>2. P!TerminationsCounted
  <2>1. P!Gone(dialog, layer) = {} /\ terminated = 0
    BY ServerCallsInit DEF P!Init, P!Gone
  <2> QED
    BY <2>1, SameCardinality, FS_EmptySet DEF P!TerminationsCounted
<1>3. Quiet /\ ServerTyped /\ DrainSawNoDialog
  BY InitQuiet DEF Init, ServerTyped, DrainSawNoDialog
<1> QED
  BY <1>1, <1>2, <1>3 DEF ServerInv

(* The invariant is inductive.                                             *)
LEMMA ServerSpecInv == Spec => []ServerInv
<1>1. ServerInv /\ [Next]_vars => ServerInv'
  BY CallsAssumed, ServerCallsStep, P!TypedStep, P!ChannelStep, P!AccountedStep,
     P!TerminationsStep, QuietStep, ServerTypedStep, DrainStep DEF ServerInv
<1> QED
  BY InitServerInv, <1>1, PTL DEF Spec

----------------------------------------------------------------------------
(* What follows from it *)

(* Every variable of the server and of its calls keeps its type; the gauge *)
(* of active calls never goes below zero while servers come and go.        *)
THEOREM ServerTypeOK == Spec => []TypeOK
<1>1. ASSUME ServerInv PROVE TypeOK
  <2>1. active = Cardinality(P!At(pc, P!Up))
    BY <1>1, SameCardinality DEF ServerInv, P!CallsAccounted, P!At
  <2>2. active \in Nat
    BY <2>1, CallsAssumption, FS_Subset, FS_CardinalityType DEF P!At
  <2>3. P!TypeOK
    BY <1>1, <2>2 DEF ServerInv, P!Typed, P!TypeOK
  <2>4. Call!TypeOK
    BY <2>3
       DEF P!TypeOK, Call!TypeOK, Call!DialogStates, P!DialogStates,
           Call!StateEvent, P!StateEvent, Call!Places, P!Places, Call!Setup, P!Setup,
           Call!Up, P!Up, Call!Returned, P!Returned, Call!MaybePair, P!MaybePair,
           Call!TaskStates, P!TaskStates, Call!AppStates, P!AppStates
  <2> QED
    BY <1>1, <2>4 DEF TypeOK, ServerInv, ServerTyped
<1> QED
  BY <1>1, ServerSpecInv, PTL

(* ensure_initialized sets the gauge to zero in the first call of new()    *)
(* only, when no call has begun: however many servers are created later,   *)
(* no call that is up is lost, not of a server that has returned either.   *)
THEOREM ServerGaugeCountsCalls == Spec => []GaugeCountsCalls
<1>1. ServerInv => GaugeCountsCalls
  BY SameCardinality DEF ServerInv, P!CallsAccounted, GaugeCountsCalls, Call!Up, P!Up
<1> QED
  BY <1>1, ServerSpecInv, PTL

(* monitor_drain cancels the server only after it has seen the dialog      *)
(* layer empty, and then every call it knew is over and counted, whatever  *)
(* the state loop still had in its channel when the drain began.           *)
THEOREM ServerDrainCutsOnlyLateCalls == Spec => []DrainCutsOnlyLateCalls
<1>1. ASSUME ServerInv PROVE DrainCutsOnlyLateCalls
  <2> SUFFICES ASSUME monitor = "empty"
               PROVE  /\ \A c \in Calls \ late : dialog[c] \in {"none", "terminated"}
                      /\ terminated >= Cardinality({c \in Call!Admitted \ late :
                                                       dialog[c] = "terminated"})
    BY DEF DrainCutsOnlyLateCalls
  <2> DEFINE known == {c \in Call!Admitted \ late : dialog[c] = "terminated"}
  <2>1. \A c \in Calls \ late : dialog[c] \in {"none", "terminated"} /\ c \notin layer
    BY <1>1 DEF ServerInv, DrainSawNoDialog
  <2>2. known \subseteq P!Gone(dialog, layer)
    BY <2>1 DEF P!Gone, Call!Admitted
  <2>3. IsFiniteSet(P!Gone(dialog, layer))
    BY CallsAssumption, FS_Subset DEF P!Gone
  <2>4. Cardinality(known) <= Cardinality(P!Gone(dialog, layer))
    BY <2>2, <2>3, FS_Subset
  <2>5. Cardinality(known) \in Nat /\ Cardinality(P!Gone(dialog, layer)) \in Nat
    BY <2>2, <2>3, FS_Subset, FS_CardinalityType
  <2> QED
    BY <1>1, SameCardinality, <2>1, <2>4, <2>5 DEF ServerInv, P!TerminationsCounted
<1> QED
  BY <1>1, ServerSpecInv, PTL

(* What the monitor does before it starts to poll.                         *)
Silent == monitor # "waiting" => ~ respond

(* Nothing sets the flag again.                                            *)
LEMMA SilentStep == Silent /\ [Next]_vars => Silent'
<1> SUFFICES ASSUME Silent, [Next]_vars PROVE Silent'
  OBVIOUS
<1> USE DEF Silent, loops, tokens, drain
<1>1. CASE RequestLoop \/ StartDrain \/ Cancel
  BY <1>1
     DEF RequestLoop, ReceiveRefused, ReceiveOptions, ReplySent,
         ReplyFails, Reply, StartDrain, Cancel
<1>2. CASE Monitor
  BY <1>2 DEF Monitor, MonitorStarts, MonitorPolls, MonitorCancels
<1>3. CASE NewServer \/ Run \/ Return
  BY <1>3 DEF NewServer, Run, Return
<1>4. ASSUME NEW c \in Calls, ReceiveInvite(c) PROVE Silent'
  BY <1>4 DEF ReceiveInvite
<1>5. ASSUME NEW d \in Others, ReceiveOther(d) \/ OtherEnds(d) PROVE Silent'
  BY <1>5 DEF ReceiveOther, OtherEnds
<1>6. CASE UNCHANGED server
  BY <1>6 DEF server
<1> QED
  BY <1>1, <1>2, <1>3, <1>4, <1>5, <1>6
     DEF Next, vars, StateLoop, ReceiveHangUp, CallStep

(* Once the drain monitor has started, the reply to OPTIONS that was on    *)
(* its way is the last: monitor_drain clears respond_to_options before it  *)
(* polls and nothing sets it again. That the monitor starts is             *)
(* DrainSilencesOptions.                                                   *)
THEOREM ServerDrainIsSilent ==
  Spec => [][monitor # "waiting" /\ requests # "ok" => requests' # "ok"]_vars
<1> DEFINE last == monitor # "waiting" /\ requests # "ok" => requests' # "ok"
<1>1. Init => Silent
  BY DEF Init, Silent
<1>2. Silent /\ [Next]_vars => [last]_vars
  <2> SUFFICES ASSUME Silent, Next, monitor # "waiting", requests # "ok" PROVE requests' # "ok"
    OBVIOUS
  <2>1. ~ respond
    BY DEF Silent
  <2> QED
    BY <2>1
       DEF Next, RequestLoop, ReceiveRefused, ReceiveOptions, ReplySent, ReplyFails, Reply,
           StateLoop, Run, Return, StartDrain, Monitor, MonitorStarts, MonitorPolls,
           MonitorCancels, Cancel, NewServer, ReceiveInvite, ReceiveOther, OtherEnds,
           ReceiveHangUp, CallStep, server, loops
<1> QED
  BY <1>1, <1>2, SilentStep, PTL DEF Spec

----------------------------------------------------------------------------
(* The calls of a server keep what CallHandler promises *)

(* Also when run() has returned, so that nobody takes dialog states any    *)
(* more, when replies fail and when the server is cancelled, nothing that  *)
(* a call holds is leaked, shared or left without a handler.               *)
CallsInv ==
  P!Typed /\ P!Channel /\ P!Sockets /\ P!Supervised /\ P!TerminationsCounted /\ Quiet

(* It is CallHandler's invariant, and every step is one of CallHandler's.  *)
LEMMA ServerCallsInv == Spec => []CallsInv
<1>1. Init => CallsInv
  <2>1. ServerInv => P!Typed /\ P!Channel /\ P!TerminationsCounted /\ Quiet
    BY DEF ServerInv
  <2> QED
    BY <2>1, CallsAssumed, InitServerInv, ServerCallsInit, P!SocketsInit, P!SupervisedInit DEF CallsInv
<1>2. CallsInv /\ [Next]_vars => CallsInv'
  BY CallsAssumed, ServerCallsStep, P!TypedStep, P!ChannelStep, P!SocketsStep,
     P!SupervisedStep, P!TerminationsStep, QuietStep DEF CallsInv
<1> QED
  BY <1>1, <1>2, PTL DEF Spec

(* SipServer implements CallHandler but for its fairness: whatever the     *)
(* loops of run(), the drain monitor and other servers of the process do,  *)
(* a call sees a peer, the state loop or its own tasks.                    *)
THEOREM ServerImplementsCallHandler == Spec => Call!Init /\ [][Call!Next]_(Call!vars)
<1>1. Init => Call!Init
  BY DEF Init
<1>2. Quiet /\ [Next]_vars => [Call!Next]_(Call!vars)
  <2> SUFFICES ASSUME Quiet, [Next]_vars PROVE [Call!Next]_(Call!vars)
    OBVIOUS
  <2>1. CASE ServerOnly \/ NewServer \/ UNCHANGED vars
    <3>1. UNCHANGED P!vars
      BY <2>1, ServerOnlyKeepsCalls, NewServerKeepsCalls
         DEF vars, calls, P!vars, P!sip, P!ports, P!media, P!stats
    <3> QED
      BY <3>1 DEF P!vars, P!sip, P!ports, P!media, P!stats,
                  Call!vars, Call!sip, Call!ports, Call!media, Call!stats
  <2>2. CASE StateLoop
    BY <2>2 DEF StateLoop, Call!Next
  <2>3. ASSUME NEW c \in Calls, ReceiveInvite(c) \/ ReceiveHangUp(c) \/ CallStep(c)
        PROVE  Call!Next
    BY <2>3 DEF ReceiveInvite, ReceiveHangUp, CallStep, Call!Next, Call!Peer, Call!PeerEnds
  <2> QED
    BY <2>1, <2>2, <2>3 DEF Next, ServerOnly
<1> QED
  BY <1>1, <1>2, InitQuiet, QuietStep, PTL DEF Spec

(* The sockets of every call belong to its handler or its media tasks, and *)
(* to no other call, after run() has returned as well.                     *)
THEOREM ServerSocketsOwned == Spec => [](Call!SocketsOwned /\ Call!ExclusivePairs)
<1>1. CallsInv => Call!SocketsOwned /\ Call!ExclusivePairs
  BY DEF CallsInv, P!Sockets, P!SocketsOwned, Call!SocketsOwned,
         P!ExclusivePairs, Call!ExclusivePairs, P!Holding, Call!Holding
<1> QED
  BY <1>1, ServerCallsInv, PTL

(* An answered call has a handler that will see its end even if the server *)
(* has returned or a drain cuts the call off.                              *)
THEOREM ServerAnsweredIsSupervised == Spec => []Call!AnsweredIsSupervised
<1>1. CallsInv => Call!AnsweredIsSupervised
  BY DEF CallsInv, P!Supervised, P!AnsweredIsSupervised, Call!AnsweredIsSupervised,
         P!Answered, Call!Answered
<1> QED
  BY <1>1, ServerCallsInv, PTL

(* The state loop, which goes on until run() returns, finds the dialog of  *)
(* every announced call, and a dialog is counted as terminated at most     *)
(* once: those that the loop no longer takes stay in the layer.            *)
THEOREM ServerCountsTerminationsOnce ==
  Spec => [](Call!CallingFindsDialog /\ Call!TerminationsCountedOnce)
<1>1. CallsInv => P!CallingFindsDialog /\ P!TerminationsCountedOnce
  <2>1. CallsInv => P!CallingFindsDialog
    BY DEF CallsInv, P!Channel, P!Waiting, P!CallingFindsDialog
  <2> QED
    BY <2>1, CallsAssumed, P!CountedOnce DEF CallsInv
<1>2. P!CallingFindsDialog => Call!CallingFindsDialog
  BY DEF P!CallingFindsDialog, Call!CallingFindsDialog
<1>3. P!TerminationsCountedOnce => Call!TerminationsCountedOnce
  BY SameCardinality
     DEF P!TerminationsCountedOnce, Call!TerminationsCountedOnce,
         P!Admitted, Call!Admitted, P!Up, Call!Up
<1> QED
  BY <1>1, <1>2, <1>3, ServerCallsInv, PTL

(* The server as a whole implements the telephone exchange of CallSpec.    *)
THEOREM ServerImplementsCallSpec == Spec => P!Abstract!Safe
<1>1. Init => P!Abstract!Init
  BY CallsAssumed, ServerCallsInit, P!RefinementInit
<1>2. CallsInv /\ [Next]_vars => [P!Abstract!Next]_(P!Abstract!vars)
  BY CallsAssumed, ServerCallsStep, P!RefinementStep DEF CallsInv
<1> QED
  BY <1>1, <1>2, ServerCallsInv, PTL DEF Spec, P!Abstract!Safe

=============================================================================
