------------------------- MODULE CallHandler_proofs -------------------------
(***************************************************************************)
(* Proofs about CallHandler, for any finite set of calls and any pairs.    *)
(***************************************************************************)
EXTENDS CallHandler, FiniteSetTheorems, TLAPS

----------------------------------------------------------------------------
(* Typing *)

(* Every variable keeps its type, except that the gauge is only shown to   *)
(* be an integer: that it stays above zero needs the accounting.           *)
Typed ==
  /\ dialog \in [Calls -> DialogStates]
  /\ layer \subseteq Calls
  /\ events \in Seq(StateEvent)
  /\ cancelled \subseteq Calls
  /\ mediaCancelled \subseteq Calls
  /\ pc \in [Calls -> Places]
  /\ rtp \in [Calls -> MaybePair]
  /\ rtcp \in [Calls -> MaybePair]
  /\ recv \in [Calls -> TaskStates]
  /\ send \in [Calls -> TaskStates]
  /\ app \in [Calls -> AppStates]
  /\ active \in Int /\ accepted \in Nat /\ rejected \in Nat /\ terminated \in Nat

(* Sending to the state channel keeps its type.                            *)
LEMMA NotifyTyped ==
  ASSUME events \in Seq(StateEvent), NEW c \in Calls,
         NEW kind \in {"Calling", "Terminated"}, Notify(kind, c)
  PROVE  events' \in Seq(StateEvent)
BY DEF Notify, StateEvent

(* The end of a dialog, from whatever state.                               *)
LEMMA EndDialogTyped ==
  ASSUME Typed, NEW c \in Calls, EndDialog(c)
  PROVE  dialog' \in [Calls -> DialogStates] /\ events' \in Seq(StateEvent)
<1>1. CASE dialog[c] = "terminated"
  BY <1>1 DEF EndDialog, Typed
<1>2. CASE dialog[c] # "terminated"
  <2>1. SetDialog(c, "terminated") /\ Notify("Terminated", c)
    BY <1>2 DEF EndDialog
  <2>2. events' \in Seq(StateEvent)
    BY <2>1, NotifyTyped DEF Typed
  <2> QED
    BY <2>1, <2>2 DEF SetDialog, DialogStates, Typed
<1> QED
  BY <1>1, <1>2

(* Taking a state from the channel keeps its type.                         *)
LEMMA TakeEventTyped ==
  ASSUME events \in Seq(StateEvent), NEW c, NEW kind, TakeEvent(kind, c)
  PROVE  events' \in Seq(StateEvent)
BY DEF TakeEvent

(* Every step keeps the types.                                             *)
LEMMA TypedStep == Typed /\ [Next]_vars => Typed'
<1> SUFFICES ASSUME Typed, [Next]_vars
             PROVE  Typed'
  OBVIOUS
<1> USE DEF Typed
<1>1. ASSUME NEW c \in Calls, Invite(c) PROVE Typed'
  BY <1>1 DEF Invite, SetDialog, DialogStates, ports, media, stats
<1>2. ASSUME NEW c \in Calls, DialogCalling(c) PROVE Typed'
  BY <1>2, NotifyTyped DEF DialogCalling, SetDialog, DialogStates, ports, media, stats
<1>3. ASSUME NEW c \in Calls, PeerAck(c) PROVE Typed'
  BY <1>3 DEF PeerAck, SetDialog, DialogStates, ports, media, stats
<1>4. ASSUME NEW c \in Calls, PeerEnds(c) PROVE Typed'
  BY <1>4, EndDialogTyped DEF PeerEnds, PeerGivesUp, PeerHangsUp, ports, media, stats
<1>5. ASSUME NEW c \in Calls, OnCalling(c) PROVE Typed'
  BY <1>5, TakeEventTyped DEF OnCalling, Goto, Places, Setup, ports, media, stats
<1>6. ASSUME NEW c \in Calls, OnTerminated(c) PROVE Typed'
  BY <1>6, TakeEventTyped DEF OnTerminated, Remove, ports, media
<1>7. ASSUME NEW c \in Calls, Parse(c) \/ Connect(c) \/ CreateSession(c) PROVE Typed'
  BY <1>7 DEF Parse, Connect, CreateSession, Goto, Places, Setup, sip, ports, media, stats
<1>8. ASSUME NEW c \in Calls, RefuseOffer(c) PROVE Typed'
  BY <1>8, EndDialogTyped DEF RefuseOffer, Goto, Places, Returned, ports, media
<1>9. ASSUME NEW c \in Calls, Allocate(c) PROVE Typed'
  BY <1>9 DEF Allocate, BindPair, MaybePair, Goto, Places, Setup, sip, media, stats
<1>10. ASSUME NEW c \in Calls, Refuse(c) PROVE Typed'
  BY <1>10, EndDialogTyped DEF Refuse, DropPair, BindPair, MaybePair, Goto, Places, Returned, media
<1>11. ASSUME NEW c \in Calls, Ring(c) PROVE Typed'
  BY <1>11 DEF Ring, SetDialog, DialogStates, Goto, Places, Setup, ports, media, stats
<1>12. ASSUME NEW c \in Calls, Accept(c) PROVE Typed'
  BY <1>12 DEF Accept, SetDialog, DialogStates, Goto, Places, Setup, ports, media, stats
<1>13. ASSUME NEW c \in Calls, AcceptFails(c) PROVE Typed'
  BY <1>13 DEF AcceptFails, DropPair, BindPair, MaybePair, Goto, Places, Returned, sip, media, stats
<1>14. ASSUME NEW c \in Calls, StartMedia(c) PROVE Typed'
  BY <1>14 DEF StartMedia, MaybePair, TaskStates, Goto, Places, Up, sip
<1>15. ASSUME NEW c \in Calls, SpawnApp(c) PROVE Typed'
  BY <1>15 DEF SpawnApp, AppStates, TaskStates, Goto, Places, Up, sip, ports, media, stats
<1>16. ASSUME NEW c \in Calls, EndWait(c) PROVE Typed'
  BY <1>16 DEF EndWait, AppStates, Goto, Places, Up, sip, ports, media, stats
<1>17. ASSUME NEW c \in Calls, Bye(c) PROVE Typed'
  BY <1>17, EndDialogTyped DEF Bye, Goto, Places, Returned, ports, media
<1>18. ASSUME NEW c \in Calls, RecvTask(c) PROVE Typed'
  BY <1>18 DEF RecvTask, RecvCancelled, RecvDeadline, RecvBreaks, RecvEnds, TaskStates, MaybePair,
               sip, ports, stats
<1>19. ASSUME NEW c \in Calls, SendTask(c) PROVE Typed'
  BY <1>19 DEF SendTask, SendCancelled, SendChannelClosed, SendBreaks, SendEnds, TaskStates, MaybePair,
               sip, stats
<1>20. ASSUME NEW c \in Calls, App(c) PROVE Typed'
  BY <1>20 DEF App, AppReturns, AppAborted, AppHangsUp, AppStops, AppStates, TaskStates,
               sip, ports, media, stats
<1>21. CASE UNCHANGED vars
  BY <1>21 DEF vars, sip, ports, media, stats
<1> QED
  BY <1>1, <1>2, <1>3, <1>4, <1>5, <1>6, <1>7, <1>8, <1>9, <1>10, <1>11, <1>12, <1>13, <1>14,
     <1>15, <1>16, <1>17, <1>18, <1>19, <1>20, <1>21
     DEF Next, StateLoop, Peer, CallStep, HandleCall, SetupStep

----------------------------------------------------------------------------
(* The state channel *)

(* What the channel, the dialogs and the layer have to do with each other: *)
(* the states of a call are at most Calling and then Terminated, a call    *)
(* whose Calling state waits has no handler yet, and a dialog that ended   *)
(* stays in the layer until its Terminated state is taken.                 *)
Unannounced == {"none", "created"}

InLayer ==
  \A c \in Calls : /\ dialog[c] = "none" => c \notin layer
                   /\ dialog[c] \notin {"none", "terminated"} => c \in layer

Fresh ==
  \A c \in Calls : dialog[c] \in Unannounced =>
    pc[c] = "idle" /\ \A i \in DOMAIN events : events[i].call # c

Waiting ==
  \A i \in DOMAIN events :
    /\ events[i].call \in layer
    /\ events[i].kind = "Calling" => pc[events[i].call] = "idle"
    /\ events[i].kind = "Terminated" => dialog[events[i].call] = "terminated"

InOrder ==
  \A i, j \in DOMAIN events :
    i < j /\ events[i].call = events[j].call =>
      events[i].kind = "Calling" /\ events[j].kind = "Terminated"

EndWaits ==
  \A c \in layer : dialog[c] = "terminated" =>
    \E i \in DOMAIN events : events[i] = [kind |-> "Terminated", call |-> c]

Channel == InLayer /\ Fresh /\ Waiting /\ InOrder /\ EndWaits

(* What is in the channel is a state of one of the calls.                  *)
LEMMA EventsTyped ==
  ASSUME Typed
  PROVE  /\ Len(events) \in Nat
         /\ DOMAIN events = 1 .. Len(events)
         /\ \A i \in 1 .. Len(events) : /\ events[i] \in StateEvent
                                        /\ events[i].call \in Calls
                                        /\ events[i].kind \in {"Calling", "Terminated"}
<1>1. Len(events) \in Nat /\ DOMAIN events = 1 .. Len(events)
  BY DEF Typed
<1>2. \A i \in 1 .. Len(events) : events[i] \in StateEvent
  BY <1>1 DEF Typed
<1>3. \A e \in StateEvent : e.call \in Calls /\ e.kind \in {"Calling", "Terminated"}
  BY DEF StateEvent
<1> QED
  BY <1>1, <1>2, <1>3

(* The handler of a call, once started, only moves on.                     *)
SameIdle == \A c \in Calls : pc[c] = "idle" <=> pc'[c] = "idle"

(* A step that leaves the channel and the layer alone, and neither starts  *)
(* nor ends a dialog.                                                      *)
LEMMA ChannelQuiet ==
  ASSUME Typed, Channel, SameIdle, UNCHANGED <<layer, events>>,
         \A c \in Calls : \/ dialog'[c] = dialog[c]
                          \/ {dialog[c], dialog'[c]} \cap (Unannounced \cup {"terminated"}) = {}
  PROVE  Channel'
<1>1. layer \subseteq Calls /\ \A i \in DOMAIN events : events[i].call \in Calls
  BY EventsTyped DEF Typed
<1>2. \A c \in Calls : /\ dialog'[c] \in Unannounced <=> dialog[c] \in Unannounced
                       /\ dialog'[c] = "none" <=> dialog[c] = "none"
                       /\ dialog'[c] = "terminated" <=> dialog[c] = "terminated"
  BY DEF Unannounced
<1> QED
  BY <1>1, <1>2 DEF Channel, InLayer, Fresh, Waiting, InOrder, EndWaits, SameIdle

(* The end of a dialog is the last state the channel gets of it, whoever   *)
(* ends it.                                                                *)
LEMMA ChannelEndDialog ==
  ASSUME Typed, Channel, SameIdle, UNCHANGED layer, NEW c \in Calls,
         EndDialog(c), dialog[c] \notin Unannounced
  PROVE  Channel'
<1>1. CASE dialog[c] = "terminated"
  BY <1>1, ChannelQuiet DEF EndDialog
<1>2. CASE dialog[c] # "terminated"
  <2> DEFINE e == [kind |-> "Terminated", call |-> c]
             n == Len(events)
  <2>1. dialog' = [dialog EXCEPT ![c] = "terminated"] /\ events' = Append(events, e)
    BY <1>2 DEF EndDialog, SetDialog, Notify
  <2>2. /\ n \in Nat
        /\ DOMAIN events = 1 .. n
        /\ DOMAIN events' = 1 .. n + 1
        /\ \A i \in 1 .. n : events'[i] = events[i] /\ events[i].call \in Calls
        /\ events'[n + 1] = e
    <3>1. events \in Seq(StateEvent) /\ e \in StateEvent
      BY DEF Typed, StateEvent
    <3> HIDE DEF e
    <3> QED
      BY <2>1, <3>1, EventsTyped
  <2>3. /\ \A d \in Calls \ {c} : dialog'[d] = dialog[d]
        /\ dialog'[c] = "terminated"
        /\ layer \subseteq Calls
    BY <2>1 DEF Typed
  <2>4. c \in layer
    BY <1>2 DEF Channel, InLayer, Unannounced
  <2>5. e.call = c /\ e.kind = "Terminated"
    OBVIOUS
  <2>6. \A i \in 1 .. n : events[i].call = c => events[i].kind = "Calling"
    <3>1. \A i \in 1 .. n : events[i].kind \in {"Calling", "Terminated"}
      BY EventsTyped
    <3> QED
      BY <1>2, <2>2, <3>1 DEF Channel, Waiting
  <2>7. EndWaits'
    <3> SUFFICES ASSUME NEW d \in layer, dialog'[d] = "terminated"
                 PROVE  \E i \in DOMAIN events' : events'[i] = [kind |-> "Terminated", call |-> d]
      BY DEF EndWaits
    <3>1. CASE d = c
      BY <3>1, <2>2
    <3>2. CASE d # c
      BY <3>2, <2>2, <2>3 DEF Channel, EndWaits
    <3> QED
      BY <3>1, <3>2
  <2> HIDE DEF e, n
  <2>8. \A i \in 1 .. n + 1 : i \in 1 .. n \/ i = n + 1
    BY <2>2
  <2>9. InOrder'
    <3> SUFFICES ASSUME NEW i \in 1 .. n + 1, NEW j \in 1 .. n + 1,
                        i < j, events'[i].call = events'[j].call
                 PROVE  events'[i].kind = "Calling" /\ events'[j].kind = "Terminated"
      BY <2>2 DEF InOrder
    <3>1. CASE j \in 1 .. n
      BY <3>1, <2>2 DEF Channel, InOrder
    <3>2. CASE j = n + 1
      BY <3>2, <2>2, <2>5, <2>6
    <3> QED
      BY <3>1, <3>2, <2>8
  <2>10. Waiting'
    BY <2>2, <2>3, <2>4, <2>5, <2>8 DEF Channel, Waiting, SameIdle
  <2>11. Fresh'
    BY <2>2, <2>3, <2>5, <2>8 DEF Channel, Fresh, SameIdle, Unannounced
  <2>12. InLayer'
    BY <2>3 DEF Channel, InLayer
  <2> QED
    BY <2>7, <2>9, <2>10, <2>11, <2>12 DEF Channel
<1> QED
  BY <1>1, <1>2

(* Taking the oldest state shifts the others.                              *)
Shifted(n) ==
  /\ n \in Nat /\ n > 0 /\ DOMAIN events = 1 .. n /\ DOMAIN events' = 1 .. n - 1
  /\ \A i \in 1 .. n - 1 : i + 1 \in 1 .. n /\ 1 < i + 1 /\ events'[i] = events[i + 1]
  /\ 1 \in 1 .. n

(* What is left in the channel moves up by one.                            *)
LEMMA TakeEventShifts ==
  ASSUME Typed, NEW c \in Calls, NEW kind, TakeEvent(kind, c)
  PROVE  Shifted(Len(events)) /\ events[1].call = c /\ events[1].kind = kind
<1>1. /\ events \in Seq(StateEvent) /\ events # <<>>
      /\ events' = Tail(events) /\ events[1] = [kind |-> kind, call |-> c]
  BY DEF Typed, TakeEvent
<1>2. Len(events) \in Nat /\ Len(events) > 0 /\ DOMAIN events = 1 .. Len(events)
  BY <1>1
<1>3. /\ DOMAIN events' = 1 .. Len(events) - 1
      /\ \A i \in 1 .. Len(events) - 1 : events'[i] = events[i + 1]
  BY <1>1, <1>2
<1>4. 1 \in 1 .. Len(events) /\ \A i \in 1 .. Len(events) - 1 : i + 1 \in 1 .. Len(events) /\ 1 < i + 1
  BY <1>2
<1>5. events[1].call = c /\ events[1].kind = kind
  BY <1>1
<1> QED
  BY <1>2, <1>3, <1>4, <1>5 DEF Shifted

(* Taking a state keeps the order of each call's states.                   *)
LEMMA ShiftInOrder ==
  ASSUME NEW n, Shifted(n), InOrder
  PROVE  /\ InOrder'
         /\ \A i \in 1 .. n - 1 : events'[i].call = events[1].call =>
              events[1].kind = "Calling" /\ events'[i].kind = "Terminated"
<1>1. \A i \in 1 .. n, j \in 1 .. n :
       i < j /\ events[i].call = events[j].call =>
         events[i].kind = "Calling" /\ events[j].kind = "Terminated"
  BY DEF Shifted, InOrder
<1>2. ASSUME NEW i \in 1 .. n - 1, NEW j \in 1 .. n - 1,
             i < j, events'[i].call = events'[j].call
      PROVE  events'[i].kind = "Calling" /\ events'[j].kind = "Terminated"
  <2>1. /\ events'[i] = events[i + 1] /\ events'[j] = events[j + 1]
        /\ i + 1 \in 1 .. n /\ j + 1 \in 1 .. n /\ i + 1 < j + 1
    BY <1>2 DEF Shifted
  <2> QED
    BY <1>1, <1>2, <2>1
<1>3. InOrder'
  BY <1>2 DEF InOrder, Shifted
<1> QED
  BY <1>1, <1>3 DEF Shifted

(* Taking a state of a call leaves nothing of the unannounced ones.        *)
LEMMA ShiftFresh ==
  ASSUME NEW n, Shifted(n), Fresh, NEW d \in Calls, dialog[d] \in Unannounced
  PROVE  pc[d] = "idle" /\ \A i \in DOMAIN events' : events'[i].call # d
<1>1. pc[d] = "idle" /\ \A i \in 1 .. n : events[i].call # d
  BY DEF Fresh, Shifted
<1>2. ASSUME NEW i \in 1 .. n - 1 PROVE events'[i].call # d
  <2>1. events'[i] = events[i + 1] /\ i + 1 \in 1 .. n
    BY DEF Shifted
  <2> QED
    BY <1>1, <2>1
<1> QED
  BY <1>1, <1>2 DEF Shifted

(* Only the call whose Terminated state is taken may leave the layer.      *)
LEMMA ShiftEndWaits ==
  ASSUME NEW n, Shifted(n), EndWaits, NEW d \in layer, dialog[d] = "terminated",
         events[1] # [kind |-> "Terminated", call |-> d]
  PROVE  \E i \in DOMAIN events' : events'[i] = [kind |-> "Terminated", call |-> d]
<1>1. PICK i \in 1 .. n : events[i] = [kind |-> "Terminated", call |-> d]
  BY DEF EndWaits, Shifted
<1>2. i # 1
  BY <1>1
<1>3. i - 1 \in 1 .. n - 1 /\ (i - 1) + 1 = i
  BY <1>2 DEF Shifted
<1>4. events'[i - 1] = events[i]
  BY <1>3 DEF Shifted
<1> QED
  BY <1>1, <1>3, <1>4 DEF Shifted

(* A new dialog is in the layer before its first state is sent.            *)
LEMMA ChannelInvite ==
  ASSUME Typed, Channel, NEW c \in Calls, Invite(c)
  PROVE  Channel'
<1>1. /\ dialog[c] = "none" /\ dialog'[c] = "created"
      /\ \A d \in Calls \ {c} : dialog'[d] = dialog[d]
      /\ layer' = layer \cup {c} /\ UNCHANGED <<events, pc>>
  BY DEF Invite, SetDialog, Typed
<1>2. \A i \in DOMAIN events : events[i].call \in Calls /\ events[i].call # c
  BY <1>1, EventsTyped DEF Channel, Fresh, Unannounced
<1> QED
  BY <1>1, <1>2 DEF Channel, InLayer, Fresh, Waiting, InOrder, EndWaits, Unannounced, Typed

(* The first state of a call finds none of it in the channel.              *)
LEMMA ChannelCalling ==
  ASSUME Typed, Channel, NEW c \in Calls, DialogCalling(c)
  PROVE  Channel'
<1> DEFINE e == [kind |-> "Calling", call |-> c]
           n == Len(events)
<1>1. /\ dialog[c] = "created" /\ dialog'[c] = "calling"
      /\ \A d \in Calls \ {c} : dialog'[d] = dialog[d]
      /\ events' = Append(events, e) /\ UNCHANGED <<layer, pc>>
  BY DEF DialogCalling, SetDialog, Notify, Typed
<1>2. /\ n \in Nat
      /\ DOMAIN events = 1 .. n
      /\ DOMAIN events' = 1 .. n + 1
      /\ \A i \in 1 .. n : events'[i] = events[i] /\ events[i].call \in Calls
      /\ events'[n + 1] = e
  <2>1. events \in Seq(StateEvent) /\ e \in StateEvent
    BY DEF Typed, StateEvent
  <2> HIDE DEF e
  <2> QED
    BY <1>1, <2>1, EventsTyped
<1>3. e.call = c /\ e.kind = "Calling"
  OBVIOUS
<1>4. pc[c] = "idle" /\ c \in layer /\ \A i \in 1 .. n : events[i].call # c
  BY <1>1, <1>2 DEF Channel, InLayer, Fresh, Unannounced
<1> HIDE DEF e, n
<1>5. \A i \in 1 .. n + 1 : i \in 1 .. n \/ i = n + 1
  BY <1>2
<1>6. InOrder'
  <2> SUFFICES ASSUME NEW i \in 1 .. n + 1, NEW j \in 1 .. n + 1,
                      i < j, events'[i].call = events'[j].call
               PROVE  events'[i].kind = "Calling" /\ events'[j].kind = "Terminated"
    BY <1>2 DEF InOrder
  <2>1. i \in 1 .. n
    BY <1>2
  <2>2. j \in 1 .. n
    BY <1>2, <1>3, <1>4, <1>5, <2>1
  <2> QED
    BY <1>2, <2>1, <2>2 DEF Channel, InOrder
<1>7. Waiting'
  BY <1>1, <1>2, <1>3, <1>4, <1>5 DEF Channel, Waiting
<1>8. Fresh'
  BY <1>1, <1>2, <1>3, <1>5 DEF Channel, Fresh, Unannounced
<1>9. InLayer'
  BY <1>1, <1>4 DEF Channel, InLayer
<1>10. EndWaits'
  <2> SUFFICES ASSUME NEW d \in layer, dialog'[d] = "terminated"
               PROVE  \E i \in DOMAIN events' : events'[i] = [kind |-> "Terminated", call |-> d]
    BY <1>1 DEF EndWaits
  <2>1. d # c /\ dialog[d] = "terminated"
    BY <1>1 DEF Typed
  <2>2. PICK i \in 1 .. n : events[i] = [kind |-> "Terminated", call |-> d]
    BY <1>2, <2>1 DEF Channel, EndWaits
  <2>3. i \in DOMAIN events' /\ events'[i] = events[i]
    BY <1>2
  <2> QED
    BY <2>2, <2>3
<1> QED
  BY <1>6, <1>7, <1>8, <1>9, <1>10 DEF Channel

(* The dialog of a Calling state is in the layer, so its handler starts.   *)
LEMMA ChannelOnCalling ==
  ASSUME Typed, Channel, NEW c \in Calls, OnCalling(c)
  PROVE  Channel' /\ pc[c] = "idle" /\ pc' = [pc EXCEPT ![c] = "parse"]
<1> DEFINE n == Len(events)
<1>1. Shifted(n) /\ events[1].call = c /\ events[1].kind = "Calling"
  BY TakeEventShifts DEF OnCalling
<1>2. UNCHANGED <<dialog, layer>> /\ layer \subseteq Calls
  BY DEF OnCalling, Typed
<1>3. \A i \in 1 .. n : events[i].call \in Calls
  BY EventsTyped
<1> HIDE DEF n
<1>4. pc[c] = "idle" /\ c \in layer /\ dialog[c] \notin Unannounced
  BY <1>1 DEF Channel, Waiting, Fresh, Shifted
<1>5. /\ pc' = [pc EXCEPT ![c] = "parse"]
      /\ \A d \in Calls \ {c} : pc'[d] = pc[d]
  BY <1>4 DEF OnCalling, Goto, Typed
<1>6. InOrder' /\ \A i \in 1 .. n - 1 : events'[i].call = c => events'[i].kind = "Terminated"
  BY <1>1, ShiftInOrder DEF Channel
<1>7. Waiting'
  BY <1>1, <1>2, <1>3, <1>5, <1>6 DEF Channel, Waiting, Shifted
<1>8. Fresh'
  BY <1>1, <1>2, <1>4, <1>5, ShiftFresh DEF Channel, Fresh
<1>9. InLayer'
  BY <1>2 DEF Channel, InLayer
<1>10. EndWaits'
  <2> SUFFICES ASSUME NEW d \in layer, dialog[d] = "terminated"
               PROVE  \E i \in DOMAIN events' : events'[i] = [kind |-> "Terminated", call |-> d]
    BY <1>2 DEF EndWaits
  <2>1. events[1] # [kind |-> "Terminated", call |-> d]
    BY <1>1
  <2> QED
    BY <1>1, <2>1, ShiftEndWaits DEF Channel
<1> QED
  BY <1>4, <1>5, <1>6, <1>7, <1>8, <1>9, <1>10 DEF Channel

(* The Terminated state is the call's last: nothing of the call is left in *)
(* the channel when its dialog leaves the layer.                           *)
LEMMA ChannelOnTerminated ==
  ASSUME Typed, Channel, NEW c \in Calls, OnTerminated(c)
  PROVE  /\ Channel'
         /\ c \in layer /\ dialog[c] = "terminated"
         /\ layer' = layer \ {c} /\ cancelled' = cancelled \cup {c}
<1> DEFINE n == Len(events)
<1>1. Shifted(n) /\ events[1].call = c /\ events[1].kind = "Terminated"
  BY TakeEventShifts DEF OnTerminated
<1> HIDE DEF n
<1>2. c \in layer /\ dialog[c] = "terminated"
  BY <1>1 DEF Channel, Waiting, Shifted
<1>3. /\ UNCHANGED <<dialog, pc>>
      /\ layer' = layer \ {c} /\ cancelled' = cancelled \cup {c} /\ layer \subseteq Calls
  BY <1>2 DEF OnTerminated, Remove, Typed
<1>4. InOrder' /\ \A i \in 1 .. n - 1 : events'[i].call # c
  BY <1>1, ShiftInOrder DEF Channel
<1>5. Waiting'
  BY <1>1, <1>3, <1>4 DEF Channel, Waiting, Shifted
<1>6. Fresh'
  BY <1>1, <1>3, ShiftFresh DEF Channel, Fresh
<1>7. InLayer'
  BY <1>2, <1>3 DEF Channel, InLayer
<1>8. EndWaits'
  <2> SUFFICES ASSUME NEW d \in layer \ {c}, dialog[d] = "terminated"
               PROVE  \E i \in DOMAIN events' : events'[i] = [kind |-> "Terminated", call |-> d]
    BY <1>3 DEF EndWaits
  <2>1. events[1] # [kind |-> "Terminated", call |-> d]
    BY <1>1
  <2> QED
    BY <1>1, <2>1, ShiftEndWaits DEF Channel
<1> QED
  BY <1>2, <1>3, <1>4, <1>5, <1>6, <1>7, <1>8 DEF Channel

(* A step that touches neither the dialogs nor the channel.                *)
LEMMA ChannelUntouched ==
  ASSUME Typed, Channel, SameIdle, UNCHANGED <<dialog, layer, events>>
  PROVE  Channel'
BY ChannelQuiet

(* A step of a handler that has started and has not returned.              *)
LEMMA HandlerKeepsIdle ==
  ASSUME Typed, NEW c \in Calls, pc[c] # "idle", NEW place \in Places \ {"idle"}, Goto(c, place)
  PROVE  SameIdle
BY DEF SameIdle, Goto, Typed

(* A call with a handler has been announced.                               *)
LEMMA StartedIsAnnounced ==
  ASSUME Channel, NEW c \in Calls, pc[c] # "idle"
  PROVE  dialog[c] \notin Unannounced
BY DEF Channel, Fresh

(* Every step keeps the invariant of the state channel.                    *)
LEMMA ChannelStep == Typed /\ Channel /\ [Next]_vars => Channel'
<1> SUFFICES ASSUME Typed, Channel, [Next]_vars
             PROVE  Channel'
  OBVIOUS
<1>1. ASSUME NEW c \in Calls, Invite(c) PROVE Channel'
  BY <1>1, ChannelInvite
<1>2. ASSUME NEW c \in Calls, DialogCalling(c) PROVE Channel'
  BY <1>2, ChannelCalling
<1>3. ASSUME NEW c \in Calls, OnCalling(c) \/ OnTerminated(c) PROVE Channel'
  BY <1>3, ChannelOnCalling, ChannelOnTerminated
<1>4. ASSUME NEW c \in Calls, PeerAck(c) PROVE Channel'
  <2>1. /\ SameIdle /\ UNCHANGED <<layer, events>>
        /\ dialog[c] = "waitack" /\ dialog'[c] = "confirmed"
        /\ \A d \in Calls \ {c} : dialog'[d] = dialog[d]
    BY <1>4 DEF PeerAck, SetDialog, SameIdle, Typed
  <2> QED
    BY <2>1, ChannelQuiet DEF Unannounced
<1>5. ASSUME NEW c \in Calls, PeerEnds(c) PROVE Channel'
  BY <1>5, ChannelEndDialog DEF PeerEnds, PeerGivesUp, PeerHangsUp, SameIdle, Unannounced, Answered
<1>6. ASSUME NEW c \in Calls, RefuseOffer(c) \/ Refuse(c) \/ Bye(c) PROVE Channel'
  <2>1. /\ pc[c] # "idle" /\ UNCHANGED layer
        /\ \E place \in Returned : Goto(c, place)
        /\ EndDialog(c) \/ UNCHANGED <<dialog, events>>
    BY <1>6 DEF RefuseOffer, Refuse, Bye, Returned
  <2>2. SameIdle
    BY <2>1, HandlerKeepsIdle DEF Returned, Places
  <2> QED
    BY <2>1, <2>2, ChannelEndDialog, ChannelUntouched, StartedIsAnnounced
<1>7. ASSUME NEW c \in Calls, Ring(c) \/ Accept(c) PROVE Channel'
  <2>1. /\ pc[c] # "idle" /\ UNCHANGED <<layer, events>>
        /\ \E place \in Setup : Goto(c, place)
        /\ \/ UNCHANGED dialog
           \/ dialog[c] # "terminated" /\ \E s \in {"early", "waitack"} : SetDialog(c, s)
    BY <1>7 DEF Ring, Accept, Setup
  <2>2. SameIdle
    BY <2>1, HandlerKeepsIdle DEF Setup, Places
  <2>3. \A d \in Calls :
          \/ dialog'[d] = dialog[d]
          \/ {dialog[d], dialog'[d]} \cap (Unannounced \cup {"terminated"}) = {}
    <3>1. dialog[c] \notin Unannounced
      BY <2>1, StartedIsAnnounced
    <3> QED
      BY <2>1, <3>1 DEF SetDialog, Unannounced, Typed
  <2> QED
    BY <2>1, <2>2, <2>3, ChannelQuiet
<1>8. ASSUME NEW c \in Calls,
             \/ Parse(c) \/ Allocate(c) \/ Connect(c) \/ CreateSession(c)
             \/ AcceptFails(c) \/ StartMedia(c) \/ SpawnApp(c) \/ EndWait(c)
      PROVE  Channel'
  <2>1. /\ pc[c] # "idle" /\ UNCHANGED <<dialog, layer, events>>
        /\ \E place \in Places \ {"idle"} : Goto(c, place)
    BY <1>8 DEF Parse, Allocate, Connect, CreateSession, AcceptFails, StartMedia, SpawnApp, EndWait,
                sip, Places, Setup, Up, Returned
  <2> QED
    BY <2>1, HandlerKeepsIdle, ChannelUntouched
<1>9. ASSUME NEW c \in Calls, RecvTask(c) \/ SendTask(c) \/ App(c) PROVE Channel'
  <2>1. UNCHANGED <<dialog, layer, events, pc>>
    BY <1>9 DEF RecvTask, RecvCancelled, RecvDeadline, RecvBreaks, RecvEnds,
                SendTask, SendCancelled, SendChannelClosed, SendBreaks, SendEnds,
                App, AppReturns, AppAborted, AppHangsUp, AppStops, sip
  <2> QED
    BY <2>1, ChannelUntouched DEF SameIdle
<1>10. CASE UNCHANGED vars
  BY <1>10, ChannelUntouched DEF vars, sip, SameIdle
<1> QED
  BY <1>1, <1>2, <1>3, <1>4, <1>5, <1>6, <1>7, <1>8, <1>9, <1>10
     DEF Next, StateLoop, Peer, CallStep, HandleCall, SetupStep

(* The types and the channel are right to begin with.                      *)
LEMMA ChannelInit == Init => Typed /\ Channel
<1> SUFFICES ASSUME Init PROVE Typed /\ Channel
  OBVIOUS
<1>1. Typed
  BY DEF Init, Typed, DialogStates, Places, MaybePair, TaskStates, AppStates
<1>2. DOMAIN events = {}
  BY DEF Init
<1>3. Channel
  BY <1>2 DEF Init, Channel, InLayer, Fresh, Waiting, InOrder, EndWaits
<1> QED
  BY <1>1, <1>3

(* process_dialog_states never answers "Dialog not found": the dialog of a *)
(* Calling state is in the layer whenever the state is taken, and has no   *)
(* handler yet, so every announced call gets exactly one handler.          *)
THEOREM SpecCallingFindsDialog == Spec => []CallingFindsDialog
<1>1. Typed /\ Channel => CallingFindsDialog
  BY DEF Channel, Waiting, CallingFindsDialog
<1> QED
  BY <1>1, ChannelInit, TypedStep, ChannelStep, PTL DEF Spec

----------------------------------------------------------------------------
(* Supervision of answered calls *)

(* The handler leaves its wait only for the dialog's token.                *)
Supervised ==
  /\ AnsweredIsSupervised
  /\ \A c \in Calls : pc[c] = "bye" => c \in cancelled

(* Ending a dialog leaves nobody unsupervised.                             *)
LEMMA EndDialogAnswers ==
  ASSUME Typed, NEW c \in Calls, EndDialog(c) \/ UNCHANGED <<dialog, events>>
  PROVE  \A d \in Calls : dialog'[d] \in Answered => dialog'[d] = dialog[d]
BY DEF EndDialog, SetDialog, Answered, Typed

(* Every step keeps the answered calls supervised.                         *)
LEMMA SupervisedStep == Typed /\ Channel /\ Supervised /\ [Next]_vars => Supervised'
<1> SUFFICES ASSUME Typed, Channel, Supervised, [Next]_vars
             PROVE  Supervised'
  OBVIOUS
<1> USE DEF Supervised, AnsweredIsSupervised
<1>1. ASSUME NEW c \in Calls, Invite(c) \/ DialogCalling(c) \/ PeerAck(c) PROVE Supervised'
  BY <1>1 DEF Invite, DialogCalling, PeerAck, SetDialog, Answered, Typed
<1>2. ASSUME NEW c \in Calls, PeerEnds(c) PROVE Supervised'
  BY <1>2, EndDialogAnswers DEF PeerEnds, PeerGivesUp, PeerHangsUp
<1>3. ASSUME NEW c \in Calls, OnCalling(c) PROVE Supervised'
  <2>1. pc[c] = "idle" /\ pc' = [pc EXCEPT ![c] = "parse"] /\ UNCHANGED <<dialog, cancelled>>
    BY <1>3, ChannelOnCalling DEF OnCalling
  <2> QED
    BY <2>1 DEF Typed
<1>4. ASSUME NEW c \in Calls, OnTerminated(c) PROVE Supervised'
  BY <1>4, ChannelOnTerminated DEF OnTerminated
<1>5. ASSUME NEW c \in Calls, RefuseOffer(c) \/ Refuse(c) \/ AcceptFails(c) PROVE Supervised'
  <2>1. /\ pc[c] \in {"parse", "allocate", "connect", "codec", "accept"}
        /\ \E place \in Returned : Goto(c, place)
        /\ EndDialog(c) \/ UNCHANGED <<dialog, events>>
        /\ UNCHANGED cancelled
    BY <1>5 DEF RefuseOffer, Refuse, AcceptFails, Returned, sip
  <2> QED
    BY <2>1, EndDialogAnswers DEF Goto, Returned, Typed
<1>6. ASSUME NEW c \in Calls, Bye(c) PROVE Supervised'
  <2>1. pc[c] = "bye" /\ Goto(c, "ended") /\ UNCHANGED cancelled
    BY <1>6 DEF Bye
  <2>2. EndDialog(c) \/ UNCHANGED <<dialog, events>>
    BY <1>6 DEF Bye
  <2> QED
    BY <2>1, <2>2, EndDialogAnswers DEF Goto, Typed
<1>7. ASSUME NEW c \in Calls, Ring(c) \/ Accept(c) PROVE Supervised'
  BY <1>7 DEF Ring, Accept, SetDialog, Goto, Answered, Typed
<1>8. ASSUME NEW c \in Calls, Parse(c) \/ Allocate(c) \/ Connect(c) \/ CreateSession(c) PROVE Supervised'
  BY <1>8 DEF Parse, Allocate, Connect, CreateSession, Goto, sip, Typed
<1>9. ASSUME NEW c \in Calls, StartMedia(c) \/ SpawnApp(c) PROVE Supervised'
  BY <1>9 DEF StartMedia, SpawnApp, Goto, sip, Typed
<1>10. ASSUME NEW c \in Calls, EndWait(c) PROVE Supervised'
  BY <1>10 DEF EndWait, CallEnded, Goto, sip, Typed
<1>11. ASSUME NEW c \in Calls, RecvTask(c) \/ SendTask(c) \/ App(c) PROVE Supervised'
  <2>1. UNCHANGED <<dialog, pc>> /\ cancelled \subseteq cancelled'
    BY <1>11 DEF RecvTask, RecvCancelled, RecvDeadline, RecvBreaks, RecvEnds,
                 SendTask, SendCancelled, SendChannelClosed, SendBreaks, SendEnds,
                 App, AppReturns, AppAborted, AppHangsUp, AppStops, sip
  <2> QED
    BY <2>1
<1>12. CASE UNCHANGED vars
  BY <1>12 DEF vars, sip
<1> QED
  BY <1>1, <1>2, <1>3, <1>4, <1>5, <1>6, <1>7, <1>8, <1>9, <1>10, <1>11, <1>12
     DEF Next, StateLoop, Peer, CallStep, HandleCall, SetupStep

(* No call is answered to begin with.                                      *)
LEMMA SupervisedInit == Init => Supervised
BY DEF Init, Supervised, AnsweredIsSupervised, Answered

(* A call that was answered and not ended has a handler that will see its  *)
(* end: no path of handle_call leaves an answered call behind.             *)
THEOREM SpecAnsweredIsSupervised == Spec => []AnsweredIsSupervised
<1>1. Supervised => AnsweredIsSupervised
  BY DEF Supervised
<1> QED
  BY <1>1, SupervisedInit, ChannelInit, TypedStep, ChannelStep, SupervisedStep, PTL DEF Spec

----------------------------------------------------------------------------
(* Sockets *)

(* The media tasks exist from the start of the media session on, and may   *)
(* outlive the handler.                                                    *)
Media == Up \cup {"ended"}

TasksFollow ==
  \A c \in Calls : /\ recv[c] = "off" <=> pc[c] \notin Media
                   /\ send[c] = "off" <=> pc[c] \notin Media

Sockets == TasksFollow /\ SocketsOwned /\ ExclusivePairs

(* The sockets of a call change only with its handler or its tasks.        *)
LEMMA SocketsUntouched ==
  ASSUME Sockets, UNCHANGED <<ports, recv, send>>,
         \A c \in Calls : /\ pc'[c] \in Holding <=> pc[c] \in Holding
                          /\ pc'[c] \in Media <=> pc[c] \in Media
  PROVE  Sockets'
BY DEF Sockets, TasksFollow, SocketsOwned, ExclusivePairs, ports

(* A handler that returns during the setup drops what it has bound.        *)
LEMMA SocketsDropped ==
  ASSUME Typed, Sockets, NEW c \in Calls, pc[c] \in Setup, DropPair(c), UNCHANGED <<recv, send>>,
         NEW place \in Returned \ {"ended"}, Goto(c, place)
  PROVE  Sockets'
<1>1. /\ rtp'[c] = NoPair /\ rtcp'[c] = NoPair /\ pc'[c] = place
      /\ \A d \in Calls \ {c} : rtp'[d] = rtp[d] /\ rtcp'[d] = rtcp[d] /\ pc'[d] = pc[d]
  BY DEF DropPair, BindPair, Goto, Typed
<1>2. place \notin Holding /\ place \notin Media /\ pc[c] \notin Media
  BY DEF Holding, Media, Up, Returned, Setup
<1>3. TasksFollow'
  BY <1>1, <1>2 DEF Sockets, TasksFollow
<1>4. SocketsOwned'
  BY <1>1, <1>2 DEF Sockets, TasksFollow, SocketsOwned
<1>5. ExclusivePairs'
  BY <1>1 DEF Sockets, ExclusivePairs
<1> QED
  BY <1>3, <1>4, <1>5 DEF Sockets

(* A media task that ends closes the RTP socket unless the other runs.     *)
LEMMA SocketsTaskEnds ==
  ASSUME Typed, Sockets, NEW c \in Calls,
         \/ recv[c] = "running" /\ RecvEnds(c)
         \/ send[c] = "running" /\ SendEnds(c)
  PROVE  Sockets'
<1>1. /\ UNCHANGED <<rtcp, pc>>
      /\ \A d \in Calls \ {c} : rtp'[d] = rtp[d] /\ recv'[d] = recv[d] /\ send'[d] = send[d]
      /\ recv'[c] # "off" /\ send'[c] # "off"
      /\ rtp'[c] = IF recv'[c] = "running" \/ send'[c] = "running" THEN rtp[c] ELSE NoPair
      /\ recv[c] # "off" /\ send[c] # "off" /\ pc[c] \in Media
      /\ recv[c] = "running" \/ send[c] = "running"
  BY DEF RecvEnds, SendEnds, LastTask, Sockets, TasksFollow, Typed
<1>2. pc[c] \notin Holding
  BY <1>1 DEF Media, Up, Holding
<1>3. TasksFollow'
  BY <1>1 DEF Sockets, TasksFollow
<1>4. SocketsOwned'
  BY <1>1, <1>2 DEF Sockets, SocketsOwned
<1>5. ExclusivePairs'
  BY <1>1, <1>2, <1>4 DEF Sockets, ExclusivePairs, SocketsOwned
<1> QED
  BY <1>3, <1>4, <1>5 DEF Sockets

(* Every step keeps the ownership of the sockets.                          *)
LEMMA SocketsStep == Typed /\ Channel /\ Sockets /\ [Next]_vars => Sockets'
<1> SUFFICES ASSUME Typed, Channel, Sockets, [Next]_vars
             PROVE  Sockets'
  OBVIOUS
<1>1. ASSUME NEW c \in Calls, \/ Invite(c) \/ DialogCalling(c) \/ PeerAck(c) \/ PeerEnds(c)
                              \/ OnTerminated(c)
      PROVE  Sockets'
  BY <1>1, SocketsUntouched
     DEF Invite, DialogCalling, PeerAck, PeerEnds, PeerGivesUp, PeerHangsUp, OnTerminated, media
<1>2. ASSUME NEW c \in Calls, OnCalling(c) PROVE Sockets'
  <2>1. pc[c] = "idle" /\ pc' = [pc EXCEPT ![c] = "parse"] /\ UNCHANGED <<ports, recv, send>>
    BY <1>2, ChannelOnCalling DEF OnCalling, media
  <2> QED
    BY <2>1, SocketsUntouched DEF Holding, Media, Up, Typed
<1>3. ASSUME NEW c \in Calls, RefuseOffer(c) PROVE Sockets'
  <2>1. /\ pc[c] = "parse" /\ UNCHANGED <<ports, recv, send>>
        /\ \E place \in {"rejected", "uncounted"} : Goto(c, place)
    BY <1>3 DEF RefuseOffer, media
  <2> QED
    BY <2>1, SocketsUntouched DEF Goto, Holding, Media, Up, Typed
<1>4. ASSUME NEW c \in Calls, Refuse(c) \/ AcceptFails(c) PROVE Sockets'
  <2>1. /\ pc[c] \in Setup /\ DropPair(c) /\ UNCHANGED <<recv, send>>
        /\ \E place \in Returned \ {"ended"} : Goto(c, place)
    BY <1>4 DEF Refuse, AcceptFails, Setup, Returned, media
  <2> QED
    BY <2>1, SocketsDropped
<1>5. ASSUME NEW c \in Calls, Parse(c) \/ Connect(c) \/ CreateSession(c) \/ Ring(c) \/ Accept(c)
      PROVE  Sockets'
  <2>1. /\ UNCHANGED <<ports, recv, send>>
        /\ pc[c] \notin Media
        /\ \E place \in Setup : /\ Goto(c, place)
                                /\ place \in Holding <=> pc[c] \in Holding
    BY <1>5 DEF Parse, Connect, CreateSession, Ring, Accept, Setup, Holding, Media, Up, media
  <2> QED
    BY <2>1, SocketsUntouched DEF Goto, Media, Up, Setup, Typed
<1>6. ASSUME NEW c \in Calls, Allocate(c) PROVE Sockets'
  <2>1. PICK p \in Pairs : Free(p) /\ BindPair(c, p)
    BY <1>6 DEF Allocate
  <2>2. /\ pc[c] = "allocate" /\ pc'[c] = "connect" /\ UNCHANGED <<recv, send>>
        /\ rtp'[c] = p /\ rtcp'[c] = p /\ p # NoPair
        /\ \A d \in Calls \ {c} : pc'[d] = pc[d] /\ rtp'[d] = rtp[d] /\ rtcp'[d] = rtcp[d]
        /\ \A d \in Calls : rtp[d] # p
    BY <1>6, <2>1, NoPairAssumption DEF Allocate, BindPair, Free, Goto, Typed, media
  <2>3. TasksFollow'
    BY <2>2 DEF Sockets, TasksFollow, Media, Up
  <2>4. SocketsOwned'
    BY <2>2 DEF Sockets, SocketsOwned, Holding
  <2>5. ExclusivePairs'
    BY <2>2 DEF Sockets, ExclusivePairs
  <2> QED
    BY <2>3, <2>4, <2>5 DEF Sockets
<1>7. ASSUME NEW c \in Calls, StartMedia(c) PROVE Sockets'
  <2>1. /\ pc[c] = "start" /\ pc'[c] = "spawn" /\ UNCHANGED rtp
        /\ rtcp'[c] = NoPair /\ recv'[c] = "running" /\ send'[c] = "running"
        /\ \A d \in Calls \ {c} : /\ pc'[d] = pc[d] /\ rtcp'[d] = rtcp[d]
                                  /\ recv'[d] = recv[d] /\ send'[d] = send[d]
    BY <1>7 DEF StartMedia, Goto, Typed
  <2>2. TasksFollow'
    BY <2>1 DEF Sockets, TasksFollow, Media, Up
  <2>3. SocketsOwned'
    BY <2>1 DEF Sockets, SocketsOwned, Holding
  <2>4. ExclusivePairs'
    BY <2>1 DEF Sockets, ExclusivePairs
  <2> QED
    BY <2>2, <2>3, <2>4 DEF Sockets
<1>8. ASSUME NEW c \in Calls, SpawnApp(c) \/ EndWait(c) \/ Bye(c) PROVE Sockets'
  <2>1. /\ UNCHANGED <<ports, recv, send>>
        /\ pc[c] \in Media
        /\ \E place \in Media : Goto(c, place)
    BY <1>8 DEF SpawnApp, EndWait, Bye, Media, Up, media
  <2> QED
    BY <2>1, SocketsUntouched DEF Goto, Holding, Media, Up, Typed
<1>9. ASSUME NEW c \in Calls, RecvTask(c) \/ SendTask(c) PROVE Sockets'
  <2>1. CASE RecvDeadline(c)
    BY <2>1, SocketsUntouched DEF RecvDeadline
  <2>2. CASE ~ RecvDeadline(c)
    BY <1>9, <2>2, SocketsTaskEnds
       DEF RecvTask, RecvCancelled, RecvBreaks, SendTask, SendCancelled, SendChannelClosed, SendBreaks
  <2> QED
    BY <2>1, <2>2
<1>10. ASSUME NEW c \in Calls, App(c) PROVE Sockets'
  BY <1>10, SocketsUntouched DEF App, AppReturns, AppAborted, AppHangsUp, AppStops, media
<1>11. CASE UNCHANGED vars
  BY <1>11, SocketsUntouched DEF vars, media
<1> QED
  BY <1>1, <1>2, <1>3, <1>4, <1>5, <1>6, <1>7, <1>8, <1>9, <1>10, <1>11
     DEF Next, StateLoop, Peer, CallStep, HandleCall, SetupStep

(* No socket is bound to begin with.                                       *)
LEMMA SocketsInit == Init => Sockets
BY DEF Init, Sockets, TasksFollow, SocketsOwned, ExclusivePairs, Holding, Media, Up

(* Sockets are neither leaked nor closed early: whichever way handle_call  *)
(* and the media tasks end, a call has its ports bound exactly while the   *)
(* handler holds the pair or one of the tasks runs.                        *)
THEOREM SpecSocketsOwned == Spec => []SocketsOwned
<1>1. Sockets => SocketsOwned
  BY DEF Sockets
<1> QED
  BY <1>1, ChannelInit, SocketsInit, TypedStep, ChannelStep, SocketsStep, PTL DEF Spec

(* Two calls never have the same pair of ports.                            *)
THEOREM SpecExclusivePairs == Spec => []ExclusivePairs
<1>1. Sockets => ExclusivePairs
  BY DEF Sockets
<1> QED
  BY <1>1, ChannelInit, SocketsInit, TypedStep, ChannelStep, SocketsStep, PTL DEF Spec

(* The RTP port of an answered call is closed by its receive task only, or *)
(* once the call's media is over.                                          *)
PortKept ==
  \A c \in Calls :
    dialog[c] \in Answered /\ ~ MediaOver(c) /\ recv[c] # "stopped"
      => rtp'[c] = rtp[c] \/ recv'[c] = "stopped"

(* No step of any call closes the port of an answered one.                 *)
LEMMA PortKeptStep == Typed /\ Sockets /\ Supervised /\ [Next]_vars => PortKept
<1> SUFFICES ASSUME Typed, Sockets, Supervised, [Next]_vars,
                    NEW c \in Calls,
                    dialog[c] \in Answered, ~ MediaOver(c), recv[c] # "stopped",
                    rtp'[c] # rtp[c]
             PROVE  recv'[c] = "stopped"
  BY DEF PortKept
<1>1. pc[c] \in {"start", "spawn", "wait"}
  BY DEF Supervised, AnsweredIsSupervised, MediaOver
<1>2. ASSUME NEW d \in Calls, Allocate(d) \/ Refuse(d) \/ AcceptFails(d) PROVE FALSE
  <2>1. pc[d] \in {"allocate", "connect", "codec", "accept"} /\ \E p : BindPair(d, p)
    BY <1>2 DEF Allocate, Refuse, AcceptFails, DropPair
  <2> QED
    BY <1>1, <2>1 DEF BindPair, Typed
<1>3. ASSUME NEW d \in Calls, RecvTask(d) PROVE recv'[c] = "stopped"
  BY <1>3 DEF RecvTask, RecvCancelled, RecvDeadline, RecvBreaks, RecvEnds, ports, Typed
<1>4. ASSUME NEW d \in Calls, SendTask(d) PROVE FALSE
  <2>1. send[d] = "running" /\ SendEnds(d)
    BY <1>4 DEF SendTask, SendCancelled, SendChannelClosed, SendBreaks
  <2>2. d = c /\ recv[d] # "running"
    BY <2>1 DEF SendEnds, LastTask, Typed
  <2>3. recv[c] = "off"
    BY <2>2 DEF Typed, TaskStates
  <2> QED
    BY <2>1, <2>2, <2>3 DEF Sockets, TasksFollow
<1>5. ASSUME NEW d \in Calls,
             \/ Peer(d) \/ DialogCalling(d) \/ App(d) \/ OnCalling(d) \/ OnTerminated(d)
      PROVE  FALSE
  BY <1>5 DEF Peer, PeerEnds, PeerGivesUp, PeerHangsUp, Invite, PeerAck, DialogCalling,
              App, AppReturns, AppAborted, AppHangsUp, AppStops, OnCalling, OnTerminated, ports
<1>6. ASSUME NEW d \in Calls,
             \/ Parse(d) \/ RefuseOffer(d) \/ Connect(d) \/ CreateSession(d) \/ Ring(d)
             \/ Accept(d) \/ StartMedia(d) \/ SpawnApp(d) \/ EndWait(d) \/ Bye(d)
      PROVE  FALSE
  BY <1>6 DEF Parse, RefuseOffer, Connect, CreateSession, Ring, Accept, StartMedia, SpawnApp,
              EndWait, Bye, ports
<1>7. CASE UNCHANGED vars
  BY <1>7 DEF vars, ports
<1> QED
  BY <1>2, <1>3, <1>4, <1>5, <1>6, <1>7
     DEF Next, StateLoop, CallStep, HandleCall, SetupStep

(* The port named in the answer stays bound to the call from 200 OK until  *)
(* the media session is cancelled or its receive task has ended: neither   *)
(* the send task, nor the application, nor another call can close it.      *)
THEOREM SpecAnsweredPortKept == Spec => AnsweredPortKept
<1>1. PortKept => [PortKept]_vars
  OBVIOUS
<1> QED
  BY <1>1, ChannelInit, SupervisedInit, SocketsInit, TypedStep, ChannelStep, SupervisedStep, SocketsStep,
     PortKeptStep, PTL DEF Spec, AnsweredPortKept, PortKept

----------------------------------------------------------------------------
(* Metrics *)

At(f, S) == {c \in Calls : f[c] \in S}

One(b) == IF b THEN 1 ELSE 0

(* How many calls are in some places, when one call moves.                 *)
LEMMA CountMove ==
  ASSUME Typed, NEW c \in Calls, NEW place, Goto(c, place), NEW S
  PROVE  /\ Cardinality(At(pc, S)) \in Nat
         /\ Cardinality(At(pc', S)) = Cardinality(At(pc, S)) + One(place \in S) - One(pc[c] \in S)
<1>1. IsFiniteSet(At(pc, S)) /\ Cardinality(At(pc, S)) \in Nat
  BY CallsAssumption, FS_Subset, FS_CardinalityType DEF At
<1>2. pc'[c] = place /\ \A d \in Calls \ {c} : pc'[d] = pc[d]
  BY DEF Goto, Typed
<1>3. CASE place \in S /\ pc[c] \notin S
  <2>1. At(pc', S) = At(pc, S) \cup {c} /\ c \notin At(pc, S)
    BY <1>2, <1>3 DEF At
  <2>2. Cardinality(At(pc', S)) = Cardinality(At(pc, S)) + 1
    BY <1>1, <2>1, FS_AddElement
  <2> QED
    BY <1>1, <1>3, <2>2 DEF One
<1>4. CASE place \notin S /\ pc[c] \in S
  <2>1. At(pc', S) = At(pc, S) \ {c} /\ c \in At(pc, S)
    BY <1>2, <1>4 DEF At
  <2>2. Cardinality(At(pc', S)) = Cardinality(At(pc, S)) - 1
    BY <1>1, <2>1, FS_RemoveElement
  <2> QED
    BY <1>1, <1>4, <2>2 DEF One
<1>5. CASE place \in S <=> pc[c] \in S
  <2>1. At(pc', S) = At(pc, S)
    BY <1>2, <1>5 DEF At
  <2> QED
    BY <1>1, <1>5, <2>1 DEF One
<1> QED
  BY <1>3, <1>4, <1>5

CountedAccepted == Up \cup {"ended"}
CountedRejected == {"rejected", "unreplied"}

(* The counters follow a move of one call.                                 *)
LEMMA AccountedMove ==
  ASSUME Typed, CallsAccounted, NEW c \in Calls, NEW place, Goto(c, place),
         active' = active + One(place \in Up) - One(pc[c] \in Up),
         accepted' = accepted + One(place \in CountedAccepted) - One(pc[c] \in CountedAccepted),
         rejected' = rejected + One(place \in CountedRejected) - One(pc[c] \in CountedRejected)
  PROVE  CallsAccounted'
<1>1. /\ active = Cardinality(At(pc, Up))
      /\ accepted = Cardinality(At(pc, CountedAccepted))
      /\ rejected = Cardinality(At(pc, CountedRejected))
  BY DEF CallsAccounted, At, CountedAccepted, CountedRejected
<1>2. /\ active' = Cardinality(At(pc', Up))
      /\ accepted' = Cardinality(At(pc', CountedAccepted))
      /\ rejected' = Cardinality(At(pc', CountedRejected))
  BY <1>1, CountMove
<1> QED
  BY <1>2 DEF CallsAccounted, At, CountedAccepted, CountedRejected

(* A step that neither moves a handler nor counts a call.                  *)
LEMMA AccountedUntouched ==
  ASSUME CallsAccounted, UNCHANGED <<pc, active, accepted, rejected>>
  PROVE  CallsAccounted'
BY DEF CallsAccounted

(* Every step keeps the gauge and the counters right.                      *)
LEMMA AccountedStep == Typed /\ Channel /\ CallsAccounted /\ [Next]_vars => CallsAccounted'
<1> SUFFICES ASSUME Typed, Channel, CallsAccounted, [Next]_vars
             PROVE  CallsAccounted'
  OBVIOUS
<1>0. active \in Int /\ accepted \in Nat /\ rejected \in Nat
  BY DEF Typed
<1>1. ASSUME NEW c \in Calls, \/ Invite(c) \/ DialogCalling(c) \/ PeerAck(c) \/ PeerEnds(c)
                              \/ OnTerminated(c)
      PROVE  CallsAccounted'
  BY <1>1, AccountedUntouched
     DEF Invite, DialogCalling, PeerAck, PeerEnds, PeerGivesUp, PeerHangsUp, OnTerminated, stats
<1>2. ASSUME NEW c \in Calls, OnCalling(c) PROVE CallsAccounted'
  <2>1. pc[c] = "idle" /\ Goto(c, "parse") /\ UNCHANGED <<active, accepted, rejected>>
    BY <1>2, ChannelOnCalling DEF OnCalling, Goto, stats
  <2> QED
    BY <1>0, <2>1, AccountedMove DEF One, Up, CountedAccepted, CountedRejected
<1>3. ASSUME NEW c \in Calls, RefuseOffer(c) \/ Refuse(c) PROVE CallsAccounted'
  <2>1. /\ pc[c] \in {"parse", "allocate", "connect", "codec"} /\ UNCHANGED <<active, accepted>>
        /\ \E place \in CountedRejected \cup {"uncounted"} :
             Goto(c, place) /\ rejected' = rejected + One(place \in CountedRejected)
    BY <1>0, <1>3 DEF RefuseOffer, Refuse, CountedRejected, One
  <2> QED
    BY <1>0, <2>1, AccountedMove DEF One, Up, CountedAccepted, CountedRejected
<1>4. ASSUME NEW c \in Calls, \/ Parse(c) \/ Allocate(c) \/ Connect(c) \/ CreateSession(c)
                              \/ Ring(c) \/ Accept(c) \/ AcceptFails(c)
      PROVE  CallsAccounted'
  <2>1. /\ pc[c] \in Setup /\ UNCHANGED <<active, accepted, rejected>>
        /\ \E place \in Setup \cup {"unaccepted"} : Goto(c, place)
    BY <1>4 DEF Parse, Allocate, Connect, CreateSession, Ring, Accept, AcceptFails, Setup, stats
  <2> QED
    BY <1>0, <2>1, AccountedMove DEF One, Setup, Up, CountedAccepted, CountedRejected
<1>5. ASSUME NEW c \in Calls, StartMedia(c) PROVE CallsAccounted'
  BY <1>0, <1>5, AccountedMove DEF StartMedia, One, Up, CountedAccepted, CountedRejected
<1>6. ASSUME NEW c \in Calls, SpawnApp(c) \/ EndWait(c) PROVE CallsAccounted'
  <2>1. /\ pc[c] \in Up /\ UNCHANGED <<active, accepted, rejected>>
        /\ \E place \in Up : Goto(c, place)
    BY <1>6 DEF SpawnApp, EndWait, Up, stats
  <2> QED
    BY <1>0, <2>1, AccountedMove DEF One, Up, CountedAccepted, CountedRejected
<1>7. ASSUME NEW c \in Calls, Bye(c) PROVE CallsAccounted'
  BY <1>0, <1>7, AccountedMove DEF Bye, One, Up, CountedAccepted, CountedRejected
<1>8. ASSUME NEW c \in Calls, RecvTask(c) \/ SendTask(c) \/ App(c) PROVE CallsAccounted'
  <2>1. UNCHANGED <<pc, active, accepted, rejected>>
    BY <1>8 DEF RecvTask, RecvCancelled, RecvDeadline, RecvBreaks, RecvEnds,
                SendTask, SendCancelled, SendChannelClosed, SendBreaks, SendEnds,
                App, AppReturns, AppAborted, AppHangsUp, AppStops, stats
  <2> QED
    BY <2>1, AccountedUntouched
<1>9. CASE UNCHANGED vars
  BY <1>9, AccountedUntouched DEF vars, stats
<1> QED
  BY <1>1, <1>2, <1>3, <1>4, <1>5, <1>6, <1>7, <1>8, <1>9
     DEF Next, StateLoop, Peer, CallStep, HandleCall, SetupStep

(* Nothing is counted to begin with.                                       *)
LEMMA AccountedInit == Init => CallsAccounted
<1> SUFFICES ASSUME Init PROVE CallsAccounted
  OBVIOUS
<1>1. \A c \in Calls : pc[c] = "idle"
  BY DEF Init
<1>2. /\ {c \in Calls : pc[c] \in Up} = {}
      /\ {c \in Calls : pc[c] \in Up \cup {"ended"}} = {}
      /\ {c \in Calls : pc[c] \in {"rejected", "unreplied"}} = {}
  BY <1>1 DEF Up
<1> QED
  BY <1>2, FS_EmptySet DEF Init, CallsAccounted

(* The gauge counts the calls being served and comes back down for each,   *)
(* and a call is counted at most once as accepted or rejected.             *)
THEOREM SpecCallsAccounted == Spec => []CallsAccounted
BY ChannelInit, AccountedInit, TypedStep, ChannelStep, AccountedStep, PTL DEF Spec

(* Every variable keeps its type; in particular the gauge of active calls  *)
(* never goes below zero.                                                  *)
THEOREM SpecTypeOK == Spec => []TypeOK
<1>1. ASSUME Typed, CallsAccounted PROVE TypeOK
  <2>1. active = Cardinality(At(pc, Up))
    BY <1>1 DEF CallsAccounted, At
  <2>2. Cardinality(At(pc, Up)) \in Nat
    BY CallsAssumption, FS_Subset, FS_CardinalityType DEF At
  <2> QED
    BY <1>1, <2>1, <2>2 DEF Typed, TypeOK
<1> QED
  BY <1>1, ChannelInit, AccountedInit, TypedStep, ChannelStep, AccountedStep, PTL DEF Spec

(* The dialogs whose end has been taken from the channel.                  *)
Gone(d, l) == {c \in Calls : d[c] = "terminated" /\ c \notin l}

TerminationsCounted == terminated = Cardinality(Gone(dialog, layer))

(* A step that takes no Terminated state.                                  *)
LEMMA GoneUntouched ==
  ASSUME TerminationsCounted, UNCHANGED terminated,
         \A c \in Calls : (dialog'[c] = "terminated" /\ c \notin layer')
                            <=> (dialog[c] = "terminated" /\ c \notin layer)
  PROVE  TerminationsCounted'
BY DEF TerminationsCounted, Gone

(* The end of a dialog leaves the layer, and so the count, alone.          *)
LEMMA GoneEndDialog ==
  ASSUME Typed, Channel, TerminationsCounted, UNCHANGED <<layer, terminated>>,
         NEW c \in Calls, dialog[c] \notin Unannounced,
         EndDialog(c) \/ UNCHANGED <<dialog, events>>
  PROVE  TerminationsCounted'
BY GoneUntouched DEF EndDialog, SetDialog, Channel, InLayer, Unannounced, Typed

(* Every step keeps the count of the terminated calls.                     *)
LEMMA TerminationsStep ==
  Typed /\ Channel /\ TerminationsCounted /\ [Next]_vars => TerminationsCounted'
<1> SUFFICES ASSUME Typed, Channel, TerminationsCounted, [Next]_vars
             PROVE  TerminationsCounted'
  OBVIOUS
<1>1. ASSUME NEW c \in Calls, Invite(c) \/ DialogCalling(c) \/ PeerAck(c) PROVE TerminationsCounted'
  BY <1>1, GoneUntouched DEF Invite, DialogCalling, PeerAck, SetDialog, stats, Typed
<1>2. ASSUME NEW c \in Calls, PeerEnds(c) PROVE TerminationsCounted'
  BY <1>2, GoneEndDialog DEF PeerEnds, PeerGivesUp, PeerHangsUp, Answered, Unannounced, stats
<1>3. ASSUME NEW c \in Calls, OnCalling(c) PROVE TerminationsCounted'
  BY <1>3, GoneUntouched DEF OnCalling, stats
<1>4. ASSUME NEW c \in Calls, OnTerminated(c) PROVE TerminationsCounted'
  <2>1. /\ c \in layer /\ dialog[c] = "terminated" /\ layer' = layer \ {c}
        /\ UNCHANGED dialog /\ terminated' = terminated + 1
    BY <1>4, ChannelOnTerminated DEF OnTerminated
  <2>2. Gone(dialog', layer') = Gone(dialog, layer) \cup {c} /\ c \notin Gone(dialog, layer)
    BY <2>1 DEF Gone
  <2>3. IsFiniteSet(Gone(dialog, layer))
    BY CallsAssumption, FS_Subset DEF Gone
  <2> QED
    BY <2>1, <2>2, <2>3, FS_AddElement DEF TerminationsCounted
<1>5. ASSUME NEW c \in Calls, RefuseOffer(c) \/ Refuse(c) \/ Bye(c) PROVE TerminationsCounted'
  <2>1. /\ pc[c] # "idle" /\ UNCHANGED <<layer, terminated>>
        /\ EndDialog(c) \/ UNCHANGED <<dialog, events>>
    BY <1>5 DEF RefuseOffer, Refuse, Bye
  <2> QED
    BY <2>1, StartedIsAnnounced, GoneEndDialog
<1>6. ASSUME NEW c \in Calls, Ring(c) \/ Accept(c) PROVE TerminationsCounted'
  BY <1>6, GoneUntouched DEF Ring, Accept, SetDialog, stats, Typed
<1>7. ASSUME NEW c \in Calls,
             \/ Parse(c) \/ Allocate(c) \/ Connect(c) \/ CreateSession(c) \/ AcceptFails(c)
             \/ StartMedia(c) \/ SpawnApp(c) \/ EndWait(c) \/ RecvTask(c) \/ SendTask(c) \/ App(c)
      PROVE  TerminationsCounted'
  <2>1. UNCHANGED <<dialog, layer, terminated>>
    BY <1>7 DEF Parse, Allocate, Connect, CreateSession, AcceptFails, StartMedia, SpawnApp, EndWait,
                RecvTask, RecvCancelled, RecvDeadline, RecvBreaks, RecvEnds,
                SendTask, SendCancelled, SendChannelClosed, SendBreaks, SendEnds,
                App, AppReturns, AppAborted, AppHangsUp, AppStops, sip, stats
  <2> QED
    BY <2>1, GoneUntouched
<1>8. CASE UNCHANGED vars
  BY <1>8, GoneUntouched DEF vars, sip, stats
<1> QED
  BY <1>1, <1>2, <1>3, <1>4, <1>5, <1>6, <1>7, <1>8
     DEF Next, StateLoop, Peer, CallStep, HandleCall, SetupStep

(* In the layer are the dialogs whose end has not been taken yet.          *)
LEMMA CountedOnce == Typed /\ Channel /\ TerminationsCounted => TerminationsCountedOnce
<1> SUFFICES ASSUME Typed, Channel, TerminationsCounted PROVE TerminationsCountedOnce
  OBVIOUS
<1> DEFINE waits(c) == \E i \in DOMAIN events : events[i] = [kind |-> "Terminated", call |-> c]
<1>1. ASSUME NEW c \in layer
      PROVE  c \in Calls /\ dialog[c] # "none" /\ (dialog[c] = "terminated" => waits(c))
  BY <1>1 DEF Typed, Channel, InLayer, EndWaits
<1>2. ASSUME NEW c \in Calls, dialog[c] # "none", dialog[c] = "terminated" => waits(c)
      PROVE  c \in layer
  <2>1. CASE dialog[c] = "terminated"
    <3>1. PICK i \in DOMAIN events : events[i] = [kind |-> "Terminated", call |-> c]
      BY <1>2, <2>1
    <3> QED
      BY <3>1 DEF Channel, Waiting
  <2>2. CASE dialog[c] # "terminated"
    BY <1>2, <2>2 DEF Channel, InLayer
  <2> QED
    BY <2>1, <2>2
<1>3. layer = {c \in Calls : dialog[c] # "none" /\ (dialog[c] = "terminated" => waits(c))}
  BY <1>1, <1>2
<1>4. /\ Cardinality(Gone(dialog, layer) \cap Admitted) <= Cardinality(Gone(dialog, layer))
      /\ Cardinality(Gone(dialog, layer)) \in Nat
  <2>1. IsFiniteSet(Gone(dialog, layer))
    BY CallsAssumption, FS_Subset DEF Gone
  <2> QED
    BY <2>1, FS_Subset, FS_CardinalityType
<1>5. /\ Cardinality(Gone(dialog, layer) \cap Admitted) <= terminated
      /\ terminated <= Cardinality(Gone(dialog, layer))
  BY <1>4 DEF TerminationsCounted
<1> QED
  BY <1>3, <1>5 DEF TerminationsCountedOnce, Gone

(* A dialog stays in the layer until its Terminated state is taken from    *)
(* the channel, whoever ended it (reject, bye, peer) and in whatever       *)
(* order; then an accepted call is counted, and no end twice.              *)
THEOREM SpecTerminationsCountedOnce == Spec => []TerminationsCountedOnce
<1>1. Init => TerminationsCounted
  <2> SUFFICES ASSUME Init PROVE TerminationsCounted
    OBVIOUS
  <2>1. Gone(dialog, layer) = {}
    BY DEF Init, Gone
  <2> QED
    BY <2>1, FS_EmptySet DEF Init, TerminationsCounted
<1> QED
  BY <1>1, CountedOnce, ChannelInit, TypedStep, ChannelStep, TerminationsStep, PTL DEF Spec

----------------------------------------------------------------------------
(* The end of a call *)

Action(c) == Peer(c) \/ OnCalling(c) \/ OnTerminated(c) \/ CallStep(c)

(* Calls share the state channel, the ports and the counters, but no step  *)
(* of one call touches another.                                            *)
LEMMA OthersKeepCall ==
  ASSUME Typed, NEW c \in Calls, NEW d \in Calls, c # d, Action(d)
  PROVE  /\ dialog'[c] = dialog[c] /\ pc'[c] = pc[c] /\ app'[c] = app[c]
         /\ rtp'[c] = rtp[c] /\ rtcp'[c] = rtcp[c]
         /\ c \in layer' <=> c \in layer
<1> USE DEF Typed, Goto, SetDialog, EndDialog, sip, ports, media
<1>1. CASE Peer(d) \/ DialogCalling(d)
  BY <1>1 DEF Peer, Invite, PeerAck, PeerEnds, PeerGivesUp, PeerHangsUp, DialogCalling
<1>2. CASE OnCalling(d) \/ OnTerminated(d)
  BY <1>2 DEF OnCalling, OnTerminated, Remove
<1>3. CASE Parse(d) \/ Allocate(d) \/ Connect(d) \/ CreateSession(d)
  BY <1>3 DEF Parse, Allocate, Connect, CreateSession, BindPair
<1>4. CASE RefuseOffer(d) \/ Refuse(d) \/ AcceptFails(d)
  BY <1>4 DEF RefuseOffer, Refuse, AcceptFails, DropPair, BindPair
<1>5. CASE Ring(d) \/ Accept(d) \/ StartMedia(d)
  BY <1>5 DEF Ring, Accept, StartMedia
<1>6. CASE SpawnApp(d) \/ EndWait(d) \/ Bye(d)
  BY <1>6 DEF SpawnApp, EndWait, Bye
<1>7. CASE RecvTask(d) \/ SendTask(d)
  BY <1>7 DEF RecvTask, RecvCancelled, RecvDeadline, RecvBreaks, RecvEnds,
              SendTask, SendCancelled, SendChannelClosed, SendBreaks, SendEnds
<1>8. CASE App(d)
  BY <1>8 DEF App, AppReturns, AppAborted, AppHangsUp, AppStops
<1> QED
  BY <1>1, <1>2, <1>3, <1>4, <1>5, <1>6, <1>7, <1>8
     DEF Action, CallStep, HandleCall, SetupStep

(* Of a call that has ended and was released nothing goes on: no message   *)
(* of the peer, no state of its dialog and no task.                        *)
LEMMA ReleasedRests ==
  ASSUME Typed, Channel, Sockets, NEW c \in Calls, dialog[c] = "terminated", Released(c)
  PROVE  ~ Action(c)
<1>1. pc[c] \notin Setup \cup Up \cup {"idle"} /\ c \notin layer
  BY DEF Released, Returned, Setup, Up
<1>2. recv[c] # "running" /\ send[c] # "running" /\ app[c] \notin {"running", "aborting"}
  BY DEF Released, Sockets, SocketsOwned
<1>3. ~ (Peer(c) \/ DialogCalling(c))
  BY DEF Peer, Invite, PeerAck, PeerEnds, PeerGivesUp, PeerHangsUp, DialogCalling, Answered
<1>4. ~ OnCalling(c)
  BY <1>1, ChannelOnCalling
<1>5. ~ OnTerminated(c)
  <2> SUFFICES ASSUME OnTerminated(c) PROVE FALSE
    OBVIOUS
  <2>1. 1 \in DOMAIN events /\ events[1].call = c
    BY EventsTyped DEF OnTerminated, TakeEvent, Typed
  <2> QED
    BY <1>1, <2>1 DEF Channel, Waiting
<1>6. ~ HandleCall(c)
  BY <1>1 DEF HandleCall, SetupStep, Parse, RefuseOffer, Allocate, Connect, CreateSession, Refuse,
              Ring, Accept, AcceptFails, StartMedia, SpawnApp, EndWait, Bye, Setup, Up
<1>7. ~ (RecvTask(c) \/ SendTask(c) \/ App(c))
  BY <1>2 DEF RecvTask, RecvCancelled, RecvDeadline, RecvBreaks,
              SendTask, SendCancelled, SendChannelClosed, SendBreaks,
              App, AppReturns, AppAborted, AppHangsUp
<1> QED
  BY <1>3, <1>4, <1>5, <1>6, <1>7 DEF Action, CallStep

(* What was released stays so.                                             *)
StaysReleased ==
  \A c \in Calls : dialog[c] = "terminated" /\ Released(c)
                     => dialog'[c] = "terminated" /\ Released(c)'

(* Of the call itself no step is left, and the others keep off.            *)
LEMMA StaysReleasedStep == Typed /\ Channel /\ Sockets /\ [Next]_vars => StaysReleased
<1> SUFFICES ASSUME Typed, Channel, Sockets, [Next]_vars,
                    NEW c \in Calls, dialog[c] = "terminated", Released(c)
             PROVE  dialog'[c] = "terminated" /\ Released(c)'
  BY DEF StaysReleased
<1>1. ASSUME NEW d \in Calls, Action(d)
      PROVE  dialog'[c] = "terminated" /\ Released(c)'
  BY <1>1, OthersKeepCall, ReleasedRests DEF Released
<1>2. CASE UNCHANGED vars
  BY <1>2 DEF vars, sip, ports, Released
<1> QED
  BY <1>1, <1>2 DEF Next, StateLoop, Action

(* The release of a call is final: once its dialog has ended, it has left  *)
(* the layer, its handler has returned, its sockets are closed and the     *)
(* application's task is gone, no late message, dialog state or timeout    *)
(* brings any of it back. That it comes to this is TerminatedIsReleased.   *)
THEOREM SpecStaysReleased == Spec => [][StaysReleased]_vars
<1>1. StaysReleased => [StaysReleased]_vars
  OBVIOUS
<1> QED
  BY <1>1, ChannelInit, SocketsInit, TypedStep, ChannelStep, SocketsStep, StaysReleasedStep,
     PTL DEF Spec

----------------------------------------------------------------------------
(* CallHandler implements CallSpec: every step is a step of CallSpec or    *)
(* changes nothing there. CallSpec's fairness is for the model checker.    *)

PhaseOf(place) == CASE place = "idle" -> "idle"
                    [] place \in Setup -> "setup"
                    [] place \in Up -> "up"
                    [] OTHER -> "over"

(* The phases, place by place.                                             *)
LEMMA Phases ==
  /\ phase = [c \in Calls |-> PhaseOf(pc[c])]
  /\ PhaseOf("idle") = "idle"
  /\ \A place \in Setup : PhaseOf(place) = "setup"
  /\ \A place \in Up : PhaseOf(place) = "up"
  /\ \A place \in Returned : PhaseOf(place) = "over"
BY DEF phase, PhaseOf, Setup, Up, Returned

(* A handler that moves takes its call from one phase to another ...       *)
LEMMA PhaseMoves ==
  ASSUME Typed, NEW c \in Calls, NEW place, Goto(c, place)
  PROVE  Abstract!Move(c, PhaseOf(pc[c]), PhaseOf(place))
<1>1. /\ pc'[c] = place
      /\ \A d \in Calls \ {c} : pc'[d] = pc[d]
  BY DEF Goto, Typed
<1>2. phase = [d \in Calls |-> PhaseOf(pc[d])] /\ phase' = [d \in Calls |-> PhaseOf(pc'[d])]
  BY DEF phase, PhaseOf
<1>3. phase' = [phase EXCEPT ![c] = PhaseOf(place)]
  BY <1>1, <1>2
<1> QED
  BY <1>2, <1>3 DEF Abstract!Move

(* ... or stays in its phase.                                              *)
LEMMA PhaseStays ==
  ASSUME Typed, NEW c \in Calls, NEW place, Goto(c, place), PhaseOf(place) = PhaseOf(pc[c])
  PROVE  UNCHANGED phase
<1>1. \A d \in Calls : PhaseOf(pc'[d]) = PhaseOf(pc[d])
  BY DEF Goto, Typed
<1> QED
  BY <1>1 DEF phase, PhaseOf

(* Without a step of the handlers and of the RTP ports nothing happens.    *)
LEMMA NothingHappens ==
  ASSUME UNCHANGED <<pc, rtp>>
  PROVE  UNCHANGED Abstract!vars
BY DEF Abstract!vars, phase

(* A setup that fails is refused, and gives back the pair it may have.     *)
LEMMA SetupFails ==
  ASSUME Typed, NEW c \in Calls, pc[c] \in Setup, NEW place \in Returned, Goto(c, place),
         rtp' = [rtp EXCEPT ![c] = NoPair]
  PROVE  Abstract!Refuse(c)
<1>1. Abstract!Move(c, "setup", "over")
  BY PhaseMoves, Phases
<1> QED
  BY <1>1 DEF Abstract!Refuse, Abstract!HangLine

(* A media task that ends loses the line if it is the last.                *)
LEMMA TaskEnds ==
  ASSUME Typed, Sockets, NEW c \in Calls, pc[c] \in Media, UNCHANGED pc,
         rtp' = rtp \/ rtp' = [rtp EXCEPT ![c] = NoPair]
  PROVE  [Abstract!Next]_(Abstract!vars)
<1>1. CASE rtp' = rtp
  BY <1>1, NothingHappens
<1>2. CASE rtp' = [rtp EXCEPT ![c] = NoPair] /\ rtp[c] # NoPair
  <2>1. phase[c] \in {"up", "over"} /\ UNCHANGED phase
    BY Phases DEF Media, Returned, phase
  <2>2. Abstract!LoseLine(c)
    BY <1>2, <2>1 DEF Abstract!LoseLine, Abstract!HangLine
  <2> QED
    BY <2>2 DEF Abstract!Next
<1>3. CASE rtp' = [rtp EXCEPT ![c] = NoPair] /\ rtp[c] = NoPair
  <2>1. rtp' = rtp
    BY <1>3 DEF Typed
  <2> QED
    BY <2>1, NothingHappens
<1> QED
  BY <1>1, <1>2, <1>3

(* Every step of the calls is a step of the exchange, or none.             *)
LEMMA RefinementStep ==
  Typed /\ Channel /\ Sockets /\ [Next]_vars => [Abstract!Next]_(Abstract!vars)
<1> SUFFICES ASSUME Typed, Channel, Sockets, [Next]_vars
             PROVE  [Abstract!Next]_(Abstract!vars)
  OBVIOUS
<1>1. ASSUME NEW c \in Calls,
             \/ Peer(c) \/ DialogCalling(c) \/ OnTerminated(c) \/ App(c) \/ RecvDeadline(c)
      PROVE  [Abstract!Next]_(Abstract!vars)
  <2>1. UNCHANGED <<pc, rtp>>
    BY <1>1 DEF Peer, PeerEnds, PeerGivesUp, PeerHangsUp, Invite, PeerAck, DialogCalling,
                OnTerminated, App, AppReturns, AppAborted, AppHangsUp, AppStops, RecvDeadline, ports
  <2> QED
    BY <2>1, NothingHappens
<1>2. ASSUME NEW c \in Calls, OnCalling(c) PROVE [Abstract!Next]_(Abstract!vars)
  <2>1. pc[c] = "idle" /\ Goto(c, "parse") /\ UNCHANGED rtp
    BY <1>2, ChannelOnCalling DEF OnCalling, Goto, ports
  <2>2. Abstract!Move(c, "idle", "setup")
    BY <2>1, PhaseMoves, Phases DEF Setup
  <2>3. Abstract!Offer(c)
    BY <2>1, <2>2 DEF Abstract!Offer
  <2> QED
    BY <2>3 DEF Abstract!Next
<1>3. ASSUME NEW c \in Calls,
             \/ Parse(c) \/ Connect(c) \/ CreateSession(c) \/ Ring(c) \/ Accept(c)
             \/ SpawnApp(c) \/ EndWait(c)
      PROVE  [Abstract!Next]_(Abstract!vars)
  <2>1. /\ UNCHANGED rtp
        /\ \/ pc[c] \in Setup /\ \E place \in Setup : Goto(c, place)
           \/ pc[c] \in Up /\ \E place \in Up : Goto(c, place)
    BY <1>3 DEF Parse, Connect, CreateSession, Ring, Accept, SpawnApp, EndWait, Setup, Up, ports
  <2>2. UNCHANGED phase
    BY <2>1, PhaseStays, Phases
  <2> QED
    BY <2>1, <2>2 DEF Abstract!vars
<1>4. ASSUME NEW c \in Calls, RefuseOffer(c) \/ Refuse(c) \/ AcceptFails(c)
      PROVE  [Abstract!Next]_(Abstract!vars)
  <2>1. pc[c] \in Setup /\ \E place \in Returned : Goto(c, place)
    BY <1>4 DEF RefuseOffer, Refuse, AcceptFails, Setup, Returned
  <2>2. rtp' = [rtp EXCEPT ![c] = NoPair]
    <3>1. CASE RefuseOffer(c)
      <4>1. pc[c] = "parse" /\ rtp' = rtp
        BY <3>1 DEF RefuseOffer, ports
      <4>2. rtp[c] = NoPair
        BY <4>1 DEF Sockets, TasksFollow, SocketsOwned, Holding, Media, Up
      <4> QED
        BY <4>1, <4>2 DEF Typed
    <3>2. CASE Refuse(c) \/ AcceptFails(c)
      BY <3>2 DEF Refuse, AcceptFails, DropPair, BindPair
    <3> QED
      BY <1>4, <3>1, <3>2
  <2> QED
    BY <2>1, <2>2, SetupFails DEF Abstract!Next
<1>5. ASSUME NEW c \in Calls, Allocate(c) PROVE [Abstract!Next]_(Abstract!vars)
  <2>1. pc[c] = "allocate" /\ Goto(c, "connect")
    BY <1>5 DEF Allocate
  <2>2. phase[c] = "setup" /\ UNCHANGED phase
    BY <2>1, PhaseStays, Phases DEF Setup
  <2>3. rtp[c] = NoPair
    BY <2>1 DEF Sockets, TasksFollow, SocketsOwned, Holding, Media, Up
  <2>4. \E p \in Pairs : (\A d \in Calls : rtp[d] # p) /\ rtp' = [rtp EXCEPT ![c] = p]
    BY <1>5 DEF Allocate, Free, BindPair
  <2>5. Abstract!Seize(c)
    BY <2>2, <2>3, <2>4 DEF Abstract!Seize
  <2> QED
    BY <2>5 DEF Abstract!Next
<1>6. ASSUME NEW c \in Calls, StartMedia(c) PROVE [Abstract!Next]_(Abstract!vars)
  <2>1. pc[c] = "start" /\ Goto(c, "spawn") /\ UNCHANGED rtp
    BY <1>6 DEF StartMedia
  <2>2. Abstract!Move(c, "setup", "up")
    BY <2>1, PhaseMoves, Phases DEF Setup, Up
  <2>3. rtp[c] # NoPair
    BY <2>1 DEF Sockets, SocketsOwned, Holding
  <2>4. Abstract!ComeUp(c)
    BY <2>1, <2>2, <2>3 DEF Abstract!ComeUp
  <2> QED
    BY <2>4 DEF Abstract!Next
<1>7. ASSUME NEW c \in Calls, Bye(c) PROVE [Abstract!Next]_(Abstract!vars)
  <2>1. pc[c] = "bye" /\ Goto(c, "ended") /\ UNCHANGED rtp
    BY <1>7 DEF Bye, ports
  <2>2. Abstract!Move(c, "up", "over")
    BY <2>1, PhaseMoves, Phases DEF Up, Returned
  <2>3. Abstract!End(c)
    BY <2>1, <2>2 DEF Abstract!End
  <2> QED
    BY <2>3 DEF Abstract!Next
<1>8. ASSUME NEW c \in Calls, RecvTask(c) \/ SendTask(c), ~ RecvDeadline(c)
      PROVE  [Abstract!Next]_(Abstract!vars)
  <2>1. /\ recv[c] = "running" \/ send[c] = "running"
        /\ RecvEnds(c) \/ SendEnds(c)
    BY <1>8 DEF RecvTask, RecvCancelled, RecvBreaks, SendTask, SendCancelled, SendChannelClosed, SendBreaks
  <2>2. pc[c] \in Media
    BY <2>1 DEF Sockets, TasksFollow
  <2>3. UNCHANGED pc /\ (rtp' = rtp \/ rtp' = [rtp EXCEPT ![c] = NoPair])
    BY <2>1 DEF RecvEnds, SendEnds, Typed
  <2> QED
    BY <2>2, <2>3, TaskEnds
<1>9. CASE UNCHANGED vars
  BY <1>9, NothingHappens DEF vars, ports
<1> QED
  BY <1>1, <1>2, <1>3, <1>4, <1>5, <1>6, <1>7, <1>8, <1>9
     DEF Next, StateLoop, CallStep, HandleCall, SetupStep

(* To begin with every call is idle and has no line.                       *)
LEMMA RefinementInit == Init => Abstract!Init
<1> SUFFICES ASSUME Init PROVE Abstract!Init
  OBVIOUS
<1>1. pc = [c \in Calls |-> "idle"] /\ rtp = [c \in Calls |-> NoPair]
  BY DEF Init
<1>2. phase = [c \in Calls |-> "idle"]
  BY <1>1, Phases
<1> QED
  BY <1>1, <1>2 DEF Abstract!Init

(* handle_call with its tasks, the state loop and the peers implements the *)
(* telephone exchange of CallSpec: a call comes up only with a pair of its *)
(* own, loses it only when its media ends, and is set up and over once.    *)
THEOREM SpecImplementsCallSpec == Spec => Abstract!Safe
BY ChannelInit, SocketsInit, RefinementInit, TypedStep, ChannelStep, SocketsStep, RefinementStep,
   PTL DEF Spec, Abstract!Safe
============================================================================
