# Verification of rsipstack-server

TLA+ specifications of `rsipstack-server`, a library that answers SIP calls,
negotiates a codec, exchanges RTP audio with the peer and hands the audio to an
application. The specifications are model-checked with TLC on small instances;
theorems about the core are proved with TLAPS for every instance. All paths
below are relative to the repository (`src/server.rs` and so on).

    tlc -config CallHandler.cfg MCCallHandler     # a run of the table below
    tlapm CallHandler_proofs.tla                  # the proofs

## 1. The system

### Components

| Component | Source | State | Operations |
|---|---|---|---|
| **Server** `SipServer::run` | `server.rs` | cancel token, drain token, `respond_to_options`, dialog layer | request loop, state loop, drain monitor, select of the three |
| **Drain token** | `drain.rs` | a cancellation token | `start_drain`, `drain_triggered` |
| **Call handler** `CallHandler::handle_call` | `call_handler.rs` | one task per call: where it is, the sockets it holds, the gauge guard | parse, allocate, connect, create session, ring, accept, start media, spawn handler, wait, BYE |
| **Media session** | `media/session.rs`, `media/deadline.rs` | a socket shared by two tasks, a child token, the deadline, two audio channels, RTP send counters | receive task, send task |
| **RTP port pool** | `media/rtp.rs` | an atomic cursor over a port range | `next_port_pair`, `RtpSocketPair::new`, `try_allocate_socket_pair` |
| **SDP negotiation** | `media/sdp.rs`, `codec/mod.rs` | none | `parse_sdp_offer`, `select_preferred`, `generate_sdp_answer` |
| **Metrics** | `metrics.rs` | counters, the active-calls gauge, the last tick of the timing metric | increments, `ScopedGauge` and its drop, `ensure_initialized`, `TimingDeviationMetric::record` |
| **Codecs** | `codec/*.rs` | decode tables of G.711, resamplers of Opus | encode, decode, `rtp_timestamp_increment` |
| **Application** | `audio/handler.rs` (trait), `examples/echo_server.rs` | the audio handler's task | receives and sends frames, may cancel the call |
| **SIP stack** (external `rsipstack`) | used from `server.rs`, `call_handler.rs` | dialogs, dialog layer, transactions | one state channel for all dialogs, one cancel token per dialog |

### How they interact

1. The **request loop** takes a transaction from the endpoint. An INVITE
   creates a dialog in the *dialog layer*, and a spawned task handles the
   dialog's transaction. That task sends the state `Calling` into the *state
   channel*: one unbounded channel for all calls.
2. The **state loop** takes one state at a time. On `Calling` it looks the
   dialog up in the layer and spawns `handle_call`; on `Terminated` it counts
   the termination and removes the dialog from the layer, *which cancels the
   dialog's token*.
3. **`handle_call`** parses the offer, draws and binds a port pair from the
   **pool**, connects the sockets, creates the **media session** with a *child*
   of the dialog's token, sends 180 and 200, starts the session's two tasks and
   the application's task, and waits for the dialog's token. Then it aborts the
   application's task and sends BYE. Returning drops sockets and gauge guard.
4. The **receive task** and the **send task** share the RTP socket and talk to
   the application through two unbounded channels. The receive task owns the
   deadline, which cancels the child token after `media_receive_timeout`.
5. The **drain monitor** waits for the drain token, stops the answering of
   OPTIONS, and polls the dialog layer; once it is empty it cancels the server.
   `run()` returns when the endpoint or one of the two loops ends.

### What is hard

* **Interleaving**: for each call the peer, the state loop, the handler, two
  media tasks and the application run concurrently, and each may end the call.
* **Stale state**: a `Calling` state is taken long after it was sent; the
  OPTIONS flag and the drain check are read before something else changes.
* **Partial failure**: the setup may fail at five points, replies may fail, one
  of the two media tasks may fail alone, one of the two binds may fail.
* **Shared resources**: the pool is drawn from without locks, an RTP socket is
  owned by two tasks, a pair's two ports are given back at different times.
* **Timeouts**: the deadline races with packets, garbage and cancellation.
* **Limits**: 16-bit port arithmetic, wrapping RTP counters, an exhausted pool,
  16-bit samples at the edges of companding segments.
* **Shared by the process**: the metrics outlive a server and serve several; a
  `Once` is all that keeps the next server from resetting them.

`PROJECT.json` lists every hazard at its line with the properties that cover it.

### What makes each component correct

| Component | Correct when |
|---|---|
| Calls | every announced call gets exactly one handler; an answered call is always supervised; ports are neither leaked, nor shared, nor closed early; metrics agree with the calls; whatever ends a call, everything it had is released; every INVITE gets a final answer unless sending it fails |
| Server | a drain waits for every call that was there, then ends `run()`; OPTIONS falls silent |
| Media session | the deadline fires after a silence and only then; the packet stream has no gap; what the application said is sent; a cancelled token ends both tasks |
| Port pool | the cursor stays in the range; searches find a pair that stays free; both sockets or neither; draws equal those of a queue |
| Negotiation | an offer is refused only for a cause; the answer is the best codec both sides have, as the peer offered it |
| Codecs | G.711 loses no more than companding must, and nothing more in a chain of gateways; timestamps advance with the audio at the rate the answer names |
| Application | what the caller said before the call ended comes back, in order; a session whose input ends is taken down without a token |
| Metrics | the gauge is the number of calls that are up, whatever servers come and go; the deviations add up to the lateness of the stream |

## 2. The modules

| Module | Models | Kind |
|---|---|---|
| `CallHandler` | calls: dialogs, layer, channel, state loop, `handle_call`, media and application tasks, call metrics | detailed, core |
| `CallSpec` | what a caller may rely on: a telephone exchange with lines | abstract |
| `SipServer` | `run()` around `CallHandler` (composition by `INSTANCE`) | detailed |
| `MediaSession` | one session with time, packets, frames and counters | detailed |
| `EchoCall` | `MediaSession` with the echo handler, the codec's lengths and the timing metric (composition by `INSTANCE`) | detailed |
| `CodecKinds` | per codec: lengths of payloads and frames, RTP clock, rtpmap | operators |
| `G711` | mu-law and A-law on samples and bytes | algorithm |
| `RtpPortRange` | the arithmetic of the range | operators |
| `PortPool` | concurrent allocation from the range | detailed |
| `PortQueue` | a rotating queue of pairs, each let to one call | abstract |
| `PortRotation` | every small range, one turn of the cursor | algorithm |
| `SdpOffer` | negotiation against a reference definition | algorithm |
| `MC*` | instances for TLC: model values, sample ranges, enumerated rtpmaps | |
| `CallHandler_proofs`, `SipServer_proofs`, `MediaSession_proofs`, `EchoCall_proofs`, `PortPool_proofs`, `PortRotation_proofs`, `SdpOffer_proofs`, `G711_proofs` | theorems about the module of that name | proofs |

    CallSpec  <-- refined by -- CallHandler <-- INSTANCE -- SipServer
                                     ^
                                     +-- media tasks refined by -- MediaSession
                                                                        ^
    SdpOffer -- EXTENDS --> CodecKinds <-- EXTENDS -- EchoCall -- INSTANCE --+
    PortQueue <-- refined by -- PortPool -- EXTENDS --> RtpPortRange <-- PortRotation

### CallHandler

One behaviour has any finite set `Calls` of INVITEs and any set `Pairs` of port
pairs. A call's `dialog` goes `none`, `created` (in the layer), `calling`
(announced), `early` (180), `waitack` (200), `confirmed` (ACK), `terminated`.
`events` is the state channel; only the two states the loop acts on are sent.
`pc` is the place of `handle_call`: the setup places are named after the step
that comes next, and the five ways of returning are kept apart:

| `pc` | `handle_call` has ... |
|---|---|
| `rejected` | counted the rejection and replied |
| `unreplied` | counted it, but the reply failed (allocate, connect, codec) |
| `uncounted` | not counted it because the 488 failed first (parse) |
| `unaccepted` | failed to send the 200 |
| `ended` | run to its end |

Each step of the handler reaches to its next await, reply or state that another
task can see. A step contains everything the code does in it: for instance
`Refuse` counts, replies (or fails to) and drops the sockets, `StartMedia` moves
gauge and counter, starts both tasks and drops the RTCP socket. `Allocate` is
here one step that binds a free pair: `PortPool` has the search with its two binds,
and its refinement of `PortQueue` justifies the one step.

What is external is taken from how the code uses it: removing a dialog from the
layer cancels its token, a dialog terminates once, `bye()` on a terminated dialog
does nothing (`call_handler.rs:161-162`), and a reply to a terminated dialog has
no effect. `Accept` and `AcceptFails` may both happen on any dialog, so nothing
depends on whether the stack reports a late `accept` as an error.

The application may end at any time (`AppReturns`), cancel the dialog
(`AppHangsUp`) or drop either channel end early (`RecvBreaks`, `SendBreaks`).

### CallSpec

A call is idle, in setup, up, over; it seizes a line during the setup, comes up
only with a line of its own, and a call that is over gives its line back. The
mapping takes `pc` to the phase and the bound RTP port to the line.

### SipServer

Adds the life of a server (`run`: none, new, serving, returned) and `run()`: the
request loop (which waits for replies it sends itself, and ends when one fails),
the OPTIONS flag, the drain monitor in its three atomic steps (clear the flag, see
an empty layer, cancel), the tokens and the return of `run()`. The state loop and
the routing of in-dialog requests stop when `run()` returns; spawned tasks go on.
The application may start a drain or cancel before it calls `run()`, which spawns
the monitor. `late` is a history variable: the calls that came since the monitor
saw no dialog.

`NewServer` is `SipServer::new`, of this server or of any other in the process,
before, while or after this one runs, and also one that fails after
`ensure_initialized`. `EnsureInitialized` is that function: it sets the gauge of
active calls to zero unless `initialized`, the `Once`, says that this was done.

Calls in `Calls` come once and are followed in every detail. `Others` are calls of
which only the dialog is kept: it enters the layer with an INVITE and leaves it
when the state loop has taken its end, as often as it likes. So INVITEs may arrive
for ever, in drain mode too, and with two of them the layer need never be empty.
Their part in the counters and their ports are left out.

### MediaSession

One session as a timed model: `Tick` lets one unit of time pass, `alarm` is the
time left of the deadline. The receive task's select is biased, so its guards
are ordered: token, deadline, socket. The send task's select is not, so a
cancelled token only has to be seen eventually. `next()` of the RTP counters is
part of `Encode`, a frame the codec returns nothing for is `SkipFrame`, and
awaiting `socket.send` is a state of its own in which no token is looked at.
`silence` and `spoken` are history variables. The packets of `inbox` only parse or
not, the frames only encode or not; their contents are added by `EchoCall`.
`ImplementsCallMedia` shows that each step which the rest of a call can notice
is one of the steps `CallHandler` has for its media tasks and its application.

### EchoCall, CodecKinds

`EchoCall` puts `EchoHandler::process` between the two channels of a
`MediaSession`: it takes the session's steps over, conjoined with what they do to
the frames. A valid packet gets a length when it is decoded; the frame has the
samples that `DecodedSamples` allows, and the echoed frame the bytes that
`EncodedBytes` allows, which decides whether the send task encodes or skips it.
Both give sets, because Opus may fail and a packet of Opus may have
several frames: it decodes to a multiple of 2.5 ms up to 20 ms, of which some
lengths (7.5 ms, for instance) cannot be encoded again and are skipped. The handler stops for the dialog's token,
a closed output or a closed and empty input (`EchoCancelled`, `EchoRefused`,
`EchoClosed`), and returning drops both ends. `Record` is the timing metric of
the send task, with the sum and the number of its samples for the histograms.
Beginning with a timestamp one below the wrap-around is a choice of the instance
(the code draws it at random); `MediaSession` has every first header.

### G711

The sample functions of both codecs as the code computes them: magnitude, clip,
bias, leading zeros and segments on integers of 16 bits (32 within a sum), the
inversion of all or of the even bits (`Toggle`, the exclusive or with 0x55 by
arithmetic). Nothing is reduced to 16 or 8 bits where the code casts: `TypeOK` says
that the casts of the decoders and encoders lose nothing. `Encode` keeps the second
of two samples of 16 kHz, `Decode` looks up the table and doubles. A behaviour
starts with one of the `Frames` that an application says or of the `Payloads` that
a peer sends, and alternates between the two steps, as in a chain of gateways. For
TLC a frame is a sample, alone or after silence, and a payload is a byte.

### Port pool

`RtpPortRange` has the arithmetic modulo `Modulus` (2^16 in the code), with the
wrap-around of a release build. In `PortPool` every allocation is a load, a
compare-exchange, two binds and the retry of
`try_allocate_socket_pair`; other programs bind and close `OtherPorts`.
`busy` is a history variable: the pairs that were not free at some time since
the allocation began. `PortQueue` says that the lock-free draws amount to
atomic draws from a queue in which the least recently drawn pair comes first, and
that a search binds both sockets of a pair as if at once: `lease` and `control`
are who holds a pair's RTP and RTCP port. `Let`, `ReturnControl` and `Return` are
what `CallHandler` has as `Allocate`, `StartMedia` and the end of the media.
`PortRotation` checks all pairs of limits below 16 against what the
documentation says of `min_port` and `max_port`.

### SdpOffer

Each initial state is an offer and a set of compiled-in codecs. Every offer is
there with payload types and rtpmaps, be it well-formed or not, with an audio line
or not and with an address or not, so that each of the checks at `sdp.rs:71-136` is the
one that decides for some offer with usable codecs. `Parse` and
`Answer` compute what the code computes, the checks in the code's order. The reference definition (`Formats`,
`Common`) says what a payload type stands for: its first rtpmap (`FirstMap`, which
the model uses too), or else what it is registered as; the code's order of cases,
its tests of rates and its list of preferences are not in it. It is compared for
offers that use payload types as registered (`Usual`): the code lets a dynamic
type called PCMU, PCMA, G722 or opus have any rate, and nothing documents what is
promised then.

### Variants

A definition introduced by a comment starting with "Variant" is deliberately
wrong and is used nowhere. Put in the place of the definition that follows it,
it makes the run named in `PROJECT.json` fail: each property is known to notice
at least one plausible slip in the code, such as a missing reset of the deadline
or a socket that is closed by the first of its two tasks.

## 3. The runs

| Run | Instance | Distinct states | What it shows |
|---|---|---|---|
| `calls` | 2 calls, 1 pair | 51 796 | `TypeOK`, `SocketsOwned`, `ExclusivePairs`, `CallingFindsDialog`, `AnsweredIsSupervised`, `TerminationsCountedOnce`, `CallsAccounted`, `AnsweredPortKept`, `TerminatedIsReleased`, `EveryCallDecided`, `ImplementsCallSpec` |
| `server` | 1 call in detail, 1 pair, 2 other calls without end, any number of servers | 71 286 | `TypeOK`, `GaugeCountsCalls`, `DrainCutsOnlyLateCalls`, `DrainCompletes`, `DrainSilencesOptions` |
| `session` | sequence numbers mod 2, timestamps mod 3, increment 2, timeout 2 ticks, 1 buffered packet, 3 frames | 194 508 | `TypeOK`, `StreamHasNoGap`, `LastWordsAreSent`, `DeadlineNeedsSilence`, `ImplementsCallMedia`, `SilenceEndsReceiving`, `CancelEndsBothTasks` |
| `echo` | 3 codecs, 3 packets of 4 lengths, 1 buffered packet, timeout 1 tick | 345 488 | `TypeOK`, `EverythingIsEchoed`, `StampsFollowAudio`, `LatenessAddsUp`, `InputEndsSession` |
| `codecs` | both laws, all 65 536 samples, all 256 bytes | 525 822 | `TypeOK`, `ErrorIsRelative`, `TandemIsLossless` |
| `ports` | 2 allocations, 3 pairs, 2 foreign ports | 42 763 | `TypeOK`, `BothOrNeither`, `FreePairIsFound`, `SomeDrawSucceeds`, `ImplementsQueue` |
| `port_ranges` | all ranges of 4-bit ports that do not overflow | 378 | `NoPairTwice`, `EveryPairUsed` |
| `negotiation` | up to 3 payload types of 4, up to 2 rtpmaps of 9, well-formed or not, with or without audio line and address, all 4 codec sets | 520 542 | `RefusedOnlyForCause`, `BestCommonFormat` |

Four more runs (`media_timeout`, `terminated_unaccepted`, `port_overflow`,
`run_returns`) show a documented statement that the code does not keep (section 6).

### Why the bounds are enough

* *Calls*: the tasks of a call interact with those of another only through the
  state channel, the pool and the metrics. Two calls give every order of two
  states of different calls in the channel and every contest for one pair. The
  theorems of section 5 do not depend on the number.
* *Pairs*: one pair makes the pool exhausted while the first call has it, and lets
  the second call bind it as soon as the first has given it back, RTCP before RTP.
  That two pairs are not mixed up is proved (`SpecExclusivePairs`).
* *Server*: one call passes through every state while the server drains, is
  cancelled, returns and is joined by others; two other calls are enough to overlap
  without end, each beginning before its predecessor has ended; the order of several calls
  before and after the monitor's look is covered by the theorems.
* *Echo*: the lengths are an empty payload, an odd one, a frame of G.722 and a
  frame of L16, which is four frames of G.722; an Opus packet has 20 ms or 7.5 ms,
  which is not encoded again; the three codecs have the three
  increments, and PCMU and PCMA equal G.722 in length and clock. Three packets let
  a frame be in each of the channels and on the wire at once.
* *Codecs*: nothing is bounded but the frame, which has one or two samples; the
  theorems hold for frames and payloads of any length.
* *Media session*: the moduli are 2 and 3 and the increment is 2, so that both
  counters wrap around within three frames, at different places, and every first
  header is an initial state; a timeout of two ticks distinguishes a reset from
  none; the buffer gives any sequence of valid packets and garbage, one at a time.
* *Port pool*: two searches on three pairs can lose an exchange to each other,
  meet foreign ports on either socket of a pair, and exhaust the pool; the cursor
  comes round within a search.
* *Ranges*: the code distinguishes only the parity of the limits, the single
  pair and the top of the port numbers; 4-bit ports have all of them.
* *Negotiation*: a tie, an order and a remapping each need two types or two
  rtpmaps; the third type lets an unsupported one stand between them.

### Fairness

Tokio polls a task that has been woken, so every task that can go on does so:
weak fairness on the state loop, each dialog's task, each handler, the drain
monitor and the select of `run()`. Fairness is on the disjunction of a task's
steps, never on the outcome the environment chooses: nothing makes a reply
succeed, a peer acknowledge or hang up, a socket work, an application return or
call `run()`, INVITEs cease or a deadline come. The receive task must see a cancelled token (`RecvCancelled`),
since its select is biased. The send task's select is random among the branches
that are ready: in `MediaSession` a token that is seen with a fixed probability
at each turn justifies strong fairness of `SendCancelled`; in `CallHandler`,
which leaves the turns out, that is weak fairness of ending. In `PortPool`
only allocations that have begun go on; in `MediaSession` time passes. In `EchoCall`
the handler's task is polled as well.

### Deadlock

Deadlock is not reported (`CHECK_DEADLOCK FALSE`): a behaviour may stop, since
every call comes once and a peer or an application need not act. What must not
stop is stated by the liveness properties.

## 4. Properties worth a comment

* `CallingFindsDialog`: the lookup at `server.rs:415` has a branch for a dialog
  that is not found. It cannot be taken: only a `Terminated` state removes a
  dialog, and it comes after the `Calling` state of the same call.
* `AnsweredIsSupervised` fails if the handler waited for the session's token
  instead of the dialog's; `MediaTimeoutStopsCall` fails because it does not.
  The two together say what a repair has to do: cancel the dialog's token.
* `AnsweredPortKept` is an action property: the send task, the application and
  other calls may not close the port that was named in the answer.
* `FreePairIsFound` is what `capacity()` attempts can promise under contention:
  a search that fails has met every pair while it was bound or just about to be.
* `DrainCutsOnlyLateCalls` needs the dialog layer: the gauge of active calls
  would let the drain cut off calls that are still being set up.
* `DrainCutsOnlyLateCalls` lets `late` be cut: between the monitor's look and its
  cancellation the request loop still accepts calls.
* `DrainCompletes` has a hypothesis: from some moment on no INVITE opens a dialog.
  The code accepts calls while it drains (`server.rs:361-382`), and calls that overlap
  keep the layer from being empty whenever the monitor looks, although each of them
  ends; without the hypothesis TLC finds this behaviour. It also has an exception:
  a dialog that never leaves the layer, for instance after a BYE or a 200 that
  could not be sent. Whoever drains has to send new calls elsewhere.
* `GaugeCountsCalls` is about who else writes the gauge: `SipServer::new`, at any
  moment and for any server, also one that is not created in the end. It fails
  without the `Once`. A server that returned leaves calls behind that still come
  down one by one.
* `TerminationsCountedOnce` requires that the ends of accepted calls are counted and
  none twice; whether those of other calls should be, code and documentation
  disagree about (`terminated_unaccepted`, section 6), so it is left open.
* `RefusedOnlyForCause` has two halves: an offer is answered if and only if it can
  be read and has a common format, and "no supported codec" is said of those
  that can be read only.
* `EverythingIsEchoed` follows a frame through two tasks and two channels: it fails
  if any of them ends when its input closes before it has emptied it.
* `InputEndsSession` is the other half of `ImplementsCallMedia`: the receive task
  may end without cancelling anything, and yet the send task ends if the
  application does what the echo handler does.
* `TandemIsLossless` has one exception, the second zero of mu-law.
* `LatenessAddsUp` would fail for a metric that also counted the time before the
  first packet or ticked for a packet whose sending failed.

## 5. What is proved

**Calls and server**: for every finite set of calls and every set of pairs
(`CallsAssumption`, `NoPairAssumption`; nothing else is assumed):

| Theorem | Says |
|---|---|
| `CallHandler_proofs`: `SpecTypeOK` | types, including that the gauge never goes below zero |
| `SpecCallingFindsDialog` | one handler for each announced call |
| `SpecTerminationsCountedOnce` | a dialog leaves the layer with its one end; each end of an accepted call is counted, none twice |
| `SpecAnsweredIsSupervised` | an answered call has a waiting handler |
| `SpecSocketsOwned`, `SpecExclusivePairs` | sockets are neither leaked, nor closed early, nor shared |
| `SpecAnsweredPortKept` | the answered port survives all but the end of its receiving |
| `SpecCallsAccounted` | gauge and counters agree with the handlers |
| `SpecStaysReleased` | a call that was released stays so: the safety part of `TerminatedIsReleased` |
| `SpecImplementsCallSpec` | each step is one of `CallSpec` or none (its safety part, `Safe`) |
| `SipServer_proofs`: `ServerTypeOK` | the same types under `run()`, and those of its own variables |
| `ServerGaugeCountsCalls` | no `SipServer::new` of the process, the first or a later one, makes the gauge forget a call |
| `ServerDrainCutsOnlyLateCalls` | a drain cuts off no call that the monitor could know |
| `ServerDrainIsSilent` | once the monitor has started no reply to OPTIONS is begun: the safety part of `DrainSilencesOptions` |
| `ServerImplementsCallHandler` | to a call the server does what `CallHandler` allows (all but its fairness) |
| `ServerSocketsOwned`, `ServerAnsweredIsSupervised`, `ServerCountsTerminationsOnce` | the invariants of the calls under `run()` and after it has returned |
| `ServerImplementsCallSpec` | the whole server implements the safety of `CallSpec` |

**Session**: for every timeout, every size of the counters, every set of
increments and every bound on frames and buffer (`SessionAssumption`):

| Theorem | Says |
|---|---|
| `MediaSession_proofs`: `SpecTypeOK` | headers keep their widths; channel and packets hold frames that were said |
| `SpecStreamHasNoGap` | the packets are the encodable frames, in order, under consecutive headers |
| `SpecLastWordsAreSent` | nothing said is lost behind a closed channel |
| `SpecDeadlineNeedsSilence` | the session cancels itself after a whole silence only |
| `SpecImplementsCallMedia` | each step is one of the media tasks and the application of `CallHandler`, or none |

**Echo call**: for every codec set, every function giving the lengths of payloads
and every way of numbering packets (`SessionConstants`: the session's constants in
their types; `CodecAssumption`: an increment below the modulus of the timestamps;
`PeerAssumption`: the lengths are numbers, and there is one):

| Theorem | Says |
|---|---|
| `EchoCall_proofs`: `SpecTypeOK` | types, those of the session included; no frame is lost or in two places while the handler runs |
| `SpecEverythingIsEchoed` | what the caller was heard to say comes back, in order and length |
| `SpecStampsFollowAudio` | timestamps advance by 20 ms at the rate the answer names, wrapped or not |
| `SpecLatenessAddsUp` | one deviation for each packet after the first, and none of the lateness lost |

**Port pool**: for any number of allocations, any valid range and any ports of
other programs:

| Theorem | Says |
|---|---|
| `PortPool_proofs`: `SpecBothOrNeither` | both sockets of the pair that was drawn or none; no assumption on the range |
| `SpecExchangeLostToADraw` | a compare-exchange is repeated only because another allocation has drawn a pair |
| `SpecTypeOK` | cursor and sockets stay in the range, at most `capacity()` draws |
| `SpecFreePairIsFound` | a search gives up only if every pair was in use at some time since it began |
| `SpecImplementsQueue` | draws and leases are those of `PortQueue` |
| `PortRotation_proofs`: `RangeIsConfigured` | the pairs of the range are those between `min_port` and `max_port`, without the last one if `min_port` is uneven and `max_port` even |
| `SpecNoPairTwice` | for every valid range the cursor repeats no pair within a turn and comes back to the first |
| `SpecTurnIsComplete` | a whole turn draws every pair, with the same exception |

All but `SpecBothOrNeither` and `SpecExchangeLostToADraw` assume that the range does
not overflow (`NoOverflow` in `PortPool_proofs`, `Fits` elsewhere); `port_overflow`
shows that this is needed.

**Negotiation**: for offers of any size with any rtpmaps (`OfferAssumption`), and
every set of compiled-in codecs:

| Theorem | Says |
|---|---|
| `SdpOffer_proofs`: `SpecRefusedOnlyForCause` | an offer, regular or not, is refused if and only if it cannot be read or has no common format, and the second is said only of one that can be read |
| `SpecBestCommonFormat` | the answer is the common format the code prefers, under the first of its payload types |

**Codecs**: for frames of any length with samples of 16 bits and payloads of any
length (`SpeechAssumption`, which says no more than `i16` and `u8` do):

| Theorem | Says |
|---|---|
| `G711_proofs`: `SpecTypeOK` | decoded samples fit `i16`, code words fit `u8` |
| `SpecErrorIsRelative` | every code word is within one part in 32 of its sample |
| `SpecTandemIsLossless` | decoding and encoding again gives the same payload |
| `SpecLengthsAreCodecKinds` | the lengths are those `CodecKinds` gives PCMU and PCMA, with which `EchoCall` reckons |

### Calls

The properties are not inductive. The invariant is built in layers, each
preserved by every step given the ones before:

1. `Typed`: types, with the gauge in `Int` only. That it is in `Nat` needs 5.
2. `Channel`, five facts about channel, dialogs and layer: `InLayer` (a dialog
   that began and has not ended is in the layer), `Fresh` (an unannounced call
   has no state in the channel and no handler), `Waiting` (a state in the channel
   is of a call in the layer; a waiting `Calling` means no handler yet, a waiting
   `Terminated` a dialog that has ended), `InOrder` (at most two states of a call
   wait, `Calling` before `Terminated`), `EndWaits` (an ended dialog in the layer
   has its state waiting). `CallingFindsDialog` follows from `Waiting` but is not
   preserved alone: when a `Terminated` is taken, `InOrder` is what excludes a
   later `Calling` of the same call. `Shifted` and its lemmas move the facts over
   the renumbering when the head of the channel is taken.
3. `Supervised`: `AnsweredIsSupervised`, and that a handler past its wait has
   seen the token.
4. `Sockets`: `SocketsOwned`, `ExclusivePairs` and `TasksFollow` (the media tasks
   are off exactly until the media is started). Without it a task that ends
   could close the pair of a handler still in its setup.
5. `CallsAccounted` and `TerminationsCounted`: cardinalities, with `CountMove`
   for the set of calls at given places when one handler moves.

`AnsweredPortKept` follows step by step from 1, 3 and 4; the refinement from 1, 2
and 4, with one lemma for each kind of change of phase and line. For
`SpecStaysReleased`, `OthersKeepCall` shows that no step of one call touches
another, and `ReleasedRests` that of a released call no step is possible: by 4 its
tasks have ended, by 2 none of its dialog's states is left in the channel.

### Server

`SipServer_proofs` extends `SipServer` and takes the proofs about calls as an
instance `P` over the same variables. The first `SipServer::new` writes the gauge,
which no step of `CallHandler` does. `Quiet` says why it does no harm: before it
has run there is no server, and before `run()` every call is as it was initially
(`QuietStep`). Then `NewServerKeepsCalls` follows: when the `Once` is new the gauge
is zero already, and later it protects the calls. With `Quiet`,
`ServerCallsStep` shows that
every step of the server is a step of `CallHandler` or leaves the calls alone.
All layers above therefore hold under `run()` too (`ServerInv`, `CallsInv`), although
its fairness is not that of `CallHandler`, and so does the refinement of `CallSpec`.
What `run()` adds is that the state loop may stop for good: the calls keep what
they own until they end by themselves. `DrainSawNoDialog` is what
`DrainCutsOnlyLateCalls` lacks to be inductive: the known calls are not only over
but out of the layer. Then `TerminationsCounted` says that they are counted. The
monitor establishes it because in `InLayer` a dialog that is not over is in the
layer; `OnlyInviteOpens` shows that no step but an INVITE takes it back.

### Session

`MediaSession`'s properties speak of the packets only, so the invariant adds what
is still in the channel and in the counters. `AlarmCountsSilence`: the alarm and
the silence add up to the timeout, from which `DeadlineNeedsSilence` follows.
`QueueInOrder`: the channel holds the frames that have not been taken, in order.
`WireIsEncodable`: the packets are exactly the encodable ones among those taken.
`WireInOrder`: consecutive packets are `Joined`, and the last one is followed by
the header the counters hold and by refused frames only (`LastIn`); a new packet
turns `LastIn` into `Joined`. `ClosedIsEmpty`: behind a closed channel nobody
speaks. The conjunction `IInv` has also been checked as an invariant of the run
`session`.

The refinement needs no invariant: `ForCallIs` spells out the steps of
`CallHandler` with one call, and every step of the session is then compared with
the step of the task it belongs to; ticks, packets and frames leave the four
mapped variables alone.

### Echo call

`EchoCall_proofs` takes the proofs about sessions as an instance `P`. `CallStep`
shows that every step but the return of the handler is a step of the session or
leaves it alone; `ReturnKeepsSession` shows that returning, which drops both
channel ends at once, preserves the session's invariant although it is no step of
it. What is added to it:

* `ClockOfCodec`: a session uses the increment of its codec only;
* `OneLine`: the frames the handler has sent on and those in its input are the
  first and the next of the frames that were decoded, with lengths the codec allows;
* `SpokenIsSaid`: the session's channel carries the handler's frames, so that
  `LastWordsAreSent` of the session speaks of their lengths;
* `ReturnsForCause`: no frame is missing in `OneLine` unless the handler has
  returned because of the token or a send task that had ended. With
  `LastWordsAreSent` this gives `EverythingIsEchoed`;
* `MetricCountsPackets`: the metric has ticked once for each packet sent, and its
  sum is the distance of the last packet from where it should have been.

`StampsFollowAudio` follows from `StreamHasNoGap` and `ClockOfCodec` by modular
arithmetic (`DistanceOfStamps`). TLC has checked the parts of the invariant on the
run `echo` too.

### Port pool

`BothOrNeither` needs only that the sockets and the places are functions
(`Holders`). `TypeOK` adds `Drawn`, with `NextPortInRange` for the arithmetic of
`next_port_pair`, and that an allocation which draws again has a draw left. The
conjunction is `PoolInv`.

`FreePairIsFound` needs to know how far the shared cursor went, although others
move it too. `PassedAreBusy` says it for the last draws only: of the pairs that
lie behind the cursor by at most as many draws as the allocation has made, each
is in `busy` or is the one the allocation is trying now. It does not matter who
drew them. A draw moves the cursor one pair farther from every other
(`DrawMovesOn`); one of the allocation itself (`OwnStepKnows`) adds the pair it is
going to try, which joins `busy` when its bind fails, and one of another allocation
(`OtherStepKnows`) adds a pair that `Observe` finds drawn or bound. `TriesUsedUp`
adds that an allocation gives up after `capacity()` draws, and by then no pair is
farther behind than that (`BehindBound`).

For the refinement `Position(head, i)` is the pair drawn `i` draws after the one at
the cursor. `DrawRotates` shows that a successful exchange moves each pair one
place ahead and the first one to the end, by the modular arithmetic of
`NextPortInRange`. `ExclusiveSockets` (no port is bound twice) and `RtpIsNotRtcp`
are what makes a lease exclusive; a bind lets a pair, a close returns it, and all
other steps are invisible.

The facts about `next_port_pair` (`NextPortIs`, `PairsWithinRange`, `CapacityIs`) are
proved once, in `PortRotation_proofs`, which `PortPool_proofs` takes as the instance
`R`.

`NoPairTwice` follows from `InTurn`: the pairs drawn in a turn are those at the
first `k` positions, and the cursor stands at position `k`. `RangeIsConfigured`
turns the positions of a whole turn into the configured ports.

### Negotiation

The invariant says what each of the two steps leaves: an answer and an error are
what `Parse` and `Answer` compute of the offer. The rest is about these operators.
`SpokenFormats` compares, case by case, the codec the code finds for a payload type
with what the reference definition says the type stands for, for `Usual` offers.
`BestExists` and `SelectedIsBest` need that a set of places has a first one:
`LeastOf` takes it from the well-foundedness of the natural numbers, a library
theorem without an operator parameter.

### Codecs

SMT solvers do not know powers of two, so `Powers` evaluates them in a table and
`SegmentIs` and `HalfStepIs` say what the size of a segment can be. A code word
`(e, m)` covers an interval of magnitudes, `m` steps above the beginning of segment
`e`. Two facts are proved of each law: every magnitude lies in such an interval
(`UlawWordOf`, `AlawWordOf`), and a magnitude that does is encoded as this word
(`UlawEncodesTo`, `AlawEncodesTo`: leading zeros and the loop over the segments
find `e`). Since a word is decoded to the middle of its interval (`UlawMiddle`,
`AlawMiddle`), the first fact bounds the error (`UlawError`, `AlawError`) and the
second encodes the middle as the same word again (`UlawTandem`, `AlawTandem`).
`ToggleTwice` and `FieldsOf` take a byte apart and put it together.

`ErrorIsRelative` is not inductive, as it does not say that a payload comes of the
frame beside it. `OfEachOther` does: unless it was there at the start, the one is
what `Encode` or `Decode` makes of the other. TLC has checked it on the run
`codecs`. `ChosenOfDecoded` shows that the samples which `Encode` keeps of a
doubled frame are those of the bytes, one each.

**Only model-checked** is liveness, and the fairness in the refinement of
`CallSpec`, which are beyond the proof system's reach: `TerminatedIsReleased` (safety
part: `SpecStaysReleased`), `EveryCallDecided`, `DrainCompletes`,
`DrainSilencesOptions` (safety part: `ServerDrainIsSilent`), `SilenceEndsReceiving`,
`CancelEndsBothTasks`, `InputEndsSession`, `SomeDrawSucceeds` (safety part:
`SpecExchangeLostToADraw`), and that a turn of the cursor is completed
(`EveryPairUsed`, safety part: `SpecTurnIsComplete`). Every invariant and every action property that a passing run checks is proved.

## 6. Disagreements between the code and what it says

Each is a run that TLC finds violated, with one property that restates the text.

| Run | Text | Code |
|---|---|---|
| `media_timeout` | the call will be stopped when no valid RTP packets are received (`server.rs:39-41`) | the deadline cancels a child token; the handler waits for its parent (`call_handler.rs:99`, `:153`) |
| `port_overflow` | `max_port` is the last RTCP port (`server.rs:37-38`) | at 65535 the cursor wraps to port 0, or the sum panics (`rtp.rs:155`) |
| `run_returns` | `run()` blocks until it is shut down (`server.rs:227`) | a reply that fails ends it (`server.rs:350-395`, `:301-304`) |
| `terminated_unaccepted` | `calls.terminated_total` counts "Calls terminated after being accepted" (`README.md:228`) | every dialog that ends is counted, a rejected or cancelled one included (`server.rs:445`) |

The counterexample of `media_timeout` ends in a state that repeats under the
fairness of the specification: the system has not merely stopped.

What the models contain and no run is spent on:

* an error of the receive task (`session.rs:195-198`) also drops the deadline, so
  that a later silence cancels nothing (`RecvFails`);
* `start_drain` takes effect on OPTIONS only when the monitor's task is polled
  (`server.rs:257-258`), although `drain.rs:5-7` says "After" (`MonitorStarts`);
* an INVITE that comes between the monitor's check and its cancellation is cut
  off (`server.rs:268-270`): the calls in `late`;
* "A-law silence" is 0xD5 to the tests at `codec/pcma.rs:188` and `:221`, but the encoder
  sends 0x55 for a sample of zero (`AlawSilence`, proved in `G711_proofs`), as the test
  at `:209` expects, since the sign bit stands for negative samples
  (`codec/pcma.rs:64-69`). Encoder and decoder agree, so within the crate nothing is
  wrong; towards other implementations of A-law the signal is inverted;
* an `AudioFrame` is documented with 320 samples (`media/rtp.rs:18`, `:23`), but has
  as many as the packet it came in, while the timestamp always advances by 20 ms;
* the comments at `codec/mod.rs:149`, `:153` and `session.rs:85` speak of 48 kHz, and
  `README.md:146` of 48 kHz and 960 samples in a frame, where the internal format has 16 kHz (`codec/mod.rs:156`, `SampleRate`);
* `run()` of a second server sets the process-wide `drain_active` gauge to 0
  (`server.rs:250-251`) while the first may be draining (not modelled);
* `L16` is described as mono (`codec/mod.rs:61`), and the channels of its rtpmap
  are not read (`sdp.rs:115`).

## 7. What is not modelled

* **Signal processing of G.722 and Opus** and the resampling around Opus: external
  libraries. Lengths, errors and clocks are in `CodecKinds`. L16 is a change of byte
  order, of which only the length is modelled.
* **Packets longer than the receive buffer**: 2048 bytes (`session.rs:142`) hold
  L16 up to about 60 ms; what UDP cuts off beyond that is left out.
* **Text and bytes**: SDP syntax (`sdp-rs`), RTP headers (`rtp-rs`), SIP messages
  (`rsipstack`).
* **Construction** but for the metrics and that it may fail (`NewServer`): address
  selection, the user agent, the command line of the example. `run()` takes the
  endpoint's transactions once (`incoming_transactions()?`), which cannot fail the
  first time.
* **Labels** of metrics, and counters and histograms that are only written (ports,
  RTP packets): no behaviour depends on them.
* **Panics** in the application's code or factory.
* **Internals of rsipstack**: retransmission, transaction timers, routing. Their
  outcomes are choices of the environment (`PeerGivesUp`, `PeerHangsUp`, failed
  replies).

## 8. Plan

Done, in this order: `CallHandler` with `CallSpec`; the port pool with
`PortQueue`; `SipServer`; `MediaSession`; `SdpOffer`; the proofs about calls;
`G711`; `CodecKinds` per codec and `EchoCall` with the timing metric; the
two-port lease of `PortQueue`, so that the pool of `CallHandler` is the one that
`PortPool` implements; several servers in a process; the proofs about
`MediaSession`, `SipServer` and `PortPool`; the refinements of `PortQueue` and of
the media tasks; the proofs about `RtpPortRange`, `PortRotation`, `EchoCall` and
`SdpOffer`; the proofs about `G711`; the invariants and the refinement of the calls
under `run()`.

What could come next is outside the reach of the tools or of the repository: proofs of
the liveness properties, and models of `rsipstack` itself in the place of what is
assumed of it.
