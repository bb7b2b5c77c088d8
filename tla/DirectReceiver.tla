---------------------------- MODULE DirectReceiver ----------------------------
(***************************************************************************)
(* The delivery core of directMessageReceiverImpl                          *)
(* (src/internal/impl/receiver/direct_message_receiver_impl.go): the       *)
(* lifecycle, the bounded inbound buffer with its backpressure strategy    *)
(* and discard flag, the dispatcher goroutine run(), synchronous           *)
(* ReceiveMessage, ReceiveAsync, and both termination paths (Terminate and *)
(* unsolicitedTermination) with drainQueue.  Every goroutine is a process  *)
(* with its own program counter; one step is one atomic operation of the   *)
(* code (a channel operation, an atomic load/store/CAS, or a sequence of   *)
(* such on data no other goroutine touches).                               *)
(***************************************************************************)
EXTENDS Naturals, Sequences, FiniteSets

CONSTANTS
  Capacity,      \* backpressureBufferSize, the capacity of receiver.buffer
  Strategies,    \* the backpressure strategies a receiver may be built with
  Producers,     \* transport threads that call messageCallback
  Receivers,     \* application threads that call ReceiveMessage
  MaxMsgs,       \* bound on the number of messages the transport hands over
  GracePeriods,  \* gracePeriod values passed to Terminate: "Negative", "Zero", "Positive"
  Timeouts       \* ReceiveMessage timeouts: "Finite" (>= 0) or "Infinite" (< 0)

ASSUME /\ Capacity \in Nat \ {0}
       /\ Strategies \subseteq {"DropOldest", "DropLatest"} /\ Strategies # {}
       /\ Producers # {} /\ MaxMsgs \in Nat \ {0}
       /\ GracePeriods \subseteq {"Negative", "Zero", "Positive"} /\ GracePeriods # {}
       /\ Timeouts \subseteq {"Finite", "Infinite"} /\ Timeouts # {}

VARIABLES
  strategy,       \* receiver.backpressureStrategy, fixed by the builder
  state,          \* lifecycle state word of basicMessageReceiver
  buffer,         \* receiver.buffer: sequence of directInboundMessage [id, discard]
  bufChanClosed,  \* close(receiver.buffer) has run
  bufferClosed,   \* the receiver.bufferClosed atomic flag
  isDiscard,      \* the receiver.isDiscard atomic flag
  emptySignalled, \* bufferEmptyOnTerminateFlag won and bufferEmptyOnTerminate closed
  termNotified,   \* terminationNotification closed
  rxCallbackSet,  \* the rxCallbackSet channel (capacity 1)
  rxCallback,     \* rxCallback is non-nil
  rxRegistered,   \* the transport holds our RX callback (RegisterRXCallback)
  downRegistered, \* the down-event handler is registered
  startPc,        \* the goroutine running Start
  runPc,          \* the dispatcher goroutine run()
  ppc, pmsg, pdrop, \* per producer: step, toPush, and the local 'discard'
  rpc, rtimeout,  \* per ReceiveMessage caller: step and timeout kind
  asyncPc,        \* the goroutine calling ReceiveAsync
  tpc, tkind,     \* the terminating goroutine and which path it runs
  grace, timedOut, undelivered, \* Terminate's grace period, timer outcome, drain count
  cacheTornDown,  \* teardownCache has been called
  nextMsg,        \* id of the next message the transport hands over
  history,        \* deliveries and backpressure drops, in order (history variable)
  termDropped,    \* messages discarded because the receiver was terminating
  drained,        \* messages freed by drainQueue
  released        \* messages messageCallback returned false for, which CCSMP frees

signalVars == <<bufChanClosed, bufferClosed, emptySignalled, termNotified>>
cbVars == <<rxCallbackSet, rxCallback, rxRegistered, downRegistered>>
prodVars == <<ppc, pmsg, pdrop>>
recvVars == <<rpc, rtimeout>>
termVars == <<tpc, tkind, grace, timedOut, undelivered, cacheTornDown>>
histVars == <<nextMsg, history, termDropped, drained, released>>
vars == <<strategy, state, buffer, isDiscard, signalVars, cbVars, startPc, runPc, prodVars,
          recvVars, asyncPc, termVars, histVars>>

Msgs == 1..MaxMsgs
InboundMessage == [id : Msgs, discard : BOOLEAN]
NoMsg == [id |-> 0, discard |-> FALSE]
Event == [kind : {"deliver", "drop"}, id : Msgs, tag : BOOLEAN]

Deliver(m, tag) == [kind |-> "deliver", id |-> m, tag |-> tag]
Drop(m) == [kind |-> "drop", id |-> m, tag |-> FALSE]

\* Mutant: the consumer loads isDiscard instead of clearing it by CAS.
ConsumeDiscardFlagLoadOnly == UNCHANGED isDiscard

\* The discard tag a consumer attaches to the message it pops (lines 744-747,
\* 878-881): under DropOldest the CAS on isDiscard, otherwise the pushed flag.
ConsumedTag(msg) == IF strategy = "DropOldest" THEN isDiscard ELSE msg.discard
ConsumeDiscardFlag == IF strategy = "DropOldest" THEN isDiscard' = FALSE
                                                 ELSE UNCHANGED isDiscard

Terminal == {"Terminating", "Terminated"}

-----------------------------------------------------------------------------
\* construct (lines 127-149): empty open buffer, flags cleared, no callback.
Init ==
  /\ strategy \in Strategies /\ state = "NotStarted"
  /\ buffer = <<>> /\ isDiscard = FALSE
  /\ bufChanClosed = FALSE /\ bufferClosed = FALSE
  /\ emptySignalled = FALSE /\ termNotified = FALSE
  /\ rxCallbackSet = <<>> /\ rxCallback = FALSE
  /\ rxRegistered = FALSE /\ downRegistered = FALSE
  /\ startPc = "Idle" /\ runPc = "NotRunning" /\ asyncPc = "Idle"
  /\ ppc = [p \in Producers |-> "Idle"]
  /\ pmsg = [p \in Producers |-> NoMsg]
  /\ pdrop = [p \in Producers |-> FALSE]
  /\ rpc = [r \in Receivers |-> "Idle"]
  /\ rtimeout = [r \in Receivers |-> "Finite"]
  /\ tpc = "Idle" /\ tkind = "None" /\ grace = "Zero"
  /\ timedOut = FALSE /\ undelivered = 0 /\ cacheTornDown = FALSE
  /\ nextMsg = 1 /\ history = <<>> /\ termDropped = {} /\ drained = {}
  /\ released = {}

-----------------------------------------------------------------------------
(* Start (lines 161-223).  starting() lets one caller through from         *)
(* NotStarted; later callers wait for or return its outcome and change     *)
(* nothing, so one Start goroutine is modelled.                            *)

StartCall ==
  /\ startPc = "Idle" /\ state = "NotStarted"
  /\ state' = "Starting" /\ startPc' = "Register"
  /\ UNCHANGED <<strategy, buffer, isDiscard, signalVars, cbVars, runPc, prodVars, recvVars,
                 asyncPc, termVars, histVars>>

\* AddEventHandler(down) and RegisterRXCallback (lines 199-200): from here on
\* the transport may call messageCallback and the down handler.
StartRegister ==
  /\ startPc = "Register"
  /\ rxRegistered' = TRUE /\ downRegistered' = TRUE /\ startPc' = "Subscribe"
  /\ UNCHANGED <<strategy, state, buffer, isDiscard, signalVars, rxCallbackSet, rxCallback,
                 runPc, prodVars, recvVars, asyncPc, termVars, histVars>>

\* Every startup subscription confirms: go run(), then the deferred started(nil).
StartSucceed ==
  /\ startPc = "Subscribe"
  /\ runPc' = "WaitCb" /\ state' = "Started" /\ startPc' = "Done"
  /\ UNCHANGED <<strategy, buffer, isDiscard, signalVars, cbVars, prodVars, recvVars,
                 asyncPc, termVars, histVars>>

\* A subscription fails: the deferred cleanup removes the down handler,
\* unregisters the RX callback and calls terminated(nil).  The buffer is
\* neither closed nor drained and run() is never started.
StartFail ==
  /\ startPc = "Subscribe"
  /\ downRegistered' = FALSE /\ rxRegistered' = FALSE
  /\ state' = "Terminated" /\ startPc' = "Done"
  /\ UNCHANGED <<strategy, buffer, isDiscard, signalVars, rxCallbackSet, rxCallback, runPc,
                 prodVars, recvVars, asyncPc, termVars, histVars>>

-----------------------------------------------------------------------------
(* messageCallback (lines 781-846), run by a transport thread p for each   *)
(* message while our RX callback is registered.                            *)

\* The state check (lines 782-788) and, under DropLatest, the CAS that moves a
\* pending discard notification onto the pushed message (lines 802-808).
MessageArrive(p) ==
  /\ ppc[p] = "Idle" /\ rxRegistered /\ nextMsg <= MaxMsgs
  /\ nextMsg' = nextMsg + 1
  /\ \/ /\ state \in Terminal
        /\ termDropped' = termDropped \cup {nextMsg} /\ released' = released \cup {nextMsg}
        /\ UNCHANGED <<isDiscard, prodVars>>
     \/ /\ state \notin Terminal
        /\ pmsg' = [pmsg EXCEPT ![p] = [id |-> nextMsg,
                                        discard |-> strategy = "DropLatest" /\ isDiscard]]
        /\ IF strategy = "DropLatest" THEN isDiscard' = FALSE ELSE UNCHANGED isDiscard
        /\ ppc' = [ppc EXCEPT ![p] = "Send"]
        /\ UNCHANGED <<pdrop, termDropped, released>>
  /\ UNCHANGED <<strategy, state, buffer, signalVars, cbVars, startPc, runPc, recvVars,
                 asyncPc, termVars, history, drained>>

\* Mutants of the send: 'NoCapacityCheck' queues past the capacity,
\* 'NoFlag' drops under DropLatest without setting isDiscard,
\* 'KeepDropped' returns true for the message DropLatest refused.
MessageSendMutant(p, kind) ==
  /\ ppc[p] = "Send"
  /\ \/ /\ bufChanClosed
        /\ termDropped' = termDropped \cup {pmsg[p].id}
        /\ released' = released \cup {pmsg[p].id}
        /\ ppc' = [ppc EXCEPT ![p] = "Idle"]
        /\ UNCHANGED <<buffer, isDiscard, history, pdrop>>
     \/ /\ ~bufChanClosed /\ (Len(buffer) < Capacity \/ kind = "NoCapacityCheck")
        /\ buffer' = Append(buffer, pmsg[p])
        /\ ppc' = [ppc EXCEPT ![p] = "Idle"]
        /\ UNCHANGED <<isDiscard, history, termDropped, released, pdrop>>
     \/ /\ ~bufChanClosed /\ Len(buffer) = Capacity /\ strategy = "DropOldest"
        /\ ppc' = [ppc EXCEPT ![p] = "PopOldest"]
        /\ UNCHANGED <<buffer, isDiscard, history, termDropped, released, pdrop>>
     \/ /\ ~bufChanClosed /\ Len(buffer) = Capacity /\ strategy = "DropLatest"
        /\ IF kind = "NoFlag" THEN UNCHANGED isDiscard ELSE isDiscard' = TRUE
        /\ history' = Append(history, Drop(pmsg[p].id))
        /\ ppc' = [ppc EXCEPT ![p] = "Idle"]
        /\ IF kind = "KeepDropped" THEN UNCHANGED released
                                    ELSE released' = released \cup {pmsg[p].id}
        /\ UNCHANGED <<buffer, termDropped, pdrop>>
  /\ UNCHANGED <<strategy, state, signalVars, cbVars, startPc, runPc, pmsg, recvVars,
                 asyncPc, termVars, nextMsg, drained>>
MessageSendNoCapacityCheck(p) == MessageSendMutant(p, "NoCapacityCheck")
MessageSendNoFlag(p) == MessageSendMutant(p, "NoFlag")
MessageSendKeepsDropped(p) == MessageSendMutant(p, "KeepDropped")

\* The non-blocking send (lines 809-836).  A send on the closed buffer panics;
\* the recover in the deferred function counts the message as discarded on
\* termination (lines 789-801).  messageCallback returns false, so CCSMP frees
\* the message, after the panic and for the message DropLatest refuses
\* (lines 837-845); a queued message is kept (true).
MessageSend(p) ==
  /\ ppc[p] = "Send"
  /\ \/ /\ bufChanClosed
        /\ termDropped' = termDropped \cup {pmsg[p].id}
        /\ released' = released \cup {pmsg[p].id}
        /\ ppc' = [ppc EXCEPT ![p] = "Idle"]
        /\ UNCHANGED <<buffer, isDiscard, history>>
     \/ /\ ~bufChanClosed /\ Len(buffer) < Capacity
        /\ buffer' = Append(buffer, pmsg[p])
        /\ ppc' = [ppc EXCEPT ![p] = "Idle"]
        /\ UNCHANGED <<isDiscard, history, termDropped, released>>
     \/ /\ ~bufChanClosed /\ Len(buffer) = Capacity /\ strategy = "DropOldest"
        /\ ppc' = [ppc EXCEPT ![p] = "PopOldest"]
        /\ UNCHANGED <<buffer, isDiscard, history, termDropped, released>>
     \/ /\ ~bufChanClosed /\ Len(buffer) = Capacity /\ strategy = "DropLatest"
        /\ isDiscard' = TRUE
        /\ history' = Append(history, Drop(pmsg[p].id))
        /\ ppc' = [ppc EXCEPT ![p] = "Idle"]
        /\ released' = released \cup {pmsg[p].id}
        /\ UNCHANGED <<buffer, termDropped>>
  /\ UNCHANGED <<strategy, state, signalVars, cbVars, startPc, runPc, pmsg, pdrop, recvVars,
                 asyncPc, termVars, nextMsg, drained>>

\* DropOldest: the non-blocking receive that throws away the oldest message
\* (lines 818-826).  A receive on the closed buffer still takes a queued
\* message, or returns the zero value at once when it is empty.
MessagePopOldest(p) ==
  /\ ppc[p] = "PopOldest"
  /\ \/ /\ buffer # <<>>
        /\ buffer' = Tail(buffer)
        /\ history' = Append(history, Drop(Head(buffer).id))
        /\ pdrop' = [pdrop EXCEPT ![p] = TRUE]
     \/ /\ buffer = <<>> /\ bufChanClosed
        /\ pdrop' = [pdrop EXCEPT ![p] = TRUE]
        /\ UNCHANGED <<buffer, history>>
     \/ /\ buffer = <<>> /\ ~bufChanClosed
        /\ pdrop' = [pdrop EXCEPT ![p] = FALSE]
        /\ UNCHANGED <<buffer, history>>
  /\ ppc' = [ppc EXCEPT ![p] = "StoreDiscard"]
  /\ UNCHANGED <<strategy, state, isDiscard, signalVars, cbVars, startPc, runPc, pmsg,
                 recvVars, asyncPc, termVars, nextMsg, termDropped, drained, released>>

\* Mutant: the flag store after the drop is missing.
MessageStoreDiscardSkipped(p) ==
  /\ ppc[p] = "StoreDiscard"
  /\ ppc' = [ppc EXCEPT ![p] = "BlockSend"]
  /\ UNCHANGED <<strategy, state, buffer, isDiscard, signalVars, cbVars, startPc, runPc, pmsg,
                 pdrop, recvVars, asyncPc, termVars, histVars>>

\* atomic.StoreInt32(&isDiscard, discardTrue) when a message was dropped (827-829).
MessageStoreDiscard(p) ==
  /\ ppc[p] = "StoreDiscard"
  /\ IF pdrop[p] THEN isDiscard' = TRUE ELSE UNCHANGED isDiscard
  /\ ppc' = [ppc EXCEPT ![p] = "BlockSend"]
  /\ UNCHANGED <<strategy, state, buffer, signalVars, cbVars, startPc, runPc, pmsg, pdrop,
                 recvVars, asyncPc, termVars, histVars>>

\* The blocking send receiver.buffer <- toPush (line 832): it waits for room,
\* or panics once the buffer is closed (recovered as a termination discard).
MessageBlockSend(p) ==
  /\ ppc[p] = "BlockSend"
  /\ \/ /\ bufChanClosed
        /\ termDropped' = termDropped \cup {pmsg[p].id}
        /\ released' = released \cup {pmsg[p].id}
        /\ UNCHANGED buffer
     \/ /\ ~bufChanClosed /\ Len(buffer) < Capacity
        /\ buffer' = Append(buffer, pmsg[p])
        /\ UNCHANGED <<termDropped, released>>
  /\ ppc' = [ppc EXCEPT ![p] = "Idle"]
  /\ UNCHANGED <<strategy, state, isDiscard, signalVars, cbVars, startPc, runPc, pmsg, pdrop,
                 recvVars, asyncPc, termVars, nextMsg, history, drained>>

-----------------------------------------------------------------------------
(* run(), the dispatcher goroutine (lines 848-909).                        *)

\* cont := <-receiver.rxCallbackSet (lines 852-857): false ends the goroutine.
RunWaitCallback ==
  /\ runPc = "WaitCb" /\ rxCallbackSet # <<>>
  /\ rxCallbackSet' = Tail(rxCallbackSet)
  /\ runPc' = IF Head(rxCallbackSet) THEN "Loop" ELSE "Done"
  /\ UNCHANGED <<strategy, state, buffer, isDiscard, signalVars, rxCallback, rxRegistered,
                 downRegistered, startPc, prodVars, recvVars, asyncPc, termVars, histVars>>

\* The non-blocking check of terminationNotification (lines 862-868).
RunCheckTermination ==
  /\ runPc = "Loop"
  /\ runPc' = IF termNotified THEN "Done" ELSE "Select"
  /\ UNCHANGED <<strategy, state, buffer, isDiscard, signalVars, cbVars, startPc, prodVars,
                 recvVars, asyncPc, termVars, histVars>>

\* The blocking select (lines 870-907), case received, ok: pop the message,
\* take the discard tag, and call the (non-nil) callback.
RunReceive ==
  /\ runPc = "Select" /\ buffer # <<>>
  /\ buffer' = Tail(buffer)
  /\ history' = Append(history, Deliver(Head(buffer).id, ConsumedTag(Head(buffer))))
  /\ ConsumeDiscardFlag
  /\ runPc' = "Callback"
  /\ UNCHANGED <<strategy, state, signalVars, cbVars, startPc, prodVars, recvVars, asyncPc,
                 termVars, nextMsg, termDropped, drained, released>>

\* The application callback returns (a panic is recovered, lines 887-894).
RunCallbackReturn ==
  /\ runPc = "Callback"
  /\ runPc' = "Loop"
  /\ UNCHANGED <<strategy, state, buffer, isDiscard, signalVars, cbVars, startPc, prodVars,
                 recvVars, asyncPc, termVars, histVars>>

\* Case !ok: the buffer is closed and empty; signal buffer-empty once (896-902).
RunBufferClosed ==
  /\ runPc = "Select" /\ bufChanClosed /\ buffer = <<>>
  /\ emptySignalled' = TRUE
  /\ runPc' = "Done"
  /\ UNCHANGED <<strategy, state, buffer, isDiscard, bufChanClosed, bufferClosed, termNotified,
                 cbVars, startPc, prodVars, recvVars, asyncPc, termVars, histVars>>

\* Case <-terminationNotification while waiting for a message (lines 904-906).
RunInterrupted ==
  /\ runPc = "Select" /\ termNotified
  /\ runPc' = "Done"
  /\ UNCHANGED <<strategy, state, buffer, isDiscard, signalVars, cbVars, startPc, prodVars,
                 recvVars, asyncPc, termVars, histVars>>

-----------------------------------------------------------------------------
(* ReceiveMessage (lines 704-754), called by application thread r.         *)

\* The state check (lines 705-708), then the wait with timeout t.
ReceiveCall(r) ==
  /\ rpc[r] = "Idle" /\ state \notin {"NotStarted", "Starting"}
  /\ \E t \in Timeouts : rtimeout' = [rtimeout EXCEPT ![r] = t]
  /\ rpc' = [rpc EXCEPT ![r] = "Waiting"]
  /\ UNCHANGED <<strategy, state, buffer, isDiscard, signalVars, cbVars, startPc, runPc,
                 prodVars, asyncPc, termVars, histVars>>

\* Case msg, ok = <-receiver.buffer with ok (lines 721, 731, 744-751).
ReceiveTake(r) ==
  /\ rpc[r] = "Waiting" /\ buffer # <<>>
  /\ buffer' = Tail(buffer)
  /\ history' = Append(history, Deliver(Head(buffer).id, ConsumedTag(Head(buffer))))
  /\ ConsumeDiscardFlag
  /\ rpc' = [rpc EXCEPT ![r] = "Defer"]
  /\ UNCHANGED <<strategy, state, signalVars, cbVars, startPc, runPc, prodVars, rtimeout,
                 asyncPc, termVars, nextMsg, termDropped, drained, released>>

\* The wait ends without a message: the buffer is closed and empty (ok is
\* false, line 737), bufferEmptyOnTerminate is closed (lines 725, 733), or the
\* timer of a non-negative timeout fires (line 723).
ReceiveNoMessage(r) ==
  /\ rpc[r] = "Waiting"
  /\ \/ bufChanClosed /\ buffer = <<>>
     \/ emptySignalled
     \/ rtimeout[r] = "Finite"
  /\ rpc' = [rpc EXCEPT ![r] = "Defer"]
  /\ UNCHANGED <<strategy, state, buffer, isDiscard, signalVars, cbVars, startPc, runPc,
                 prodVars, rtimeout, asyncPc, termVars, histVars>>

\* The deferred check (lines 709-715): after termination closed the buffer, the
\* caller that empties it signals buffer-empty (once, by CAS).
ReceiveDefer(r) ==
  /\ rpc[r] = "Defer"
  /\ IF bufferClosed /\ buffer = <<>> THEN emptySignalled' = TRUE
                                      ELSE UNCHANGED emptySignalled
  /\ rpc' = [rpc EXCEPT ![r] = "Idle"]
  /\ UNCHANGED <<strategy, state, buffer, isDiscard, bufChanClosed, bufferClosed, termNotified,
                 cbVars, startPc, runPc, prodVars, rtimeout, asyncPc, termVars, histVars>>

-----------------------------------------------------------------------------
(* ReceiveAsync (lines 760-779).                                           *)

\* The state check (lines 761-763).
ReceiveAsyncCall ==
  /\ asyncPc = "Idle" /\ state \notin Terminal
  /\ asyncPc' = "Set"
  /\ UNCHANGED <<strategy, state, buffer, isDiscard, signalVars, cbVars, startPc, runPc,
                 prodVars, recvVars, termVars, histVars>>

\* The first callback wins the CAS from nil and offers true on rxCallbackSet
\* without blocking; a later one is stored over it (lines 768-777).
ReceiveAsyncSet ==
  /\ asyncPc = "Set"
  /\ rxCallback' = TRUE
  /\ IF ~rxCallback /\ rxCallbackSet = <<>>
       THEN rxCallbackSet' = <<TRUE>>
       ELSE UNCHANGED rxCallbackSet
  /\ asyncPc' = "Idle"
  /\ UNCHANGED <<strategy, state, buffer, isDiscard, signalVars, rxRegistered, downRegistered,
                 startPc, runPc, prodVars, recvVars, termVars, histVars>>

-----------------------------------------------------------------------------
(* Termination: Terminate (lines 260-339) and unsolicitedTermination       *)
(* (lines 341-395), run by one goroutine; tkind says which.  terminate()   *)
(* lets only one of them through, so there is one terminator.             *)

\* terminate() on a receiver never started: straight to Terminated, nothing
\* closed, nil returned.
TerminateUnstarted ==
  /\ tpc = "Idle" /\ state = "NotStarted"
  /\ state' = "Terminated" /\ tpc' = "Done"
  /\ UNCHANGED <<strategy, buffer, isDiscard, signalVars, cbVars, startPc, runPc, prodVars,
                 recvVars, asyncPc, tkind, grace, timedOut, undelivered,
                 cacheTornDown, histVars>>

\* Terminate(gracePeriod) on a started receiver (lines 261-263).
TerminateCall ==
  /\ tpc = "Idle" /\ state = "Started"
  /\ \E g \in GracePeriods : grace' = g
  /\ state' = "Terminating" /\ tkind' = "Explicit" /\ tpc' = "Cleanup"
  /\ UNCHANGED <<strategy, buffer, isDiscard, signalVars, cbVars, startPc, runPc, prodVars,
                 recvVars, asyncPc, timedOut, undelivered, cacheTornDown, histVars>>

\* onDownEvent starts unsolicitedTermination; its terminate() proceeds only
\* from Started (lines 151-154, 342-345).
DownEvent ==
  /\ tpc = "Idle" /\ downRegistered /\ state = "Started"
  /\ state' = "Terminating" /\ tkind' = "Unsolicited" /\ tpc' = "Unregister"
  /\ UNCHANGED <<strategy, buffer, isDiscard, signalVars, cbVars, startPc, runPc, prodVars,
                 recvVars, asyncPc, grace, timedOut, undelivered, cacheTornDown, histVars>>

\* cleanupSubscriptions (line 275); its interleavings are in Subscriptions.
TerminateCleanup ==
  /\ tpc = "Cleanup"
  /\ tpc' = "Unregister"
  /\ UNCHANGED <<strategy, state, buffer, isDiscard, signalVars, cbVars, startPc, runPc,
                 prodVars, recvVars, asyncPc, tkind, grace, timedOut, undelivered,
                 cacheTornDown, histVars>>

\* Mutant: termination does not offer false on rxCallbackSet.
TermUnregisterNoWake ==
  /\ tpc = "Unregister"
  /\ rxRegistered' = FALSE /\ downRegistered' = FALSE
  /\ tpc' = "CloseBuffer"
  /\ UNCHANGED <<strategy, state, buffer, isDiscard, signalVars, rxCallbackSet, rxCallback,
                 startPc, runPc, prodVars, recvVars, asyncPc, tkind, grace, timedOut,
                 undelivered, cacheTornDown, histVars>>

\* UnregisterRXCallback, RemoveEventHandler, and false offered on
\* rxCallbackSet without blocking (lines 277-287, 350-360).
TermUnregister ==
  /\ tpc = "Unregister"
  /\ rxRegistered' = FALSE /\ downRegistered' = FALSE
  /\ IF rxCallbackSet = <<>> THEN rxCallbackSet' = <<FALSE>>
                             ELSE UNCHANGED rxCallbackSet
  /\ tpc' = "CloseBuffer"
  /\ UNCHANGED <<strategy, state, buffer, isDiscard, signalVars, rxCallback, startPc, runPc,
                 prodVars, recvVars, asyncPc, tkind, grace, timedOut, undelivered,
                 cacheTornDown, histVars>>

\* close(receiver.buffer) (lines 291, 364).
TermCloseBuffer ==
  /\ tpc = "CloseBuffer"
  /\ bufChanClosed' = TRUE /\ tpc' = "SetClosed"
  /\ UNCHANGED <<strategy, state, buffer, isDiscard, bufferClosed, emptySignalled, termNotified,
                 cbVars, startPc, runPc, prodVars, recvVars, asyncPc, tkind, grace,
                 timedOut, undelivered, cacheTornDown, histVars>>

\* Terminate: set bufferClosed, then signal buffer-empty if nothing is left
\* (lines 298-310).
TerminateSetClosed ==
  /\ tpc = "SetClosed" /\ tkind = "Explicit"
  /\ bufferClosed' = TRUE
  /\ IF buffer = <<>> THEN emptySignalled' = TRUE ELSE UNCHANGED emptySignalled
  /\ tpc' = "Wait"
  /\ UNCHANGED <<strategy, state, buffer, isDiscard, bufChanClosed, termNotified, cbVars,
                 startPc, runPc, prodVars, recvVars, asyncPc, tkind, grace, timedOut,
                 undelivered, cacheTornDown, histVars>>

\* The select of the grace timer against bufferEmptyOnTerminate (312-336).
\* time.NewTimer fires after gracePeriod, at once when it is zero or
\* negative, so the timer case can be taken whatever grace period was given;
\* taking it closes terminationNotification.
TerminateWait ==
  /\ tpc = "Wait"
  /\ \/ /\ termNotified' = TRUE /\ timedOut' = TRUE
        /\ UNCHANGED emptySignalled
     \/ /\ emptySignalled
        /\ UNCHANGED <<termNotified, timedOut, emptySignalled>>
  /\ tpc' = "Join"
  /\ UNCHANGED <<strategy, state, buffer, isDiscard, bufChanClosed, bufferClosed, cbVars,
                 startPc, runPc, prodVars, recvVars, asyncPc, tkind, grace,
                 undelivered, cacheTornDown, histVars>>

\* <-receiver.terminationComplete: wait for run() to return (lines 319, 335).
TerminateJoin ==
  /\ tpc = "Join" /\ runPc = "Done"
  /\ tpc' = IF timedOut THEN "Drain" ELSE "Teardown"
  /\ UNCHANGED <<strategy, state, buffer, isDiscard, signalVars, cbVars, startPc, runPc,
                 prodVars, recvVars, asyncPc, tkind, grace, timedOut, undelivered,
                 cacheTornDown, histVars>>

\* unsolicitedTermination: set bufferClosed, then close terminationNotification
\* (lines 365-368); it does not wait for run().
UnsolicitedSetClosed ==
  /\ tpc = "SetClosed" /\ tkind = "Unsolicited"
  /\ bufferClosed' = TRUE /\ tpc' = "Notify"
  /\ UNCHANGED <<strategy, state, buffer, isDiscard, bufChanClosed, emptySignalled, termNotified,
                 cbVars, startPc, runPc, prodVars, recvVars, asyncPc, tkind, grace,
                 timedOut, undelivered, cacheTornDown, histVars>>

UnsolicitedNotify ==
  /\ tpc = "Notify"
  /\ termNotified' = TRUE /\ tpc' = "Drain"
  /\ UNCHANGED <<strategy, state, buffer, isDiscard, bufChanClosed, bufferClosed, emptySignalled,
                 cbVars, startPc, runPc, prodVars, recvVars, asyncPc, tkind, grace,
                 timedOut, undelivered, cacheTornDown, histVars>>

\* Mutant: drainQueue takes a message off the buffer without freeing it.
drainQueueNoFree ==
  /\ tpc = "Drain" /\ buffer # <<>>
  /\ buffer' = Tail(buffer)
  /\ undelivered' = undelivered + 1
  /\ UNCHANGED <<strategy, state, isDiscard, signalVars, cbVars, startPc, runPc, prodVars,
                 recvVars, asyncPc, tpc, tkind, grace, timedOut, cacheTornDown, histVars>>

\* drainQueue (lines 430-440): one iteration of 'for msg := range buffer'
\* frees a message and counts it as undelivered.
drainQueue ==
  /\ tpc = "Drain" /\ buffer # <<>>
  /\ buffer' = Tail(buffer)
  /\ drained' = drained \cup {Head(buffer).id}
  /\ undelivered' = undelivered + 1
  /\ UNCHANGED <<strategy, state, isDiscard, signalVars, cbVars, startPc, runPc, prodVars,
                 recvVars, asyncPc, tpc, tkind, grace, timedOut, cacheTornDown,
                 nextMsg, history, termDropped, released>>

\* Mutant: the drain loop ends before the buffer is empty.
DrainEndEarly ==
  /\ tpc = "Drain" /\ bufChanClosed
  /\ emptySignalled' = TRUE
  /\ \/ /\ tkind = "Explicit" /\ undelivered > 0
        /\ state' = "Terminated" /\ tpc' = "Done"
     \/ /\ tkind = "Explicit" /\ undelivered = 0
        /\ tpc' = "Teardown" /\ UNCHANGED state
     \/ /\ tkind = "Unsolicited"
        /\ state' = "Terminated" /\ tpc' = "Teardown"
  /\ UNCHANGED <<strategy, buffer, isDiscard, bufChanClosed, bufferClosed, termNotified, cbVars,
                 startPc, runPc, prodVars, recvVars, asyncPc, tkind, grace, timedOut,
                 undelivered, cacheTornDown, histVars>>

\* The range ends on the closed, empty buffer; buffer-empty is signalled.
\* Terminate then returns the IncompleteMessageDeliveryError at once when
\* messages were undelivered (lines 322-329, deferred terminated(err)), and
\* reaches teardownCache only otherwise.  unsolicitedTermination calls
\* terminated(err) and then teardownCache (lines 379-394).
DrainEnd ==
  /\ tpc = "Drain" /\ bufChanClosed /\ buffer = <<>>
  /\ emptySignalled' = TRUE
  /\ \/ /\ tkind = "Explicit" /\ undelivered > 0
        /\ state' = "Terminated" /\ tpc' = "Done"
     \/ /\ tkind = "Explicit" /\ undelivered = 0
        /\ tpc' = "Teardown" /\ UNCHANGED state
     \/ /\ tkind = "Unsolicited"
        /\ state' = "Terminated" /\ tpc' = "Teardown"
  /\ UNCHANGED <<strategy, buffer, isDiscard, bufChanClosed, bufferClosed, termNotified, cbVars,
                 startPc, runPc, prodVars, recvVars, asyncPc, tkind, grace, timedOut,
                 undelivered, cacheTornDown, histVars>>

\* teardownCache (lines 337, 394); Terminate's deferred terminated(nil) follows.
TermTeardown ==
  /\ tpc = "Teardown"
  /\ cacheTornDown' = TRUE
  /\ IF tkind = "Explicit" THEN state' = "Terminated" ELSE UNCHANGED state
  /\ tpc' = "Done"
  /\ UNCHANGED <<strategy, buffer, isDiscard, signalVars, cbVars, startPc, runPc, prodVars,
                 recvVars, asyncPc, tkind, grace, timedOut, undelivered, histVars>>

-----------------------------------------------------------------------------
StartSteps == StartRegister \/ StartSucceed \/ StartFail
RunSteps == RunWaitCallback \/ RunCheckTermination \/ RunReceive
            \/ RunCallbackReturn \/ RunBufferClosed \/ RunInterrupted
ProducerSteps(p) == MessageSend(p) \/ MessagePopOldest(p)
                    \/ MessageStoreDiscard(p) \/ MessageBlockSend(p)
ReceiverSteps(r) == ReceiveTake(r) \/ ReceiveNoMessage(r) \/ ReceiveDefer(r)
TerminatorSteps == TerminateCleanup \/ TermUnregister \/ TermCloseBuffer
                   \/ TerminateSetClosed \/ TerminateWait \/ TerminateJoin
                   \/ UnsolicitedSetClosed \/ UnsolicitedNotify
                   \/ drainQueue \/ DrainEnd \/ TermTeardown

\* Calls and events the application and the transport may or may not make.
Environment ==
  \/ StartCall \/ TerminateUnstarted \/ TerminateCall \/ DownEvent
  \/ ReceiveAsyncCall
  \/ \E p \in Producers : MessageArrive(p)
  \/ \E r \in Receivers : ReceiveCall(r)

Next ==
  \/ Environment \/ StartSteps \/ RunSteps \/ TerminatorSteps \/ ReceiveAsyncSet
  \/ \E p \in Producers : ProducerSteps(p)
  \/ \E r \in Receivers : ReceiverSteps(r)

Spec == Init /\ [][Next]_vars

\* Goroutines that have begun an operation finish it: the Go scheduler runs
\* every runnable goroutine, the grace timer fires, and an application
\* callback returns.  The application and the transport owe nothing.
Fairness ==
  /\ WF_vars(StartSteps) /\ WF_vars(RunSteps) /\ WF_vars(TerminatorSteps)
  /\ WF_vars(ReceiveAsyncSet)
  /\ \A p \in Producers : WF_vars(ProducerSteps(p))
  /\ \A r \in Receivers : WF_vars(ReceiverSteps(r))

FairSpec == Spec /\ Fairness

-----------------------------------------------------------------------------
(* Properties.                                                             *)

Pcs == {"Idle", "Send", "PopOldest", "StoreDiscard", "BlockSend"}

\* Every variable has its type; in particular receiver.buffer never holds more
\* than its capacity, the bound the non-blocking send in messageCallback and
\* the drop paths rely on.
TypeOK ==
  /\ strategy \in Strategies
  /\ state \in {"NotStarted", "Starting", "Started", "Terminating", "Terminated"}
  /\ buffer \in Seq(InboundMessage) /\ Len(buffer) <= Capacity
  /\ rxCallbackSet \in Seq(BOOLEAN) /\ Len(rxCallbackSet) <= 1
  /\ ppc \in [Producers -> Pcs] /\ pmsg \in [Producers -> InboundMessage \cup {NoMsg}]
  /\ rpc \in [Receivers -> {"Idle", "Waiting", "Defer"}]
  /\ runPc \in {"NotRunning", "WaitCb", "Loop", "Select", "Callback", "Done"}
  /\ history \in Seq(Event) /\ undelivered \in 0..MaxMsgs
  /\ termDropped \subseteq Msgs /\ drained \subseteq Msgs /\ released \subseteq Msgs

\* Where message m is: queued, held by a transport thread inside
\* messageCallback, delivered or dropped (history), discarded on termination,
\* or freed by drainQueue.
Occurrences(m) ==
  Cardinality({i \in DOMAIN buffer : buffer[i].id = m})
  + Cardinality({i \in DOMAIN history : history[i].id = m})
  + Cardinality({p \in Producers : ppc[p] # "Idle" /\ pmsg[p].id = m})
  + (IF m \in termDropped THEN 1 ELSE 0) + (IF m \in drained THEN 1 ELSE 0)

\* Each message the transport handed to messageCallback is in exactly one
\* place: the dispatcher, synchronous receivers, the drop-oldest pop and
\* drainQueue, which all take from the buffer concurrently, never deliver a
\* message twice, never both deliver and free it, and never lose it.
MessagesConserved == \A m \in 1..(nextMsg - 1) : Occurrences(m) = 1

\* Message m is still held by the receiver (queued or inside messageCallback),
\* was given to the application, or was freed by drainQueue.
Owned(m) ==
  \/ \E i \in DOMAIN buffer : buffer[i].id = m
  \/ \E p \in Producers : ppc[p] # "Idle" /\ pmsg[p].id = m
  \/ \E i \in DOMAIN history : history[i] = Deliver(m, history[i].tag)
  \/ m \in drained

\* Message m was thrown away by the DropOldest pop (line 819).
PoppedOldest(m) ==
  strategy = "DropOldest" /\ \E i \in DOMAIN history : history[i] = Drop(m)

\* messageCallback's return value hands a message to CCSMP to free exactly
\* when nobody else holds it: a message it returned false for (after the
\* terminated check, the recovered panic, or the DropLatest refusal) is never
\* queued, delivered or drained, and every message no longer owned was
\* returned false for, except the message the DropOldest pop throws away,
\* which nobody frees (see the hazard at line 819).
MessageOwnership ==
  \A m \in 1..(nextMsg - 1) : (m \in released) = ~(Owned(m) \/ PoppedOldest(m))

TaggedDeliveries == {i \in DOMAIN history : history[i].kind = "deliver" /\ history[i].tag}
Drops == {i \in DOMAIN history : history[i].kind = "drop"}

\* A backpressure drop that no later delivery has reported yet.
DropUnreported ==
  \E i \in Drops : \A j \in TaggedDeliveries : j < i

\* A drop is never forgotten while the buffer is open: until a delivered
\* message carries the discard tag, the notification is pending in isDiscard,
\* on a queued or about-to-be-pushed message (DropLatest), or with the
\* transport thread that is between dropping and storing the flag
\* (DropOldest, lines 818-829).
DropNotificationNotLost ==
  (DropUnreported /\ ~bufChanClosed) =>
     \/ isDiscard
     \/ \E i \in DOMAIN buffer : buffer[i].discard
     \/ \E p \in Producers : ppc[p] = "Send" /\ pmsg[p].discard
     \/ \E p \in Producers : ppc[p] = "StoreDiscard" /\ pdrop[p]

\* The discard flag is consumed by CAS (lines 746, 805, 880): at no point have
\* more delivered messages carried the tag than messages were dropped.
DiscardTagsBounded == Cardinality(TaggedDeliveries) <= Cardinality(Drops)

\* Once termination begins, by Terminate or by a down event, the receiver
\* reaches Terminated: run() exits, the wait for drain or timer ends, and
\* drainQueue finishes.
TerminationCompletes == (state = "Terminating") ~> (state = "Terminated")

InBuffer(m) == \E i \in DOMAIN buffer : buffer[i].id = m

\* A message queued while the dispatcher is consuming, or while the receiver
\* is terminating, leaves the buffer: it is delivered, dropped or freed.
BufferedMessageResolved ==
  \A m \in Msgs :
    (InBuffer(m) /\ (runPc \in {"Loop", "Select", "Callback"} \/ state = "Terminating"))
      ~> ~InBuffer(m)

-----------------------------------------------------------------------------
(* What the documentation and spec.md say, checked against the code.       *)

\* Terminate's doc comment (lines 258-259): a negative grace period waits
\* indefinitely for the buffer to drain, so never takes the timer path.
NegativeGraceWaits == ~(grace = "Negative" /\ timedOut)

\* spec.md 4.4: after either path, Terminate tears down the cache-request
\* resources before the receiver is Terminated.
TerminateTearsDownCache ==
  (tkind = "Explicit" /\ state = "Terminated") => cacheTornDown

\* spec.md 5: the discard tag goes to the next message delivered after a drop.
NextDeliveryAfterDropTagged ==
  \A i, j \in DOMAIN history :
    (/\ i < j /\ history[i].kind = "drop" /\ history[j].kind = "deliver"
     /\ \A k \in (i + 1)..(j - 1) : history[k].kind = "drop")
      => history[j].tag

\* spec.md 5: a synchronous ReceiveMessage waits for data, its timeout, or the
\* end of termination; once the receiver is Terminated a waiting call returns.
ReceiveReturnsAfterTermination ==
  \A r \in Receivers : (rpc[r] = "Waiting" /\ state = "Terminated") ~> (rpc[r] # "Waiting")

=============================================================================
