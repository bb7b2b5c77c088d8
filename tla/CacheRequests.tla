---------------------------- MODULE CacheRequests -----------------------------
(***************************************************************************)
(* The cache request registry of directMessageReceiverImpl                 *)
(* (src/internal/impl/receiver/direct_message_receiver_impl.go, lines      *)
(* 924-1182): submission by RequestCachedAsync and                         *)
(* RequestCachedAsyncWithCallback, the lazily started poller goroutine     *)
(* PollAndProcessCacheResponseChannel, and teardownCache, which the        *)
(* termination coordinator calls once the receiver is Terminating.         *)
(* Submitters, the poller, the terminator and the transport's callback     *)
(* threads run concurrently; a request is identified by a number standing  *)
(* for its cache session index.                                            *)
(***************************************************************************)
EXTENDS Integers, Sequences, FiniteSets

CONSTANTS
  Submitters,      \* application threads submitting cache requests
  MaxOutstanding,  \* MaxOutstandingCacheRequests, also the channel capacity
  MaxSubmits,      \* bound on the number of cache requests created
  None             \* model value: no lock holder

ASSUME MaxOutstanding \in Nat \ {0} /\ MaxSubmits \in Nat \ {0} /\ None \notin Submitters

VARIABLES
  state,                    \* receiver lifecycle word, as far as the cache reads it
  transportRunning,         \* internalReceiver.IsRunning()
  lockHolder,               \* cacheResourceLock
  numOutstanding,           \* numOutstandingCacheRequests
  chanCreated,              \* cacheResponseChan != nil
  cacheResponseChan,        \* its queued events: request numbers
  chanClosed,               \* close(cacheResponseChan) has run
  runChanClosed,            \* close(cachePollingRunningChan) has run
  cachePollingRunning,      \* the cachePollingRunning atomic flag
  ppc, pev,                 \* the poller goroutine and the event it holds
  spc, sreq,                \* per submitter: step and the request it created
  skind,                    \* per submitter: the API it called, channel or callback
  cacheRequestMap,          \* indices in cacheRequestMap
  callbackReqs,             \* requests submitted with an application callback
  pending,                  \* requests the transport holds and will answer
  nextReq,                  \* number of the next cache request created
  tpc, rangeSnap, visited,  \* teardownCache: step, keys at Range start, keys done
  resolved,                 \* times each request's processor was invoked
  panicked                  \* which goroutine panicked, "None" if none

submitVars == <<spc, sreq, skind, nextReq>>
chanVars == <<chanCreated, cacheResponseChan, chanClosed, runChanClosed, cachePollingRunning>>
pollVars == <<ppc, pev>>
termVars == <<tpc, rangeSnap, visited>>
vars == <<state, transportRunning, lockHolder, numOutstanding, chanVars, pollVars,
          submitVars, cacheRequestMap, callbackReqs, pending, termVars, resolved, panicked>>

Reqs == 1..MaxSubmits
Kinds == {"Channel", "Callback"}
\* A submitter between the counter increment and its return holds one count.
Counted == {"Init", "AwaitPoller", "SetRunning", "Create", "AddMap", "Send"}
\* A submitter that has not yet created its request.
Uncreated == {"Check", "Init", "AwaitPoller", "SetRunning", "Create"}

\* Once a goroutine panics the process is gone: nothing else happens.
Alive == panicked = "None"

-----------------------------------------------------------------------------
\* A started receiver with no cache resources allocated yet.
Init ==
  /\ state = "Started" /\ transportRunning = TRUE
  /\ lockHolder = None /\ numOutstanding = 0
  /\ chanCreated = FALSE /\ cacheResponseChan = <<>> /\ chanClosed = FALSE
  /\ runChanClosed = FALSE /\ cachePollingRunning = FALSE
  /\ ppc = "NotStarted" /\ pev = 0
  /\ spc = [s \in Submitters |-> "Idle"]
  /\ sreq = [s \in Submitters |-> 0]
  /\ skind = [s \in Submitters |-> "Channel"]
  /\ cacheRequestMap = {} /\ callbackReqs = {} /\ pending = {} /\ nextReq = 1
  /\ tpc = "Idle" /\ rangeSnap = {} /\ visited = {}
  /\ resolved = [r \in Reqs |-> 0]
  /\ panicked = "None"

-----------------------------------------------------------------------------
(* Submission (RequestCachedAsync 1001-1057, RequestCachedAsyncWithCallback *)
(* 1059-1102; the two differ only in how the response reaches the caller). *)

\* The call, which takes cacheResourceLock, for a request whose response goes
\* to the application as kind says.  Calls stop once MaxSubmits requests
\* could have been created.
SubmitCall(s, kind) ==
  /\ Alive
  /\ spc[s] = "Idle" /\ lockHolder = None
  /\ nextReq + Cardinality({q \in Submitters : spc[q] \in Uncreated}) <= MaxSubmits
  /\ lockHolder' = s /\ spc' = [spc EXCEPT ![s] = "Check"]
  /\ skind' = [skind EXCEPT ![s] = kind]
  /\ UNCHANGED <<state, transportRunning, numOutstanding, chanVars, pollVars, sreq,
                 nextReq, cacheRequestMap, callbackReqs, pending, termVars, resolved, panicked>>

\* RequestCachedAsync (1000-1010): the response reaches the application
\* through the channel the call returns.
RequestCachedAsync(s) == SubmitCall(s, "Channel")

\* RequestCachedAsyncWithCallback (1059-1060): the response is handed to the
\* application's callback on the poller goroutine.
RequestCachedAsyncWithCallback(s) == SubmitCall(s, "Callback")

\* Mutant: the ceiling is checked with > instead of >=.
SubmitCheckOffByOne(s) ==
  /\ Alive
  /\ spc[s] = "Check"
  /\ IF state = "Started" /\ transportRunning /\ ~(numOutstanding > MaxOutstanding)
       THEN numOutstanding' = numOutstanding + 1 /\ spc' = [spc EXCEPT ![s] = "Init"]
            /\ UNCHANGED lockHolder
       ELSE lockHolder' = None /\ spc' = [spc EXCEPT ![s] = "Idle"]
            /\ UNCHANGED numOutstanding
  /\ UNCHANGED <<state, transportRunning, chanVars, pollVars, sreq, skind, nextReq,
                 cacheRequestMap, callbackReqs, pending, termVars, resolved, panicked>>

\* checkStateForCacheRequest (946-969) under the lock: Started, transport
\* running and fewer than MaxOutstanding outstanding, or unlock and fail;
\* then the atomic increment (lines 1017, 1067).
SubmitCheck(s) ==
  /\ Alive
  /\ spc[s] = "Check"
  /\ IF state = "Started" /\ transportRunning /\ ~(numOutstanding >= MaxOutstanding)
       THEN numOutstanding' = numOutstanding + 1 /\ spc' = [spc EXCEPT ![s] = "Init"]
            /\ UNCHANGED lockHolder
       ELSE lockHolder' = None /\ spc' = [spc EXCEPT ![s] = "Idle"]
            /\ UNCHANGED numOutstanding
  /\ UNCHANGED <<state, transportRunning, chanVars, pollVars, sreq, skind, nextReq,
                 cacheRequestMap, callbackReqs, pending, termVars, resolved, panicked>>

\* StartAndInitCacheRequestorIfNotDoneAlready (924-943): make the channels if
\* nil; if the poller flag is clear, 'go PollAndProcessCacheResponseChannel()'
\* and wait for it, else unlock (lines 1019, 1069).
SubmitInit(s) ==
  /\ Alive
  /\ spc[s] = "Init"
  /\ chanCreated' = TRUE
  /\ IF cachePollingRunning
       THEN lockHolder' = None /\ spc' = [spc EXCEPT ![s] = "Create"] /\ UNCHANGED ppc
       ELSE ppc' = "Announce" /\ spc' = [spc EXCEPT ![s] = "AwaitPoller"]
            /\ UNCHANGED lockHolder
  /\ UNCHANGED <<state, transportRunning, numOutstanding, cacheResponseChan, chanClosed,
                 runChanClosed, cachePollingRunning, pev, sreq, skind, nextReq,
                 cacheRequestMap, callbackReqs, pending, termVars, resolved, panicked>>

\* <-cachePollingRunningChan returns at once once the channel is closed; the
\* hand-over from a live poller is PollerAnnounce.
SubmitAwaitClosed(s) ==
  /\ Alive
  /\ spc[s] = "AwaitPoller" /\ runChanClosed
  /\ spc' = [spc EXCEPT ![s] = "SetRunning"]
  /\ UNCHANGED <<state, transportRunning, lockHolder, numOutstanding, chanVars, pollVars,
                 sreq, skind, nextReq, cacheRequestMap, callbackReqs, pending, termVars,
                 resolved, panicked>>

\* setCachePollingRunning(true) (line 934), then unlock.
SubmitSetRunning(s) ==
  /\ Alive
  /\ spc[s] = "SetRunning"
  /\ cachePollingRunning' = TRUE /\ lockHolder' = None
  /\ spc' = [spc EXCEPT ![s] = "Create"]
  /\ UNCHANGED <<state, transportRunning, numOutstanding, chanCreated, cacheResponseChan,
                 chanClosed, runChanClosed, pollVars, sreq, skind, nextReq,
                 cacheRequestMap, callbackReqs, pending, termVars, resolved, panicked>>

\* CreateCacheRequest (lines 1032-1036, 1077-1081): on error roll the
\* counter back and return.
SubmitCreate(s) ==
  /\ Alive
  /\ spc[s] = "Create"
  /\ \/ /\ sreq' = [sreq EXCEPT ![s] = nextReq] /\ nextReq' = nextReq + 1
        /\ spc' = [spc EXCEPT ![s] = "AddMap"]
        /\ UNCHANGED numOutstanding
     \/ /\ numOutstanding' = numOutstanding - 1 /\ spc' = [spc EXCEPT ![s] = "Idle"]
        /\ UNCHANGED <<sreq, nextReq>>
  /\ UNCHANGED <<state, transportRunning, lockHolder, chanVars, pollVars, skind,
                 cacheRequestMap, callbackReqs, pending, termVars, resolved, panicked>>

\* addCacheSessionToMapIfNotPresent (973-999).  Indices are unique (the
\* transport guarantees distinct cache sessions), so the store succeeds.
SubmitAddMap(s) ==
  /\ Alive
  /\ spc[s] = "AddMap"
  /\ cacheRequestMap' = cacheRequestMap \cup {sreq[s]}
  /\ callbackReqs' = IF skind[s] = "Callback" THEN callbackReqs \cup {sreq[s]}
                                                ELSE callbackReqs
  /\ spc' = [spc EXCEPT ![s] = "Send"]
  /\ UNCHANGED <<state, transportRunning, lockHolder, numOutstanding, chanVars, pollVars,
                 sreq, skind, nextReq, pending, termVars, resolved, panicked>>

\* Mutant: a failed send removes the map entry but does not roll back the counter.
SubmitSendNoRollback(s) ==
  /\ Alive
  /\ spc[s] = "Send"
  /\ \/ pending' = pending \cup {sreq[s]} /\ UNCHANGED <<numOutstanding, cacheRequestMap>>
     \/ /\ cacheRequestMap' = cacheRequestMap \ {sreq[s]}
        /\ UNCHANGED <<numOutstanding, pending>>
  /\ spc' = [spc EXCEPT ![s] = "Idle"] /\ sreq' = [sreq EXCEPT ![s] = 0]
  /\ UNCHANGED <<state, transportRunning, lockHolder, chanVars, pollVars,
                 skind, nextReq, callbackReqs, termVars, resolved, panicked>>

\* SendCacheRequest (lines 1043-1054, 1087-1097): on success the transport
\* owns the request; on error roll back the counter, delete the map entry
\* and destroy the request.
SubmitSend(s) ==
  /\ Alive
  /\ spc[s] = "Send"
  /\ \/ pending' = pending \cup {sreq[s]} /\ UNCHANGED <<numOutstanding, cacheRequestMap>>
     \/ /\ numOutstanding' = numOutstanding - 1
        /\ cacheRequestMap' = cacheRequestMap \ {sreq[s]}
        /\ UNCHANGED pending
  /\ spc' = [spc EXCEPT ![s] = "Idle"] /\ sreq' = [sreq EXCEPT ![s] = 0]
  /\ UNCHANGED <<state, transportRunning, lockHolder, chanVars, pollVars,
                 skind, nextReq, callbackReqs, termVars, resolved, panicked>>

-----------------------------------------------------------------------------
(* PollAndProcessCacheResponseChannel (lines 1154-1182), one goroutine.    *)

\* cachePollingRunningChan <- true (line 1155): a hand-over to the submitter
\* waiting in StartAndInit, or a panic if the channel was closed by an earlier
\* poller's exit.
PollerAnnounce ==
  /\ Alive
  /\ ppc = "Announce"
  /\ IF runChanClosed
       THEN panicked' = "PollerStart" /\ UNCHANGED <<ppc, spc>>
       ELSE /\ \E s \in Submitters : /\ spc[s] = "AwaitPoller"
                                     /\ spc' = [spc EXCEPT ![s] = "SetRunning"]
            /\ ppc' = "Loop" /\ UNCHANGED panicked
  /\ UNCHANGED <<state, transportRunning, lockHolder, numOutstanding, chanVars, pev,
                 sreq, skind, nextReq, cacheRequestMap, callbackReqs, pending, termVars,
                 resolved>>

\* Mutant: the poller stops taking events once the receiver leaves Started.
PollerReceiveUntilTerminating ==
  /\ Alive
  /\ ppc = "Loop" /\ state = "Started"
  /\ cacheResponseChan # <<>>
  /\ numOutstanding' = numOutstanding - 1
  /\ pev' = Head(cacheResponseChan) /\ cacheResponseChan' = Tail(cacheResponseChan)
  /\ ppc' = "Process"
  /\ UNCHANGED <<state, transportRunning, lockHolder, chanCreated, chanClosed, runChanClosed,
                 cachePollingRunning, submitVars, cacheRequestMap, callbackReqs, pending,
                 termVars, resolved, panicked>>

\* One receive from cacheResponseChan and the decrement that follows it
\* whether or not the channel was closed (lines 1160-1170); on the closed,
\* empty channel close cachePollingRunningChan and clear the flag (1180-1181).
PollerReceive ==
  /\ Alive
  /\ ppc = "Loop"
  /\ cacheResponseChan # <<>> \/ chanClosed
  /\ numOutstanding' = numOutstanding - 1
  /\ IF cacheResponseChan # <<>>
       THEN /\ pev' = Head(cacheResponseChan)
            /\ cacheResponseChan' = Tail(cacheResponseChan)
            /\ ppc' = "Process"
            /\ UNCHANGED <<runChanClosed, cachePollingRunning>>
       ELSE /\ runChanClosed' = TRUE /\ cachePollingRunning' = FALSE
            /\ ppc' = "Done"
            /\ UNCHANGED <<pev, cacheResponseChan>>
  /\ UNCHANGED <<state, transportRunning, lockHolder, chanCreated, chanClosed, submitVars,
                 cacheRequestMap, callbackReqs, pending, termVars, resolved, panicked>>

\* ProcessCacheEvent (line 1177; the transport's CacheRequestor, described in
\* spec.md 4.5): an event whose entry is still registered removes it and
\* invokes its processor, which fills the application channel or runs the
\* application callback on this goroutine; any other event is ignored.
PollerProcess ==
  /\ Alive
  /\ ppc = "Process" /\ pev' = 0
  /\ IF pev \in cacheRequestMap
       THEN /\ cacheRequestMap' = cacheRequestMap \ {pev}
            /\ resolved' = [resolved EXCEPT ![pev] = @ + 1]
            /\ ppc' = IF pev \in callbackReqs THEN "Callback" ELSE "Loop"
       ELSE UNCHANGED <<cacheRequestMap, resolved>> /\ ppc' = "Loop"
  /\ UNCHANGED <<state, transportRunning, lockHolder, numOutstanding, chanVars,
                 submitVars, callbackReqs, pending, termVars, panicked>>

\* The application's callback returns to the poller loop.
PollerCallbackReturn ==
  /\ Alive
  /\ ppc = "Callback" /\ ppc' = "Loop"
  /\ UNCHANGED <<state, transportRunning, lockHolder, numOutstanding, chanVars, pev,
                 submitVars, cacheRequestMap, callbackReqs, pending, termVars, resolved,
                 panicked>>

-----------------------------------------------------------------------------
(* The transport.                                                           *)

\* Mutant: the response is queued whether or not the channel has room.
TransportRespondNoRoom(r) ==
  /\ Alive
  /\ r \in pending
  /\ pending' = pending \ {r}
  /\ IF chanClosed
       THEN panicked' = "ResponseSend" /\ UNCHANGED cacheResponseChan
       ELSE cacheResponseChan' = Append(cacheResponseChan, r) /\ UNCHANGED panicked
  /\ UNCHANGED <<state, transportRunning, lockHolder, numOutstanding, chanCreated,
                 chanClosed, runChanClosed, cachePollingRunning, pollVars, submitVars,
                 cacheRequestMap, callbackReqs, termVars, resolved>>

\* The response to request r reaches cacheEventCallback, which does
\* 'cacheResponseChan <- cacheEventInfo' (lines 1026-1028, 1073-1075): it
\* waits for room and panics if the channel is closed.
TransportRespond(r) ==
  /\ Alive
  /\ r \in pending
  /\ pending' = pending \ {r}
  /\ IF chanClosed
       THEN panicked' = "ResponseSend" /\ UNCHANGED cacheResponseChan
       ELSE /\ Len(cacheResponseChan) < MaxOutstanding
            /\ cacheResponseChan' = Append(cacheResponseChan, r)
            /\ UNCHANGED panicked
  /\ UNCHANGED <<state, transportRunning, lockHolder, numOutstanding, chanCreated,
                 chanClosed, runChanClosed, cachePollingRunning, pollVars, submitVars,
                 cacheRequestMap, callbackReqs, termVars, resolved>>

\* The session stops running: IsRunning() turns false (line 953).
TransportDown ==
  /\ Alive
  /\ transportRunning /\ transportRunning' = FALSE
  /\ UNCHANGED <<state, lockHolder, numOutstanding, chanVars, pollVars, submitVars,
                 cacheRequestMap, callbackReqs, pending, termVars, resolved, panicked>>

-----------------------------------------------------------------------------
(* Termination: the coordinator moves the receiver out of Started and then  *)
(* calls teardownCache (lines 1121-1151) once.                              *)

\* Terminate or a down event: no new submission passes the state check.
BeginTerminate ==
  /\ Alive
  /\ state = "Started" /\ tpc = "Idle"
  /\ state' = "Terminating" /\ tpc' = "Teardown"
  /\ UNCHANGED <<transportRunning, lockHolder, numOutstanding, chanVars, pollVars,
                 submitVars, cacheRequestMap, callbackReqs, pending, rangeSnap, visited,
                 resolved, panicked>>

\* The unlocked read of the poller flag (line 1122): return early if it is
\* clear, else start the Range over the registry.
TeardownCheck ==
  /\ Alive
  /\ tpc = "Teardown"
  /\ IF cachePollingRunning
       THEN tpc' = "Range" /\ rangeSnap' = cacheRequestMap
       ELSE tpc' = "Done" /\ UNCHANGED rangeSnap
  /\ UNCHANGED <<state, transportRunning, lockHolder, numOutstanding, chanVars, pollVars,
                 submitVars, cacheRequestMap, callbackReqs, pending, visited, resolved,
                 panicked>>

\* Mutant: a cancelled request produces no event at all.
TeardownCancelNoEvent(r) ==
  /\ Alive
  /\ tpc = "Range" /\ r \in cacheRequestMap \ visited
  /\ visited' = visited \cup {r} /\ pending' = pending \ {r}
  /\ UNCHANGED <<state, transportRunning, lockHolder, numOutstanding, chanVars, pollVars,
                 submitVars, cacheRequestMap, callbackReqs, tpc, rangeSnap, resolved,
                 panicked>>

\* CancelPendingCacheRequests for one registry entry (lines 1129-1142).  A
\* request the transport still holds is cancelled and its cancellation event
\* is pushed onto cacheResponseChan, by the transport (nil result) or by the
\* send at line 1140.  For a request already answered the transport may
\* still generate an event, a duplicate.  Each push waits for room.
TeardownCancel(r) ==
  /\ Alive
  /\ tpc = "Range" /\ r \in cacheRequestMap \ visited
  /\ visited' = visited \cup {r}
  /\ pending' = pending \ {r}
  /\ \/ /\ r \notin pending
        /\ UNCHANGED cacheResponseChan
     \/ /\ Len(cacheResponseChan) < MaxOutstanding
        /\ cacheResponseChan' = Append(cacheResponseChan, r)
  /\ UNCHANGED <<state, transportRunning, lockHolder, numOutstanding, chanCreated,
                 chanClosed, runChanClosed, cachePollingRunning, pollVars, submitVars,
                 cacheRequestMap, callbackReqs, tpc, rangeSnap, resolved, panicked>>

\* The Range ends once every key present throughout it was visited; keys
\* stored during the Range may or may not be seen.  close(cacheResponseChan)
\* (line 1150).
TeardownClose ==
  /\ Alive
  /\ tpc = "Range"
  /\ rangeSnap \cap cacheRequestMap \subseteq visited
  /\ chanClosed' = TRUE /\ tpc' = "Done"
  /\ UNCHANGED <<state, transportRunning, lockHolder, numOutstanding, chanCreated,
                 cacheResponseChan, runChanClosed, cachePollingRunning, pollVars,
                 submitVars, cacheRequestMap, callbackReqs, pending, rangeSnap, visited,
                 resolved, panicked>>

-----------------------------------------------------------------------------
SubmitSteps(s) ==
  \/ SubmitCheck(s) \/ SubmitInit(s) \/ SubmitAwaitClosed(s) \/ SubmitSetRunning(s)
  \/ SubmitCreate(s) \/ SubmitAddMap(s) \/ SubmitSend(s)
PollerSteps == PollerAnnounce \/ PollerReceive \/ PollerProcess \/ PollerCallbackReturn
TeardownSteps == TeardownCheck \/ (\E r \in Reqs : TeardownCancel(r)) \/ TeardownClose

Next ==
  \/ \E s \in Submitters : RequestCachedAsync(s) \/ RequestCachedAsyncWithCallback(s)
                             \/ SubmitSteps(s)
  \/ PollerSteps
  \/ \E r \in Reqs : TransportRespond(r)
  \/ TransportDown \/ BeginTerminate
  \/ TeardownSteps

Spec == Init /\ [][Next]_vars

\* Goroutines already running are scheduled; the transport answers every
\* cache request it accepted (it times them out itself).  Calls, the
\* transport going down and termination are the environment's choice.
Fairness ==
  /\ \A s \in Submitters : WF_vars(SubmitSteps(s))
  /\ WF_vars(PollerSteps)
  /\ WF_vars(TeardownSteps)
  /\ \A r \in Reqs : WF_vars(TransportRespond(r))

FairSpec == Spec /\ Fairness

-----------------------------------------------------------------------------
(* Properties.                                                              *)

Pcs == {"Idle", "Check"} \cup Counted
PollerPcs == {"NotStarted", "Announce", "Loop", "Process", "Callback", "Done"}

TypeOK ==
  /\ state \in {"Started", "Terminating"} /\ transportRunning \in BOOLEAN
  /\ lockHolder \in Submitters \cup {None}
  /\ numOutstanding \in Int
  /\ cacheResponseChan \in Seq(Reqs) /\ Len(cacheResponseChan) <= MaxOutstanding
  /\ {chanCreated, chanClosed, runChanClosed, cachePollingRunning} \subseteq BOOLEAN
  /\ ppc \in PollerPcs /\ pev \in Reqs \cup {0}
  /\ spc \in [Submitters -> Pcs]
  /\ sreq \in [Submitters -> Reqs \cup {0}]
  /\ skind \in [Submitters -> Kinds]
  /\ cacheRequestMap \subseteq Reqs /\ callbackReqs \subseteq Reqs /\ pending \subseteq Reqs
  /\ tpc \in {"Idle", "Teardown", "Range", "Done"}
  /\ resolved \in [Reqs -> Nat]
  /\ panicked \in {"None", "PollerStart", "ResponseSend"}

\* The ceiling: checkStateForCacheRequest and the increment under
\* cacheResourceLock never let more than MaxOutstandingCacheRequests
\* requests be outstanding, however submitters, the poller's decrement and
\* failed creations and sends interleave.
CounterBounded == numOutstanding <= MaxOutstanding

\* While the receiver is Started, numOutstandingCacheRequests counts exactly
\* the requests not yet taken off cacheResponseChan: submitters between the
\* increment and their return, requests the transport holds, and queued
\* events.  A missed rollback or a double decrement breaks it.
OutstandingAccounted ==
  state = "Started" =>
    numOutstanding = Cardinality({s \in Submitters : spc[s] \in Counted})
                       + Cardinality(pending) + Len(cacheResponseChan)

\* Every cache request the transport accepted is eventually answered to the
\* application (its channel filled or callback run), whether the answer is
\* the response or the cancellation teardownCache forces, unless the
\* process has died of a panic first.
RequestResolved ==
  \A r \in Reqs : (r \in pending) ~> (resolved[r] = 1 \/ ~Alive)

\* teardownCache returns: its sends of cancellation events onto the bounded
\* cacheResponseChan (line 1140) wait only while the poller, which keeps
\* draining until the channel is closed, is busy.
TeardownCompletes == (tpc = "Teardown") ~> (tpc = "Done" \/ ~Alive)

\* No response callback sends on a closed cacheResponseChan (which would
\* panic the transport's thread): submission checks the state under
\* cacheResourceLock but teardownCache does not take it.
ResponseNeverSentOnClosed == panicked # "ResponseSend"

\* No poller goroutine is started on a closed cachePollingRunningChan.
PollerStartNeverPanics == panicked # "PollerStart"

\* Once teardownCache has returned, the poller goroutine ends.
PollerStopsAfterTeardown ==
  (tpc = "Done" /\ Alive) ~> (ppc \in {"NotStarted", "Done"} \/ ~Alive)
=============================================================================
