----------------------------- MODULE Subscriptions -----------------------------
(***************************************************************************)
(* Topic subscriptions of directMessageReceiverImpl                        *)
(* (src/internal/impl/receiver/direct_message_receiver_impl.go): the       *)
(* startup subscriptions Start adds and rolls back, AddSubscription and    *)
(* RemoveSubscription called by application goroutines, and the removal of *)
(* every listed subscription by Terminate (cleanupSubscriptions).          *)
(*                                                                         *)
(* Three locks guard this state.  subscriptionTerminationLock is an        *)
(* RWMutex held for reading over a whole add or remove and for writing by  *)
(* cleanupSubscriptions; it is modelled by 'readers' and the terminator's  *)
(* program counter (Go's RWMutex blocks new readers once a writer waits).  *)
(* subscriptionsSynchronizationLock is held only around one transport      *)
(* call, and subscriptionsLock only around one update of the list, so each *)
(* of those critical sections is one atomic step.  'transport' is the set  *)
(* of topics the session holds for this receiver's dispatch: Subscribe and *)
(* Unsubscribe of a topic are idempotent there.  A call the transport      *)
(* accepts may still be refused by its confirmation event, which the code  *)
(* only returns to the caller after the list was updated; cleanup and the  *)
(* rollback of a failed Start log an Unsubscribe error and go on.          *)
(***************************************************************************)
EXTENDS Naturals, Sequences, FiniteSets, SequencesExt

CONSTANTS
  Topics,    \* topic strings after buildSubscription
  Callers,   \* application goroutines calling Add/RemoveSubscription(Async)
  Workers,   \* the goroutines the Async variants start, one per call in flight
  Ops,       \* Ops[c]: the calls caller c makes, pairs <<kind, topic>>
  Startup,   \* props.startupSubscriptions, in order
  MaxCalls   \* bound on the number of Add/RemoveSubscription calls

Kinds == {"add", "remove", "addAsync", "removeAsync"}

\* Every goroutine that runs addSubscription or removeSubscription.
Actors == Callers \cup Workers

ASSUME /\ Ops \in [Callers -> SUBSET (Kinds \X Topics)] /\ Callers \cap Workers = {}
       /\ Startup \in Seq(Topics)
       /\ MaxCalls \in Nat

VARIABLES
  state,          \* lifecycle state word
  subscriptions,  \* receiver.subscriptions, the list
  transport,      \* topics the session holds for receiver.dispatch
  readers,        \* actors holding subscriptionTerminationLock for reading
  cpc, ctopic,    \* per actor: step and the topic of its current call
  calls,          \* number of Add/RemoveSubscription calls made
  spc, sidx,      \* the Start goroutine: step and loop index
  tpc,            \* the Terminate goroutine
  up,             \* the session is connected
  dpc,            \* the goroutine onDownEvent starts (unsolicitedTermination)
  refused,        \* history: topics a transport call or confirmation refused
  overlapped      \* history: topics an add and a remove held the read lock for at once

callerVars == <<cpc, ctopic, calls>>
histVars == <<refused, overlapped>>
vars == <<state, subscriptions, transport, readers, callerVars, spc, sidx, tpc, up, dpc, histVars>>

\* Steps of a caller between taking the read lock and releasing it.
Holding == {"AddSub", "AddList", "RemSub", "RemList"}

-----------------------------------------------------------------------------
\* construct (lines 130-133): the list holds the startup subscriptions.
Init ==
  /\ state = "NotStarted"
  /\ subscriptions = Startup
  /\ transport = {} /\ readers = {}
  /\ cpc = [a \in Actors |-> "Idle"] /\ ctopic = [a \in Actors |-> CHOOSE t \in Topics : TRUE]
  /\ calls = 0
  /\ spc = "Idle" /\ sidx = 1 /\ tpc = "Idle"
  /\ up = TRUE /\ dpc = "None"
  /\ refused = {} /\ overlapped = {}

\* Start (lines 162-164): starting() lets the first caller proceed.
StartCall ==
  /\ spc = "Idle" /\ state = "NotStarted"
  /\ state' = "Starting" /\ spc' = "Subscribe" /\ sidx' = 1
  /\ UNCHANGED <<subscriptions, transport, readers, callerVars, tpc, up, dpc, histVars>>

\* Start's loop (lines 201-210): Subscribe each listed topic in turn; an
\* error returns from Start into its deferred rollback.
StartSubscribe ==
  /\ spc = "Subscribe" /\ sidx <= Len(subscriptions)
  /\ \/ up /\ transport' = transport \cup {subscriptions[sidx]} /\ sidx' = sidx + 1
        /\ UNCHANGED spc
     \/ spc' = "Rollback" /\ UNCHANGED <<transport, sidx>>
  /\ UNCHANGED <<state, subscriptions, readers, callerVars, tpc, up, dpc, histVars>>

\* Lines 212-222: wait for every result; an error event fails Start, else
\* started() runs in the deferred function.
StartAwait ==
  /\ spc = "Subscribe" /\ sidx > Len(subscriptions)
  /\ \/ state' = "Started" /\ spc' = "Done"
     \/ spc' = "Rollback" /\ UNCHANGED state
  /\ UNCHANGED <<subscriptions, transport, readers, callerVars, sidx, tpc, up, dpc, histVars>>

\* Unsubscribe each topic of ts, logging and skipping those whose call or
\* confirmation fails (the transport keeps them).
UnsubscribeAll(ts) ==
  \E kept \in SUBSET (ts \cap transport) :
    /\ transport' = transport \ (ts \ kept)
    /\ refused' = refused \cup kept

\* Mutant: the rollback stops one short of the last topic subscribed.
StartRollbackShort ==
  /\ spc = "Rollback"
  /\ UnsubscribeAll(ToSet(SubSeq(subscriptions, 1, sidx - 2)))
  /\ state' = "Terminated" /\ spc' = "Done"
  /\ UNCHANGED <<subscriptions, readers, callerVars, sidx, tpc, up, dpc, overlapped>>

\* The deferred error path (lines 171-194): Unsubscribe every topic in
\* subscriptionsAdded (the first sidx - 1 of the list), wait, terminated(nil).
StartRollback ==
  /\ spc = "Rollback"
  /\ UnsubscribeAll(ToSet(SubSeq(subscriptions, 1, sidx - 1)))
  /\ state' = "Terminated" /\ spc' = "Done"
  /\ UNCHANGED <<subscriptions, readers, callerVars, sidx, tpc, up, dpc, overlapped>>

-----------------------------------------------------------------------------
\* The public calls read the state outside any lock and fail fast unless
\* Started; past that check, actor a runs addSubscription or
\* removeSubscription: the caller itself, or the goroutine an Async call
\* starts while the caller returns at once.
PublicCall(c, kind, t, a, next) ==
  /\ <<kind, t>> \in Ops[c] /\ calls < MaxCalls
  /\ calls' = calls + 1
  /\ IF state = "Started"
       THEN cpc' = [cpc EXCEPT ![a] = next] /\ ctopic' = [ctopic EXCEPT ![a] = t]
       ELSE UNCHANGED <<cpc, ctopic>>
  /\ UNCHANGED <<state, subscriptions, transport, readers, spc, sidx, tpc, up, dpc, histVars>>

\* AddSubscription (476-500) and RemoveSubscription (559-583) block the caller.
AddSubscription(c, t) == cpc[c] = "Idle" /\ PublicCall(c, "add", t, c, "AddLock")

RemoveSubscription(c, t) == cpc[c] = "Idle" /\ PublicCall(c, "remove", t, c, "RemLock")

\* AddSubscriptionAsync (635-661) and RemoveSubscriptionAsync (668-702) run
\* the same code on a new goroutine w and return; the listener it calls
\* keeps no receiver state.
AddSubscriptionAsync(c, t, w) ==
  /\ cpc[c] = "Idle" /\ cpc[w] = "Idle"
  /\ PublicCall(c, "addAsync", t, w, "AddLock")

RemoveSubscriptionAsync(c, t, w) ==
  /\ cpc[c] = "Idle" /\ cpc[w] = "Idle"
  /\ PublicCall(c, "removeAsync", t, w, "RemLock")

\* Another actor holds the read lock for the same topic with the other
\* operation: an add and a remove of one topic are in flight together.
Conflicting(c, next) ==
  \E a \in Actors \ {c} :
    /\ cpc[a] \in Holding /\ ctopic[a] = ctopic[c]
    /\ (cpc[a] \in {"AddSub", "AddList"}) # (next = "AddSub")

\* RLock, then check the state again under the lock; on a bad state the
\* deferred RUnlock releases it and the call returns an error.
RLockAndRecheck(c, next) ==
  /\ tpc # "WaitLock"
  /\ IF state = "Started"
       THEN /\ readers' = readers \cup {c} /\ cpc' = [cpc EXCEPT ![c] = next]
            /\ overlapped' = IF Conflicting(c, next) THEN overlapped \cup {ctopic[c]}
                                                     ELSE overlapped
       ELSE UNCHANGED <<readers, overlapped>> /\ cpc' = [cpc EXCEPT ![c] = "Idle"]
  /\ UNCHANGED <<state, subscriptions, transport, ctopic, calls, spc, sidx, tpc, up, dpc, refused>>

\* addSubscription (lines 505-514) and removeSubscription (lines 588-597).
addSubscriptionLock(c) == cpc[c] = "AddLock" /\ RLockAndRecheck(c, "AddSub")

removeSubscriptionLock(c) == cpc[c] = "RemLock" /\ RLockAndRecheck(c, "RemSub")

\* Mutant: the error return of the transport call forgets its RUnlock.
TransportCallNoUnlock(c, next, transport2) ==
  /\ \/ transport' = transport2 /\ cpc' = [cpc EXCEPT ![c] = next]
     \/ UNCHANGED transport /\ cpc' = [cpc EXCEPT ![c] = "Idle"]
  /\ UNCHANGED <<state, subscriptions, readers, ctopic, calls, spc, sidx, tpc, up, dpc, histVars>>

\* One transport call under subscriptionsSynchronizationLock; on an error
\* the call returns and its deferred RUnlock releases the read lock.  An
\* accepted call goes on to the list; its confirmation may still carry an
\* error (lines 490-499), and then the session keeps its old state.
TransportCall(c, next, transport2) ==
  /\ \/ up /\ transport' = transport2 /\ cpc' = [cpc EXCEPT ![c] = next]
        /\ UNCHANGED <<readers, refused>>
     \/ up /\ transport2 # transport /\ cpc' = [cpc EXCEPT ![c] = next]
        /\ refused' = refused \cup {ctopic[c]}
        /\ UNCHANGED <<transport, readers>>
     \/ UNCHANGED <<transport, refused>> /\ cpc' = [cpc EXCEPT ![c] = "Idle"]
        /\ readers' = readers \ {c}
  /\ UNCHANGED <<state, subscriptions, ctopic, calls, spc, sidx, tpc, up, dpc, overlapped>>

\* Mutant: addSubscription goes on to the list when Subscribe failed.
subscribeIgnoreError(c) ==
  /\ cpc[c] = "AddSub"
  /\ transport' \in {transport, transport \cup {ctopic[c]}}
  /\ cpc' = [cpc EXCEPT ![c] = "AddList"]
  /\ UNCHANGED <<state, subscriptions, readers, ctopic, calls, spc, sidx, tpc, up, dpc, histVars>>

\* subscribe (lines 547-551), called at lines 521-525.
subscribe(c) == cpc[c] = "AddSub" /\ TransportCall(c, "AddList", transport \cup {ctopic[c]})

\* unsubscribe (lines 624-628), called at lines 604-608.
unsubscribe(c) == cpc[c] = "RemSub" /\ TransportCall(c, "RemList", transport \ {ctopic[c]})

\* Mutant: the list update appends without looking for the topic first.
addSubscriptionListNoCheck(c) ==
  /\ cpc[c] = "AddList"
  /\ subscriptions' = Append(subscriptions, ctopic[c])
  /\ readers' = readers \ {c} /\ cpc' = [cpc EXCEPT ![c] = "Idle"]
  /\ UNCHANGED <<state, transport, ctopic, calls, spc, sidx, tpc, up, dpc, histVars>>

\* Lines 527-537: under subscriptionsLock, append the topic unless it is
\* already listed; then the deferred unlocks run.
addSubscriptionList(c) ==
  /\ cpc[c] = "AddList"
  /\ subscriptions' = IF ctopic[c] \in ToSet(subscriptions) THEN subscriptions
                      ELSE Append(subscriptions, ctopic[c])
  /\ readers' = readers \ {c} /\ cpc' = [cpc EXCEPT ![c] = "Idle"]
  /\ UNCHANGED <<state, transport, ctopic, calls, spc, sidx, tpc, up, dpc, histVars>>

\* The last index the splice loop of lines 612-617 records, or 0.
SpliceIndex(s, t) ==
  IF t \in ToSet(s) THEN CHOOSE i \in DOMAIN s : s[i] = t /\ \A j \in DOMAIN s : s[j] = t => j <= i
  ELSE 0

\* Lines 609-621: under subscriptionsLock, splice out the recorded index.
removeSubscriptionList(c) ==
  /\ cpc[c] = "RemList"
  /\ LET i == SpliceIndex(subscriptions, ctopic[c]) IN
       subscriptions' = IF i > 0 THEN RemoveAt(subscriptions, i) ELSE subscriptions
  /\ readers' = readers \ {c} /\ cpc' = [cpc EXCEPT ![c] = "Idle"]
  /\ UNCHANGED <<state, transport, ctopic, calls, spc, sidx, tpc, up, dpc, histVars>>

-----------------------------------------------------------------------------
\* Terminate (lines 260-263): terminate() moves a started receiver to
\* Terminating, an unstarted one straight to Terminated.
TerminateCall ==
  /\ tpc = "Idle" /\ state \in {"NotStarted", "Started"}
  /\ IF state = "Started" THEN state' = "Terminating" /\ tpc' = "WaitLock"
                          ELSE state' = "Terminated" /\ tpc' = "Done"
  /\ UNCHANGED <<subscriptions, transport, readers, callerVars, spc, sidx, up, dpc, histVars>>

\* Mutant: cleanupSubscriptions does not wait for the write lock.
cleanupSubscriptionsNoLock ==
  /\ tpc = "WaitLock"
  /\ UnsubscribeAll(ToSet(subscriptions))
  /\ tpc' = "Cleaned"
  /\ UNCHANGED <<state, subscriptions, readers, callerVars, spc, sidx, up, dpc, overlapped>>

\* cleanupSubscriptions (lines 397-422): take the write lock once no reader
\* holds it, Unsubscribe every listed topic (an error is logged and the
\* loop goes on, lines 403-419), wait for the results, unlock.
cleanupSubscriptions ==
  /\ tpc = "WaitLock" /\ readers = {}
  /\ UnsubscribeAll(ToSet(subscriptions))
  /\ tpc' = "Cleaned"
  /\ UNCHANGED <<state, subscriptions, readers, callerVars, spc, sidx, up, dpc, overlapped>>

\* The deferred terminated(err) of Terminate (lines 264-266), after the
\* dispatch and buffer teardown that DirectReceiver models.
TerminateFinish ==
  /\ tpc = "Cleaned"
  /\ state' = "Terminated" /\ tpc' = "Done"
  /\ UNCHANGED <<subscriptions, transport, readers, callerVars, spc, sidx, up, dpc, histVars>>

-----------------------------------------------------------------------------
\* The session goes down: it drops every subscription and fails every later
\* transport call.  The SolClientEventDown handler Start registered (line
\* 199) runs onDownEvent (lines 151-154), which only starts a goroutine.
SessionDown ==
  /\ up /\ up' = FALSE /\ transport' = {}
  /\ dpc' = IF spc = "Idle" THEN "Done" ELSE "Run"
  /\ UNCHANGED <<state, subscriptions, readers, callerVars, spc, sidx, tpc, histVars>>

\* unsolicitedTermination (lines 341-345): terminate() proceeds only on a
\* Started receiver; a Starting, Terminating or Terminated one refuses.
unsolicitedTermination ==
  /\ dpc = "Run"
  /\ IF state = "Started" THEN state' = "Terminating" /\ dpc' = "Finish"
                          ELSE dpc' = "Done" /\ UNCHANGED state
  /\ UNCHANGED <<subscriptions, transport, readers, callerVars, spc, sidx, tpc, up, histVars>>

\* Lines 378-380: terminated(err), without cleanupSubscriptions (the
\* connection is dead) and without the subscription termination lock.
unsolicitedTerminated ==
  /\ dpc = "Finish"
  /\ state' = "Terminated" /\ dpc' = "Done"
  /\ UNCHANGED <<subscriptions, transport, readers, callerVars, spc, sidx, tpc, up, histVars>>

PublicCalls(c) ==
  \E t \in Topics :
    \/ AddSubscription(c, t) \/ RemoveSubscription(c, t)
    \/ \E w \in Workers : AddSubscriptionAsync(c, t, w) \/ RemoveSubscriptionAsync(c, t, w)

CallerStep(c) ==
  \/ addSubscriptionLock(c) \/ removeSubscriptionLock(c)
  \/ subscribe(c) \/ unsubscribe(c)
  \/ addSubscriptionList(c) \/ removeSubscriptionList(c)

Next ==
  \/ StartCall \/ StartSubscribe \/ StartAwait \/ StartRollback
  \/ \E c \in Callers : PublicCalls(c)
  \/ \E a \in Actors : CallerStep(a)
  \/ TerminateCall \/ cleanupSubscriptions \/ TerminateFinish
  \/ SessionDown \/ unsolicitedTermination \/ unsolicitedTerminated

Spec == Init /\ [][Next]_vars

\* Goroutines already running keep running: a caller past its first check,
\* Start once called, Terminate once called, the goroutine onDownEvent
\* started.  The application's calls, the choice to terminate and the
\* session going down are not forced.
CallerSteps(c) ==
  \/ addSubscriptionLock(c) \/ removeSubscriptionLock(c)
  \/ subscribe(c) \/ unsubscribe(c)
  \/ addSubscriptionList(c) \/ removeSubscriptionList(c)

Fairness ==
  /\ \A a \in Actors : WF_vars(CallerSteps(a))
  /\ WF_vars(StartSubscribe \/ StartAwait \/ StartRollback)
  /\ WF_vars(cleanupSubscriptions \/ TerminateFinish)
  /\ WF_vars(unsolicitedTermination \/ unsolicitedTerminated)

FairSpec == Spec /\ Fairness

-----------------------------------------------------------------------------
\* Every variable has its type; the list holds a topic at most once (spec.md
\* section 5: no duplicate topic), so never more than one entry per topic.
TypeOK ==
  /\ state \in {"NotStarted", "Starting", "Started", "Terminating", "Terminated"}
  /\ subscriptions \in Seq(Topics) /\ Len(subscriptions) <= Cardinality(Topics)
  /\ transport \subseteq Topics
  /\ readers \subseteq Actors
  /\ cpc \in [Actors -> {"Idle", "AddLock", "RemLock"} \cup Holding]
  /\ ctopic \in [Actors -> Topics] /\ calls \in 0..MaxCalls
  /\ spc \in {"Idle", "Subscribe", "Rollback", "Done"} /\ sidx \in 1..Len(Startup) + 1
  /\ tpc \in {"Idle", "WaitLock", "Cleaned", "Done"}
  /\ up \in BOOLEAN /\ dpc \in {"None", "Run", "Finish", "Done"}
  /\ refused \subseteq Topics /\ overlapped \subseteq Topics

\* Whenever a started receiver has no add or remove in progress, the list
\* it keeps (and that cleanupSubscriptions will unsubscribe) agrees with
\* the topics a connected session holds for it, on every topic whose calls
\* the session accepted and the application did not let overlap (spec.md
\* section 5 leaves an add racing a remove of one topic to the caller): the
\* transport call and the list update of one call, made under different
\* locks, never fall apart, even with calls on other topics in between.
ListMatchesTransport ==
  (up /\ state = "Started" /\ \A a \in Actors : cpc[a] \notin Holding)
    => \A t \in Topics \ (refused \cup overlapped) :
         (t \in ToSet(subscriptions)) = (t \in transport)

\* The subscriptions this receiver holds on the session behave as the
\* abstract set of SubscriptionSet: changed only while live, never after
\* cleanupSubscriptions has run or the session has gone down, emptied by
\* either and by a failed Start (both best effort: a refused Unsubscribe
\* is logged and leaves its topic on the session).
SS == INSTANCE SubscriptionSet WITH topics <- transport,
                                    cleaned <- tpc \in {"Cleaned", "Done"} \/ ~up

SubscriptionSetRefined == SS!Spec

\* A terminated receiver leaves no subscription of its own on the session,
\* except those the session itself refused to remove.
SubscriptionsReleased == state = "Terminated" => transport \subseteq refused

\* However the receiver terminated (a failed Start's rollback, Terminate's
\* cleanupSubscriptions, a down session, or Terminate before Start), it
\* leaves on the session only topics the session refused to remove and
\* topics an add and a remove raced on (the add_remove_race run).
ReleasedUnlessRaced == state = "Terminated" => transport \subseteq refused \cup overlapped

\* Every add or remove that got past its first check, blocking or on its own
\* goroutine, returns, and a Terminate waiting for the write lock finishes.
CallsAndTerminateReturn ==
  /\ \A a \in Actors : cpc[a] # "Idle" ~> cpc[a] = "Idle"
  /\ tpc = "WaitLock" ~> tpc = "Done"
=============================================================================
