---------------------------- MODULE SubscriptionSet ----------------------------
(***************************************************************************)
(* What the direct receiver promises about the topic subscriptions it      *)
(* holds on the session: a set of topics that Start, AddSubscription and   *)
(* RemoveSubscription change one topic at a time while the receiver is     *)
(* live, and that nothing adds to once Terminate has begun removing them  *)
(* ("subscriptions must NOT be added after we have begun removing them",   *)
(* Terminate, line 264).  Removal on Terminate and on a failed Start is    *)
(* best effort: a failed Unsubscribe is logged and its topic stays.  The   *)
(* lifecycle word is Lifecycle's.                                          *)
(***************************************************************************)

CONSTANT Topics

VARIABLES
  state,    \* the lifecycle state word
  topics,   \* the topics the session holds for this receiver
  cleaned   \* the receiver has removed its subscriptions for termination,
            \* or the session has dropped them

vars == <<state, topics, cleaned>>

LC == INSTANCE Lifecycle

Init == LC!Init /\ topics = {} /\ cleaned = FALSE

\* Subscriptions change only while the receiver is live and before cleanup.
Live == state \in {"Starting", "Started", "Terminating"} /\ ~cleaned

Subscribe(t) == Live /\ topics' = topics \cup {t} /\ UNCHANGED <<state, cleaned>>

Unsubscribe(t) == Live /\ topics' = topics \ {t} /\ UNCHANGED <<state, cleaned>>

\* Termination removes the subscriptions it can, once.
Cleanup ==
  /\ state = "Terminating" /\ ~cleaned
  /\ topics' \subseteq topics /\ cleaned' = TRUE
  /\ UNCHANGED state

\* A session that goes down drops every subscription, in any state, and
\* nothing is subscribed afterwards.
SessionLost == topics' = {} /\ cleaned' = TRUE /\ UNCHANGED state

\* A failed Start removes what it subscribed as far as it can, an unstarted receiver has
\* nothing to clean up, and a terminated one has cleaned up.  The other
\* lifecycle steps leave the topics alone.
FailStart == LC!FailStart /\ topics' \subseteq topics /\ UNCHANGED cleaned

TerminateUnstarted == LC!TerminateUnstarted /\ cleaned' = TRUE /\ UNCHANGED topics

CompleteTerminate == LC!CompleteTerminate /\ cleaned /\ UNCHANGED <<topics, cleaned>>

OtherLifecycle ==
  /\ \/ LC!BeginStart \/ LC!CompleteStart
     \/ LC!BeginTerminate
  /\ UNCHANGED <<topics, cleaned>>

Next ==
  \/ \E t \in Topics : Subscribe(t) \/ Unsubscribe(t)
  \/ Cleanup \/ SessionLost \/ FailStart \/ TerminateUnstarted \/ CompleteTerminate \/ OtherLifecycle

Spec == Init /\ [][Next]_vars
=============================================================================
