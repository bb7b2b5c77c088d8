--------------------------- MODULE MC_Subscriptions ---------------------------
(***************************************************************************)
(* Instances of Subscriptions for TLC: three topics, the application         *)
(* goroutines, the goroutines the Async calls start, and the calls each    *)
(* application goroutine makes.                                            *)
(***************************************************************************)
EXTENDS Subscriptions, TLC

CONSTANTS t1, t2, t3, c1, c2, c3, g1, g2

\* c1 adds and removes t2 with the blocking calls, so its own calls never
\* overlap, while c2 adds t2 on its own goroutine, so an add and a remove of
\* t2 can hold the read lock at once; c2 also removes the startup topic t1
\* asynchronously; c3 adds t3 with the blocking call.
SharedTopicOps ==
  [c \in Callers |-> CASE c = c1 -> {<<"add", t2>>, <<"remove", t2>>}
                       [] c = c2 -> {<<"addAsync", t2>>, <<"removeAsync", t1>>}
                       [] OTHER  -> {<<"add", t3>>}]

\* One application goroutine adds t1 and removes it, both asynchronously.
AsyncAddRemoveOps == [c \in Callers |-> {<<"addAsync", t1>>, <<"removeAsync", t1>>}]

StartupOne == <<t1>>
StartupNone == <<>>
=============================================================================
