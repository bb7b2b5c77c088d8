------------------------------ MODULE Lifecycle ------------------------------
(***************************************************************************)
(* What the receiver lifecycle promises (basicMessageReceiver, which the   *)
(* direct receiver embeds; its source is not part of src/, so this module  *)
(* is written from spec.md section 4.1 and from the unit tests in          *)
(* message_receiver_impl_test.go).  One state word, moved by starting(),   *)
(* started(), terminate() and terminated().                                *)
(***************************************************************************)

VARIABLE state

States == {"NotStarted", "Starting", "Started", "Terminating", "Terminated"}

Init == state = "NotStarted"

\* starting(): the first caller moves NotStarted to Starting.
BeginStart == state = "NotStarted" /\ state' = "Starting"

\* started(nil): the start work succeeded.
CompleteStart == state = "Starting" /\ state' = "Started"

\* terminated(nil) on the error path of Start: a failed start ends the receiver.
FailStart == state = "Starting" /\ state' = "Terminated"

\* terminate() on a receiver that was never started is a fast path to Terminated.
TerminateUnstarted == state = "NotStarted" /\ state' = "Terminated"

\* terminate() on a started receiver begins shutdown; a Starting one refuses.
BeginTerminate == state = "Started" /\ state' = "Terminating"

\* terminated(err): shutdown finished.
CompleteTerminate == state = "Terminating" /\ state' = "Terminated"

Next == \/ BeginStart \/ CompleteStart \/ FailStart
        \/ TerminateUnstarted \/ BeginTerminate \/ CompleteTerminate

Spec == Init /\ [][Next]_state
=============================================================================
