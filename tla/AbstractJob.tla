---------------------------- MODULE AbstractJob ----------------------------
(* The contract of one job as a specification. *)
EXTENDS JobContract

VARIABLE view

Init == view = CreatedView

RequestCancel ==
  /\ ~view.cancel /\ view.status \notin Ended
  /\ view' = CancelRequested(view)

Work == view' \in Started(view) \cup Charged(view) \cup Finished(view)

Compensate == view' \in Settled(view) \cup EndedAgain(view)

Next == RequestCancel \/ Work \/ Compensate

Spec == Init /\ [][Next]_view
=============================================================================
