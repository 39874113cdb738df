---------------------------- MODULE PublishOnce ----------------------------
(***************************************************************************)
(* What publishing promises, without attempts, rows or locks: a review run *)
(* yields at most one review on the pull request, and is recorded as       *)
(* published only when the review is there, and then for ever.             *)
(***************************************************************************)
CONSTANT Review

VARIABLES
    reviews,    \* the run's reviews on the pull request
    recorded    \* the database knows that the run is published

Init == reviews = {} /\ recorded = FALSE

Post ==
    /\ reviews = {}
    /\ \E r \in Review : reviews' = {r}
    /\ UNCHANGED recorded

Record ==
    /\ reviews # {}
    /\ recorded' = TRUE
    /\ UNCHANGED reviews

Next == Post \/ Record

Spec == Init /\ [][Next]_<<reviews, recorded>>
=============================================================================
