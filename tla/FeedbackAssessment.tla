------------------------- MODULE FeedbackAssessment -------------------------
(***************************************************************************)
(* What the recorded feedback on one finding says about it                 *)
(* (patchfrog.feedback.assessment).                                        *)
(*                                                                         *)
(* An event is a record of its type, the key of the reaction, reply or     *)
(* thread it is about, its normalized signal and its time, occurred_at.    *)
(* The wording of reasons is left out.                                     *)
(***************************************************************************)
EXTENDS Integers, FiniteSets

ReactionHint == {"positive", "negative", "neutral", "uninterpreted"}
ExplicitCommand == {"useful", "false-positive", "fixed", "ignore"}
Lifecycle == {"code_changed", "code_unchanged", "disappeared"}

OfType(events, type) == {e \in events : e.type = type}

(* A later removal of the same reaction outdates it. *)
ActiveReactions(events) ==
    {e \in OfType(events, "reaction_added") :
       ~ \E d \in OfType(events, "reaction_removed") : d.key = e.key /\ d.at >= e.at}

Reactions(events, hint) == Cardinality({e \in ActiveReactions(events) : e.signal = hint})

Said(events, command) == \E e \in OfType(events, "command") : e.signal = command

(* The type of the latest of some events; "none" if there are none *)
LatestType(events) ==
    IF events = {} THEN "none"
    ELSE (CHOOSE e \in events : \A d \in events : d.at <= e.at).type

ThreadEvents(events) == OfType(events, "thread_resolved") \cup OfType(events, "thread_reopened")
ThreadResolved(events) == LatestType(ThreadEvents(events)) = "thread_resolved"

LifecycleEvents(events) == {e \in events : e.type \in Lifecycle}
LatestLifecycle(events) == LatestType(LifecycleEvents(events))

Usefulness(events) ==
    LET up   == Reactions(events, "positive")
        down == Reactions(events, "negative")
    IN  IF Said(events, "useful") THEN "positive"
        ELSE IF Said(events, "false-positive") THEN "negative"
        ELSE IF up > down THEN "positive"
        ELSE IF down > up THEN "negative"
        ELSE IF up + down > 0 THEN "neutral" ELSE "unknown"

Correctness(events) ==
    IF Said(events, "false-positive") THEN "negative"
    ELSE IF Said(events, "fixed") \/ LatestLifecycle(events) = "disappeared" THEN "positive"
    ELSE IF LatestLifecycle(events) = "code_unchanged" /\ Reactions(events, "negative") > 0
    THEN "negative" ELSE "unknown"

Resolution(events) ==
    IF ThreadEvents(events) = {} THEN "unknown"
    ELSE IF ThreadResolved(events) THEN "closed" ELSE "open"

(* The strength of the strongest scored event; 0 if there is none *)
StrengthRank(e) ==
    IF e.type = "command" THEN 3 ELSE IF e.type \in Lifecycle THEN 2 ELSE 1
StrongestSignal(events) ==
    IF events = {} THEN 0
    ELSE StrengthRank(CHOOSE e \in events : \A d \in events : StrengthRank(d) <= StrengthRank(e))

Assessment(events) ==
    [usefulness |-> Usefulness(events), correctness |-> Correctness(events),
     resolution |-> Resolution(events), confidence |-> StrongestSignal(events),
     engagement |-> OfType(events, "reply") # {}]

IsFalsePositiveCandidate(events) ==
    \/ Said(events, "false-positive")
    \/ Reactions(events, "negative") >= 2
    \/ Reactions(events, "negative") > 0 /\ LatestLifecycle(events) = "code_unchanged"

IsHighValueCandidate(events) ==
    \/ Said(events, "useful")
    \/ OfType(events, "disappeared") # {}
    \/ Reactions(events, "positive") > 0 /\ OfType(events, "code_changed") # {}

-----------------------------------------------------------------------------
PolarityRank(p) == CASE p = "negative" -> 0 [] p \in {"neutral", "unknown"} -> 1 [] p = "positive" -> 2

(* One more complaint, a negative reaction or a false-positive command,    *)
(* never makes a finding look better, in any respect, whatever was         *)
(* recorded before it, and never takes it off the list of false positives. *)
ComplaintsNeverHelp(events, complaint) ==
    LET before == Assessment(events)
        after  == Assessment(events \cup {complaint})
    IN  /\ PolarityRank(after.usefulness) <= PolarityRank(before.usefulness)
        /\ PolarityRank(after.correctness) <= PolarityRank(before.correctness)
        /\ after.resolution = before.resolution
        /\ after.confidence >= before.confidence
        /\ IsFalsePositiveCandidate(events) => IsFalsePositiveCandidate(events \cup {complaint})
        /\ IsHighValueCandidate(events \cup {complaint}) => IsHighValueCandidate(events)

(* A reaction that was taken back counts for nothing: without it and its   *)
(* removal the assessment is the same.                                     *)
TakenBackCountsForNothing(events, added, removed) ==
    LET both == Assessment(events \cup {added, removed})
        none == Assessment(events)
    IN  /\ both.usefulness = none.usefulness /\ both.correctness = none.correctness
        /\ IsFalsePositiveCandidate(events \cup {added, removed}) = IsFalsePositiveCandidate(events)
=============================================================================
