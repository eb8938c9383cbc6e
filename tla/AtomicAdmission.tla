-------------------------- MODULE AtomicAdmission ---------------------------
(***************************************************************************)
(* What the webhook promises the API server: a review is answered once, in *)
(* one step, with one of the pods that are an answer to the one submitted, *)
(* or, for some pods, with a denial, the pod unchanged.                    *)
(***************************************************************************)
CONSTANTS
  Requests,   \* admission reviews, each for one pod
  Pods,       \* the pods that may be submitted
  Answers,    \* Answers[pod]: the pods it may be answered with
  MayDeny     \* the pods that may be denied

VARIABLE review  \* review[r]: the verdict and the pod as it then is

NoReview == [verdict |-> "none"]

Init == review = [r \in Requests |-> NoReview]

Submit(r) ==
  /\ review[r] = NoReview
  /\ \E pod \in Pods :
       review' = [review EXCEPT ![r] = [verdict |-> "waiting", pod |-> pod]]

Allow(r) ==
  /\ review[r].verdict = "waiting"
  /\ \E pod \in Answers[review[r].pod] :
       review' = [review EXCEPT ![r] = [verdict |-> "allowed", pod |-> pod]]

Deny(r) ==
  /\ review[r].verdict = "waiting"
  /\ review[r].pod \in MayDeny
  /\ review' = [review EXCEPT ![r].verdict = "denied"]

Next == \E r \in Requests : Submit(r) \/ Allow(r) \/ Deny(r)

Spec == Init /\ [][Next]_review
=============================================================================
