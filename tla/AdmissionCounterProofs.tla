----------------------- MODULE AdmissionCounterProofs -----------------------
(***************************************************************************)
(* The counters of Admission count the reviews, for any number of reviews  *)
(* answered in any order, and its types.                                   *)
(***************************************************************************)
EXTENDS AdmissionProofs

(* What a review counts for once it is answered.                           *)
Win(r, p)  == Mutated(r) /\ p \in ToSet(Handled(r))
Loss(r, p) == At(r, "denied") /\ p \in Blamed(r)
Ended(r)   == At(r, "allowed") \/ At(r, "denied")
Passed(r)  == At(r, "allowed") /\ Skipped(r)

Wins(p)   == {r \in Requests : Win(r, p)}
Losses(p) == {r \in Requests : Loss(r, p)}
Answered  == {r \in Requests : Ended(r)}
Spared    == {r \in Requests : Passed(r)}

CountersTyped ==
  /\ mutations \in [Names -> [Results -> Nat]]
  /\ excluded \in [Reasons -> Nat]
  /\ observed \in Nat

CountInv == LoopInv /\ CountersTyped /\ CountersAgree

LEMMA CountersAreSets ==
  CountersAgree <=>
    /\ \A p \in Names : /\ mutations[p]["success"] = Cardinality(Wins(p))
                        /\ mutations[p]["failed"] = Cardinality(Losses(p))
    /\ observed = Cardinality(Answered)
    /\ excluded["namespace_exclusion"] + excluded["annotation_opt_out"]
         = Cardinality(Spared)
  BY DEF CountersAgree, Wins, Win, Losses, Loss, Answered, Ended, Spared, Passed

-----------------------------------------------------------------------------
(* A step of review r adds to the counters what r counts for after it.     *)

One(b) == IF b THEN 1 ELSE 0

Tallied(r) ==
  /\ \A p \in Names :
       /\ mutations'[p]["success"] = mutations[p]["success"] + One(Win(r, p)')
       /\ mutations'[p]["failed"] = mutations[p]["failed"] + One(Loss(r, p)')
  /\ observed' = observed + One(Ended(r)')
  /\ excluded'["namespace_exclusion"] + excluded'["annotation_opt_out"]
       = excluded["namespace_exclusion"] + excluded["annotation_opt_out"]
           + One(Passed(r)')

LEMMA OneMore ==
  ASSUME NEW S, IsFiniteSet(S), NEW T \in SUBSET S, NEW U, NEW x \in S,
         x \notin T, NEW b \in BOOLEAN, U = IF b THEN T \cup {x} ELSE T
  PROVE  Cardinality(U) = Cardinality(T) + One(b)
<1>1. IsFiniteSet(T) /\ Cardinality(T) \in Nat
  BY FS_Subset, FS_CardinalityType
<1>2. Cardinality(T \cup {x}) = Cardinality(T) + 1
  BY <1>1, FS_AddElement
<1> QED
  BY <1>1, <1>2 DEF One

LEMMA TalliedStep ==
  ASSUME CountInv, NEW r \in Requests, Alone(r), ~Ended(r), Tallied(r)
  PROVE  CountersAgree'
<1>1. ASSUME NEW q \in Requests \ {r}
      PROVE  /\ \A p : Win(q, p)' <=> Win(q, p)
             /\ \A p : Loss(q, p)' <=> Loss(q, p)
             /\ Ended(q)' <=> Ended(q)
             /\ Passed(q)' <=> Passed(q)
  BY DEF Alone, Win, Loss, Ended, Passed, At, Mutated, Handled, Skipped, Orig, Blamed
<1>2. ASSUME NEW p
      PROVE  /\ Cardinality(Wins(p)') = Cardinality(Wins(p)) + One(Win(r, p)')
             /\ Cardinality(Losses(p)') = Cardinality(Losses(p)) + One(Loss(r, p)')
  <2>1. ~Win(r, p) /\ ~Loss(r, p)
    BY DEF Ended, Win, Loss, Mutated
  <2>2. /\ Wins(p)' = IF Win(r, p)' THEN Wins(p) \cup {r} ELSE Wins(p)
        /\ Losses(p)' = IF Loss(r, p)' THEN Losses(p) \cup {r} ELSE Losses(p)
    BY <1>1, <2>1 DEF Wins, Losses
  <2>3. /\ Wins(p) \in SUBSET Requests /\ r \notin Wins(p)
        /\ Losses(p) \in SUBSET Requests /\ r \notin Losses(p)
    BY <2>1 DEF Wins, Losses
  <2>4. Win(r, p)' \in BOOLEAN /\ Loss(r, p)' \in BOOLEAN
    BY DEF Win, Loss, Mutated
  <2> QED
    BY <2>2, <2>3, <2>4, OneMore, AdmissionAssumption
<1>3. /\ Cardinality(Answered') = Cardinality(Answered) + One(Ended(r)')
      /\ Cardinality(Spared') = Cardinality(Spared) + One(Passed(r)')
  <2>1. ~Ended(r) /\ ~Passed(r)
    BY DEF Ended, Passed
  <2>2. /\ Answered' = IF Ended(r)' THEN Answered \cup {r} ELSE Answered
        /\ Spared' = IF Passed(r)' THEN Spared \cup {r} ELSE Spared
    BY <1>1, <2>1 DEF Answered, Spared
  <2>3. /\ Answered \in SUBSET Requests /\ r \notin Answered
        /\ Spared \in SUBSET Requests /\ r \notin Spared
    BY <2>1 DEF Answered, Spared
  <2>4. Ended(r)' \in BOOLEAN /\ Passed(r)' \in BOOLEAN
    BY DEF Ended, Passed, At
  <2> QED
    BY <2>2, <2>3, <2>4, OneMore, AdmissionAssumption
<1>4. /\ \A p \in Names : /\ mutations[p]["success"] = Cardinality(Wins(p))
                          /\ mutations[p]["failed"] = Cardinality(Losses(p))
      /\ observed = Cardinality(Answered)
      /\ excluded["namespace_exclusion"] + excluded["annotation_opt_out"]
           = Cardinality(Spared)
  BY CountersAreSets DEF CountInv
<1>5. /\ \A p \in Names : /\ mutations'[p]["success"] = Cardinality(Wins(p)')
                          /\ mutations'[p]["failed"] = Cardinality(Losses(p)')
      /\ observed' = Cardinality(Answered')
      /\ excluded'["namespace_exclusion"] + excluded'["annotation_opt_out"]
           = Cardinality(Spared')
  BY <1>2, <1>3, <1>4 DEF Tallied
<1> QED
  BY <1>5 DEF CountersAgree, Wins, Win, Losses, Loss, Answered, Ended, Spared, Passed

LEMMA SameReview ==
  ASSUME NEW r, Keeps(r)
  PROVE  /\ Handled(r)' = Handled(r)
         /\ Skipped(r)' <=> Skipped(r)
         /\ Blamed(r)' = Blamed(r)
  BY DEF Keeps, Handled, Skipped, Blamed, Orig

(* A review that goes on counts for nothing yet.                           *)
LEMMA TalliedGoingOn ==
  ASSUME CountInv, NEW r \in Requests, Receive(r) \/ GoesOn(r)
  PROVE  Tallied(r)
<1>1. ~Ended(r)'
  <2>1. Receive(r) => req'[r].pc = "received"
    BY DEF Receive, CountInv, LoopInv
  <2> QED
    BY <2>1, GoesOnReview DEF CountInv, Waiting, Ended, At
<1>2. UNCHANGED metrics
  BY DEF Receive, GoesOn, Accept, ValidatePasses, Lookup, Inject, Assemble
<1>3. \A p : ~Win(r, p)' /\ ~Loss(r, p)'
  BY <1>1 DEF Ended, Win, Loss, Mutated
<1>4. ~Passed(r)'
  BY <1>1 DEF Ended, Passed
<1> QED
  BY <1>1, <1>2, <1>3, <1>4 DEF Tallied, One, metrics, CountInv, CountersTyped, Results, Reasons

(* A review that leaves its pod alone counts as one answer, and as one pod *)
(* excluded if that is why.                                                *)
LEMMA TalliedSkip ==
  ASSUME CountInv, NEW r \in Requests, Exclude(r) \/ OptOut(r) \/ PassThrough(r)
  PROVE  Tallied(r)
<1>1. At(r, "received") /\ req' = [req EXCEPT ![r].pc = "allowed"]
      /\ UNCHANGED mutations /\ observed' = observed + 1
  BY DEF Exclude, OptOut, PassThrough, Skip, Return
<1>2. req'[r].pc = "allowed" /\ Keeps(r) /\ req[r].pod = Orig(r)
  BY <1>1, AllowsReview DEF Allows, CountInv, LoopInv, Loop, At
<1>3. Ended(r)'
  BY <1>2 DEF Ended, At
<1>4. \A p : ~Win(r, p)' /\ ~Loss(r, p)'
  <2>1. Exclude(r) \/ OptOut(r) => Skipped(r)
    BY <1>2 DEF Exclude, OptOut, Skipped, Excluded, InExcluded
  <2>2. PassThrough(r) => Handled(r) = <<>>
    BY <1>2 DEF PassThrough, Handled, Enabled, Annotations
  <2> QED
    BY <1>2, <2>1, <2>2, SameReview DEF Win, Loss, Mutated, At
<1>5. CASE Exclude(r) \/ OptOut(r)
  <2>1. PICK reason \in Reasons : excluded' = [excluded EXCEPT ![reason] = @ + 1]
    BY <1>5 DEF Exclude, OptOut, Skip, Reasons
  <2>2. excluded'["namespace_exclusion"] + excluded'["annotation_opt_out"]
          = excluded["namespace_exclusion"] + excluded["annotation_opt_out"] + 1
    BY <2>1 DEF CountInv, CountersTyped, Reasons
  <2>3. Passed(r)'
    BY <1>2, <1>5, SameReview
       DEF Passed, At, Exclude, OptOut, Skipped, Excluded, InExcluded
  <2> QED
    BY <1>1, <1>3, <1>4, <2>2, <2>3 DEF Tallied, One, CountInv, CountersTyped, Results
<1>6. CASE PassThrough(r)
  <2>1. UNCHANGED excluded
    BY <1>6 DEF PassThrough
  <2>2. ~Passed(r)'
    BY <1>2, <1>6, SameReview
       DEF Passed, PassThrough, Skipped, Excluded, InExcluded
  <2> QED
    BY <1>1, <1>3, <1>4, <2>1, <2>2
       DEF Tallied, One, CountInv, CountersTyped, Results, Reasons
<1> QED
  BY <1>5, <1>6

(* A review that is denied counts for the providers it is blamed on.       *)
LEMMA DeniedBlames ==
  ASSUME LoopInv, NEW r \in Requests, Denies(r)
  PROVE  Refuse(r, Blamed(r))
<1> DEFINE ps == Handled(r)
           a == Orig(r).annotations
           bad == {i \in DOMAIN ps : ~Valid(ps[i], a)}
<1>1. Loop(r) /\ req[r].providers = ps
  BY FailuresAreDeniable DEF Denies, LoopInv, Loop
<1>2. Blamed(r) = IF bad = {} THEN ToSet(ps)
                  ELSE {ps[i] : i \in {i \in bad : \A j \in bad : i <= j}}
  BY DEF Blamed
<1>3. CASE ValidateFails(r)
  <2>1. Refuse(r, {ps[Invalid(r)]}) /\ Invalid(r) # 0 /\ At(r, "validate")
    BY <1>1, <1>3 DEF ValidateFails
  <2>2. Annotations(r) = a
    BY <1>1, <2>1 DEF Loop, At, Annotations
  <2>3. req[r].providers = BuildEnabledProviders(Annotations(r))
    BY <1>1, <2>2 DEF Handled
  <2>4. /\ Invalid(r) \in DOMAIN ps /\ ~Valid(ps[Invalid(r)], a)
        /\ \A i \in DOMAIN ps : ~Valid(ps[i], a) => Invalid(r) <= i
    <3>1. /\ Invalid(r) \in DOMAIN req[r].providers
          /\ ~Valid(req[r].providers[Invalid(r)], Annotations(r))
          /\ \A i \in DOMAIN req[r].providers :
               ~Valid(req[r].providers[i], Annotations(r)) => Invalid(r) <= i
      BY <2>1, <2>3, FirstInvalidEnabled, Zenon DEF Invalid
    <3> HIDE DEF ps, a
    <3> QED
      BY <1>1, <2>2, <3>1
  <2>5. DOMAIN ps \subseteq Nat
    BY EnabledTypes DEF Handled
  <2> HIDE DEF ps, a
  <2>6. {i \in bad : \A j \in bad : i <= j} = {Invalid(r)} /\ bad # {}
    BY <2>4, <2>5
  <2>7. Blamed(r) = {ps[Invalid(r)]}
    BY <1>2, <2>6
  <2> QED
    BY <2>1, <2>7
<1>4. CASE LookupFails(r) \/ ImageConfigFails(r)
  <2>1. Refuse(r, ToSet(ps)) /\ At(r, "mutate")
    BY <1>1, <1>4
       DEF LookupFails, LookingUp, ImageConfigFails, LookedUp, Mutating
  <2>2. ~Misconfigured(Orig(r))
    BY <1>1, <2>1 DEF Loop
  <2>3. bad = {}
    BY <2>2 DEF Misconfigured, Handled, ToSet
  <2> QED
    BY <1>2, <2>1, <2>3
<1> QED
  BY <1>3, <1>4 DEF Denies

LEMMA TalliedDenied ==
  ASSUME CountInv, NEW r \in Requests, Denies(r)
  PROVE  Tallied(r)
<1>1. Refuse(r, Blamed(r))
  BY DeniedBlames DEF CountInv
<1>2. req' = [req EXCEPT ![r].pc = "denied"] /\ observed' = observed + 1
      /\ UNCHANGED excluded /\ Count(r, Blamed(r), "failed")
  BY <1>1 DEF Refuse, Return
<1>3. Keeps(r) /\ req'[r].pc = "denied"
  BY DeniesReview DEF CountInv
<1>4. Ended(r)' /\ ~Passed(r)'
  BY <1>3 DEF Ended, Passed, At
<1>5. \A p : ~Win(r, p)' /\ (Loss(r, p)' <=> p \in Blamed(r))
  BY <1>3, SameReview DEF Win, Loss, Mutated, At
<1>6. \A p \in Names :
        mutations'[p] = IF p \in Blamed(r)
                        THEN [mutations[p] EXCEPT !["failed"] = @ + 1]
                        ELSE mutations[p]
  BY <1>2 DEF Count
<1>7. \A p \in Names :
        /\ mutations'[p]["success"] = mutations[p]["success"]
        /\ mutations'[p]["failed"] = mutations[p]["failed"] + One(p \in Blamed(r))
  <2> TAKE p \in Names
  <2>1. mutations[p] \in [Results -> Nat]
    BY DEF CountInv, CountersTyped
  <2>2. CASE p \in Blamed(r)
    BY <1>6, <2>1, <2>2 DEF Results, One
  <2>3. CASE p \notin Blamed(r)
    <3>1. mutations'[p] = mutations[p]
      BY <1>6, <2>3
    <3>2. One(p \in Blamed(r)) = 0
      BY <2>3 DEF One
    <3> QED
      BY <2>1, <3>1, <3>2 DEF Results
  <2> QED
    BY <2>2, <2>3
<1> QED
  BY <1>2, <1>4, <1>5, <1>7 DEF Tallied, One, CountInv, CountersTyped, Results, Reasons

(* A review that is answered with a mutated pod counts for every provider. *)
LEMMA TalliedAnswer ==
  ASSUME CountInv, NEW r \in Requests, Answer(r)
  PROVE  Tallied(r)
<1>1. /\ observed' = observed + 1 /\ UNCHANGED excluded
      /\ Count(r, ToSet(req[r].providers), "success")
  BY DEF Answer
<1>2. ~Unmanaged(Orig(r)) /\ req[r].providers = Handled(r)
  BY DEF Answer, CountInv, LoopInv, Loop, At, Working
<1>3. req'[r].pc = "allowed" /\ Keeps(r)
  BY AllowsReview DEF Allows, CountInv
<1>4. ~Skipped(r) /\ Handled(r) # <<>>
  BY <1>2 DEF Unmanaged, Skipped, Handled
<1>5. Ended(r)' /\ ~Passed(r)'
  BY <1>3, <1>4, SameReview DEF Ended, Passed, At
<1>6. \A p : ~Loss(r, p)' /\ (Win(r, p)' <=> p \in ToSet(Handled(r)))
  BY <1>3, <1>4, SameReview DEF Win, Loss, Mutated, At
<1>7. \A p \in Names :
        mutations'[p] = IF p \in ToSet(Handled(r))
                        THEN [mutations[p] EXCEPT !["success"] = @ + 1]
                        ELSE mutations[p]
  BY <1>1, <1>2 DEF Count
<1>8. \A p \in Names :
        /\ mutations'[p]["failed"] = mutations[p]["failed"]
        /\ mutations'[p]["success"] = mutations[p]["success"] + One(p \in ToSet(Handled(r)))
  <2> TAKE p \in Names
  <2>1. mutations[p] \in [Results -> Nat]
    BY DEF CountInv, CountersTyped
  <2>2. CASE p \in ToSet(Handled(r))
    BY <1>7, <2>1, <2>2 DEF Results, One
  <2>3. CASE p \notin ToSet(Handled(r))
    <3>1. mutations'[p] = mutations[p]
      BY <1>7, <2>3
    <3>2. One(p \in ToSet(Handled(r))) = 0
      BY <2>3 DEF One
    <3> QED
      BY <2>1, <3>1, <3>2 DEF Results
  <2> QED
    BY <2>2, <2>3
<1> QED
  BY <1>1, <1>5, <1>6, <1>8 DEF Tallied, One, CountInv, CountersTyped, Results, Reasons

-----------------------------------------------------------------------------
LEMMA TalliedStepOfReview ==
  ASSUME CountInv, NEW r \in Requests, Receive(r) \/ Step(r)
  PROVE  Tallied(r) /\ ~Ended(r)
<1>1. Tallied(r)
  BY TalliedGoingOn, TalliedSkip, TalliedDenied, TalliedAnswer
     DEF Step, GoesOn, Denies
<1>2. At(r, "none") \/ Waiting(r)
  BY AllowsReview, DeniesReview, GoesOnReview
     DEF CountInv, Receive, Step, Allows, Denies, GoesOn
<1> QED
  BY <1>1, <1>2 DEF Ended, At, Waiting

LEMMA CountersTypedStep ==
  ASSUME CountersTyped, NEW r \in Requests, Receive(r) \/ Step(r)
  PROVE  CountersTyped'
<1>1. CASE UNCHANGED metrics
  BY <1>1 DEF CountersTyped, metrics
<1>2. ASSUME NEW ps, NEW result \in Results, Count(r, ps, result)
      PROVE  mutations' \in [Names -> [Results -> Nat]]
  <2>1. ASSUME NEW p \in Names
        PROVE  /\ mutations[p] \in [Results -> Nat]
               /\ [mutations[p] EXCEPT ![result] = @ + 1] \in [Results -> Nat]
    <3>1. mutations[p] \in [Results -> Nat]
      BY DEF CountersTyped
    <3> QED
      BY <3>1
  <2> QED
    BY <1>2, <2>1 DEF Count
<1>3. CASE ValidateFails(r) \/ LookupFails(r) \/ ImageConfigFails(r)
  BY <1>2, <1>3 DEF ValidateFails, LookupFails, ImageConfigFails, Refuse, Return,
                    CountersTyped, Results
<1>4. CASE Answer(r)
  BY <1>2, <1>4 DEF Answer, CountersTyped, Results
<1>5. CASE Exclude(r) \/ OptOut(r) \/ PassThrough(r)
  BY <1>5 DEF Exclude, OptOut, PassThrough, Skip, Return, CountersTyped, Reasons
<1> QED
  BY <1>1, <1>3, <1>4, <1>5
     DEF Receive, Step, Accept, ValidatePasses, Lookup, Inject, Assemble

LEMMA CountInit == Init => CountInv
<1> SUFFICES ASSUME Init PROVE CountInv
  OBVIOUS
<1>1. \A p : Wins(p) = {} /\ Losses(p) = {}
  BY DEF Init, NoRequest, Wins, Win, Mutated, Losses, Loss, At
<1>2. Answered = {} /\ Spared = {}
  BY DEF Init, NoRequest, Answered, Ended, Spared, Passed, At
<1>3. CountersAgree
  BY <1>1, <1>2, CountersAreSets, FS_EmptySet DEF Init, Results, Reasons
<1>4. CountersTyped
  BY DEF Init, CountersTyped
<1> QED
  BY <1>3, <1>4, LoopInit DEF CountInv

LEMMA CountStep == CountInv /\ [Next]_vars => CountInv'
<1>1. ASSUME CountInv, NEW r \in Requests, Receive(r) \/ Step(r)
      PROVE  CountersTyped' /\ CountersAgree'
  BY <1>1, TalliedStepOfReview, TalliedStep, StepAlone, CountersTypedStep DEF CountInv
<1>2. ASSUME CountInv, UNCHANGED vars PROVE CountersTyped' /\ CountersAgree'
  <2>1. UNCHANGED <<req, mutations, excluded, observed>>
    BY <1>2 DEF vars, metrics
  <2>2. \A p : /\ Wins(p)' = Wins(p) /\ Losses(p)' = Losses(p)
               /\ Answered' = Answered /\ Spared' = Spared
    BY <2>1 DEF Wins, Win, Losses, Loss, Answered, Ended, Spared, Passed, At,
               Mutated, Handled, Skipped, Blamed, Orig
  <2>3. CountersAgree'
    BY <1>2, <2>1, <2>2 DEF CountInv, CountersAgree, Wins, Win, Losses, Loss,
                            Answered, Ended, Spared, Passed
  <2> QED
    BY <1>2, <2>1, <2>3 DEF CountInv, CountersTyped
<1> QED
  BY <1>1, <1>2, LoopStep DEF CountInv, Next

LEMMA CountInvariant == Spec => []CountInv
  BY CountInit, CountStep, PTL DEF Spec

(* At every moment the Prometheus counters are what the answers given so   *)
(* far add up to, per provider and result, although the reviews count in   *)
(* any order (main.go:356-447).                                            *)
THEOREM AdmissionCounters == Spec => []CountersAgree
  BY CountInvariant, PTL DEF CountInv

(* Types, with the bounds: what the handler reads of the pod while it      *)
(* mutates it is there, and no counter passes the number of the reviews.   *)
THEOREM AdmissionTypeCorrect == Spec => []TypeOK
<1>1. ASSUME CountInv PROVE TypeOK
  <2>1. LoopInv /\ CountersTyped
    BY <1>1 DEF CountInv
  <2>2. ASSUME NEW r \in Requests
        PROVE  /\ req[r].pc \in Pcs
               /\ req[r].pc # "none" => req[r].orig \in Pods
               /\ req[r].pc \in {"validate", "mutate"} =>
                    /\ req[r].i \in 1..(Len(req[r].pod.ctrs) + 1)
                    /\ Mutating(r) => req[r].k \in 1..(Len(Ctr(r).refs) + 1)
                    /\ Len(req[r].pod.ctrs) = Len(req[r].orig.ctrs)
    <3>1. req[r].pc \in Pcs /\ (req[r].pc # "none" => req[r].orig \in Pods)
      BY <2>1 DEF LoopInv, Loop, At, Orig
    <3>2. Mutating(r) => req[r].k \in 1..(Len(Ctr(r).refs) + 1)
      BY <2>1, AtContainer
    <3>3. CASE At(r, "validate")
      <4>1. req[r].i = 1 /\ req[r].pod = Orig(r) /\ Len(Orig(r).ctrs) \in Nat
        BY <2>1, <3>3, PodTypes DEF LoopInv, Loop, At
      <4> QED
        BY <3>1, <3>2, <4>1 DEF Orig
    <3>4. CASE At(r, "mutate")
      <4>1. /\ Orig(r) \in Pods /\ Length(r) \in Nat /\ req[r].i \in 1..(Length(r) + 1)
            /\ req[r].pod = Partly(Orig(r), req[r].configs, req[r].i)
        BY <2>1, <3>4, PodTypes DEF LoopInv, Loop, At, Length
      <4>2. req[r].i \in Nat
        BY <4>1
      <4>3. Len(req[r].pod.ctrs) = Length(r)
        BY <4>1, <4>2, PartlyTypes DEF Length
      <4> QED
        BY <3>1, <3>2, <4>1, <4>3 DEF Length, Orig
    <3> QED
      BY <3>1, <3>3, <3>4 DEF At
  <2>3. \A T \in SUBSET Requests : Cardinality(T) \in 0..Cardinality(Requests)
    BY FS_Subset, FS_CardinalityType, AdmissionAssumption
  <2>4. ASSUME NEW p \in Names
        PROVE  mutations[p] \in [Results -> 0..Cardinality(Requests)]
    <3>1. Wins(p) \in SUBSET Requests /\ Losses(p) \in SUBSET Requests
      BY DEF Wins, Losses
    <3>2. /\ mutations[p]["success"] \in 0..Cardinality(Requests)
          /\ mutations[p]["failed"] \in 0..Cardinality(Requests)
      BY <1>1, <2>3, <3>1, CountersAreSets DEF CountInv
    <3>3. mutations[p] \in [Results -> Nat]
      BY <2>1 DEF CountersTyped
    <3> QED
      BY <3>2, <3>3 DEF Results
  <2>5. mutations \in [Names -> [Results -> 0..Cardinality(Requests)]]
    BY <2>1, <2>4 DEF CountersTyped
  <2>6. excluded \in [Reasons -> 0..Cardinality(Requests)]
    <3>1. excluded["namespace_exclusion"] + excluded["annotation_opt_out"]
            \in 0..Cardinality(Requests)
      <4>1. Spared \in SUBSET Requests
        BY DEF Spared
      <4> QED
        BY <1>1, <2>3, <4>1, CountersAreSets DEF CountInv
    <3>2. Cardinality(Requests) \in Nat
      BY FS_CardinalityType, AdmissionAssumption
    <3> QED
      BY <2>1, <3>1, <3>2 DEF CountersTyped, Reasons
  <2>7. observed \in 0..Cardinality(Requests)
    <3>1. Answered \in SUBSET Requests
      BY DEF Answered
    <3> QED
      BY <1>1, <2>3, <3>1, CountersAreSets DEF CountInv
  <2> QED
    BY <2>1, <2>2, <2>5, <2>6, <2>7 DEF TypeOK, LoopInv
<1> QED
  BY <1>1, CountInvariant, PTL
=============================================================================
