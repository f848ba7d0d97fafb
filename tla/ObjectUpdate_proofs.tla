------------------------- MODULE ObjectUpdate_proofs -------------------------
(***************************************************************************)
(* What holds of PUT for every set of providers: the types, the counters   *)
(* of the join loop, that a synchronous request leaves no goroutine        *)
(* behind, and that the endpoint implements Gather.                        *)
(***************************************************************************)
EXTENDS ObjectUpdate, FiniteSetTheorems, TLAPS

\* Nothing is dispatched before Begin, and nothing answered before Respond.
Phases ==
  /\ handler = "start" => targets = {}
  /\ handler \in {"start", "join", "respond"} => status = 0
  /\ \A p \in Providers : worker[p] # "idle" => p \in targets

\* A synchronous join ends with its deadline or with everyone's result.
JoinComplete ==
  handler \in {"respond", "done"} /\ request.synchronous /\ ~timedOut
    => received = Dispatched

\* The inductive invariant.
Inv == TypeOK /\ Counted({"ok"}) /\ Phases /\ JoinComplete

----------------------------------------------------------------------------
(***************************************************************************)
(* The counters of the join loop, which Dispatch shares with the other two *)
(* endpoints.                                                              *)
(***************************************************************************)
\* The providers with a good result among those whose result was taken.
Good(good) == {p \in Delivered : reply[p] \in good}

\* Sets of providers are finite, so the counters below are naturals.
LEMMA SetsFinite ==
  ASSUME NEW good
  PROVE  /\ IsFiniteSet(Delivered)
         /\ IsFiniteSet(Good(good))
         /\ \A S \in SUBSET Providers : IsFiniteSet(S) /\ Cardinality(S) \in Nat
<1>1. \A S \in SUBSET Providers : IsFiniteSet(S) /\ Cardinality(S) \in Nat
  BY ProvidersFinite, FS_Subset, FS_CardinalityType
<1>2. Delivered \in SUBSET Providers /\ Good(good) \in SUBSET Providers
  BY DEF Delivered, Good
<1> QED  BY <1>1, <1>2

\* A subset of the dispatched providers is all of them as soon as its size is
\* Dispatched, and is empty exactly when its size is 0.
LEMMA SizeDecides ==
  ASSUME targets \subseteq Providers,
         NEW S \in SUBSET targets
  PROVE  /\ Cardinality(S) = Dispatched => S = targets
         /\ Cardinality(S) = 0 <=> S = {}
         /\ Cardinality(S) <= Dispatched
<1>1. IsFiniteSet(targets)
  BY ProvidersFinite, FS_Subset
<1>2. IsFiniteSet(S) /\ Cardinality(S) <= Cardinality(targets)
      /\ (Cardinality(S) = Cardinality(targets) => S = targets)
  BY <1>1, FS_Subset
<1>3. Cardinality(S) = 0 <=> S = {}
  BY <1>2, FS_EmptySet
<1> QED  BY <1>2, <1>3 DEF Dispatched

\* The receive of one more result keeps the counters right, provided that the
\* successes are counted by the same criterion.
LEMMA HandoverCounts ==
  ASSUME NEW good, NEW p \in Providers,
         DispatchTypeOK, Counted(good), p \in targets,
         Handover(p),
         successful' = successful + (IF reply[p] \in good THEN 1 ELSE 0),
         UNCHANGED <<reply, targets>>
  PROVE  Counted(good)'
<1>1. Delivered' = Delivered \cup {p} /\ p \notin Delivered
  BY DEF Delivered, Handover, DispatchTypeOK
<1>2. Cardinality(Delivered') = Cardinality(Delivered) + 1
  BY <1>1, SetsFinite, FS_AddElement
<1>3. received' = Cardinality(Delivered')
  BY <1>2 DEF Counted, Handover
<1>4. CASE reply[p] \in good
  <2>1. Good(good)' = Good(good) \cup {p} /\ p \notin Good(good)
    BY <1>1, <1>4 DEF Good
  <2>2. Cardinality(Good(good)') = Cardinality(Good(good)) + 1
    BY <2>1, SetsFinite, FS_AddElement
  <2>3. successful' = Cardinality(Good(good)')
    BY <1>4, <2>2 DEF Counted, Good
  <2> QED  BY <1>1, <1>3, <2>3 DEF Counted, Good
<1>5. CASE reply[p] \notin good
  <2>1. Good(good)' = Good(good)
    BY <1>1, <1>5 DEF Good
  <2>2. successful' = successful
    BY <1>5 DEF DispatchTypeOK
  <2>3. successful = Cardinality(Good(good))
    BY DEF Counted, Good
  <2>4. successful' = Cardinality(Good(good)')
    BY <2>1, <2>2, <2>3
  <2> QED  BY <1>1, <1>3, <2>4 DEF Counted, Good
<1> QED  BY <1>4, <1>5

\* A step that takes nothing from the channel and leaves the results taken
\* before as they are keeps the counters right.
LEMMA QuietCounts ==
  ASSUME NEW good,
         Counted(good),
         Delivered' = Delivered,
         \A p \in Delivered : reply'[p] = reply[p],
         Delivered \subseteq targets',
         UNCHANGED <<received, successful>>
  PROVE  Counted(good)'
<1>1. Good(good)' = Good(good)
  BY DEF Good
<1> QED  BY <1>1 DEF Counted, Good

----------------------------------------------------------------------------
\* The types most steps need.
LEMMA Types ==
  TypeOK => /\ DispatchTypeOK
            /\ worker \in [Providers -> WorkerStates]
            /\ reply \in [Providers -> Replies \cup {"none"}]
            /\ targets \subseteq Providers /\ request \in Requests
BY DEF TypeOK, DispatchTypeOK, WorkerStates

\* Nothing has been dispatched, counted or answered at first.
LEMMA InitInv == Init => Inv
<1> SUFFICES ASSUME Init PROVE Inv
  OBVIOUS
<1> USE DEF Init, DispatchInit
<1>1. TypeOK
  <2>1. configured \subseteq Providers /\ accepting \subseteq configured
    OBVIOUS
  <2>2. reloads \in 0..MaxReloads
    BY MaxReloadsNat
  <2>3. DispatchTypeOK
    BY <2>1, <2>2 DEF DispatchTypeOK, WorkerStates
  <2> QED  BY <2>3 DEF TypeOK
<1>2. Counted({"ok"})
  <2>1. Delivered = {} /\ {p \in Delivered : reply[p] \in {"ok"}} = {}
    BY DEF Delivered
  <2> QED  BY <2>1, FS_EmptySet DEF Counted
<1>3. Phases /\ JoinComplete
  BY DEF Phases, JoinComplete
<1> QED  BY <1>1, <1>2, <1>3 DEF Inv

\* Every action of PUT keeps the types.
LEMMA StepTypes == TypeOK /\ [Next]_vars => TypeOK'
<1> SUFFICES ASSUME TypeOK, [Next]_vars PROVE TypeOK'
  OBVIOUS
<1> USE DEF TypeOK, DispatchTypeOK, WorkerStates, Replies, configVars, workerVars,
            handlerVars
<1>1. CASE Refuse  BY <1>1 DEF Refuse
<1>2. CASE Begin
  <2>1. Selected(request.named) \subseteq Providers
    BY DEF Selected, Requests
  <2> QED  BY <1>2, <2>1 DEF Begin, Launch
<1>3. ASSUME NEW p \in Providers, Receive(p) PROVE TypeOK'
  BY <1>3 DEF Receive, Handover
<1>4. CASE Timeout  BY <1>4 DEF Timeout, Requests
<1>5. CASE Respond  BY <1>5 DEF Respond, UpdateStatus
<1>6. ASSUME NEW p \in Providers, UpdateReturn(p) PROVE TypeOK'
  BY <1>6 DEF UpdateReturn, Return
<1>7. CASE ReloadConfig
  BY <1>7, MaxReloadsNat DEF ReloadConfig, Reload
<1>8. CASE UNCHANGED vars  BY <1>8 DEF vars
<1> QED
  BY <1>1, <1>2, <1>3, <1>4, <1>5, <1>6, <1>7, <1>8 DEF Next, HandlerStep, Done

\* Every action of PUT keeps the counters equal to what was delivered.
LEMMA StepCounted == Inv /\ [Next]_vars => Counted({"ok"})'
<1> SUFFICES ASSUME Inv, [Next]_vars PROVE Counted({"ok"})'
  OBVIOUS
<1> USE DEF Inv, configVars, workerVars, handlerVars
<1>0. DispatchTypeOK /\ worker \in [Providers -> WorkerStates]
  BY Types
<1>1. CASE Refuse
  BY <1>1, QuietCounts DEF Refuse, Delivered, Counted
<1>2. CASE Begin
  <2>1. Delivered = {} /\ Delivered' = {}
    BY <1>2, <1>0 DEF Begin, Launch, Delivered, Phases
  <2> QED  BY <1>2, <2>1, QuietCounts DEF Begin
<1>3. ASSUME NEW p \in Providers, Receive(p) PROVE Counted({"ok"})'
  <2>1. p \in targets
    BY <1>3 DEF Receive, Handover, Phases
  <2>2. /\ Handover(p)
        /\ successful' = successful + (IF reply[p] \in {"ok"} THEN 1 ELSE 0)
        /\ UNCHANGED <<reply, targets>>
    BY <1>3 DEF Receive, Handover
  <2> QED  BY <1>0, <2>1, <2>2, HandoverCounts
<1>4. CASE Timeout
  BY <1>4, QuietCounts DEF Timeout, Delivered, Counted
<1>5. CASE Respond
  BY <1>5, QuietCounts DEF Respond, Delivered, Counted
<1>6. ASSUME NEW p \in Providers, UpdateReturn(p) PROVE Counted({"ok"})'
  <2>1. /\ Delivered' = Delivered
        /\ \A q \in Delivered : reply'[q] = reply[q]
        /\ UNCHANGED <<targets, received, successful>>
    BY <1>6, <1>0 DEF UpdateReturn, Return, Delivered
  <2> QED  BY <2>1, QuietCounts DEF Counted
<1>7. CASE ReloadConfig
  BY <1>7, QuietCounts DEF ReloadConfig, Delivered, Counted
<1>8. CASE UNCHANGED vars
  BY <1>8, QuietCounts DEF vars, Delivered, Counted
<1> QED
  BY <1>1, <1>2, <1>3, <1>4, <1>5, <1>6, <1>7, <1>8 DEF Next, HandlerStep, Done

\* The phases of PUT, and how a synchronous join ends.
LEMMA StepPhases == Inv /\ [Next]_vars => Phases' /\ JoinComplete'
<1> SUFFICES ASSUME Inv, [Next]_vars PROVE Phases' /\ JoinComplete'
  OBVIOUS
<1> USE DEF Inv, Phases, JoinComplete, Dispatched, configVars, workerVars,
            handlerVars
<1>0. /\ worker \in [Providers -> WorkerStates]
      /\ reply \in [Providers -> Replies \cup {"none"}]
      /\ request \in Requests
  BY Types
<1>1. CASE Refuse
  <2>1. targets = {} /\ Delivered = {}
    BY <1>1 DEF Refuse, Counted
  <2>2. received = Cardinality(targets)
    BY <2>1 DEF Counted
  <2> QED  BY <1>1, <2>2 DEF Refuse
<1>2. CASE Begin  BY <1>2, <1>0 DEF Begin, Launch
<1>3. ASSUME NEW p \in Providers, Receive(p) PROVE Phases' /\ JoinComplete'
  BY <1>3, <1>0 DEF Receive, Handover, JoinEnds
<1>4. CASE Timeout  BY <1>4 DEF Timeout
<1>5. CASE Respond  BY <1>5 DEF Respond
<1>6. ASSUME NEW p \in Providers, UpdateReturn(p)
      PROVE  Phases' /\ JoinComplete'
  BY <1>6, <1>0 DEF UpdateReturn, Return
<1>7. CASE ReloadConfig  BY <1>7 DEF ReloadConfig
<1>8. CASE UNCHANGED vars  BY <1>8 DEF vars
<1> QED
  BY <1>1, <1>2, <1>3, <1>4, <1>5, <1>6, <1>7, <1>8 DEF Next, HandlerStep, Done

\* What the counters say of the votes when the handler answers.
LEMMA CountersMeanVotes ==
  ASSUME DispatchTypeOK, Counted({"ok"})
  PROVE  /\ successful > 0 => \E p \in targets : worker[p] = "delivered" /\ reply[p] = "ok"
         /\ successful = 0 => \A p \in targets : ~(worker[p] = "delivered" /\ reply[p] = "ok")
         /\ ~(successful < Dispatched) =>
               \A p \in targets : worker[p] = "delivered" /\ reply[p] = "ok"
         /\ Dispatched = 0 <=> targets = {}
<1> DEFINE A == {p \in Delivered : reply[p] \in {"ok"}}
<1>1. targets \subseteq Providers /\ A \in SUBSET targets /\ successful = Cardinality(A)
  BY DEF DispatchTypeOK, Counted
<1>2. \A p \in targets : p \in A <=> worker[p] = "delivered" /\ reply[p] = "ok"
  BY <1>1 DEF Delivered
<1>3. Cardinality(A) \in Nat /\ Cardinality(targets) \in Nat
  BY <1>1, SetsFinite
<1> HIDE DEF A
<1>4. /\ Cardinality(A) = Dispatched => A = targets
      /\ Cardinality(A) = 0 <=> A = {}
      /\ Cardinality(A) <= Dispatched
  BY <1>1, SizeDecides
<1>5. Dispatched = 0 <=> targets = {}
  BY <1>1, SizeDecides DEF Dispatched
<1>6. ~(successful < Dispatched) => A = targets
  BY <1>1, <1>3, <1>4 DEF Dispatched
<1>7. successful > 0 => A # {}
  BY <1>1, <1>3, <1>4
<1> QED  BY <1>1, <1>2, <1>4, <1>5, <1>6, <1>7

\* The invariant holds throughout.
LEMMA InvHolds == Spec => []Inv
<1>1. Inv /\ [Next]_vars => Inv'
  BY StepTypes, StepCounted, StepPhases DEF Inv
<1> QED  BY InitInv, <1>1, PTL DEF Spec

----------------------------------------------------------------------------
\* The variables of ObjectUpdateEndpoint and of its goroutines keep their types.
THEOREM TypeCorrect == Spec => []TypeOK
<1>1. Inv => TypeOK
  BY DEF Inv
<1> QED  BY InvHolds, <1>1, PTL

\* A synchronous PUT that beats its deadline leaves no goroutine behind, though
\* ObjectUpdateEndpoint never closes its channel.
THEOREM LeavesNothing == Spec => []SynchronousLeavesNothing
<1>1. Inv => SynchronousLeavesNothing
  <2> SUFFICES ASSUME Inv, handler = "done", request.synchronous, ~timedOut
               PROVE  WorkersOver
    BY DEF SynchronousLeavesNothing
  <2>1. targets \subseteq Providers
    BY Types DEF Inv
  <2>2. Cardinality(Delivered) = Dispatched /\ Delivered \in SUBSET targets
    BY DEF Inv, JoinComplete, Counted
  <2>3. Delivered = targets
    BY <2>1, <2>2, SizeDecides
  <2> QED  BY <2>3 DEF Inv, Phases, Delivered, WorkersOver
<1> QED  BY InvHolds, <1>1, PTL

----------------------------------------------------------------------------
\* What PUT does to the goroutines and counters alone is a stuttering step of Gather.
LEMMA Stutter ==
  ASSUME /\ UNCHANGED <<targets, status>>
         /\ \A p \in Providers :
              /\ worker'[p] = "delivered" <=> worker[p] = "delivered"
              /\ worker[p] = "delivered" => reply'[p] = reply[p]
  PROVE  UNCHANGED G!vars
BY DEF G!vars, Votes

\* A receive of PUT is the step in which the request hears from a provider.
LEMMA ReceiveHears ==
  ASSUME Inv, NEW p \in Providers, Receive(p)
  PROVE  G!Hear(p)
<1>1. /\ worker \in [Providers -> WorkerStates]
      /\ status = 0 /\ p \in targets
      /\ worker[p] = "sending" /\ worker' = [worker EXCEPT ![p] = "delivered"]
      /\ UNCHANGED <<reply, targets, status>>
  BY Types DEF Inv, Phases, Receive, Handover
<1>2. Votes({"ok"})[p] = "pending"
  BY <1>1 DEF Votes
<1>3. Votes({"ok"})' =
        [Votes({"ok"}) EXCEPT ![p] = IF reply[p] = "ok" THEN "yes" ELSE "no"]
  BY <1>1 DEF Votes
<1> QED  BY <1>1, <1>2, <1>3 DEF G!Hear

\* The Respond of PUT is the step in which the request answers, and the votes
\* heard support the status code it chooses.
LEMMA RespondAnswers ==
  ASSUME Inv, Respond
  PROVE  G!Answer
<1>1. /\ status = 0
      /\ status' = UpdateStatus
      /\ UNCHANGED <<worker, reply, targets>>
  BY DEF Inv, Phases, Respond, workerVars
<1>2. DispatchTypeOK /\ Counted({"ok"}) /\ targets \subseteq Providers
  BY Types DEF Inv
<1>3. \A p \in targets :
        Votes({"ok"})[p] = "yes" <=> worker[p] = "delivered" /\ reply[p] = "ok"
  BY <1>2 DEF Votes
<1>4. /\ successful > 0 => G!SomeYes
      /\ successful = 0 => ~G!SomeYes
      /\ ~(successful < Dispatched) => G!AllYes
  BY <1>2, <1>3, CountersMeanVotes DEF G!SomeYes, G!AllYes
<1>5. successful \in Nat
  BY <1>2 DEF DispatchTypeOK
<1>6. UpdateStatus \in {201, 202, 502, 504}
  BY DEF UpdateStatus
<1>7. G!Supported(UpdateStatus)
  <2>1. CASE UpdateStatus = 201
    BY <2>1, <1>4, <1>5 DEF UpdateStatus, G!Supported, G!SomeYes
  <2>2. CASE UpdateStatus = 202
    BY <2>2, <1>4, <1>5 DEF UpdateStatus, G!Supported
  <2>3. CASE UpdateStatus \in {502, 504}
    BY <2>3, <1>4, <1>5 DEF UpdateStatus, G!Supported
  <2> QED  BY <1>6, <2>1, <2>2, <2>3
<1>8. UNCHANGED Votes({"ok"})
  BY <1>1 DEF Votes
<1>9. G!Supported(status') /\ status' \in G!Codes
  BY <1>1, <1>6, <1>7 DEF G!Codes
<1> QED  BY <1>1, <1>8, <1>9 DEF G!Answer

\* Every step of PUT is a step of Gather or changes nothing Gather sees.
LEMMA StepRefines == Inv /\ [Next]_vars => [G!Next]_G!vars
<1> SUFFICES ASSUME Inv, [Next]_vars PROVE [G!Next]_G!vars
  OBVIOUS
<1> USE DEF configVars, workerVars, handlerVars
<1>0. /\ worker \in [Providers -> WorkerStates]
      /\ reply \in [Providers -> Replies \cup {"none"}]
      /\ targets \subseteq Providers /\ request \in Requests
      /\ Phases
  BY Types DEF Inv
<1>1. CASE Refuse
  <2>1. targets = {} /\ status = 0 /\ status' = 400 /\ UNCHANGED <<targets, worker, reply>>
    BY <1>1, <1>0 DEF Refuse, Phases
  <2>2. UNCHANGED Votes({"ok"})
    BY <2>1 DEF Votes
  <2>3. G!Supported(status') /\ status' \in G!Codes
    BY <2>1 DEF G!Supported, G!Codes
  <2> QED  BY <2>1, <2>2, <2>3 DEF G!Answer, G!Next
<1>2. CASE Begin
  <2>1. /\ targets = {} /\ status = 0 /\ status' = 0
        /\ targets' = Selected(request.named)
    BY <1>2, <1>0 DEF Begin, Launch, Phases
  <2>2. \A p \in Providers : worker[p] # "delivered" /\ worker'[p] # "delivered"
    BY <1>2, <1>0 DEF Begin, Launch, Phases
  <2>3. UNCHANGED Votes({"ok"})
    BY <2>2 DEF Votes
  <2>4. Selected(request.named) \in SUBSET Providers
    <3>1. configured \subseteq Providers /\ accepting \subseteq Providers
      BY Types DEF Inv, DispatchTypeOK
    <3> QED  BY <1>0, <3>1 DEF Selected, Requests
  <2> QED  BY <2>1, <2>3, <2>4 DEF G!Ask, G!Next
<1>3. ASSUME NEW p \in Providers, Receive(p) PROVE [G!Next]_G!vars
  BY <1>3, ReceiveHears DEF G!Next
<1>4. CASE Timeout  BY <1>4, Stutter DEF Timeout
<1>5. CASE Respond  BY <1>5, RespondAnswers DEF G!Next
<1>6. ASSUME NEW p \in Providers, UpdateReturn(p) PROVE [G!Next]_G!vars
  <2>1. /\ UNCHANGED <<targets, status>>
        /\ \A q \in Providers :
             /\ worker'[q] = "delivered" <=> worker[q] = "delivered"
             /\ worker[q] = "delivered" => reply'[q] = reply[q]
    BY <1>6, <1>0 DEF UpdateReturn, Return
  <2> QED  BY <2>1, Stutter
<1>7. CASE ReloadConfig  BY <1>7, Stutter DEF ReloadConfig
<1>8. CASE UNCHANGED vars  BY <1>8, Stutter DEF vars
<1> QED
  BY <1>1, <1>2, <1>3, <1>4, <1>5, <1>6, <1>7, <1>8 DEF Next, HandlerStep, Done

\* ObjectUpdateEndpoint implements Gather: it answers once, and only what the
\* results it has received support.
THEOREM PutImplementsGather == Spec => ImplementsGather
<1>1. Init => G!Init
  BY DEF Init, DispatchInit, Votes, G!Init
<1> QED  BY <1>1, StepRefines, InvHolds, PTL DEF Spec, ImplementsGather, G!Spec
=============================================================================
