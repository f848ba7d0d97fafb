--------------------------- MODULE ObjectGet_proofs ---------------------------
(***************************************************************************)
(* What holds of GET for every set of providers: the types, that the       *)
(* object on its way to the client stays open and that every other one     *)
(* gets closed, the truth of the error body, and that the endpoint         *)
(* implements Gather.                                                      *)
(***************************************************************************)
EXTENDS ObjectGet, FiniteSetTheorems, TLAPS

\* Nothing is dispatched before Begin, nothing answered before the join is
\* over, and the channel is closed on the way out only.
Phases ==
  /\ handler = "start" => targets = {}
  /\ handler \in {"start", "join", "respond"} => status = 0
  /\ closed => handler = "done"
  /\ \A p \in Providers : worker[p] # "idle" => p \in targets

\* The join ends with the first object, so only the last result can carry one;
\* without an object it ends at the deadline or with the answer of everyone.
FirstObjectWins ==
  /\ last # NoProvider => worker[last] = "delivered"
  /\ \A p \in Providers :
       worker[p] = "delivered" /\ reply[p] = "found" => p = last /\ handler # "join"
  /\ handler = "respond" => timedOut \/ Winner \/ received = Dispatched
  /\ handler = "streaming" \/ (handler = "closing" /\ status = 0) => Winner

\* Who has to close an object: its goroutine until the result is handed over,
\* the handler until it has sent the body, and nobody afterwards.
Owned ==
  /\ \A p \in Providers :
       /\ object[p] = "open" => worker[p] \in {"sending", "delivered"} /\ reply[p] = "found"
       /\ worker[p] = "sending" /\ reply[p] = "found" => object[p] = "open"
       /\ worker[p] = "delivered" /\ reply[p] = "found" /\ handler = "respond"
            => object[p] = "open"
       /\ worker[p] = "delivered" /\ handler \in {"closing", "done"} => object[p] # "open"
  /\ handler = "streaming" => last # NoProvider /\ object[last] = "open"

\* The body lists the result of exactly the providers whose result was taken,
\* and nobody's timeout before the handler gives up.
Reported ==
  \A p \in Providers :
    /\ worker[p] \in {"sending", "delivered"} => reply[p] \in Replies
    /\ worker[p] = "delivered" => results[p] = ForJSON(reply[p])
    /\ worker[p] # "delivered" => results[p] \in {"none", "TIMEOUT"}
    /\ handler \in {"start", "join", "respond"} => results[p] # "TIMEOUT"

\* The inductive invariant.
Inv == TypeOK /\ Counted({"found"}) /\ Phases /\ FirstObjectWins /\ Owned /\ Reported

----------------------------------------------------------------------------
(***************************************************************************)
(* The counters of the join loop, which Dispatch shares with the other two *)
(* endpoints.                                                              *)
(***************************************************************************)
\* The providers with a good result among those whose result was taken.
Good(good) == {p \in Delivered : reply[p] \in good}

\* Sets of providers are finite, so the counters below are naturals.
LEMMA SetsFinite ==
  ASSUME NEW good
  PROVE  /\ IsFiniteSet(Delivered)
         /\ IsFiniteSet(Good(good))
         /\ \A S \in SUBSET Providers : IsFiniteSet(S) /\ Cardinality(S) \in Nat
<1>1. \A S \in SUBSET Providers : IsFiniteSet(S) /\ Cardinality(S) \in Nat
  BY ProvidersFinite, FS_Subset, FS_CardinalityType
<1>2. Delivered \in SUBSET Providers /\ Good(good) \in SUBSET Providers
  BY DEF Delivered, Good
<1> QED  BY <1>1, <1>2

\* A subset of the dispatched providers is all of them as soon as its size is
\* Dispatched, and is empty exactly when its size is 0.
LEMMA SizeDecides ==
  ASSUME targets \subseteq Providers,
         NEW S \in SUBSET targets
  PROVE  /\ Cardinality(S) = Dispatched => S = targets
         /\ Cardinality(S) = 0 <=> S = {}
         /\ Cardinality(S) <= Dispatched
<1>1. IsFiniteSet(targets)
  BY ProvidersFinite, FS_Subset
<1>2. IsFiniteSet(S) /\ Cardinality(S) <= Cardinality(targets)
      /\ (Cardinality(S) = Cardinality(targets) => S = targets)
  BY <1>1, FS_Subset
<1>3. Cardinality(S) = 0 <=> S = {}
  BY <1>2, FS_EmptySet
<1> QED  BY <1>2, <1>3 DEF Dispatched

\* The receive of one more result keeps the counters right, provided that the
\* successes are counted by the same criterion.
LEMMA HandoverCounts ==
  ASSUME NEW good, NEW p \in Providers,
         DispatchTypeOK, Counted(good), p \in targets,
         Handover(p),
         successful' = successful + (IF reply[p] \in good THEN 1 ELSE 0),
         UNCHANGED <<reply, targets>>
  PROVE  Counted(good)'
<1>1. Delivered' = Delivered \cup {p} /\ p \notin Delivered
  BY DEF Delivered, Handover, DispatchTypeOK
<1>2. Cardinality(Delivered') = Cardinality(Delivered) + 1
  BY <1>1, SetsFinite, FS_AddElement
<1>3. received' = Cardinality(Delivered')
  BY <1>2 DEF Counted, Handover
<1>4. CASE reply[p] \in good
  <2>1. Good(good)' = Good(good) \cup {p} /\ p \notin Good(good)
    BY <1>1, <1>4 DEF Good
  <2>2. Cardinality(Good(good)') = Cardinality(Good(good)) + 1
    BY <2>1, SetsFinite, FS_AddElement
  <2>3. successful' = Cardinality(Good(good)')
    BY <1>4, <2>2 DEF Counted, Good
  <2> QED  BY <1>1, <1>3, <2>3 DEF Counted, Good
<1>5. CASE reply[p] \notin good
  <2>1. Good(good)' = Good(good)
    BY <1>1, <1>5 DEF Good
  <2>2. successful' = successful
    BY <1>5 DEF DispatchTypeOK
  <2>3. successful = Cardinality(Good(good))
    BY DEF Counted, Good
  <2>4. successful' = Cardinality(Good(good)')
    BY <2>1, <2>2, <2>3
  <2> QED  BY <1>1, <1>3, <2>4 DEF Counted, Good
<1> QED  BY <1>4, <1>5

\* A step that takes nothing from the channel and leaves the results taken
\* before as they are keeps the counters right.
LEMMA QuietCounts ==
  ASSUME NEW good,
         Counted(good),
         Delivered' = Delivered,
         \A p \in Delivered : reply'[p] = reply[p],
         Delivered \subseteq targets',
         UNCHANGED <<received, successful>>
  PROVE  Counted(good)'
<1>1. Good(good)' = Good(good)
  BY DEF Good
<1> QED  BY <1>1 DEF Counted, Good

----------------------------------------------------------------------------
\* Nothing has been dispatched, counted or answered at first.
LEMMA InitInv == Init => Inv
<1> SUFFICES ASSUME Init PROVE Inv
  OBVIOUS
<1> USE DEF Init, DispatchInit
<1>1. TypeOK
  <2>1. configured \subseteq Providers /\ accepting \subseteq configured
    OBVIOUS
  <2>2. reloads \in 0..MaxReloads
    BY MaxReloadsNat
  <2>3. DispatchTypeOK
    BY <2>1, <2>2 DEF DispatchTypeOK, WorkerStates
  <2> QED  BY <2>3 DEF TypeOK
<1>2. Counted({"found"})
  <2>1. Delivered = {} /\ {p \in Delivered : reply[p] \in {"found"}} = {}
    BY DEF Delivered
  <2> QED  BY <2>1, FS_EmptySet DEF Counted
<1>3. Phases /\ FirstObjectWins /\ Owned /\ Reported
  BY DEF Phases, FirstObjectWins, Owned, Reported
<1> QED  BY <1>1, <1>2, <1>3 DEF Inv

\* A function updated with a value of its range keeps its type, whether or not
\* the updated point is in its domain.
LEMMA UpdateTyped ==
  ASSUME NEW S, NEW T, NEW f \in [S -> T], NEW x, NEW v \in T
  PROVE  [f EXCEPT ![x] = v] \in [S -> T]
OBVIOUS

\* Every action keeps the types.
LEMMA StepTypes == TypeOK /\ [Next]_vars => TypeOK'
<1> SUFFICES ASSUME TypeOK, [Next]_vars PROVE TypeOK'
  OBVIOUS
<1> USE DEF TypeOK, DispatchTypeOK, WorkerStates, Replies, configVars, workerVars,
            handlerVars, getVars
<1>1. CASE Refuse  BY <1>1 DEF Refuse
<1>2. CASE Begin
  <2>1. Selected(request.named) \subseteq Providers
    BY DEF Selected, Requests
  <2> QED  BY <1>2, <2>1 DEF Begin, Launch
<1>3. ASSUME NEW p \in Providers, Receive(p) PROVE TypeOK'
  <2>1. results' \in [Providers -> {"none", "OK", "ERROR", "TIMEOUT"}]
    BY <1>3 DEF Receive, ForJSON
  <2>2. successful' \in Nat /\ handler' \in {"join", "respond"}
    BY <1>3 DEF Receive
  <2> QED  BY <1>3, <2>1, <2>2 DEF Receive, Handover
<1>4. CASE Timeout  BY <1>4 DEF Timeout
<1>5. CASE StartStreaming  BY <1>5 DEF StartStreaming
<1>6. CASE FirstPiece  BY <1>6 DEF FirstPiece
<1>7. CASE Fail
  <2>1. FailureCode \in {404, 503, 504}
    BY DEF FailureCode
  <2>2. MarkTimeouts \in [Providers -> {"none", "OK", "ERROR", "TIMEOUT"}]
    BY DEF MarkTimeouts
  <2> QED  BY <1>7, <2>1, <2>2 DEF Fail
<1>8. CASE EndStreaming
  <2>1. object' \in [Providers -> {"none", "open", "closed", "lost"}]
    BY <1>8, UpdateTyped DEF EndStreaming
  <2>2. UNCHANGED <<configVars, workerVars, targets, closed, received, successful,
                    timedOut, status, request, last, results>>
    BY <1>8 DEF EndStreaming
  <2> QED  BY <1>8, <2>1, <2>2 DEF EndStreaming
<1>9. CASE Close  BY <1>9 DEF Close, CloseChannel
<1>10. ASSUME NEW p \in Providers, QueryReturn(p) PROVE TypeOK'
  BY <1>10 DEF QueryReturn, Return
<1>11. ASSUME NEW p \in Providers, QuerySwallowed(p) PROVE TypeOK'
  BY <1>11 DEF QuerySwallowed, Swallowed
<1>12. CASE ReloadConfig
  BY <1>12, MaxReloadsNat DEF ReloadConfig, Reload
<1>13. CASE UNCHANGED vars  BY <1>13 DEF vars
<1> QED
  BY <1>1, <1>2, <1>3, <1>4, <1>5, <1>6, <1>7, <1>8, <1>9, <1>10, <1>11, <1>12,
     <1>13 DEF Next, HandlerStep, ObjectStep, Done

\* Every action keeps the counters equal to what was delivered.
LEMMA StepCounted == Inv /\ [Next]_vars => Counted({"found"})'
<1> SUFFICES ASSUME Inv, [Next]_vars PROVE Counted({"found"})'
  OBVIOUS
<1> USE DEF Inv, configVars, workerVars, handlerVars, getVars
<1>0. worker \in [Providers -> WorkerStates]
  BY DEF TypeOK, DispatchTypeOK
<1>1. CASE Refuse
  BY <1>1, QuietCounts DEF Refuse, Delivered, Counted
<1>2. CASE Begin
  <2>1. Delivered = {} /\ Delivered' = {}
    BY <1>2, <1>0 DEF Begin, Launch, Delivered, Phases
  <2> QED  BY <1>2, <2>1, QuietCounts DEF Begin
<1>3. ASSUME NEW p \in Providers, Receive(p) PROVE Counted({"found"})'
  <2>1. p \in targets
    BY <1>3 DEF Receive, Handover, Phases
  <2>2. /\ Handover(p)
        /\ successful' = successful + (IF reply[p] \in {"found"} THEN 1 ELSE 0)
        /\ UNCHANGED <<reply, targets>>
    BY <1>3 DEF Receive
  <2> QED  BY <2>1, <2>2, HandoverCounts DEF TypeOK
<1>4. CASE Timeout
  BY <1>4, QuietCounts DEF Timeout, Delivered, Counted
<1>5. CASE StartStreaming
  BY <1>5, QuietCounts DEF StartStreaming, Delivered, Counted
<1>6. CASE FirstPiece
  BY <1>6, QuietCounts DEF FirstPiece, Delivered, Counted
<1>7. CASE Fail
  BY <1>7, QuietCounts DEF Fail, Delivered, Counted
<1>8. CASE EndStreaming
  BY <1>8, QuietCounts DEF EndStreaming, Delivered, Counted
<1>9. CASE Close
  BY <1>9, QuietCounts DEF Close, CloseChannel, Delivered, Counted
<1>10. ASSUME NEW p \in Providers, QueryReturn(p) PROVE Counted({"found"})'
  <2>1. /\ Delivered' = Delivered
        /\ \A q \in Delivered : reply'[q] = reply[q]
        /\ UNCHANGED <<targets, received, successful>>
    BY <1>10, <1>0 DEF QueryReturn, Return, Delivered
  <2> QED  BY <2>1, QuietCounts DEF Counted
<1>11. ASSUME NEW p \in Providers, QuerySwallowed(p) PROVE Counted({"found"})'
  <2>1. Delivered' = Delivered /\ UNCHANGED <<reply, targets, received, successful>>
    BY <1>11, <1>0 DEF QuerySwallowed, Swallowed, Delivered
  <2> QED  BY <2>1, QuietCounts DEF Counted
<1>12. CASE ReloadConfig
  BY <1>12, QuietCounts DEF ReloadConfig, Delivered, Counted
<1>13. CASE UNCHANGED vars
  BY <1>13, QuietCounts DEF vars, Delivered, Counted
<1> QED
  BY <1>1, <1>2, <1>3, <1>4, <1>5, <1>6, <1>7, <1>8, <1>9, <1>10, <1>11, <1>12,
     <1>13 DEF Next, HandlerStep, ObjectStep, Done

\* The phases of the handler, and who may hold the winning object.
LEMMA StepPhases == Inv /\ [Next]_vars => Phases' /\ FirstObjectWins'
<1> SUFFICES ASSUME Inv, [Next]_vars PROVE Phases' /\ FirstObjectWins'
  OBVIOUS
<1> USE NoProviderNew DEF Inv, Phases, FirstObjectWins, Winner, Dispatched, configVars,
                          workerVars, handlerVars, getVars
<1>0. /\ worker \in [Providers -> WorkerStates]
      /\ reply \in [Providers -> Replies \cup {"none"}]
      /\ last \in Providers \cup {NoProvider}
  BY DEF TypeOK, DispatchTypeOK
<1>1. CASE Refuse  BY <1>1 DEF Refuse
<1>2. CASE Begin  BY <1>2, <1>0 DEF Begin, Launch
<1>3. ASSUME NEW p \in Providers, Receive(p) PROVE Phases' /\ FirstObjectWins'
  BY <1>3, <1>0 DEF Receive, Handover, JoinEnds
<1>4. CASE Timeout  BY <1>4 DEF Timeout
<1>5. CASE StartStreaming  BY <1>5 DEF StartStreaming
<1>6. CASE FirstPiece  BY <1>6 DEF FirstPiece
<1>7. CASE Fail  BY <1>7 DEF Fail, FailureCode
<1>8. CASE EndStreaming  BY <1>8 DEF EndStreaming
<1>9. CASE Close  BY <1>9 DEF Close, CloseChannel
<1>10. ASSUME NEW p \in Providers, QueryReturn(p) PROVE Phases' /\ FirstObjectWins'
  BY <1>10, <1>0 DEF QueryReturn, Return
<1>11. ASSUME NEW p \in Providers, QuerySwallowed(p) PROVE Phases' /\ FirstObjectWins'
  BY <1>11, <1>0 DEF QuerySwallowed, Swallowed
<1>12. CASE ReloadConfig  BY <1>12 DEF ReloadConfig
<1>13. CASE UNCHANGED vars  BY <1>13 DEF vars
<1> QED
  BY <1>1, <1>2, <1>3, <1>4, <1>5, <1>6, <1>7, <1>8, <1>9, <1>10, <1>11, <1>12,
     <1>13 DEF Next, HandlerStep, ObjectStep, Done

\* Every object keeps exactly one goroutine that will close it.
LEMMA StepOwned == Inv /\ [Next]_vars => Owned'
<1> SUFFICES ASSUME Inv, [Next]_vars PROVE Owned'
  OBVIOUS
<1> USE NoProviderNew DEF Inv, Owned, configVars, workerVars, handlerVars, getVars
<1>0. /\ worker \in [Providers -> WorkerStates]
      /\ reply \in [Providers -> Replies \cup {"none"}]
      /\ last \in Providers \cup {NoProvider}
      /\ object \in [Providers -> {"none", "open", "closed", "lost"}]
      /\ Phases /\ FirstObjectWins
  BY DEF TypeOK, DispatchTypeOK
<1>1. CASE Refuse
  <2>1. \A p \in Providers : worker[p] = "idle"
    BY <1>1, <1>0 DEF Refuse, Phases
  <2> QED  BY <1>1, <2>1 DEF Refuse
<1>2. CASE Begin
  <2>1. \A p \in Providers : worker[p] = "idle"
    BY <1>2, <1>0 DEF Begin, Phases
  <2> QED  BY <1>2, <1>0, <2>1 DEF Begin, Launch
<1>3. ASSUME NEW p \in Providers, Receive(p) PROVE Owned'
  BY <1>3, <1>0 DEF Receive, Handover, FirstObjectWins
<1>4. CASE Timeout  BY <1>4, <1>0 DEF Timeout, FirstObjectWins
<1>5. CASE StartStreaming
  BY <1>5, <1>0 DEF StartStreaming, Winner, FirstObjectWins
<1>6. CASE FirstPiece  BY <1>6 DEF FirstPiece
<1>7. CASE Fail
  BY <1>7, <1>0 DEF Fail, Winner, FirstObjectWins
<1>8. CASE EndStreaming
  BY <1>8, <1>0 DEF EndStreaming, FirstObjectWins
<1>9. CASE Close  BY <1>9 DEF Close, CloseChannel
<1>10. ASSUME NEW p \in Providers, QueryReturn(p) PROVE Owned'
  BY <1>10, <1>0 DEF QueryReturn, Return, FirstObjectWins
<1>11. ASSUME NEW p \in Providers, QuerySwallowed(p) PROVE Owned'
  BY <1>11, <1>0 DEF QuerySwallowed, Swallowed, FirstObjectWins, Phases
<1>12. CASE ReloadConfig  BY <1>12 DEF ReloadConfig
<1>13. CASE UNCHANGED vars  BY <1>13 DEF vars
<1> QED
  BY <1>1, <1>2, <1>3, <1>4, <1>5, <1>6, <1>7, <1>8, <1>9, <1>10, <1>11, <1>12,
     <1>13 DEF Next, HandlerStep, ObjectStep, Done

\* The statuses of the body follow the receives of the handler, and a provider
\* marked as timed out is never heard of again.
LEMMA StepReported == Inv /\ [Next]_vars => Reported'
<1> SUFFICES ASSUME Inv, [Next]_vars PROVE Reported'
  OBVIOUS
<1> USE DEF Inv, Reported, Replies, configVars, workerVars, handlerVars, getVars
<1>0. /\ worker \in [Providers -> WorkerStates]
      /\ reply \in [Providers -> Replies \cup {"none"}]
      /\ results \in [Providers -> {"none", "OK", "ERROR", "TIMEOUT"}]
  BY DEF TypeOK, DispatchTypeOK
<1>1. CASE Refuse  BY <1>1 DEF Refuse
<1>2. CASE Begin
  <2>1. \A p \in Providers : worker[p] = "idle"
    BY <1>2, <1>0 DEF Begin, Phases
  <2> QED  BY <1>2, <1>0, <2>1 DEF Begin, Launch
<1>3. ASSUME NEW p \in Providers, Receive(p) PROVE Reported'
  BY <1>3, <1>0 DEF Receive, Handover, ForJSON
<1>4. CASE Timeout  BY <1>4 DEF Timeout
<1>5. CASE StartStreaming  BY <1>5 DEF StartStreaming
<1>6. CASE FirstPiece  BY <1>6 DEF FirstPiece
<1>7. CASE Fail
  <2>1. \A p \in Providers : results'[p] # results[p] =>
           results[p] = "none" /\ results'[p] = "TIMEOUT"
    BY <1>7, <1>0 DEF Fail, MarkTimeouts
  <2>2. UNCHANGED <<worker, reply>> /\ handler' = "closing"
    BY <1>7 DEF Fail
  <2> QED  BY <2>1, <2>2 DEF ForJSON
<1>8. CASE EndStreaming  BY <1>8 DEF EndStreaming
<1>9. CASE Close  BY <1>9 DEF Close, CloseChannel
<1>10. ASSUME NEW p \in Providers, QueryReturn(p) PROVE Reported'
  BY <1>10, <1>0 DEF QueryReturn, Return
<1>11. ASSUME NEW p \in Providers, QuerySwallowed(p) PROVE Reported'
  BY <1>11, <1>0 DEF QuerySwallowed, Swallowed
<1>12. CASE ReloadConfig  BY <1>12 DEF ReloadConfig
<1>13. CASE UNCHANGED vars  BY <1>13 DEF vars
<1> QED
  BY <1>1, <1>2, <1>3, <1>4, <1>5, <1>6, <1>7, <1>8, <1>9, <1>10, <1>11, <1>12,
     <1>13 DEF Next, HandlerStep, ObjectStep, Done

\* The invariant holds throughout.
LEMMA InvHolds == Spec => []Inv
<1>1. Inv /\ [Next]_vars => Inv'
  BY StepTypes, StepCounted, StepPhases, StepOwned, StepReported DEF Inv
<1> QED  BY InitInv, <1>1, PTL DEF Spec

----------------------------------------------------------------------------
\* The variables of ObjectGetEndpoint and of its goroutines keep their types.
THEOREM TypeCorrect == Spec => []TypeOK
<1>1. Inv => TypeOK
  BY DEF Inv
<1> QED  BY InvHolds, <1>1, PTL

\* While ObjectGetEndpoint copies an object to the client nobody closes it,
\* whatever the goroutines of the other providers do with theirs.
THEOREM StreamOpen == Spec => []StreamsOpenObject
<1>1. Inv => StreamsOpenObject
  BY DEF Inv, Owned, StreamsOpenObject
<1> QED  BY InvHolds, <1>1, PTL

\* Once the request and its goroutines are over no object is left open, for
\* any number of providers and any order of results, deadline and close.
THEOREM AllReleased == Spec => []ObjectsReleased
<1>1. Inv => ObjectsReleased
  BY DEF Inv, Owned, ObjectsReleased, Over, WorkersOver
<1> QED  BY InvHolds, <1>1, PTL

\* The body of a failed GET tells the truth of every provider it lists.
THEOREM BodyTrue == Spec => []BodyTruthful
<1>1. Inv => BodyTruthful
  BY DEF Inv, TypeOK, Reported, BodyTruthful, ForJSON
<1> QED  BY InvHolds, <1>1, PTL

----------------------------------------------------------------------------
\* A step that leaves the votes, the providers asked and the status alone.
LEMMA Stutter ==
  ASSUME UNCHANGED <<targets, status>>,
         \A p \in Providers :
           /\ worker'[p] = "delivered" <=> worker[p] = "delivered"
           /\ worker[p] = "delivered" => reply'[p] = reply[p]
  PROVE  UNCHANGED G!vars
BY DEF G!vars, Votes

\* Receive is the step in which the request hears a provider's vote.
LEMMA ReceiveHears ==
  ASSUME Inv, NEW p \in Providers, Receive(p)
  PROVE  G!Hear(p)
<1>1. /\ worker \in [Providers -> WorkerStates]
      /\ status = 0 /\ p \in targets
      /\ worker[p] = "sending" /\ worker' = [worker EXCEPT ![p] = "delivered"]
      /\ UNCHANGED <<reply, targets, status>>
  BY DEF Inv, TypeOK, DispatchTypeOK, Phases, Receive, Handover
<1>2. Votes({"found"})[p] = "pending"
  BY <1>1 DEF Votes
<1>3. Votes({"found"})' =
        [Votes({"found"}) EXCEPT ![p] = IF reply[p] = "found" THEN "yes" ELSE "no"]
  BY <1>1 DEF Votes
<1> QED  BY <1>1, <1>2, <1>3 DEF G!Hear

\* An object in hand was heard of from the last provider.
LEMMA WinnerVoted ==
  ASSUME Inv, Winner
  PROVE  G!SomeYes
<1>1. /\ worker \in [Providers -> WorkerStates] /\ targets \subseteq Providers
      /\ last \in Providers \cup {NoProvider}
      /\ Phases /\ FirstObjectWins
  BY DEF Inv, TypeOK, DispatchTypeOK
<1>2. last \in targets /\ worker[last] = "delivered" /\ reply[last] = "found"
  BY <1>1 DEF Winner, FirstObjectWins, Phases
<1>3. Votes({"found"})[last] = "yes"
  BY <1>1, <1>2 DEF Votes
<1> QED  BY <1>2, <1>3 DEF G!SomeYes

\* What the join has heard by the time it ends without an object: no yes and,
\* short of a timeout, a no from everyone.
LEMMA RespondVotes ==
  ASSUME Inv, handler = "respond", ~Winner
  PROVE  ~G!SomeYes /\ (~timedOut => G!AllNo)
<1>0. /\ worker \in [Providers -> WorkerStates] /\ targets \subseteq Providers
      /\ last \in Providers \cup {NoProvider}
      /\ Phases /\ FirstObjectWins /\ Counted({"found"})
  BY DEF Inv, TypeOK, DispatchTypeOK
<1>1. \A p \in targets :
        /\ Votes({"found"})[p] = "yes" <=> worker[p] = "delivered" /\ reply[p] = "found"
        /\ Votes({"found"})[p] = "no" <=> worker[p] = "delivered" /\ reply[p] # "found"
  BY <1>0 DEF Votes
<1>2. \A p \in targets : ~(worker[p] = "delivered" /\ reply[p] = "found")
  BY <1>0, NoProviderNew DEF Winner, FirstObjectWins
<1>3. ~timedOut => Delivered = targets
  <2>1. Delivered \in SUBSET targets /\ received = Cardinality(Delivered)
    BY <1>0 DEF Counted
  <2> QED  BY <1>0, <2>1, SizeDecides DEF FirstObjectWins
<1>4. ~timedOut => \A p \in targets : worker[p] = "delivered"
  BY <1>3 DEF Delivered
<1> QED  BY <1>1, <1>2, <1>4 DEF G!SomeYes, G!AllNo

\* A 200 that an object stands behind is an answer Gather allows.
LEMMA ObjectAnswers ==
  ASSUME Inv, Winner, status = 0, status' = 200, UNCHANGED <<targets, workerVars>>
  PROVE  G!Next
<1>1. G!SomeYes
  BY WinnerVoted
<1>2. UNCHANGED Votes({"found"})
  BY DEF Votes, workerVars
<1>3. G!Supported(status') /\ status' \in G!Codes
  BY <1>1 DEF G!Supported, G!Codes
<1> QED  BY <1>2, <1>3 DEF G!Answer, G!Next

\* Every step of the endpoint is a step of Gather or changes nothing Gather sees.
LEMMA StepRefines == Inv /\ [Next]_vars => [G!Next]_G!vars
<1> SUFFICES ASSUME Inv, [Next]_vars PROVE [G!Next]_G!vars
  OBVIOUS
<1> USE DEF configVars, workerVars, handlerVars, getVars
<1>0. worker \in [Providers -> WorkerStates] /\ targets \subseteq Providers
      /\ request \in Requests /\ configured \subseteq Providers /\ accepting \subseteq Providers
      /\ Phases
  BY DEF Inv, TypeOK, DispatchTypeOK
<1>1. CASE Refuse
  <2>1. targets = {} /\ status = 0 /\ status' = 400 /\ UNCHANGED <<targets, worker, reply>>
    BY <1>1, <1>0 DEF Refuse, Phases
  <2>2. UNCHANGED Votes({"found"})
    BY <2>1 DEF Votes
  <2>3. G!Supported(status') /\ status' \in G!Codes
    BY <2>1 DEF G!Supported, G!Codes
  <2> QED  BY <2>1, <2>2, <2>3 DEF G!Answer, G!Next
<1>2. CASE Begin
  <2>1. targets = {} /\ status = 0 /\ status' = 0 /\ targets' = Selected(request.named)
    BY <1>2, <1>0 DEF Begin, Launch, Phases
  <2>2. \A p \in Providers : worker[p] # "delivered" /\ worker'[p] # "delivered"
    BY <1>2, <1>0 DEF Begin, Launch, Phases
  <2>3. UNCHANGED Votes({"found"})
    BY <2>2 DEF Votes
  <2>4. Selected(request.named) \in SUBSET Providers
    BY <1>0 DEF Selected, Requests
  <2> QED  BY <2>1, <2>3, <2>4 DEF G!Ask, G!Next
<1>3. ASSUME NEW p \in Providers, Receive(p) PROVE [G!Next]_G!vars
  BY <1>3, ReceiveHears DEF G!Next
<1>4. CASE Timeout  BY <1>4, Stutter DEF Timeout
<1>5. CASE StartStreaming  BY <1>5, Stutter DEF StartStreaming
<1>6. CASE FirstPiece
  <2>1. Winner
    BY <1>6 DEF Inv, FirstObjectWins, FirstPiece
  <2> QED  BY <1>6, <2>1, ObjectAnswers DEF FirstPiece
<1>7. CASE Fail
  <2>1. status = 0 /\ status' = FailureCode /\ UNCHANGED <<targets, worker, reply>>
    BY <1>7, <1>0 DEF Fail, Phases
  <2>2. ~G!SomeYes /\ (~timedOut => G!AllNo)
    BY <1>7, RespondVotes DEF Fail
  <2>3. UNCHANGED Votes({"found"})
    BY <2>1 DEF Votes
  <2>4. G!Supported(504) /\ (G!AllNo => G!Supported(404) /\ G!Supported(503))
    BY <2>2 DEF G!Supported
  <2>5. G!Supported(FailureCode) /\ FailureCode \in G!Codes
    BY <2>2, <2>4 DEF FailureCode, G!Codes
  <2> QED  BY <2>1, <2>3, <2>5 DEF G!Answer, G!Next
<1>8. CASE EndStreaming  BY <1>8, Stutter DEF EndStreaming
<1>9. CASE Close
  <2>1. CASE status = 0
    <3>1. Winner
      BY <1>9, <2>1 DEF Inv, FirstObjectWins, Close, CloseChannel
    <3> QED  BY <1>9, <2>1, <3>1, ObjectAnswers DEF Close
  <2>2. CASE status # 0  BY <1>9, <2>2, Stutter DEF Close
  <2> QED  BY <2>1, <2>2
<1>10. ASSUME NEW p \in Providers, QueryReturn(p) PROVE [G!Next]_G!vars
  <2>1. /\ UNCHANGED <<targets, status>>
        /\ \A q \in Providers :
             /\ worker'[q] = "delivered" <=> worker[q] = "delivered"
             /\ worker[q] = "delivered" => reply'[q] = reply[q]
    BY <1>10, <1>0 DEF QueryReturn, Return
  <2> QED  BY <2>1, Stutter
<1>11. ASSUME NEW p \in Providers, QuerySwallowed(p) PROVE [G!Next]_G!vars
  BY <1>11, <1>0, Stutter DEF QuerySwallowed, Swallowed
<1>12. CASE ReloadConfig  BY <1>12, Stutter DEF ReloadConfig
<1>13. CASE UNCHANGED vars  BY <1>13, Stutter DEF vars
<1> QED
  BY <1>1, <1>2, <1>3, <1>4, <1>5, <1>6, <1>7, <1>8, <1>9, <1>10, <1>11, <1>12,
     <1>13 DEF Next, HandlerStep, ObjectStep, Done

\* ObjectGetEndpoint implements Gather: it answers once, and only what the
\* results it has received support.
THEOREM GetImplementsGather == Spec => ImplementsGather
<1>1. Init => G!Init
  BY DEF Init, DispatchInit, Votes, G!Init
<1> QED  BY <1>1, StepRefines, InvHolds, PTL DEF Spec, ImplementsGather, G!Spec
=============================================================================
