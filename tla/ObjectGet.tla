------------------------------ MODULE ObjectGet ------------------------------
(***************************************************************************)
(* GET /api/v1/object/<id>: ObjectGetEndpoint and QueryProvider.  The      *)
(* first provider that has the object wins; the objects the others still   *)
(* fetch must be closed by the goroutines that fetched them.               *)
(***************************************************************************)
EXTENDS Dispatch

CONSTANT NoProvider  \* value of "last" before any result arrives

ASSUME NoProviderNew == NoProvider \notin Providers

VARIABLES
  last,    \* provider of the latest result received (variable o)
  object,  \* the resource behind the Object each provider's Get returned
  results  \* the per-provider statuses that a 5xx body lists

getVars == <<last, object, results>>
vars == <<configVars, workerVars, handlerVars, request, getVars>>

Replies == {"found", "missing", "failed"}
Requests == [named : SUBSET Providers, valid : BOOLEAN]

TypeOK ==
  /\ DispatchTypeOK
  /\ request \in Requests
  /\ handler \in {"start", "join", "respond", "streaming", "closing", "done"}
  /\ reply \in [Providers -> Replies \cup {"none"}]
  /\ status \in {0, 200, 400, 404, 502, 503, 504}
  /\ last \in Providers \cup {NoProvider}
  /\ object \in [Providers -> {"none", "open", "closed", "lost"}]
  /\ results \in [Providers -> {"none", "OK", "ERROR", "TIMEOUT"}]

Init ==
  /\ DispatchInit
  /\ request \in Requests
  /\ last = NoProvider
  /\ object = [p \in Providers |-> "none"]
  /\ results = [p \in Providers |-> "none"]

----------------------------------------------------------------------------
\* GetID rejects a malformed identifier.
Refuse ==
  /\ handler = "start"
  /\ ~request.valid
  /\ status' = 400
  /\ handler' = "done"
  /\ UNCHANGED <<configVars, workerVars, targets, closed, received, successful,
                 timedOut, request, getVars>>

\* The join loop is entered even when no provider was selected.
Begin ==
  /\ handler = "start"
  /\ request.valid
  /\ Launch(Selected(request.named))
  /\ handler' = "join"
  /\ UNCHANGED <<configVars, reply, closed, received, successful, timedOut, status,
                 request, getVars>>

\* p.Get returns.  An object it found holds a file, a connection or a body; on
\* a miss or an error Get may itself leave such a resource behind, which nobody
\* can close any more (redis.go:156-174, file.go:371-384).
QueryReturn(p) ==
  \E r \in Replies :
    /\ Return(p, r)
    /\ \E held \in IF r = "found" THEN {"open"} ELSE {"none", "lost"} :
         object' = [object EXCEPT ![p] = held]
    /\ UNCHANGED <<configVars, handlerVars, request, last, results>>

\* Mutant: the panic is recovered without closing the object.
QuerySwallowed_NoClose(p) ==
  /\ Swallowed(p)
  /\ UNCHANGED <<configVars, handlerVars, reply, request, getVars>>

\* The deferred function of QueryProvider closes the object nobody took.
QuerySwallowed(p) ==
  /\ Swallowed(p)
  /\ object' = [object EXCEPT ![p] = IF @ = "open" THEN "closed" ELSE @]
  /\ UNCHANGED <<configVars, handlerVars, reply, request, last, results>>

\* RequestResult.ForJSON: not found is reported as OK.
ForJSON(r) == IF r = "failed" THEN "ERROR" ELSE "OK"

\* Mutant: any answer without an error ends the join.
JoinEnds_AnyAnswer(r, n) == r # "failed" \/ n = Dispatched

\* Whether the receive of a result r, the n-th, ends the join loop.
JoinEnds(r, n) == r = "found" \/ n = Dispatched

Receive(p) ==
  /\ Handover(p)
  /\ last' = p
  /\ results' = [results EXCEPT ![p] = ForJSON(reply[p])]
  /\ successful' = successful + (IF reply[p] = "found" THEN 1 ELSE 0)
  /\ handler' = IF JoinEnds(reply[p], received') THEN "respond" ELSE "join"
  /\ UNCHANGED <<configVars, reply, targets, closed, timedOut, status, request, object>>

\* Mutant: the deadline is armed only once a first result is in.
Timeout_LateArmed ==
  /\ handler = "join"
  /\ targets = {} \/ received > 0
  /\ timedOut' = TRUE
  /\ handler' = "respond"
  /\ UNCHANGED <<configVars, workerVars, targets, closed, received, successful,
                 status, request, getVars>>

\* case <-time.After(endtime.Sub(time.Now()))
Timeout ==
  /\ handler = "join"
  /\ timedOut' = TRUE
  /\ handler' = "respond"
  /\ UNCHANGED <<configVars, workerVars, targets, closed, received, successful,
                 status, request, getVars>>

\* The status code of an answer without an object.
FailureCode ==
  IF timedOut THEN 504
  ELSE IF successful < Dispatched /\ reply[last] # "missing" THEN 503 ELSE 404

\* Mutant: the not-found flag of the last result is not looked at.
Winner_NoFlag == last # NoProvider /\ reply[last] # "failed"

\* Whether the last result received carries an object.
Winner == last # NoProvider /\ reply[last] = "found"

\* The handler turns to the winning object.
StartStreaming ==
  /\ handler = "respond"
  /\ Winner
  /\ handler' = "streaming"
  /\ UNCHANGED <<configVars, workerVars, targets, closed, received, successful,
                 timedOut, status, request, getVars>>

\* obj.GetSize() and a first obj.Read() have returned, both of them calls of the
\* provider without a deadline: the first Write sends 200.
FirstPiece ==
  /\ handler = "streaming"
  /\ status = 0
  /\ status' = 200
  /\ UNCHANGED <<configVars, workerVars, handler, targets, closed, received,
                 successful, timedOut, request, getVars>>

\* A Read returns the end of the body, nothing or an error, be it the first:
\* the deferred obj.Close() runs.
EndStreaming ==
  /\ handler = "streaming"
  /\ object' = [object EXCEPT ![last] = "closed"]
  /\ handler' = "closing"
  /\ UNCHANGED <<configVars, workerVars, targets, closed, received, successful,
                 timedOut, status, request, last, results>>

\* Mutant: providers with a result are marked too.
MarkTimeouts_All ==
  [p \in Providers |-> IF timedOut /\ p \in Selected(request.named) THEN "TIMEOUT"
                       ELSE results[p]]

\* The 504 branch lists as TIMEOUT the providers selected by a second
\* GetProviders call that have no result yet.
MarkTimeouts ==
  [p \in Providers |->
     IF timedOut /\ p \in Selected(request.named) /\ results[p] = "none"
     THEN "TIMEOUT" ELSE results[p]]

Fail ==
  /\ handler = "respond"
  /\ ~Winner
  /\ status' = FailureCode
  /\ results' = MarkTimeouts
  /\ handler' = "closing"
  /\ UNCHANGED <<configVars, workerVars, targets, closed, received, successful,
                 timedOut, request, last, object>>

\* Mutant: the channel stays open, as in ObjectUpdateEndpoint.
Close_Never ==
  /\ handler = "closing"
  /\ handler' = "done"
  /\ status' = IF status = 0 THEN 200 ELSE status
  /\ UNCHANGED <<configVars, workerVars, targets, closed, received, successful,
                 timedOut, request, getVars>>

\* defer close(result); a handler that has written nothing has answered 200.
Close ==
  /\ CloseChannel
  /\ status' = IF status = 0 THEN 200 ELSE status
  /\ UNCHANGED <<configVars, workerVars, targets, received, successful, timedOut,
                 request, getVars>>

ReloadConfig == Reload /\ UNCHANGED <<workerVars, handlerVars, request, getVars>>

\* The request is over: every goroutine it started has ended.
Over == handler = "done" /\ WorkersOver

\* The server outlives the request.
Done == handler = "done" /\ UNCHANGED vars

HandlerStep ==
  Refuse \/ Begin \/ (\E p \in Providers : Receive(p)) \/ Timeout
  \/ StartStreaming \/ Fail \/ Close

\* The handler's steps that wait for the winning provider.
ObjectStep == FirstPiece \/ EndStreaming

Next ==
  \/ HandlerStep
  \/ ObjectStep
  \/ \E p \in Providers : QueryReturn(p) \/ QuerySwallowed(p)
  \/ ReloadConfig
  \/ Done

Spec == Init /\ [][Next]_vars

\* The Go scheduler runs every goroutine that can run, and the timer fires.
Fairness ==
  /\ WF_vars(HandlerStep)
  /\ \A p \in Providers : WF_vars(QuerySwallowed(p))

\* No assumption on the providers: Get, GetSize and Read may hang.
FairSpec == Spec /\ Fairness

----------------------------------------------------------------------------
\* The object being sent to the client is open for as long as it is sent: no
\* late goroutine of another provider closes it (QueryProvider's deferred
\* close and the handler's deferred close never meet on one object).
StreamsOpenObject == handler = "streaming" => object[last] = "open"

\* Once the handler has returned and its goroutines have ended, every object a
\* provider returned to the endpoint has been closed, in whichever order
\* results, the deadline and the close of the channel came.
ObjectsReleased == Over => \A p \in Providers : object[p] # "open"

\* The body of a timeout calls a provider TIMEOUT only if no result of that
\* provider had been received, and calls OK or ERROR only one that answered so.
BodyTruthful ==
  \A p \in Providers :
    /\ results[p] = "TIMEOUT" => worker[p] # "delivered"
    /\ results[p] = "ERROR" => worker[p] = "delivered" /\ reply[p] = "failed"
    /\ results[p] = "OK" => worker[p] = "delivered" /\ reply[p] # "failed"

\* The counters of the join loop and the answer they lead to claim only what
\* was heard: 200 needs a provider that has the object, 404 and 503 need a
\* negative answer of every provider asked, 504 needs that none had it.
G == INSTANCE Gather WITH asked <- targets, votes <- Votes({"found"})
ImplementsGather == G!Spec

\* Every GET is answered even if all its providers hang, unless the one that
\* has returned an object first then hangs while its size or data is read.
Answered == <>(status # 0) \/ <>[](handler = "streaming")

\* When provider calls return, no goroutine of the request stays behind.
NoGoroutineLeft ==
  (\A p \in Providers : WF_vars(QueryReturn(p))) /\ WF_vars(ObjectStep)
    => <>[]WorkersOver
=============================================================================
