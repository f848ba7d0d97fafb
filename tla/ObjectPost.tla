----------------------------- MODULE ObjectPost -----------------------------
(***************************************************************************)
(* POST /api/v1/object/<id>: ObjectPostEndpoint and SaveObject.  Without   *)
(* X-Till-Synchronized the first acknowledgement answers the request; with *)
(* it the handler waits for every provider or the one-second deadline.     *)
(***************************************************************************)
EXTENDS Dispatch

VARIABLE
  results  \* the per-provider statuses that a 5xx body lists

vars == <<configVars, workerVars, handlerVars, request, results>>

Requests ==
  [named : SUBSET Providers, valid : BOOLEAN, synchronous : BOOLEAN, readable : BOOLEAN]

TypeOK ==
  /\ DispatchTypeOK
  /\ request \in Requests
  /\ handler \in {"start", "join", "respond", "closing", "done"}
  /\ reply \in [Providers -> {"none", "ok", "failed"}]
  /\ status \in {0, 200, 201, 202, 400, 404, 502, 504}
  /\ results \in [Providers -> {"none", "OK", "ERROR", "TIMEOUT"}]

Init ==
  /\ DispatchInit
  /\ request \in Requests
  /\ results = [p \in Providers |-> "none"]

----------------------------------------------------------------------------
\* A malformed identifier, lifespan or X-Till-Synchronized header.
Refuse ==
  /\ handler = "start"
  /\ ~request.valid
  /\ status' = 400
  /\ handler' = "done"
  /\ UNCHANGED <<configVars, workerVars, targets, closed, received, successful,
                 timedOut, request, results>>

\* The join loop is skipped when no provider was selected.
Begin ==
  /\ handler = "start"
  /\ request.valid
  /\ LET chosen == Selected(request.named) IN
       /\ Launch(chosen)
       /\ handler' = IF chosen = {} THEN "respond" ELSE "join"
  /\ UNCHANGED <<configVars, reply, closed, received, successful, timedOut, status,
                 request, results>>

\* p.Put returns.  An acknowledgement need not mean that the object is stored:
\* a till provider stores nothing, the file provider trusts a stale entry of its
\* cache and the redis provider metadata without a value.  Nor does an error
\* mean that it is not.
SaveReturn(p) ==
  /\ request.readable
  /\ \E r \in {"ok", "failed"} : Return(p, r)
  /\ UNCHANGED <<configVars, handlerVars, request, results>>

\* SaveObject panics before or inside Put (a body that could not be read, a
\* negative length given to make) and recovers: no result is ever sent.
SavePanic(p) ==
  /\ worker[p] = "calling"
  /\ worker' = [worker EXCEPT ![p] = "recovered"]
  /\ UNCHANGED <<configVars, handlerVars, reply, request, results>>

SaveSwallowed(p) ==
  /\ Swallowed(p)
  /\ UNCHANGED <<configVars, handlerVars, reply, request, results>>

\* Whether the receive of a result r ends the join loop.
JoinEnds(r) ==
  \/ r = "ok" /\ ~request.synchronous
  \/ received' = Dispatched

Receive(p) ==
  /\ Handover(p)
  /\ successful' = successful + (IF reply[p] = "ok" THEN 1 ELSE 0)
  /\ results' = [results EXCEPT ![p] = IF reply[p] = "ok" THEN "OK" ELSE "ERROR"]
  /\ handler' = IF JoinEnds(reply[p]) THEN "respond" ELSE "join"
  /\ UNCHANGED <<configVars, reply, targets, closed, timedOut, status, request>>

\* Mutant: the deadline is armed only for a synchronous request.
Timeout_OnlySynchronous ==
  /\ handler = "join"
  /\ request.synchronous
  /\ timedOut' = TRUE
  /\ handler' = "respond"
  /\ UNCHANGED <<configVars, workerVars, targets, closed, received, successful,
                 status, request, results>>

\* The deadline: only a synchronous request remembers it.
Timeout ==
  /\ handler = "join"
  /\ timedOut' = request.synchronous
  /\ handler' = "respond"
  /\ UNCHANGED <<configVars, workerVars, targets, closed, received, successful,
                 status, request, results>>

\* Mutant: an unsynchronized request is accepted without an acknowledgement.
PostStatus_NoAck ==
  IF ~request.synchronous \/ successful < Dispatched THEN 202
  ELSE IF successful > 0 THEN 201
  ELSE IF timedOut THEN 504
  ELSE IF Dispatched = 0 THEN 404 ELSE 502

\* Mutant: failures are answered as ObjectGetEndpoint answers them.
PostStatus_503 ==
  IF successful > 0 /\ (~request.synchronous \/ successful < Dispatched) THEN 202
  ELSE IF successful > 0 THEN 201
  ELSE IF timedOut THEN 504
  ELSE IF Dispatched = 0 THEN 404 ELSE 503

\* The status code of the answer.
PostStatus ==
  IF successful > 0 /\ (~request.synchronous \/ successful < Dispatched) THEN 202
  ELSE IF successful > 0 THEN 201
  ELSE IF timedOut THEN 504
  ELSE IF Dispatched = 0 THEN 404 ELSE 502

\* Mutant: providers with a result are marked too.
MarkTimeouts_All ==
  [p \in Providers |-> IF PostStatus = 504 /\ p \in Selected(request.named) THEN "TIMEOUT"
                       ELSE results[p]]

\* The 504 branch lists as TIMEOUT the providers selected by a second
\* GetProviders call that have no result yet.
MarkTimeouts ==
  [p \in Providers |->
     IF PostStatus = 504 /\ p \in Selected(request.named) /\ results[p] = "none"
     THEN "TIMEOUT" ELSE results[p]]

Respond ==
  /\ handler = "respond"
  /\ status' = PostStatus
  /\ results' = MarkTimeouts
  /\ handler' = "closing"
  /\ UNCHANGED <<configVars, workerVars, targets, closed, received, successful,
                 timedOut, request>>

\* Mutant: the channel stays open, as in ObjectUpdateEndpoint.
Close_Never ==
  /\ handler = "closing"
  /\ handler' = "done"
  /\ UNCHANGED <<configVars, workerVars, targets, closed, received, successful,
                 timedOut, status, request, results>>

\* defer close(result)
Close ==
  /\ CloseChannel
  /\ UNCHANGED <<configVars, workerVars, targets, received, successful, timedOut,
                 status, request, results>>

ReloadConfig == Reload /\ UNCHANGED <<workerVars, handlerVars, request, results>>

\* The server outlives the request.
Done == handler = "done" /\ UNCHANGED vars

HandlerStep ==
  Refuse \/ Begin \/ (\E p \in Providers : Receive(p)) \/ Timeout \/ Respond \/ Close

WorkerStep(p) == SaveReturn(p) \/ SavePanic(p)

Next ==
  \/ HandlerStep
  \/ \E p \in Providers : WorkerStep(p) \/ SaveSwallowed(p)
  \/ ReloadConfig
  \/ Done

Spec == Init /\ [][Next]_vars

\* The Go scheduler runs every goroutine that can run, and the timer fires.
Fairness ==
  /\ WF_vars(HandlerStep)
  /\ \A p \in Providers : WF_vars(SaveSwallowed(p))

\* No assumption on the providers: they may hang.
FairSpec == Spec /\ Fairness

----------------------------------------------------------------------------
\* The answer claims only what was acknowledged: 201 needs every provider the
\* object was sent to, 202 at least one, 502 and 504 that none was heard of,
\* 404 that none was asked.
G == INSTANCE Gather WITH asked <- targets, votes <- Votes({"ok"})
ImplementsGather == G!Spec

\* The error body calls a provider TIMEOUT only if no result of that provider
\* had been received, and OK or ERROR only as that provider answered.
BodyTruthful ==
  \A p \in Providers :
    /\ results[p] = "TIMEOUT" => worker[p] # "delivered"
    /\ results[p] = "ERROR" => worker[p] = "delivered" /\ reply[p] = "failed"
    /\ results[p] = "OK" => worker[p] = "delivered" /\ reply[p] = "ok"

\* Every POST is answered, even if its providers hang or panic.
Answered == <>(status # 0)

\* When provider calls return or panic, no goroutine of the request stays behind.
NoGoroutineLeft ==
  (\A p \in Providers : WF_vars(WorkerStep(p))) => <>[]WorkersOver
=============================================================================
