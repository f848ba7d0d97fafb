---------------------------- MODULE ObjectUpdate ----------------------------
(***************************************************************************)
(* PUT /api/v1/object/<id>: ObjectUpdateEndpoint and UpdateObject change   *)
(* the lifespan of an object.  Unlike the other two endpoints this one     *)
(* never closes its result channel, and waits for its deadline even when   *)
(* no provider was selected.                                               *)
(***************************************************************************)
EXTENDS Dispatch

vars == <<configVars, workerVars, handlerVars, request>>

Replies == {"ok", "failed"}
Requests == [named : SUBSET Providers, valid : BOOLEAN, synchronous : BOOLEAN]

TypeOK ==
  /\ DispatchTypeOK
  /\ request \in Requests
  /\ handler \in {"start", "join", "respond", "done"}
  /\ reply \in [Providers -> Replies \cup {"none"}]
  /\ status \in {0, 200, 201, 202, 400, 404, 502, 504}
  /\ closed = FALSE

Init ==
  /\ DispatchInit
  /\ request \in Requests

----------------------------------------------------------------------------
\* A malformed identifier, lifespan or X-Till-Synchronized header.
Refuse ==
  /\ handler = "start"
  /\ ~request.valid
  /\ status' = 400
  /\ handler' = "done"
  /\ UNCHANGED <<configVars, workerVars, targets, closed, received, successful,
                 timedOut, request>>

\* The join loop is entered even when no provider was selected.
Begin ==
  /\ handler = "start"
  /\ request.valid
  /\ Launch(Selected(request.named))
  /\ handler' = "join"
  /\ UNCHANGED <<configVars, reply, closed, received, successful, timedOut, status,
                 request>>

\* p.Update returns.  An "ok" promises nothing: EXPIRE on a missing key and the
\* empty Update of the s3, rackspace and till providers are no errors, and the
\* file provider believes its cache.
UpdateReturn(p) ==
  /\ \E r \in Replies : Return(p, r)
  /\ UNCHANGED <<configVars, handlerVars, request>>

\* Mutant: the first acknowledgement ends a synchronous join too.
JoinEnds_FirstAck(r) == r = "ok" \/ received' = Dispatched

\* Whether the receive of a result r ends the join loop.
JoinEnds(r) ==
  \/ r = "ok" /\ ~request.synchronous
  \/ received' = Dispatched

Receive(p) ==
  /\ Handover(p)
  /\ successful' = successful + (IF reply[p] = "ok" THEN 1 ELSE 0)
  /\ handler' = IF JoinEnds(reply[p]) THEN "respond" ELSE "join"
  /\ UNCHANGED <<configVars, reply, targets, closed, timedOut, status, request>>

\* Mutant: the deadline is armed only once a first result is in.
Timeout_LateArmed ==
  /\ handler = "join"
  /\ targets = {} \/ received > 0
  /\ timedOut' = request.synchronous
  /\ handler' = "respond"
  /\ UNCHANGED <<configVars, workerVars, targets, closed, received, successful,
                 status, request>>

\* The deadline: only a synchronous request remembers it.
Timeout ==
  /\ handler = "join"
  /\ timedOut' = request.synchronous
  /\ handler' = "respond"
  /\ UNCHANGED <<configVars, workerVars, targets, closed, received, successful,
                 status, request>>

\* Mutant: failures are answered as ObjectGetEndpoint answers them.
UpdateStatus_503 ==
  IF successful > 0 /\ (~request.synchronous \/ successful < Dispatched) THEN 202
  ELSE IF successful > 0 THEN 201
  ELSE IF timedOut THEN 504 ELSE 503

\* Mutant: an unsynchronized request is accepted without an acknowledgement.
UpdateStatus_NoAck ==
  IF ~request.synchronous \/ successful < Dispatched THEN 202
  ELSE IF successful > 0 THEN 201
  ELSE IF timedOut THEN 504 ELSE 502

\* The status code of the answer.
UpdateStatus ==
  IF successful > 0 /\ (~request.synchronous \/ successful < Dispatched) THEN 202
  ELSE IF successful > 0 THEN 201
  ELSE IF timedOut THEN 504 ELSE 502

Respond ==
  /\ handler = "respond"
  /\ status' = UpdateStatus
  /\ handler' = "done"
  /\ UNCHANGED <<configVars, workerVars, targets, closed, received, successful,
                 timedOut, request>>

ReloadConfig == Reload /\ UNCHANGED <<workerVars, handlerVars, request>>

\* The server outlives the request.
Done == handler = "done" /\ UNCHANGED vars

HandlerStep == Refuse \/ Begin \/ (\E p \in Providers : Receive(p)) \/ Timeout \/ Respond

Next ==
  \/ HandlerStep
  \/ \E p \in Providers : UpdateReturn(p)
  \/ ReloadConfig
  \/ Done

Spec == Init /\ [][Next]_vars

\* The Go scheduler runs the handler while it can run, and the timer fires.
FairSpec == Spec /\ WF_vars(HandlerStep)

----------------------------------------------------------------------------
\* The answer claims only what was acknowledged: 201 needs every provider
\* asked, 202 at least one, 502 and 504 that none was heard of.
G == INSTANCE Gather WITH asked <- targets, votes <- Votes({"ok"})
ImplementsGather == G!Spec

\* A synchronous PUT that beats its deadline leaves no goroutine behind: with
\* no close of the channel, only the receive of every result ends them.
SynchronousLeavesNothing ==
  handler = "done" /\ request.synchronous /\ ~timedOut => WorkersOver

\* Every PUT is answered, even if its providers hang or none was selected.
Answered == <>(status # 0)
=============================================================================
