------------------------------- MODULE Gather -------------------------------
(***************************************************************************)
(* What an object request of tilld promises, without goroutines, channel,  *)
(* counters or timers: some providers are asked, the request hears votes   *)
(* from them one at a time, and it answers once.  A status code may only   *)
(* claim what the votes heard so far support.  ObjectGet, ObjectPost and   *)
(* ObjectUpdate implement this specification.                              *)
(***************************************************************************)
EXTENDS Naturals

CONSTANT Providers

VARIABLES
  asked,   \* the providers the request was sent to
  votes,   \* what has been heard from each provider
  status   \* 0 until the answer is given, then its HTTP status code

vars == <<asked, votes, status>>

Codes == {200, 201, 202, 400, 404, 502, 503, 504}

SomeYes == \E p \in asked : votes[p] = "yes"
AllYes  == \A p \in asked : votes[p] = "yes"
AllNo   == \A p \in asked : votes[p] = "no"

\* Whether an answer is supported by the votes.
Supported(code) ==
  CASE code = 201          -> asked # {} /\ AllYes
    [] code \in {200, 202} -> SomeYes
    [] code = 400          -> asked = {}
    [] code \in {404, 503} -> AllNo
    [] OTHER               -> ~SomeYes

Init ==
  /\ asked = {}
  /\ votes = [p \in Providers |-> "pending"]
  /\ status = 0

Ask ==
  /\ status = 0
  /\ asked = {}
  /\ asked' \in SUBSET Providers
  /\ UNCHANGED <<votes, status>>

Hear(p) ==
  /\ status = 0
  /\ p \in asked
  /\ votes[p] = "pending"
  /\ \E v \in {"yes", "no"} : votes' = [votes EXCEPT ![p] = v]
  /\ UNCHANGED <<asked, status>>

Answer ==
  /\ status = 0
  /\ status' \in Codes
  /\ Supported(status')
  /\ UNCHANGED <<asked, votes>>

Next == Ask \/ (\E p \in Providers : Hear(p)) \/ Answer

Spec == Init /\ [][Next]_vars
=============================================================================
