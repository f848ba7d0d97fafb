--------------------------- MODULE MCForwardedGet ---------------------------
(***************************************************************************)
(* Three servers.  They list each other; or a knows b under an identifier  *)
(* it had before a restart too; or the tables are empty and a's list names *)
(* a itself beside b.  request_types is either the local provider or, as   *)
(* in the repository's tests, a name no provider has.                      *)
(***************************************************************************)
EXTENDS ForwardedGet

CONSTANTS a, b, c, a1, b1, b2, c1

MCAt == [e \in Entries |-> IF e = a1 THEN a ELSE IF e = c1 THEN c ELSE b]
MCContacts == [n \in Nodes |-> IF n = a THEN {a1, b1} ELSE {a1}]
Mesh == [n \in Nodes |-> {e \in {a1, b1, c1} : At[e] # n}]
Restarted == [Mesh EXCEPT ![a] = {b1, b2}]
MCTables == {Mesh, Restarted, [n \in Nodes |-> {}]}
\* All the servers asked have the object, or one of them and a itself.  (Under
\* {"file"} none of the servers asked finds it.)
MCHoldings == {{b, c}, {a, c}}
MCRequestTypes == {{"local"}, {"file"}}
=============================================================================
