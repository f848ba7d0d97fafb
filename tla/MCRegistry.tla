------------------------------ MODULE MCRegistry ------------------------------
(***************************************************************************)
(* Three servers: a and c list b; b lists a, and itself under another name *)
(* than its public one.                                                    *)
(***************************************************************************)
EXTENDS Registry

MCNodes == {"a", "b", "c"}
MCNames == {"A", "B", "C", "localhostB"}
MCResolve ==
  [n \in MCNames |-> IF n = "A" THEN "a" ELSE IF n = "C" THEN "c" ELSE "b"]
MCPublic == [n \in MCNodes |-> IF n = "a" THEN "A" ELSE IF n = "b" THEN "B" ELSE "C"]
MCContacts == [n \in MCNodes |-> IF n = "b" THEN {"A", "localhostB"} ELSE {"B"}]

Begin(up, crashes_, losses_, replies_) ==
  [up |-> up, crashes |-> crashes_, losses |-> losses_, replies |-> replies_]

\* Two servers join a third at once; all start at once; a cluster of three in
\* which one crashes and comes back; one joins two others with a loss.
MCBeginnings ==
  {Begin({"b"}, 0, 0, 2), Begin({}, 0, 0, 1), Begin(MCNodes, 1, 0, 1),
   Begin({"a", "b"}, 0, 1, 2)}
=============================================================================
