-------------------------- MODULE ForwardedGet_proofs --------------------------
(***************************************************************************)
(* A forwarded GET is sent once per entry of the table or list that its    *)
(* first server asks, for any number of servers, tables of known servers   *)
(* with any number of entries for each of them, and GETs in progress.      *)
(***************************************************************************)
EXTENDS ForwardedGet, TLAPS

Queries == {"none", "calling", "waiting", "object", "nils", "nil", "failed", "over"}

\* Who is still to be asked is on the origin's list and has not been asked.
Unasked ==
  \A s \in Slots, e \in Entries :
    query[s][e] = "calling" => asks[e] = 0 /\ e \in Asked(origin)

\* Only one GET, that of the client, makes any queries.
OneOrigin ==
  \A s, u \in Slots : \A e, f \in Entries :
    query[s][e] # "none" /\ query[u][f] # "none" => s = u

\* Queries belong to a GET.
Owned == \A s \in Slots, e \in Entries : query[s][e] # "none" => get[s] # Free

\* Everything begins with the client.
Fresh ==
  asks[Client] = 0 =>
    (\A s \in Slots : get[s] = Free) /\ (\A e \in Entries : asks[e] = 0)

IInv == TypeOK /\ (Local => Unasked /\ OneOrigin) /\ Owned /\ Fresh /\ AskedOnce

----------------------------------------------------------------------------
\* Nothing has been asked at first.
LEMMA InvInit == Init => IInv
<1> SUFFICES ASSUME Init PROVE IInv
  OBVIOUS
<1>1. \A s \in Slots, e \in Entries : query[s][e] = "none"
  BY DEF Init, NoQuery
<1>2. /\ holders \in SUBSET Nodes /\ known \in [Nodes -> SUBSET Entries]
      /\ origin \in Nodes
  BY HoldingsType, TablesType, OriginsType DEF Init
<1>3. TypeOK
  BY <1>2 DEF Init, NoQuery, TypeOK
<1>4. AskedOnce
  BY DEF Init, AskedOnce
<1> QED BY <1>1, <1>3, <1>4 DEF Init, IInv, Unasked, Owned, OneOrigin, Fresh

\* A GET is not a free slot.
LEMMA GetsNotFree == \A g \in Gets : g # Free
<1> QED BY DEF Gets, Free

\* What the join has heard of is a GET still.
LEMMA HeardType ==
  ASSUME NEW g \in Gets, NEW p \in Names, NEW found \in BOOLEAN
  PROVE  Heard(g, p, found) \in Gets
<1> DEFINE heard == g.heard \cup {p}
           missing == ~found /\ heard = g.asked
           phase == IF found THEN "streaming" ELSE IF missing THEN "done" ELSE g.phase
           status == IF found THEN 200 ELSE IF missing THEN 404 ELSE g.status
           winner == IF found THEN p ELSE g.winner
<1>1. g = [phase |-> g.phase, at |-> g.at, by |-> g.by, asked |-> g.asked,
           heard |-> g.heard, winner |-> g.winner, status |-> g.status]
  BY DEF Gets
<1>2. /\ phase \in {"join", "streaming", "done"} /\ heard \in SUBSET Names
      /\ winner \in Names \cup {"none"} /\ status \in {0, 200, 404, 504}
      /\ g.at \in Nodes /\ g.by \in (Slots \X Entries) \cup {Client}
      /\ g.asked \in SUBSET Names
  BY DEF Gets
<1>3. Heard(g, p, found) = [g EXCEPT !.heard = heard, !.winner = winner, !.phase = phase,
                                     !.status = status]
  BY DEF Heard
<1> HIDE DEF heard, phase, status, winner
<1>4. [g EXCEPT !.heard = heard, !.winner = winner, !.phase = phase, !.status = status]
        = [phase |-> phase, at |-> g.at, by |-> g.by, asked |-> g.asked,
           heard |-> heard, winner |-> winner, status |-> status]
  <2> DEFINE One == [g EXCEPT !.heard = heard]
             Two == [One EXCEPT !.winner = winner]
             Three == [Two EXCEPT !.phase = phase]
  <2>1. One = [phase |-> g.phase, at |-> g.at, by |-> g.by, asked |-> g.asked,
               heard |-> heard, winner |-> g.winner, status |-> g.status]
    BY <1>1
  <2> HIDE DEF One
  <2>2. Two = [phase |-> g.phase, at |-> g.at, by |-> g.by, asked |-> g.asked,
               heard |-> heard, winner |-> winner, status |-> g.status]
    BY <2>1
  <2> HIDE DEF Two
  <2>3. Three = [phase |-> phase, at |-> g.at, by |-> g.by, asked |-> g.asked,
                 heard |-> heard, winner |-> winner, status |-> g.status]
    BY <2>2
  <2> HIDE DEF Three
  <2>4. [Three EXCEPT !.status = status]
          = [phase |-> phase, at |-> g.at, by |-> g.by, asked |-> g.asked,
             heard |-> heard, winner |-> winner, status |-> status]
    BY <2>3
  <2> QED BY <2>4 DEF One, Two, Three
<1> QED BY <1>2, <1>3, <1>4 DEF Gets

\* What arrives is a GET, in a slot that was free.
LEMMA ArrivesType ==
  ASSUME TypeOK, NEW s \in Slots, NEW a \in Nodes, NEW by \in (Slots \X Entries) \cup {Client},
         NEW header, Arrives(s, a, by, header)
  PROVE  /\ get[s] = Free
         /\ get' \in [Slots -> Gets \cup {Free}] /\ get'[s] \in Gets
         /\ \A u \in Slots : u # s => get'[u] = get[u]
         /\ local' \in [Slots -> {"none", "looking", "over"}]
         /\ till' \in [Slots -> {"none", "asking", "object", "nothing", "over"}]
<1> DEFINE asked == Selected(header)
           g == [phase |-> "join", at |-> a, by |-> by, asked |-> asked, heard |-> {},
                 winner |-> "none", status |-> 0]
<1>1. asked \in SUBSET Names
  BY DEF Selected
<1>2. g \in Gets
  BY <1>1 DEF Gets
<1>3. get[s] = Free /\ get' = [get EXCEPT ![s] = g]
  BY DEF Arrives
<1>4. /\ get' \in [Slots -> Gets \cup {Free}] /\ get'[s] \in Gets
      /\ \A u \in Slots : u # s => get'[u] = get[u]
  BY <1>2, <1>3 DEF TypeOK
<1>5. /\ local' \in [Slots -> {"none", "looking", "over"}]
      /\ till' \in [Slots -> {"none", "asking", "object", "nothing", "over"}]
  BY DEF Arrives, TypeOK
<1> QED BY <1>3, <1>4, <1>5

\* A step that starts no query and asks nobody keeps the invariant, if types are kept.
LEMMA QueriesMoveOn ==
  ASSUME IInv, TypeOK', UNCHANGED <<configVars, asks>>,
         asks[Client] = 0 => \A s \in Slots : get'[s] = Free,
         \A s \in Slots, e \in Entries :
           /\ query'[s][e] # "none" => query[s][e] # "none" /\ get'[s] # Free
           /\ query'[s][e] = "calling" => query[s][e] = "calling"
  PROVE  IInv'
<1>1. Asked(origin)' = Asked(origin) /\ Local' = Local
  BY DEF configVars, Asked, Local
<1>2. (Local => Unasked /\ OneOrigin)'
  BY <1>1 DEF IInv, Unasked, OneOrigin
<1>3. Owned'
  BY DEF Owned
<1>4. Fresh' /\ AskedOnce'
  BY <1>1 DEF IInv, Fresh, AskedOnce
<1> QED BY <1>2, <1>3, <1>4 DEF IInv

----------------------------------------------------------------------------
\* The queries launched for a GET that comes in at the node a: one for each entry
\* it asks, if it looks into its till provider at all.
LEMMA LaunchedType ==
  ASSUME TypeOK, NEW s \in Slots, NEW a, NEW header
  PROVE  /\ Launched(s, a, header) \in [Slots -> [Entries -> Queries]]
         /\ \A u \in Slots, e \in Entries : u # s => Launched(s, a, header)[u][e] = query[u][e]
         /\ \A e \in Entries :
              \/ Launched(s, a, header)[s][e] = "none"
              \/ /\ Launched(s, a, header)[s][e] = "calling"
                 /\ e \in Asked(a) /\ "till" \in Selected(header)
<1> DEFINE row == [e \in Entries |->
     IF "till" \in Selected(header) /\ e \in Asked(a) THEN "calling" ELSE "none"]
<1>1. Launched(s, a, header) = [query EXCEPT ![s] = row]
  BY DEF Launched
<1>2. query \in [Slots -> [Entries -> Queries]]
  BY DEF TypeOK, Queries
<1>3. row \in [Entries -> Queries]
  BY DEF Queries
<1>4. \A e \in Entries :
        row[e] = "none" \/ (row[e] = "calling" /\ e \in Asked(a) /\ "till" \in Selected(header))
  OBVIOUS
<1> HIDE DEF row
<1> QED BY <1>1, <1>2, <1>3, <1>4

\* The header sent along keeps the till provider out.
LEMMA HeaderLocal == Local => "till" \notin Selected(Header)
<1> QED BY DEF Local, Selected, Header

\* The client's GET is the one that asks.
LEMMA ClientKeeps ==
  ASSUME IInv, NEW s \in Slots, ClientGets(s)
  PROVE  IInv'
<1>1. /\ asks[Client] = 0
      /\ Arrives(s, origin, Client, {})
      /\ query' = Launched(s, origin, {})
      /\ asks' = [asks EXCEPT ![Client] = 1]
      /\ UNCHANGED <<configVars, from, remote, body>>
  BY DEF ClientGets
<1>2. TypeOK /\ origin \in Nodes
  BY DEF IInv, TypeOK
<1>3. /\ get' \in [Slots -> Gets \cup {Free}] /\ get'[s] \in Gets
      /\ local' \in [Slots -> {"none", "looking", "over"}]
      /\ till' \in [Slots -> {"none", "asking", "object", "nothing", "over"}]
  BY <1>1, <1>2, ArrivesType
<1>4. /\ query' \in [Slots -> [Entries -> Queries]]
      /\ \A u \in Slots, e \in Entries : u # s => query'[u][e] = query[u][e]
      /\ \A e \in Entries : query'[s][e] # "none" => e \in Asked(origin)
  BY <1>1, <1>2, LaunchedType
<1>5. \A u \in Slots, e \in Entries : query'[u][e] # "none" => u = s /\ e \in Asked(origin)
  BY <1>1, <1>4 DEF IInv, Owned, Fresh
<1>6. /\ asks' \in [Entries \cup {Client} -> 0..2]
      /\ asks'[Client] = 1
      /\ \A e \in Entries : asks'[e] = 0
  BY <1>1, SpecialsNew DEF IInv, TypeOK, Fresh
<1>7. TypeOK'
  BY <1>1, <1>2, <1>3, <1>4, <1>6 DEF TypeOK, configVars, Queries
<1>8. Asked(origin)' = Asked(origin)
  BY <1>1 DEF configVars, Asked
<1>9. AskedOnce' /\ Unasked' /\ Fresh'
  BY <1>5, <1>6, <1>8 DEF AskedOnce, Unasked, Fresh
<1>10. Owned' /\ OneOrigin'
  BY <1>3, <1>5, GetsNotFree DEF Owned, OneOrigin
<1> QED BY <1>7, <1>9, <1>10 DEF IInv

\* A GET that reaches another server is the first for its entry and makes, if
\* the header keeps it local, no further queries.
LEMMA CallKeeps ==
  ASSUME IInv, NEW s \in Slots, NEW e \in Entries, Call(s, e)
  PROVE  IInv'
<1>1. /\ TypeOK /\ query[s][e] = "calling" /\ UNCHANGED <<configVars, from, body>>
      /\ asks' = IF asks[e] < 2 THEN [asks EXCEPT ![e] = @ + 1] ELSE asks
      /\ At[e] \in Nodes
  BY AtType DEF IInv, Call
<1>2. PICK u \in FreeSlot :
        /\ Arrives(u, At[e], <<s, e>>, Header)
        /\ query' = [Launched(u, At[e], Header) EXCEPT ![s][e] = "waiting"]
        /\ remote' = [remote EXCEPT ![s][e] = u]
  BY DEF Call
<1>3. u \in Slots
  BY DEF FreeSlot
<1> DEFINE launched == Launched(u, At[e], Header)
<1>4. /\ get[u] = Free
      /\ get' \in [Slots -> Gets \cup {Free}] /\ get'[u] \in Gets
      /\ \A v \in Slots : v # u => get'[v] = get[v]
      /\ local' \in [Slots -> {"none", "looking", "over"}]
      /\ till' \in [Slots -> {"none", "asking", "object", "nothing", "over"}]
  BY <1>1, <1>2, <1>3, ArrivesType
<1>5. /\ launched \in [Slots -> [Entries -> Queries]]
      /\ \A v \in Slots, f \in Entries : v # u => launched[v][f] = query[v][f]
      /\ Local => \A f \in Entries : launched[u][f] = "none"
  BY <1>1, <1>3, LaunchedType, HeaderLocal
<1> HIDE DEF launched
<1>6. query' = [launched EXCEPT ![s][e] = "waiting"]
  BY <1>2 DEF launched
<1>7. s # u /\ asks[Client] # 0
  BY <1>1, <1>4 DEF IInv, Owned, Fresh
<1>8. /\ query' \in [Slots -> [Entries -> Queries]]
      /\ query'[s][e] = "waiting"
      /\ \A v \in Slots, f \in Entries : <<v, f>> # <<s, e>> => query'[v][f] = launched[v][f]
  <2> DEFINE row == [launched[s] EXCEPT ![e] = "waiting"]
  <2>1. launched[s] \in [Entries -> Queries]
    BY <1>5
  <2>2. row \in [Entries -> Queries] /\ row[e] = "waiting"
        /\ \A f \in Entries : f # e => row[f] = launched[s][f]
    BY <2>1 DEF Queries
  <2>3. query' = [launched EXCEPT ![s] = row]
    BY <1>6
  <2> HIDE DEF row
  <2> QED BY <1>5, <2>2, <2>3
<1>9. /\ asks' \in [Entries \cup {Client} -> 0..2]
      /\ \A x \in Entries \cup {Client} : x # e => asks'[x] = asks[x]
      /\ asks[e] = 0 => asks'[e] = 1
  <2>1. asks \in [Entries \cup {Client} -> 0..2]
    BY <1>1 DEF TypeOK
  <2>2. asks[e] \in 0..2
    BY <2>1
  <2>3. CASE asks[e] < 2
    <3>1. asks[e] + 1 \in 0..2 /\ asks' = [asks EXCEPT ![e] = asks[e] + 1]
      BY <1>1, <2>2, <2>3
    <3> QED BY <2>1, <3>1
  <2>4. CASE ~(asks[e] < 2)
    BY <1>1, <2>1, <2>4
  <2> QED BY <2>3, <2>4
<1>10. remote' \in [Slots -> [Entries -> Slots \cup {NoSlot}]]
  BY <1>1, <1>2, <1>3 DEF TypeOK
<1>11. TypeOK'
  BY <1>1, <1>4, <1>8, <1>9, <1>10 DEF TypeOK, configVars, Queries
<1>12. Asked(origin)' = Asked(origin) /\ Local' = Local
  BY <1>1 DEF configVars, Asked, Local
<1>13. Local => asks[e] = 0 /\ e \in Asked(origin)
  BY <1>1 DEF IInv, Unasked
<1>14. AskedOnce'
  BY <1>9, <1>12, <1>13 DEF IInv, AskedOnce
<1>15. Owned'
  <2> SUFFICES ASSUME NEW v \in Slots, NEW f \in Entries, query'[v][f] # "none"
               PROVE  get'[v] # Free
    BY DEF Owned
  <2>1. CASE v = u  BY <1>4, <2>1, GetsNotFree
  <2>2. CASE v # u
    <3>1. query[v][f] # "none"
      BY <1>1, <1>5, <1>8, <2>2
    <3> QED BY <1>4, <2>2, <3>1 DEF IInv, Owned
  <2> QED BY <2>1, <2>2
<1>16. Fresh'
  BY <1>7, <1>9, SpecialsNew DEF Fresh
<1>17. ASSUME Local PROVE Unasked' /\ OneOrigin'
  <2>1. \A v \in Slots, f \in Entries :
          /\ query'[v][f] # "none" => query[v][f] # "none"
          /\ query'[v][f] = "calling" => query[v][f] = "calling" /\ <<v, f>> # <<s, e>>
    BY <1>1, <1>5, <1>7, <1>8, <1>17
  <2>2. OneOrigin'
    BY <1>17, <2>1 DEF IInv, OneOrigin
  <2>3. ASSUME NEW v \in Slots, NEW f \in Entries, query'[v][f] = "calling"
        PROVE  asks'[f] = 0 /\ f \in Asked(origin)'
    <3>1. query[v][f] = "calling" /\ <<v, f>> # <<s, e>>
      BY <2>1, <2>3
    <3>2. v = s
      BY <1>1, <1>17, <3>1 DEF IInv, OneOrigin
    <3> QED BY <1>9, <1>12, <1>17, <3>1, <3>2 DEF IInv, Unasked
  <2> QED BY <2>2, <2>3 DEF Unasked
<1> QED BY <1>11, <1>12, <1>14, <1>15, <1>16, <1>17 DEF IInv

----------------------------------------------------------------------------
\* A GET that goes on keeps its slot.
LEMMA GetGoesOn ==
  ASSUME TypeOK, NEW s \in Slots, NEW g \in Gets, get[s] # Free,
         get' = [get EXCEPT ![s] = g]
  PROVE  /\ get' \in [Slots -> Gets \cup {Free}]
         /\ \A u \in Slots : get[u] # Free <=> get'[u] # Free
<1> QED BY GetsNotFree DEF TypeOK

\* A slot in use holds a GET.
LEMMA InUse ==
  ASSUME TypeOK, NEW s \in Slots, get[s].phase # "free"
  PROVE  get[s] \in Gets /\ get[s] # Free
<1> QED BY GetsNotFree DEF TypeOK, Free

\* A step of an endpoint that leaves the queries alone keeps the invariant.
LEMMA EndpointMovesOn ==
  ASSUME IInv, TypeOK', UNCHANGED <<configVars, asks, query>>,
         \A u \in Slots : get[u] # Free <=> get'[u] # Free
  PROVE  IInv'
<1> QED BY QueriesMoveOn DEF IInv, Owned, Fresh


\* A step of the goroutine that queries e for the slot s keeps the invariant.
LEMMA QueryMovesOn ==
  ASSUME IInv, NEW s \in Slots, NEW e \in Entries, NEW q \in Queries \ {"none", "calling"},
         query[s][e] # "none", query' = [query EXCEPT ![s][e] = q],
         UNCHANGED <<configVars, get, local, asks>>,
         till' \in [Slots -> {"none", "asking", "object", "nothing", "over"}],
         from' \in [Slots -> Entries \cup {NoEntry}],
         remote' \in [Slots -> [Entries -> Slots \cup {NoSlot}]],
         body' \in [Slots -> {"none", "held", "read", "closed", "dropped"}]
  PROVE  IInv'
<1>1. query \in [Slots -> [Entries -> Queries]]
  BY DEF IInv, TypeOK, Queries
<1> DEFINE row == [query[s] EXCEPT ![e] = q]
<1>2. row \in [Entries -> Queries] /\ row[e] = q
      /\ \A f \in Entries : f # e => row[f] = query[s][f]
  BY <1>1
<1>3. query' = [query EXCEPT ![s] = row]
  OBVIOUS
<1> HIDE DEF row
<1>4. /\ query' \in [Slots -> [Entries -> Queries]]
      /\ query'[s][e] = q
      /\ \A u \in Slots, f \in Entries : <<u, f>> # <<s, e>> => query'[u][f] = query[u][f]
  BY <1>1, <1>2, <1>3
<1>5. TypeOK'
  BY <1>4 DEF IInv, TypeOK, configVars, Queries
<1>6. \A u \in Slots, f \in Entries :
        /\ query'[u][f] # "none" => query[u][f] # "none" /\ get'[u] # Free
        /\ query'[u][f] = "calling" => query[u][f] = "calling"
  BY <1>4 DEF IInv, Owned
<1>7. asks[Client] = 0 => \A u \in Slots : get'[u] = Free
  BY DEF IInv, Fresh
<1> QED BY <1>5, <1>6, <1>7, QueriesMoveOn

\* The steps of an endpoint and of till.Get.
LEMMA EndpointKeeps ==
  ASSUME IInv, NEW s \in Slots,
         LocalReturns(s) \/ Deadline(s) \/ TillDeadline(s) \/ TillReturns(s) \/ StreamEnds(s)
  PROVE  IInv'
<1>1. TypeOK
  BY DEF IInv
<1>2. CASE LocalReturns(s)
  <2>1. /\ local' = [local EXCEPT ![s] = "over"]
        /\ UNCHANGED <<configVars, tillVars, body, asks>>
    BY <1>2 DEF LocalReturns
  <2>2. CASE get[s].phase = "join"
    <3> DEFINE found == get[s].at \in holders
    <3>1. get' = [get EXCEPT ![s] = Heard(get[s], "local", found)]
      BY <1>2, <2>2 DEF LocalReturns
    <3>2. Heard(get[s], "local", found) \in Gets
      <4>1. get[s] \in Gets /\ "local" \in Names
        BY <1>1, <2>2, InUse DEF Names
      <4>2. found \in BOOLEAN
        OBVIOUS
      <4> HIDE DEF found
      <4> QED BY <4>1, <4>2, HeardType
    <3>3. /\ get' \in [Slots -> Gets \cup {Free}]
          /\ \A u \in Slots : get[u] # Free <=> get'[u] # Free
      BY <1>1, <2>2, <3>1, <3>2, InUse, GetGoesOn
    <3>4. TypeOK'
      BY <1>1, <2>1, <3>3 DEF TypeOK, configVars, tillVars
    <3> QED BY <2>1, <3>3, <3>4, EndpointMovesOn DEF tillVars
  <2>3. CASE get[s].phase # "join"
    <3>1. get' = get
      BY <1>2, <2>3 DEF LocalReturns
    <3>2. TypeOK'
      BY <1>1, <2>1, <3>1 DEF TypeOK, configVars, tillVars
    <3> QED BY <2>1, <3>1, <3>2, EndpointMovesOn DEF tillVars
  <2> QED BY <2>2, <2>3
<1>3. CASE Deadline(s)
  <2> DEFINE over == [get[s] EXCEPT !.phase = "done"]
             g == [over EXCEPT !.status = 504]
  <2>1. get[s].phase = "join" /\ UNCHANGED <<configVars, local, tillVars, body, asks>>
    BY <1>3 DEF Deadline
  <2>2. get[s] \in Gets
    BY <1>1, <2>1, InUse
  <2>3. g \in Gets
    <3>1. over \in Gets
      BY <2>2 DEF Gets
    <3> HIDE DEF over
    <3> QED BY <3>1 DEF Gets
  <2>4. get' = [get EXCEPT ![s] = g]
    BY <1>3 DEF Deadline
  <2>5. /\ get' \in [Slots -> Gets \cup {Free}]
        /\ \A u \in Slots : get[u] # Free <=> get'[u] # Free
    <3> HIDE DEF g
    <3> QED BY <1>1, <2>1, <2>3, <2>4, InUse, GetGoesOn
  <2>6. TypeOK'
    BY <1>1, <2>1, <2>5 DEF TypeOK, configVars, tillVars
  <2> QED BY <2>1, <2>5, <2>6, EndpointMovesOn DEF tillVars
<1>4. CASE TillDeadline(s)
  <2>1. /\ till' = [till EXCEPT ![s] = "nothing"]
        /\ UNCHANGED <<configVars, get, local, from, query, remote, body, asks>>
    BY <1>4 DEF TillDeadline
  <2>2. TypeOK'
    BY <1>1, <2>1 DEF TypeOK, configVars
  <2> QED BY <2>1, <2>2, EndpointMovesOn
<1>5. CASE TillReturns(s)
  <2> DEFINE found == till[s] = "object"
  <2>1. /\ till' = [till EXCEPT ![s] = "over"]
        /\ UNCHANGED <<configVars, local, from, query, remote, asks>>
    BY <1>5 DEF TillReturns
  <2>2. body' \in [Slots -> {"none", "held", "read", "closed", "dropped"}]
    BY <1>1, <1>5 DEF TillReturns, TypeOK
  <2>3. CASE get[s].phase = "join"
    <3>1. get' = [get EXCEPT ![s] = Heard(get[s], "till", found)]
      BY <1>5, <2>3 DEF TillReturns
    <3>2. Heard(get[s], "till", found) \in Gets
      BY <1>1, <2>3, InUse, HeardType DEF Names
    <3>3. /\ get' \in [Slots -> Gets \cup {Free}]
          /\ \A u \in Slots : get[u] # Free <=> get'[u] # Free
      BY <1>1, <2>3, <3>1, <3>2, InUse, GetGoesOn
    <3>4. TypeOK'
      BY <1>1, <2>1, <2>2, <3>3 DEF TypeOK, configVars
    <3> QED BY <2>1, <3>3, <3>4, EndpointMovesOn
  <2>4. CASE get[s].phase # "join"
    <3>1. get' = get
      BY <1>5, <2>4 DEF TillReturns
    <3>2. TypeOK'
      BY <1>1, <2>1, <2>2, <3>1 DEF TypeOK, configVars
    <3> QED BY <2>1, <3>1, <3>2, EndpointMovesOn
  <2> QED BY <2>3, <2>4
<1>6. CASE StreamEnds(s)
  <2> DEFINE g == [get[s] EXCEPT !.phase = "done"]
  <2>1. get[s].phase = "streaming" /\ UNCHANGED <<configVars, local, tillVars, asks>>
    BY <1>6 DEF StreamEnds
  <2>2. body' \in [Slots -> {"none", "held", "read", "closed", "dropped"}]
    BY <1>1, <1>6 DEF StreamEnds, TypeOK
  <2>3. get[s] \in Gets
    BY <1>1, <2>1, InUse
  <2>4. g \in Gets
    BY <2>3 DEF Gets
  <2>5. get' = [get EXCEPT ![s] = g]
    BY <1>1, <1>6 DEF StreamEnds, TypeOK
  <2>6. /\ get' \in [Slots -> Gets \cup {Free}]
        /\ \A u \in Slots : get[u] # Free <=> get'[u] # Free
    BY <1>1, <2>1, <2>4, <2>5, InUse, GetGoesOn
  <2>7. TypeOK'
    BY <1>1, <2>1, <2>2, <2>6 DEF TypeOK, configVars, tillVars
  <2> QED BY <2>1, <2>6, <2>7, EndpointMovesOn DEF tillVars
<1> QED BY <1>2, <1>3, <1>4, <1>5, <1>6

\* The steps of a query once it is under way.
LEMMA QueryKeeps ==
  ASSUME IInv, NEW s \in Slots, NEW e \in Entries,
         CallFails(s, e) \/ Response(s, e) \/ Receives(s, e) \/ SendPanics(s, e)
  PROVE  IInv'
<1>1. /\ TypeOK
      /\ from \in [Slots -> Entries \cup {NoEntry}]
      /\ till \in [Slots -> {"none", "asking", "object", "nothing", "over"}]
      /\ remote \in [Slots -> [Entries -> Slots \cup {NoSlot}]]
      /\ body \in [Slots -> {"none", "held", "read", "closed", "dropped"}]
  BY DEF IInv, TypeOK
<1>2. {"waiting", "object", "nils", "nil", "failed", "over"} = Queries \ {"none", "calling"}
  BY DEF Queries
<1>3. [remote EXCEPT ![s][e] = NoSlot] \in [Slots -> [Entries -> Slots \cup {NoSlot}]]
  BY <1>1
<1>4. CASE CallFails(s, e)
  <2>1. /\ query[s][e] # "none" /\ query' = [query EXCEPT ![s][e] = "failed"]
        /\ remote' = [remote EXCEPT ![s][e] = NoSlot]
        /\ UNCHANGED <<configVars, get, local, till, from, asks>>
    BY <1>4 DEF CallFails
  <2>2. body' \in [Slots -> {"none", "held", "read", "closed", "dropped"}]
    BY <1>1, <1>4 DEF CallFails
  <2> QED BY <1>1, <1>2, <1>3, <2>1, <2>2, QueryMovesOn
<1>5. CASE Response(s, e)
  <2>1. /\ query[s][e] # "none"
        /\ UNCHANGED <<configVars, get, local, till, from, asks>>
    BY <1>5 DEF Response
  <2>2. \/ /\ query' = [query EXCEPT ![s][e] = "object"]
           /\ body' = [body EXCEPT ![remote[s][e]] = "held"]
           /\ remote' = remote
        \/ /\ query' = [query EXCEPT ![s][e] = "nils"]
           /\ remote' = [remote EXCEPT ![s][e] = NoSlot]
           /\ body' = body
    BY <1>5 DEF Response
  <2>3. /\ remote' \in [Slots -> [Entries -> Slots \cup {NoSlot}]]
        /\ body' \in [Slots -> {"none", "held", "read", "closed", "dropped"}]
    BY <1>1, <1>3, <2>2
  <2> QED BY <1>1, <1>2, <2>1, <2>2, <2>3, QueryMovesOn
<1>6. CASE Receives(s, e)
  <2>1. /\ query[s][e] # "none"
        /\ UNCHANGED <<configVars, get, local, remote, body, asks>>
    BY <1>6 DEF Receives
  <2>2. PICK q \in {"nil", "over"} : query' = [query EXCEPT ![s][e] = q]
    <3>1. CASE query' = [query EXCEPT ![s][e] = "nil"]
      BY <3>1
    <3>2. CASE query' = [query EXCEPT ![s][e] = IF @ = "nils" THEN "nil" ELSE "over"]
      <4>1. CASE query[s][e] = "nils"
        BY <3>2, <4>1
      <4>2. CASE query[s][e] # "nils"
        BY <3>2, <4>2
      <4> QED BY <4>1, <4>2
    <3> QED BY <1>6, <3>1, <3>2 DEF Receives
  <2>3. /\ till' \in [Slots -> {"none", "asking", "object", "nothing", "over"}]
        /\ from' \in [Slots -> Entries \cup {NoEntry}]
    BY <1>1, <1>6 DEF Receives
  <2>4. q \in Queries \ {"none", "calling"}
    BY <1>2, <2>2
  <2> QED BY <1>1, <2>1, <2>2, <2>3, <2>4, QueryMovesOn
<1>7. CASE SendPanics(s, e)
  <2>1. /\ query[s][e] # "none" /\ query' = [query EXCEPT ![s][e] = "over"]
        /\ UNCHANGED <<configVars, get, local, till, from, remote, asks>>
    BY <1>7 DEF SendPanics
  <2>2. body' \in [Slots -> {"none", "held", "read", "closed", "dropped"}]
    BY <1>1, <1>7 DEF SendPanics
  <2> QED BY <1>1, <1>2, <2>1, <2>2, QueryMovesOn
<1> QED BY <1>4, <1>5, <1>6, <1>7

\* A slot is freed only when no query of it is left.
LEMMA RetireKeeps == ASSUME IInv, NEW s \in Slots, Retire(s) PROVE IInv'
<1>1. /\ get' = [get EXCEPT ![s] = Free]
      /\ query' = [query EXCEPT ![s] = NoQuery]
      /\ UNCHANGED <<configVars, asks>>
  BY DEF Retire
<1>2. TypeOK
  BY DEF IInv
<1>3. /\ query' \in [Slots -> [Entries -> Queries]]
      /\ \A u \in Slots, f \in Entries : query'[u][f] # "none" =>
           u # s /\ query'[u][f] = query[u][f]
  BY <1>1, <1>2 DEF TypeOK, NoQuery, Queries
<1>4. get' \in [Slots -> Gets \cup {Free}] /\ \A u \in Slots : u # s => get'[u] = get[u]
  BY <1>1, <1>2 DEF TypeOK
<1>5. TypeOK'
  BY <1>1, <1>2, <1>3, <1>4 DEF Retire, TypeOK, configVars, Queries
<1>6. \A u \in Slots, f \in Entries :
        /\ query'[u][f] # "none" => query[u][f] # "none" /\ get'[u] # Free
        /\ query'[u][f] = "calling" => query[u][f] = "calling"
  BY <1>3, <1>4 DEF IInv, Owned
<1>7. asks[Client] = 0 => \A u \in Slots : get'[u] = Free
  BY <1>4, <1>1, <1>2 DEF IInv, Fresh, TypeOK
<1> QED BY <1>1, <1>5, <1>6, <1>7, QueriesMoveOn

\* Every step keeps the invariant.
LEMMA InvStep == IInv /\ [Next]_vars => IInv'
<1> SUFFICES ASSUME IInv, [Next]_vars PROVE IInv'
  OBVIOUS
<1>1. CASE UNCHANGED vars
  <2>1. TypeOK' /\ UNCHANGED <<configVars, asks, query, get>>
    BY <1>1 DEF vars, tillVars, configVars, IInv, TypeOK
  <2> QED BY <2>1, EndpointMovesOn
<1>2. CASE \E s \in Slots : ClientGets(s) \/ Step(s) \/ LocalReturns(s) \/ Retire(s)
  BY <1>2, ClientKeeps, EndpointKeeps, QueryKeeps, CallKeeps, RetireKeeps DEF Step
<1>3. CASE \E s \in Slots, e \in Entries : CallFails(s, e)
  BY <1>3, QueryKeeps
<1> QED BY <1>1, <1>2, <1>3 DEF Next, Quiet

----------------------------------------------------------------------------
\* The invariant holds throughout.
LEMMA Invariant == Spec => []IInv
<1> QED BY InvInit, InvStep, PTL DEF Spec

\* The GETs, goroutines, queries and bodies of the cluster keep their types.
THEOREM TypeCorrect == Spec => []TypeOK
<1>1. IInv => TypeOK
  BY DEF IInv
<1> QED BY <1>1, Invariant, PTL

\* A client's GET leads to one GET per entry that TillProvider.Get of its server
\* asks, and to no other, whoever knows whom under however many identifiers and
\* whatever fails, if request_types names providers that do not forward.
THEOREM EachAskedOnce == Spec => []AskedOnce
<1>1. IInv => AskedOnce
  BY DEF IInv
<1> QED BY <1>1, Invariant, PTL
=============================================================================
