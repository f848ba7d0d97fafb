----------------------------- MODULE ForwardedGet -----------------------------
(***************************************************************************)
(* A GET in a cluster.  Each tilld has a local provider and the till       *)
(* provider, whose Get asks other tilld servers for the object: one        *)
(* goroutine each, an unbuffered channel, a deadline of its own.  A server *)
(* answers such a GET like any other, possibly by asking others again: the *)
(* header X-Till-Providers, from request_types, limits where it looks.     *)
(* The join of the endpoint is reduced to what ObjectGet establishes.      *)
(***************************************************************************)
EXTENDS Naturals, FiniteSets

CONSTANTS
  Nodes,         \* the servers of the cluster
  Entries,       \* what a table or a configuration may list: an identifier with
                 \* an address, or a place in the list
  At,            \* At[e]: the server that the address of the entry e leads to
  Contacts,      \* Contacts[a]: the entries listed in the configuration of a
  Holdings,      \* the sets of nodes to consider as having the object
  Tables,        \* the tables of known servers to consider
  RequestTypes,  \* the values of request_types to consider, sets of names
  Origins,       \* the servers clients use
  Slots,         \* bound on the GETs in progress at the same time
  Client, NoEntry, NoSlot

Names == {"local", "till"}

\* Several entries may lead to one server: state.Servers is keyed by identifier,
\* and a server that has been restarted stands there under each it has had.
ASSUME AtType == At \in [Entries -> Nodes]
ASSUME TablesType == Tables \cup {Contacts} \subseteq [Nodes -> SUBSET Entries]
ASSUME HoldingsType == Holdings \subseteq SUBSET Nodes
ASSUME OriginsType == Origins \subseteq Nodes
ASSUME SpecialsNew ==
  Client \notin Entries \cup (Slots \X Entries) /\ NoEntry \notin Entries /\ NoSlot \notin Slots

VARIABLES
  holders,  \* the nodes whose local provider has the object
  large,    \* whether its body exceeds what the network buffers
  types,    \* request_types
  patient,  \* whether get_timeout_in_milliseconds is above the 2000 of till.Get
  known,    \* the entries of each node's table
  origin,   \* the server that the client uses
  get,      \* the GET in each slot
  local,    \* the goroutine of its local provider
  till,     \* the goroutine of its till provider
  from,     \* the entry whose object till.Get received
  query,    \* query[s][e]: the goroutine queryServer of slot s for the entry e
  remote,   \* remote[s][e]: the slot of the GET it made
  body,     \* body[s]: what became of the response of slot s at its reader
  asks      \* history: how often the client, or a server for each entry, sent a GET

configVars == <<holders, large, types, patient, known, origin>>
tillVars == <<till, from, query, remote>>
vars == <<configVars, get, local, tillVars, body, asks>>

Free == [phase |-> "free"]
Gets == [phase : {"join", "streaming", "done"}, at : Nodes,
         by : (Slots \X Entries) \cup {Client}, asked : SUBSET Names,
         heard : SUBSET Names, winner : Names \cup {"none"},
         status : {0, 200, 404, 504}]

TypeOK ==
  /\ holders \in SUBSET Nodes
  /\ known \in [Nodes -> SUBSET Entries]
  /\ origin \in Nodes
  /\ get \in [Slots -> Gets \cup {Free}]
  /\ local \in [Slots -> {"none", "looking", "over"}]
  /\ till \in [Slots -> {"none", "asking", "object", "nothing", "over"}]
  /\ from \in [Slots -> Entries \cup {NoEntry}]
  /\ query \in [Slots -> [Entries -> {"none", "calling", "waiting", "object", "nils", "nil",
                                   "failed", "over"}]]
  /\ remote \in [Slots -> [Entries -> Slots \cup {NoSlot}]]
  /\ body \in [Slots -> {"none", "held", "read", "closed", "dropped"}]
  /\ asks \in [Entries \cup {Client} -> 0..2]

NoQuery == [e \in Entries |-> "none"]

Init ==
  /\ holders \in Holdings
  /\ large \in BOOLEAN
  /\ types \in RequestTypes
  /\ patient \in BOOLEAN
  /\ known \in Tables
  /\ origin \in Origins
  /\ get = [s \in Slots |-> Free]
  /\ local = [s \in Slots |-> "none"]
  /\ till = [s \in Slots |-> "none"]
  /\ from = [s \in Slots |-> NoEntry]
  /\ query = [s \in Slots |-> NoQuery]
  /\ remote = [s \in Slots |-> [e \in Entries |-> NoSlot]]
  /\ body = [s \in Slots |-> "none"]
  /\ asks = [x \in Entries \cup {Client} |-> 0]

----------------------------------------------------------------------------
\* Whom till.Get asks: every entry of the table, or of the configured list if
\* the table is empty.
Asked(a) == IF known[a] # {} THEN known[a] ELSE Contacts[a]

\* GetProviders: an empty header means every provider.
Selected(header) == IF header = {} THEN Names ELSE header \cap Names

\* Slots are interchangeable: any free one will do.
FreeSlot == LET free == {s \in Slots : get[s] = Free}
            IN IF free = {} THEN {} ELSE {CHOOSE s \in free : TRUE}

\* A GET with that header arrives in the free slot s: ObjectGetEndpoint starts
\* its goroutines, and TillProvider.Get its own.
Arrives(s, a, by, header) ==
  /\ get[s] = Free
  /\ LET asked == Selected(header)
         entries == IF "till" \in asked THEN Asked(a) ELSE {}
     IN /\ get' = [get EXCEPT ![s] =
             [phase |-> "join", at |-> a, by |-> by, asked |-> asked, heard |-> {},
              winner |-> "none", status |-> 0]]
        /\ local' = [local EXCEPT ![s] = IF "local" \in asked THEN "looking" ELSE "none"]
        /\ till' = [till EXCEPT ![s] = IF "till" \notin asked THEN "none"
                                       ELSE IF entries = {} THEN "nothing" ELSE "asking"]

\* The queries as they stand once a GET has arrived in slot s at the node a.
Launched(s, a, header) ==
  [query EXCEPT ![s] = [e \in Entries |->
     IF "till" \in Selected(header) /\ e \in Asked(a) THEN "calling" ELSE "none"]]

\* One client GET is followed.
ClientGets(s) ==
  /\ asks[Client] = 0
  /\ s \in FreeSlot
  /\ Arrives(s, origin, Client, {})
  /\ query' = Launched(s, origin, {})
  /\ asks' = [asks EXCEPT ![Client] = 1]
  /\ UNCHANGED <<configVars, from, remote, body>>

----------------------------------------------------------------------------
\* The join takes the result of provider p: the first object wins; when all
\* have answered without, the object is missing.  (Failures: see ObjectGet.)
Heard(g, p, found) ==
  LET heard == g.heard \cup {p}
      missing == ~found /\ heard = g.asked
  IN [g EXCEPT !.heard = heard,
               !.winner = IF found THEN p ELSE @,
               !.phase = IF found THEN "streaming" ELSE IF missing THEN "done" ELSE @,
               !.status = IF found THEN 200 ELSE IF missing THEN 404 ELSE @]

\* The local provider answers; what comes after the join is swallowed.
LocalReturns(s) ==
  /\ local[s] = "looking"
  /\ local' = [local EXCEPT ![s] = "over"]
  /\ get' = IF get[s].phase = "join"
            THEN [get EXCEPT ![s] = Heard(@, "local", @.at \in holders)] ELSE get
  /\ UNCHANGED <<configVars, tillVars, body, asks>>

\* The deadline of the endpoint.
Deadline(s) ==
  /\ get[s].phase = "join"
  /\ get' = [get EXCEPT ![s] = [@ EXCEPT !.phase = "done", !.status = 504]]
  /\ UNCHANGED <<configVars, local, tillVars, body, asks>>

----------------------------------------------------------------------------
\* Mutant: request_types is not sent.
Header_None == {}

\* X-Till-Providers: strings.Join(request_types, ","), left out if empty.
Header == types

\* queryServer: the GET reaches the other server.
Call(s, e) ==
  /\ query[s][e] = "calling"
  /\ \E u \in FreeSlot :
       /\ Arrives(u, At[e], <<s, e>>, Header)
       /\ query' = [Launched(u, At[e], Header) EXCEPT ![s][e] = "waiting"]
       /\ remote' = [remote EXCEPT ![s][e] = u]
  /\ asks' = IF asks[e] < 2 THEN [asks EXCEPT ![e] = @ + 1] ELSE asks
  /\ UNCHANGED <<configVars, from, body>>

\* client.Do reports an error, and the connection is gone: one nil is sent, the
\* second is not reached.
CallFails(s, e) ==
  /\ query[s][e] \in {"calling", "waiting"}
  /\ query' = [query EXCEPT ![s][e] = "failed"]
  /\ remote' = [remote EXCEPT ![s][e] = NoSlot]
  /\ body' = IF query[s][e] = "waiting" THEN [body EXCEPT ![remote[s][e]] = "closed"] ELSE body
  /\ UNCHANGED <<configVars, get, local, till, from, asks>>

\* The status line of the other server arrives.
Response(s, e) ==
  /\ query[s][e] = "waiting"
  /\ LET u == remote[s][e] IN
       /\ get[u].status # 0
       /\ IF get[u].status = 200
          THEN /\ query' = [query EXCEPT ![s][e] = "object"]
               /\ body' = [body EXCEPT ![u] = "held"]
               /\ UNCHANGED remote
          ELSE /\ query' = [query EXCEPT ![s][e] = "nils"]
               /\ remote' = [remote EXCEPT ![s][e] = NoSlot]
               /\ UNCHANGED body
  /\ UNCHANGED <<configVars, get, local, till, from, asks>>

\* till.Get receives from the channel: a nil is ignored and not even counted,
\* an object is returned and the channel closed.  After its object or its nil
\* queryServer goes on to send one more nil.
Receives(s, e) ==
  /\ till[s] = "asking"
  /\ \/ /\ query[s][e] = "object"
        /\ till' = [till EXCEPT ![s] = "object"]
        /\ from' = [from EXCEPT ![s] = e]
        /\ query' = [query EXCEPT ![s][e] = "nil"]
     \/ /\ query[s][e] \in {"nils", "nil", "failed"}
        /\ query' = [query EXCEPT ![s][e] = IF @ = "nils" THEN "nil" ELSE "over"]
        /\ UNCHANGED <<till, from>>
  /\ UNCHANGED <<configVars, get, local, remote, body, asks>>

\* The deadline of till.Get, two seconds: with the default of one second for
\* the endpoint it comes after the endpoint's.
TillDeadline(s) ==
  /\ till[s] = "asking"
  /\ patient \/ get[s].phase # "join"
  /\ till' = [till EXCEPT ![s] = "nothing"]
  /\ UNCHANGED <<configVars, get, local, from, query, remote, body, asks>>

\* Mutant: only an object closes the channel.
Closed_ByObject(s) == from[s] # NoEntry

\* till.Get closes the channel on both of its ways out.
Closed(s) == till[s] \notin {"none", "asking"}

\* A send on the closed channel panics and is recovered: a response that was
\* to be sent is dropped, neither read nor closed.
SendPanics(s, e) ==
  /\ query[s][e] \in {"object", "nils", "nil", "failed"}
  /\ Closed(s)
  /\ query' = [query EXCEPT ![s][e] = "over"]
  /\ body' = IF query[s][e] = "object" THEN [body EXCEPT ![remote[s][e]] = "dropped"] ELSE body
  /\ UNCHANGED <<configVars, get, local, till, from, remote, asks>>

\* till.Get's result reaches the endpoint, or is closed when it comes too late.
TillReturns(s) ==
  /\ till[s] \in {"object", "nothing"}
  /\ till' = [till EXCEPT ![s] = "over"]
  /\ LET found == till[s] = "object"
         joined == get[s].phase = "join"
     IN /\ get' = IF joined
                  THEN [get EXCEPT ![s] = Heard(@, "till", found)]
                  ELSE get
        /\ body' = IF found THEN [body EXCEPT ![remote[s][from[s]]] =
                                    IF joined THEN "read" ELSE "closed"]
                            ELSE body
  /\ UNCHANGED <<configVars, local, from, query, remote, asks>>

----------------------------------------------------------------------------
\* Whether the answer in slot s can be written to its end: a large one has to
\* be read meanwhile, or its connection closed.
Flows(s) ==
  \/ get[s].by = Client
  \/ ~large
  \/ body[s] \in {"read", "closed"}

Source(s) == remote[s][from[s]]

\* The body has been copied: from a local object, or as far as the other
\* server sent it; the deferred Close runs.
StreamEnds(s) ==
  /\ get[s].phase = "streaming"
  /\ Flows(s)
  /\ get[s].winner = "till" => get[Source(s)].phase = "done"
  /\ get' = [get EXCEPT ![s].phase = "done"]
  /\ body' = IF get[s].winner = "till" THEN [body EXCEPT ![Source(s)] = "closed"] ELSE body
  /\ UNCHANGED <<configVars, local, tillVars, asks>>

\* Whether the GET in slot s has nothing left to do but for a local provider
\* that hangs.
Idle(s) ==
  /\ get[s].phase \in {"free", "done"}
  /\ till[s] \in {"none", "over"}
  /\ \A e \in Entries : query[s][e] \in {"none", "over"}

Awaited(s) ==
  get[s].by # Client /\ query[get[s].by[1]][get[s].by[2]] = "waiting"
                     /\ remote[get[s].by[1]][get[s].by[2]] = s

\* A GET that is over leaves its slot.
Retire(s) ==
  /\ get[s].phase = "done"
  /\ Idle(s)
  /\ local[s] # "looking"
  /\ ~Awaited(s)
  /\ body[s] \notin {"held", "read"}
  /\ get' = [get EXCEPT ![s] = Free]
  /\ local' = [local EXCEPT ![s] = "none"]
  /\ till' = [till EXCEPT ![s] = "none"]
  /\ from' = [from EXCEPT ![s] = NoEntry]
  /\ query' = [query EXCEPT ![s] = NoQuery]
  /\ remote' = [remote EXCEPT ![s] = [e \in Entries |-> NoSlot]]
  /\ body' = [body EXCEPT ![s] = "none"]
  /\ UNCHANGED <<configVars, asks>>

\* The dropped response of a server: nobody reads it or closes it.
Dropped(s) == get[s].phase = "streaming" /\ body[s] = "dropped" /\ large

\* Every GET has been answered.
Quiet ==
  /\ \A s \in Slots : get[s].phase \in {"free", "done"} \/ Dropped(s)
  /\ UNCHANGED vars

----------------------------------------------------------------------------
Step(s) ==
  \/ Deadline(s) \/ TillDeadline(s) \/ TillReturns(s) \/ StreamEnds(s)
  \/ \E e \in Entries : Call(s, e) \/ Response(s, e) \/ Receives(s, e) \/ SendPanics(s, e)

Next ==
  \/ \E s \in Slots : ClientGets(s) \/ Step(s) \/ LocalReturns(s) \/ Retire(s)
  \/ \E s \in Slots, e \in Entries : CallFails(s, e)
  \/ Quiet

Spec == Init /\ [][Next]_vars

\* Goroutines run, the timers fire and the network delivers; the local
\* providers may hang.
FairSpec == Spec /\ WF_vars(\E s \in Slots : Step(s)) /\ WF_vars(\E s \in Slots : Retire(s))

----------------------------------------------------------------------------
\* request_types names providers of the servers asked that do not forward.  Left
\* out of the configuration it is empty, no header is sent, and servers that know
\* each other ask each other again and again.
Local == types # {} /\ "till" \notin types

\* A client's GET leads to one GET for each entry of the table, or of the list,
\* of the server it went to, and to no other: though servers know each other and
\* every one of them would ask all the others.
AskedOnce == Local => \A e \in Entries : asks[e] <= IF e \in Asked(origin) THEN 1 ELSE 0

\* Everything a GET starts anywhere in the cluster ends, even if local
\* providers hang and connections break at any point, except a server that is
\* still writing a large object to another one that dropped its response.
ForwardingEnds == Local => <>[](\A s \in Slots : Idle(s) \/ Dropped(s))
=============================================================================
