------------------------------- MODULE Registry -------------------------------
(***************************************************************************)
(* How tilld processes learn of each other.  A starting server announces   *)
(* itself to the addresses of its configuration.  Whoever is told of an    *)
(* unknown server announces itself there in return, and adds the server    *)
(* that replies; whoever adds a server tells it of all the others it       *)
(* knows.  Every announcement is a POST made once, by a goroutine, and     *)
(* never repeated; no server is ever removed from a table; an identifier   *)
(* is made anew at each start.                                             *)
(***************************************************************************)
EXTENDS Naturals, FiniteSets, Sequences, BagsExt

CONSTANTS
  Nodes,        \* the machines a tilld runs on
  Names,        \* network addresses
  Resolve,      \* Resolve[n]: the node that listens at the address n
  Public,       \* Public[a]: public_address in the configuration of a
  Contacts,     \* Contacts[a]: the servers listed in the configuration of a
  Beginnings    \* what a behaviour begins with: the nodes that are up and know
                \* each other, and bounds on the crashes and losses to come and
                \* on the replies on their way at the same time

ASSUME NodesFinite == IsFiniteSet(Nodes)
ASSUME ResolveType == Resolve \in [Names -> Nodes]
ASSUME PublicReachable == Public \in [Nodes -> Names] /\ \A a \in Nodes : Resolve[Public[a]] = a
ASSUME ContactsType == Contacts \in [Nodes -> SUBSET Names]
ASSUME BeginningsType ==
  Beginnings \subseteq
    [up : SUBSET Nodes, crashes : Nat, losses : Nat, replies : Nat \ {0}]

\* Whether the configuration of a lists b, under any name.
Lists(a, b) == \E n \in Contacts[a] : Resolve[n] = b

\* However the servers are divided, one that is still to start lists one of the
\* other part, or two that are up lie in different parts.
ASSUME ContactsConnect ==
  \A begin \in Beginnings : \A part \in SUBSET Nodes :
    part \notin {{}, Nodes} =>
      \E a \in part, b \in Nodes \ part :
        \/ {a, b} \subseteq begin.up
        \/ a \notin begin.up /\ Lists(a, b)
        \/ b \notin begin.up /\ Lists(b, a)

\* Where servers may crash, each one lists another, so that it can come back.
ASSUME CrashedReturn ==
  \A begin \in Beginnings :
    begin.crashes > 0 => \A a \in Nodes : \E b \in Nodes \ {a} : Lists(a, b)

VARIABLES
  mode,      \* whether each node is down, booting or listening
  starts,    \* how often it has been started: its identifier is <<node, starts>>
  greeted,   \* whether OnServerUp has run since
  servers,   \* state.Servers of each node
  tasks,     \* the goroutines that run NotifyServer, a bag
  crashes,   \* crashes still to come
  losses,    \* requests and replies still to be lost
  replies,   \* bound on the replies on their way
  forgotten  \* history: an announcement failed, or a crash cut one short or came
             \* before all were up and had met

nodeVars == <<mode, starts, greeted>>
netVars == <<crashes, losses, replies, forgotten>>
vars == <<nodeVars, servers, tasks, netVars>>

\* NewServer("", addr, 60): a server of which only the address is known.
Unidentified == <<>>

Identifiers == Nodes \X Nat
Servers == [identifier : Identifiers, address : Names]
Targets == [identifier : Identifiers \cup {Unidentified}, address : Names]
NoReply == <<>>

\* A goroutine runs the calls of NotifyServer listed in todo, innermost first:
\* "to" has yet to be told of each server in "of".
Tasks == [node  : Nodes,
          todo  : Seq([to : Targets, of : SUBSET Servers]),
          step  : {"post", "add", "share"},
          reply : Servers \cup {NoReply}]

TypeOK ==
  /\ mode \in [Nodes -> {"down", "booting", "listening"}]
  /\ starts \in [Nodes -> Nat]
  /\ greeted \in [Nodes -> BOOLEAN]
  /\ servers \in [Nodes -> SUBSET Servers]
  /\ \A t \in DOMAIN tasks : t \in Tasks /\ tasks[t] \in Nat \ {0}
  /\ crashes \in Nat
  /\ losses \in Nat
  /\ replies \in Nat \ {0}
  /\ forgotten \in BOOLEAN

\* state.Identifier and state.Server
Identifier(a) == <<a, starts[a]>>
Self(a) == [identifier |-> Identifier(a), address |-> Public[a]]

\* Servers that are up when a behaviour begins have met before.
Init ==
  \E begin \in Beginnings :
    LET up == begin.up IN
    /\ mode = [a \in Nodes |-> IF a \in up THEN "listening" ELSE "down"]
    /\ starts = [a \in Nodes |-> IF a \in up THEN 1 ELSE 0]
    /\ greeted = [a \in Nodes |-> a \in up]
    /\ servers = [a \in Nodes |->
         IF a \in up THEN {[identifier |-> <<b, 1>>, address |-> Public[b]] : b \in up \ {a}}
                     ELSE {}]
    /\ tasks = <<>>
    /\ crashes = begin.crashes
    /\ losses = begin.losses
    /\ replies = begin.replies
    /\ forgotten = FALSE

----------------------------------------------------------------------------
Ready(a, todo) == [node |-> a, todo |-> todo, step |-> "post", reply |-> NoReply]

\* go NotifyServer(state.Server, NewServer(id, address)) at the node b
Introduction(b, s) == Ready(b, <<[to |-> s, of |-> {Self(b)}]>>)

\* A task with nothing left to do has ended.
Over(t) == t.step = "post" /\ t.todo = <<>>

\* The bag with t moved on to u.
Moved(t, u) == LET rest == BagRemove(tasks, t)
               IN IF Over(u) THEN rest ELSE BagAdd(rest, u)

\* What is left of todo when the call about s has been made.
After(todo, s) ==
  LET frame == Head(todo)
      left == [frame EXCEPT !.of = @ \ {s}]
  IN IF left.of = {} THEN Tail(todo) ELSE <<left>> \o Tail(todo)

----------------------------------------------------------------------------
\* NewState: a new identifier and an empty table, before anything is served.
Start(a) ==
  /\ mode[a] = "down"
  /\ mode' = [mode EXCEPT ![a] = "booting"]
  /\ starts' = [starts EXCEPT ![a] = @ + 1]
  /\ greeted' = [greeted EXCEPT ![a] = FALSE]
  /\ servers' = [servers EXCEPT ![a] = {}]
  /\ UNCHANGED <<tasks, netVars>>

\* http.ListenAndServe
Listen(a) ==
  /\ mode[a] = "booting"
  /\ mode' = [mode EXCEPT ![a] = "listening"]
  /\ UNCHANGED <<starts, greeted, servers, tasks, netVars>>

\* 500 ms after the start, whether or not the node listens yet, OnServerUp
\* starts one goroutine for each configured server.
OnServerUp(a) ==
  /\ mode[a] # "down"
  /\ ~greeted[a]
  /\ greeted' = [greeted EXCEPT ![a] = TRUE]
  /\ LET greeting(n) == Ready(a, <<[to |-> [identifier |-> Unidentified, address |-> n],
                                    of |-> {Self(a)}]>>)
     IN tasks' = [t \in DOMAIN tasks \cup {greeting(n) : n \in Contacts[a]} |->
                    IF t \in DOMAIN tasks
                    THEN tasks[t] + (IF t \in {greeting(n) : n \in Contacts[a]} THEN 1 ELSE 0)
                    ELSE 1]
  /\ UNCHANGED <<mode, starts, servers, netVars>>

AllListen == \A a \in Nodes : mode[a] = "listening" /\ greeted[a]

\* Every server knows every other one by its latest identifier.
Complete ==
  /\ AllListen
  /\ \A a, b \in Nodes : a # b => \E e \in servers[a] : e.identifier = Identifier(b)

\* The process dies with its table and its goroutines.  Unless all others are
\* up and have met, a server only it could have named may be forgotten.
Crash(a) ==
  /\ mode[a] # "down"
  /\ crashes > 0
  /\ crashes' = crashes - 1
  /\ mode' = [mode EXCEPT ![a] = "down"]
  /\ tasks' = [t \in {t \in DOMAIN tasks : t.node # a} |-> tasks[t]]
  /\ forgotten' = (forgotten \/ ~Complete \/ \E t \in DOMAIN tasks : t.node = a)
  /\ UNCHANGED <<starts, greeted, servers, losses, replies>>

----------------------------------------------------------------------------
\* NotifyServer tells nobody about itself twice over: by identifier if the
\* target has one, else by address.
TargetIsSelf(a, target) ==
  IF target.identifier # Unidentified THEN target.identifier = Identifier(a)
                                      ELSE target.address = Public[a]

Skip(t) ==
  /\ t.step = "post"
  /\ \E s \in Head(t.todo).of :
       /\ TargetIsSelf(t.node, Head(t.todo).to)
       /\ tasks' = Moved(t, [t EXCEPT !.todo = After(@, s)])
  /\ UNCHANGED <<nodeVars, servers, netVars>>

\* Mutant: servers are told apart by address, so that a restarted one is known.
Knows_ByAddress(a, i) == \E e \in servers[a] : e.identifier[1] = i[1]

\* Whether the server with the identifier i is in the table of a.
Knows(a, i) == \E e \in servers[a] : e.identifier = i

ReplyPending == {t \in DOMAIN tasks : t.step = "add"}

\* TillRegistrationEndpoint at the node the target's address leads to: an
\* unknown source is introduced to this server, and the reply is this server.
Register(t) ==
  /\ t.step = "post"
  /\ Cardinality(ReplyPending) < replies
  /\ LET target == Head(t.todo).to
         b == Resolve[target.address]
     IN \E s \in Head(t.todo).of :
          /\ ~TargetIsSelf(t.node, target)
          /\ mode[b] = "listening"
          /\ LET moved == Moved(t, [t EXCEPT !.todo = After(@, s), !.step = "add",
                                             !.reply = Self(b)])
             IN tasks' = IF Knows(b, s.identifier) THEN moved
                         ELSE BagAdd(moved, Introduction(b, s))
  /\ UNCHANGED <<nodeVars, servers, netVars>>

\* client.Do fails: the target does not listen, or the request is lost.
PostFails(t) ==
  /\ t.step = "post"
  /\ LET target == Head(t.todo).to
     IN \E s \in Head(t.todo).of :
          /\ ~TargetIsSelf(t.node, target)
          /\ \/ mode[Resolve[target.address]] # "listening" /\ UNCHANGED losses
             \/ losses > 0 /\ losses' = losses - 1
          /\ tasks' = Moved(t, [t EXCEPT !.todo = After(@, s)])
  /\ forgotten' = TRUE
  /\ UNCHANGED <<nodeVars, servers, crashes, replies>>

\* The handler has run, but its reply is lost.
ReplyLost(t) ==
  /\ t.step = "add"
  /\ losses > 0
  /\ losses' = losses - 1
  /\ forgotten' = TRUE
  /\ tasks' = Moved(t, Ready(t.node, t.todo))
  /\ UNCHANGED <<nodeVars, servers, crashes, replies>>

\* Mutant: the reply is not compared with this server.
AddServer_NoSelfCheck(t) ==
  /\ t.step = "add"
  /\ IF ~Knows(t.node, t.reply.identifier)
     THEN /\ servers' = [servers EXCEPT ![t.node] = @ \cup {t.reply}]
          /\ tasks' = Moved(t, [t EXCEPT !.step = "share"])
     ELSE /\ tasks' = Moved(t, Ready(t.node, t.todo))
          /\ UNCHANGED servers
  /\ UNCHANGED <<nodeVars, netVars>>

\* Mutant: a known server is told of the others again.
AddServer_Again(t) ==
  /\ t.step = "add"
  /\ IF t.reply.identifier # Identifier(t.node)
     THEN /\ servers' = [servers EXCEPT ![t.node] = @ \cup {t.reply}]
          /\ tasks' = Moved(t, [t EXCEPT !.step = "share"])
     ELSE /\ tasks' = Moved(t, Ready(t.node, t.todo))
          /\ UNCHANGED servers
  /\ UNCHANGED <<nodeVars, netVars>>

\* State.AddServer, under the lock: neither this server itself nor one that is
\* known is added.
AddServer(t) ==
  /\ t.step = "add"
  /\ IF t.reply.identifier # Identifier(t.node) /\ ~Knows(t.node, t.reply.identifier)
     THEN /\ servers' = [servers EXCEPT ![t.node] = @ \cup {t.reply}]
          /\ tasks' = Moved(t, [t EXCEPT !.step = "share"])
     ELSE /\ tasks' = Moved(t, Ready(t.node, t.todo))
          /\ UNCHANGED servers
  /\ UNCHANGED <<nodeVars, netVars>>

\* The servers SendKnownServersTo copies under the read lock.
Known(a, target) ==
  {e \in servers[a] : e.identifier \notin {target.identifier, Identifier(a)}}

SendKnownServersTo(t) ==
  /\ t.step = "share"
  /\ LET known == Known(t.node, t.reply)
     IN tasks' = Moved(t, Ready(t.node, IF known = {} THEN t.todo
                                        ELSE <<[to |-> t.reply, of |-> known]>> \o t.todo))
  /\ UNCHANGED <<nodeVars, servers, netVars>>

----------------------------------------------------------------------------
NotifyStep(t) ==
  Skip(t) \/ Register(t) \/ PostFails(t) \/ AddServer(t) \/ SendKnownServersTo(t)

\* Nothing is left to do until a server is restarted.
Quiet == AllListen /\ tasks = <<>> /\ UNCHANGED vars

Next ==
  \/ \E a \in Nodes : Start(a) \/ Listen(a) \/ OnServerUp(a) \/ Crash(a)
  \/ \E t \in DOMAIN tasks : NotifyStep(t) \/ ReplyLost(t)
  \/ Quiet

Spec == Init /\ [][Next]_vars

\* Goroutines run; nobody need start, greet, restart or crash.
Fairness == WF_vars(\E t \in DOMAIN tasks : NotifyStep(t))

FairSpec == Spec /\ Fairness

----------------------------------------------------------------------------
\* No server lists its own address, in whatever order it was restarted, heard
\* of itself from others or reached itself under another name: a GET it
\* forwarded there would come back to it.
NoSelfQuery == \A a \in Nodes : \A e \in servers[a] : Resolve[e.address] # a

\* When every server is up and no announcement is under way, each of them knows
\* every other one, with the identifier of its last start, in whatever order
\* they were started, crashed and came back, and their announcements crossed;
\* unless an announcement was lost, since none is repeated.
QuietMeansComplete == AllListen /\ tasks = <<>> => forgotten \/ Complete

\* Announcements lead to announcements in return and to third servers, but
\* they come to an end.
GossipEnds == <>[](tasks = <<>>)
=============================================================================
