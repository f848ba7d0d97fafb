---------------------------- MODULE Registry_proofs ----------------------------
(***************************************************************************)
(* No server ever lists itself, and all servers meet, for any number of    *)
(* servers, addresses, starts, crashes, losses and announcements that      *)
(* cross.                                                                  *)
(***************************************************************************)
EXTENDS Registry, TLAPS

Frames == [to : Targets, of : SUBSET Servers]

\* A goroutine belongs to a running process and has something left to do.  A
\* reply that comes from the node itself was given by this very process.
Sound(t) ==
  /\ t \in Tasks
  /\ mode[t.node] # "down"
  /\ t.step = "post" => t.todo # <<>>
  /\ t.step # "post" =>
       /\ t.reply \in Servers
       /\ Resolve[t.reply.address] = t.node => t.reply.identifier = Identifier(t.node)

IInv ==
  /\ TypeOK
  /\ \A t \in DOMAIN tasks : Sound(t)
  /\ NoSelfQuery

----------------------------------------------------------------------------
\* Adding to a bag of goroutines and removing from it leaves a bag.
LEMMA BagAddType ==
  ASSUME NEW B, \A x \in DOMAIN B : B[x] \in Nat \ {0}, NEW u
  PROVE  /\ DOMAIN BagAdd(B, u) = DOMAIN B \cup {u}
         /\ \A x \in DOMAIN BagAdd(B, u) : BagAdd(B, u)[x] \in Nat \ {0}
<1>1. CASE u \in DOMAIN B
  BY <1>1 DEF BagAdd
<1>2. CASE u \notin DOMAIN B
  BY <1>2 DEF BagAdd
<1> QED BY <1>1, <1>2

\* The same of removal.
LEMMA BagRemoveType ==
  ASSUME NEW B, \A x \in DOMAIN B : B[x] \in Nat \ {0}, NEW u
  PROVE  /\ DOMAIN BagRemove(B, u) \subseteq DOMAIN B
         /\ \A x \in DOMAIN BagRemove(B, u) : BagRemove(B, u)[x] \in Nat \ {0}
<1>1. CASE u \in DOMAIN B /\ B[u] = 1
  BY <1>1 DEF BagRemove
<1>2. CASE u \in DOMAIN B /\ B[u] # 1
  BY <1>2 DEF BagRemove
<1>3. CASE u \notin DOMAIN B
  BY <1>3 DEF BagRemove
<1> QED BY <1>1, <1>2, <1>3

\* A goroutine that moved on takes its own place and nobody else's.
LEMMA MovedType ==
  ASSUME TypeOK, NEW t \in DOMAIN tasks, NEW u
  PROVE  /\ \A x \in DOMAIN Moved(t, u) : x \in DOMAIN tasks \/ (x = u /\ ~Over(u))
         /\ \A x \in DOMAIN Moved(t, u) : Moved(t, u)[x] \in Nat \ {0}
<1> DEFINE rest == BagRemove(tasks, t)
<1>1. /\ DOMAIN rest \subseteq DOMAIN tasks
      /\ \A x \in DOMAIN rest : rest[x] \in Nat \ {0}
  BY BagRemoveType DEF TypeOK
<1>2. CASE Over(u)
  BY <1>1, <1>2 DEF Moved
<1>3. CASE ~Over(u)
  <2>1. Moved(t, u) = BagAdd(rest, u)
    BY <1>3 DEF Moved
  <2> HIDE DEF rest
  <2>2. /\ DOMAIN BagAdd(rest, u) = DOMAIN rest \cup {u}
        /\ \A x \in DOMAIN BagAdd(rest, u) : BagAdd(rest, u)[x] \in Nat \ {0}
    BY <1>1, BagAddType
  <2> QED BY <1>1, <1>3, <2>1, <2>2
<1> QED BY <1>2, <1>3

\* The calls left are calls.
LEMMA AfterType ==
  ASSUME NEW todo \in Seq(Frames), todo # <<>>, NEW s
  PROVE  After(todo, s) \in Seq(Frames)
<1> DEFINE left == [Head(todo) EXCEPT !.of = @ \ {s}]
<1>1. Head(todo) \in Frames /\ Tail(todo) \in Seq(Frames)
  OBVIOUS
<1>2. left \in Frames
  BY <1>1 DEF Frames
<1>3. <<left>> \o Tail(todo) \in Seq(Frames)
  BY <1>1, <1>2
<1> QED BY <1>1, <1>3 DEF After

\* A node announces itself by its present identifier.
LEMMA SelfType ==
  ASSUME TypeOK, NEW a \in Nodes
  PROVE  /\ Self(a) \in Servers
         /\ Identifier(a) \in Identifiers
         /\ Self(a).identifier = Identifier(a)
         /\ Resolve[Self(a).address] = a
<1> QED BY PublicReachable DEF TypeOK, Self, Servers, Identifier, Identifiers

\* A goroutine ready to make calls is sound.
LEMMA ReadyType ==
  ASSUME NEW a \in Nodes, mode[a] # "down", NEW todo \in Seq(Frames), ~Over(Ready(a, todo))
  PROVE  Sound(Ready(a, todo))
<1> QED BY DEF Ready, Sound, Tasks, Frames, Over

\* A step that moves one sound goroutine on to a sound one, and changes neither
\* a process nor a table, keeps the invariant.
LEMMA MoveOn ==
  ASSUME IInv, NEW t \in DOMAIN tasks, NEW u, ~Over(u) => Sound(u),
         tasks' = Moved(t, u), UNCHANGED <<nodeVars, servers, replies>>,
         crashes' \in Nat, losses' \in Nat, forgotten' \in BOOLEAN
  PROVE  IInv'
<1>1. TypeOK
  BY DEF IInv
<1>2. \A x \in DOMAIN tasks' : x \in Tasks /\ tasks'[x] \in Nat \ {0} /\ Sound(x)
  <2> TAKE x \in DOMAIN tasks'
  <2>1. /\ x \in DOMAIN tasks \/ (x = u /\ ~Over(u))
        /\ tasks'[x] \in Nat \ {0}
    BY <1>1, MovedType
  <2> QED BY <2>1 DEF IInv, Sound
<1>3. TypeOK'
  BY <1>1, <1>2 DEF TypeOK, nodeVars
<1>4. \A x \in DOMAIN tasks' : Sound(x)'
  BY <1>2 DEF Sound, Identifier, nodeVars
<1> QED BY <1>3, <1>4 DEF IInv, NoSelfQuery

----------------------------------------------------------------------------
\* At first no goroutine runs, and no table lists its owner.
LEMMA InvInit == Init => IInv
<1> SUFFICES ASSUME Init PROVE IInv
  OBVIOUS
<1> PICK begin \in Beginnings :
      /\ mode = [a \in Nodes |-> IF a \in begin.up THEN "listening" ELSE "down"]
      /\ starts = [a \in Nodes |-> IF a \in begin.up THEN 1 ELSE 0]
      /\ greeted = [a \in Nodes |-> a \in begin.up]
      /\ servers = [a \in Nodes |->
           IF a \in begin.up
           THEN {[identifier |-> <<b, 1>>, address |-> Public[b]] : b \in begin.up \ {a}}
           ELSE {}]
      /\ crashes = begin.crashes /\ losses = begin.losses /\ replies = begin.replies
  BY DEF Init
<1>1. begin \in [up : SUBSET Nodes, crashes : Nat, losses : Nat, replies : Nat \ {0}]
  BY BeginningsType
<1>2. tasks = <<>> /\ forgotten = FALSE /\ DOMAIN tasks = {}
  BY DEF Init
<1>3. ASSUME NEW a \in Nodes, NEW e \in servers[a]
      PROVE  e \in Servers /\ Resolve[e.address] # a
  <2>1. PICK b \in begin.up \ {a} : e = [identifier |-> <<b, 1>>, address |-> Public[b]]
    BY <1>3
  <2>2. b \in Nodes
    BY <1>1
  <2> QED BY <2>1, <2>2, PublicReachable DEF Servers, Identifiers
<1>4. /\ mode \in [Nodes -> {"down", "booting", "listening"}]
      /\ starts \in [Nodes -> Nat]
      /\ greeted \in [Nodes -> BOOLEAN]
  OBVIOUS
<1>5. servers \in [Nodes -> SUBSET Servers]
  BY <1>3
<1>6. TypeOK
  BY <1>1, <1>2, <1>4, <1>5 DEF TypeOK
<1> QED BY <1>2, <1>3, <1>6 DEF IInv, NoSelfQuery

\* A step of a goroutine keeps the invariant.
LEMMA NotifyKeeps ==
  ASSUME IInv, NEW t \in DOMAIN tasks, NotifyStep(t) \/ ReplyLost(t)
  PROVE  IInv'
<1>1. TypeOK /\ Sound(t)
  BY DEF IInv
<1>2. /\ t = [node |-> t.node, todo |-> t.todo, step |-> t.step, reply |-> t.reply]
      /\ t.node \in Nodes /\ t.todo \in Seq(Frames) /\ t.reply \in Servers \cup {NoReply}
      /\ mode[t.node] # "down"
  BY <1>1 DEF Sound, Tasks, Frames
<1>3. /\ crashes \in Nat /\ losses \in Nat /\ forgotten \in BOOLEAN
  BY <1>1 DEF TypeOK
<1>4. ASSUME NEW s, t.step = "post"
      PROVE  After(t.todo, s) \in Seq(Frames)
  BY <1>1, <1>2, <1>4, AfterType DEF Sound
\* A goroutine that has made a call.
<1>5. ASSUME NEW s, t.step = "post", ~Over([t EXCEPT !.todo = After(@, s)])
      PROVE  Sound([t EXCEPT !.todo = After(@, s)])
  <2>1. After(t.todo, s) \in Seq(Frames)
    BY <1>4, <1>5
  <2> QED BY <1>2, <1>5, <2>1 DEF Sound, Tasks, Frames, Over
<1>6. CASE Skip(t)
  BY <1>3, <1>5, <1>6, MoveOn DEF Skip, nodeVars, netVars
<1>7. CASE PostFails(t)
  <2>1. losses' \in Nat
    BY <1>3, <1>7 DEF PostFails
  <2> QED BY <1>3, <1>5, <1>7, <2>1, MoveOn DEF PostFails, nodeVars
<1>8. CASE ReplyLost(t)
  <2>1. losses' \in Nat
    BY <1>3, <1>8 DEF ReplyLost
  <2>2. ~Over(Ready(t.node, t.todo)) => Sound(Ready(t.node, t.todo))
    BY <1>2, ReadyType
  <2> QED BY <1>3, <1>8, <2>1, <2>2, MoveOn DEF ReplyLost, nodeVars
<1>9. CASE Register(t)
  <2> DEFINE b == Resolve[Head(t.todo).to.address]
  <2>1. PICK s \in Head(t.todo).of :
          /\ mode[b] = "listening"
          /\ LET moved == Moved(t, [t EXCEPT !.todo = After(@, s), !.step = "add",
                                             !.reply = Self(b)])
             IN tasks' = IF Knows(b, s.identifier) THEN moved
                         ELSE BagAdd(moved, Introduction(b, s))
    BY <1>9 DEF Register
  <2>2. t.step = "post" /\ UNCHANGED <<nodeVars, servers, netVars>>
    BY <1>9 DEF Register
  <2> DEFINE u == [t EXCEPT !.todo = After(@, s), !.step = "add", !.reply = Self(b)]
             moved == Moved(t, u)
  <2>3. Head(t.todo) \in Frames
    BY <1>1, <1>2, <2>2 DEF Sound
  <2>4. b \in Nodes /\ s \in Servers
    BY <2>3, ResolveType DEF Frames, Targets
  <2>5. Sound(u)
    <3>1. After(t.todo, s) \in Seq(Frames)
      BY <1>4, <2>2
    <3>2. /\ u.node = t.node /\ u.step = "add" /\ u.reply = Self(b)
          /\ u \in Tasks
      BY <1>1, <1>2, <2>4, <3>1, SelfType DEF Tasks, Frames
    <3> QED BY <1>1, <1>2, <2>4, <3>2, SelfType DEF Sound
  <2>6. Sound(Introduction(b, s))
    <3>1. <<[to |-> s, of |-> {Self(b)}]>> \in Seq(Frames)
      BY <1>1, <2>4, SelfType DEF Frames, Targets, Servers
    <3>2. ~Over(Introduction(b, s))
      BY DEF Over, Introduction, Ready
    <3> QED BY <2>1, <2>4, <3>1, <3>2, ReadyType DEF Introduction
  <2>7. /\ \A x \in DOMAIN moved : x \in DOMAIN tasks \/ x = u
        /\ \A x \in DOMAIN moved : moved[x] \in Nat \ {0}
    BY <1>1, MovedType
  <2> HIDE DEF moved
  <2>8. /\ DOMAIN BagAdd(moved, Introduction(b, s)) = DOMAIN moved \cup {Introduction(b, s)}
        /\ \A x \in DOMAIN BagAdd(moved, Introduction(b, s)) :
             BagAdd(moved, Introduction(b, s))[x] \in Nat \ {0}
    BY <2>7, BagAddType
  <2>9. tasks' = moved \/ tasks' = BagAdd(moved, Introduction(b, s))
    BY <2>1 DEF moved
  <2>10. \A x \in DOMAIN tasks' : Sound(x) /\ tasks'[x] \in Nat \ {0}
    <3> TAKE x \in DOMAIN tasks'
    <3>1. x \in DOMAIN tasks \/ x = u \/ x = Introduction(b, s)
      BY <2>7, <2>8, <2>9
    <3> QED BY <2>5, <2>6, <2>7, <2>8, <2>9, <3>1 DEF IInv
  <2>11. TypeOK'
    BY <1>1, <2>2, <2>10 DEF TypeOK, nodeVars, netVars, Sound
  <2>12. \A x \in DOMAIN tasks' : Sound(x)'
    BY <2>2, <2>10 DEF Sound, Identifier, nodeVars
  <2> QED BY <2>2, <2>11, <2>12 DEF IInv, NoSelfQuery
<1>10. CASE SendKnownServersTo(t)
  <2> DEFINE known == Known(t.node, t.reply)
             todo == IF known = {} THEN t.todo ELSE <<[to |-> t.reply, of |-> known]>> \o t.todo
  <2>1. t.step = "share" /\ t.reply \in Servers
    BY <1>1, <1>10 DEF SendKnownServersTo, Sound
  <2>2. [to |-> t.reply, of |-> known] \in Frames
    BY <1>1, <1>2, <2>1 DEF Known, Frames, Targets, Servers, TypeOK
  <2>3. todo \in Seq(Frames)
    BY <1>2, <2>2
  <2> HIDE DEF todo
  <2>4. ~Over(Ready(t.node, todo)) => Sound(Ready(t.node, todo))
    BY <1>2, <2>3, ReadyType
  <2>5. tasks' = Moved(t, Ready(t.node, todo)) /\ UNCHANGED <<nodeVars, servers, netVars>>
    BY <1>10 DEF SendKnownServersTo, todo
  <2> QED BY <1>3, <2>4, <2>5, MoveOn DEF nodeVars, netVars
<1>11. CASE AddServer(t)
  <2>1. t.step = "add" /\ UNCHANGED <<nodeVars, netVars>>
    BY <1>11 DEF AddServer
  <2>2. CASE t.reply.identifier # Identifier(t.node) /\ ~Knows(t.node, t.reply.identifier)
    <3> DEFINE u == [t EXCEPT !.step = "share"]
    <3>1. /\ servers' = [servers EXCEPT ![t.node] = @ \cup {t.reply}]
          /\ tasks' = Moved(t, u)
      BY <1>11, <2>2 DEF AddServer
    <3>2. t.reply \in Servers /\ Resolve[t.reply.address] # t.node
      BY <1>1, <2>1, <2>2 DEF Sound
    <3>3. Sound(u)
      BY <1>1, <1>2, <2>1 DEF Sound, Tasks
    <3>4. \A x \in DOMAIN tasks' : Sound(x) /\ tasks'[x] \in Nat \ {0}
      BY <1>1, <3>1, <3>3, MovedType DEF IInv
    <3>5. servers' \in [Nodes -> SUBSET Servers]
      BY <1>1, <1>2, <3>1, <3>2 DEF TypeOK
    <3>6. TypeOK'
      BY <1>1, <2>1, <3>4, <3>5 DEF TypeOK, nodeVars, netVars, Sound
    <3>7. \A x \in DOMAIN tasks' : Sound(x)'
      BY <2>1, <3>4 DEF Sound, Identifier, nodeVars
    <3>8. NoSelfQuery'
      <4> SUFFICES ASSUME NEW a \in Nodes, NEW e \in servers'[a]
                   PROVE  Resolve[e.address] # a
        BY DEF NoSelfQuery
      <4>1. e \in servers[a] \/ (a = t.node /\ e = t.reply)
        BY <1>1, <1>2, <3>1 DEF TypeOK
      <4> QED BY <3>2, <4>1 DEF IInv, NoSelfQuery
    <3> QED BY <3>6, <3>7, <3>8 DEF IInv
  <2>3. CASE ~(t.reply.identifier # Identifier(t.node) /\ ~Knows(t.node, t.reply.identifier))
    <3>1. ~Over(Ready(t.node, t.todo)) => Sound(Ready(t.node, t.todo))
      BY <1>2, ReadyType
    <3>2. tasks' = Moved(t, Ready(t.node, t.todo)) /\ UNCHANGED servers
      BY <1>11, <2>3 DEF AddServer
    <3> QED BY <1>3, <2>1, <3>1, <3>2, MoveOn DEF nodeVars, netVars
  <2> QED BY <2>2, <2>3
<1> QED BY <1>6, <1>7, <1>8, <1>9, <1>10, <1>11 DEF NotifyStep

\* A node that starts has no goroutine left that could hold a reply of the
\* process before.
LEMMA StartKeeps == ASSUME IInv, NEW a \in Nodes, Start(a) PROVE IInv'
<1>1. /\ mode[a] = "down" /\ mode' = [mode EXCEPT ![a] = "booting"]
      /\ starts' = [starts EXCEPT ![a] = @ + 1]
      /\ greeted' = [greeted EXCEPT ![a] = FALSE]
      /\ servers' = [servers EXCEPT ![a] = {}]
      /\ UNCHANGED <<tasks, netVars>>
  BY DEF Start
<1>2. TypeOK'
  BY <1>1 DEF IInv, TypeOK, netVars
<1>3. ASSUME NEW t \in DOMAIN tasks' PROVE Sound(t)'
  <2>1. t \in DOMAIN tasks /\ Sound(t) /\ t.node \in Nodes
    BY <1>1, <1>3 DEF IInv, Sound, Tasks
  <2>2. t.node # a
    BY <1>1, <2>1 DEF Sound
  <2>3. mode'[t.node] = mode[t.node] /\ starts'[t.node] = starts[t.node]
    BY <1>1, <2>1, <2>2 DEF IInv, TypeOK
  <2> QED BY <2>1, <2>3 DEF Sound, Identifier
<1>4. NoSelfQuery'
  BY <1>1 DEF IInv, TypeOK, NoSelfQuery
<1> QED BY <1>2, <1>3, <1>4 DEF IInv

\* A process that listens, and one that greets its contacts.
LEMMA ListenKeeps == ASSUME IInv, NEW a \in Nodes, Listen(a) PROVE IInv'
<1>1. /\ mode[a] = "booting" /\ mode' = [mode EXCEPT ![a] = "listening"]
      /\ UNCHANGED <<starts, greeted, servers, tasks, netVars>>
  BY DEF Listen
<1>2. TypeOK'
  BY <1>1 DEF IInv, TypeOK, netVars
<1>3. ASSUME NEW t \in DOMAIN tasks' PROVE Sound(t)'
  BY <1>1, <1>3 DEF IInv, TypeOK, Sound, Tasks, Identifier
<1> QED BY <1>1, <1>2, <1>3 DEF IInv, NoSelfQuery

\* The greetings are goroutines of the node that starts.
LEMMA GreetKeeps == ASSUME IInv, NEW a \in Nodes, OnServerUp(a) PROVE IInv'
<1> DEFINE greeting(n) == Ready(a, <<[to |-> [identifier |-> Unidentified, address |-> n],
                                      of |-> {Self(a)}]>>)
           greetings == {greeting(n) : n \in Contacts[a]}
<1>1. mode[a] # "down" /\ UNCHANGED <<mode, starts, servers, netVars>>
  BY DEF OnServerUp
<1>2. /\ DOMAIN tasks' = DOMAIN tasks \cup greetings
      /\ \A t \in DOMAIN tasks' :
           tasks'[t] = IF t \in DOMAIN tasks
                       THEN tasks[t] + (IF t \in greetings THEN 1 ELSE 0)
                       ELSE 1
  BY DEF OnServerUp
<1>3. greeted' \in [Nodes -> BOOLEAN]
  BY DEF OnServerUp, IInv, TypeOK
<1>4. ASSUME NEW t \in greetings PROVE Sound(t)
  <2>1. PICK n \in Contacts[a] : t = greeting(n)
    OBVIOUS
  <2>2. n \in Names
    BY ContactsType
  <2>3. <<[to |-> [identifier |-> Unidentified, address |-> n], of |-> {Self(a)}]>> \in Seq(Frames)
    BY <2>2, SelfType DEF IInv, Frames, Targets
  <2>4. ~Over(t)
    BY <2>1 DEF Over, Ready
  <2> QED BY <1>1, <2>1, <2>3, <2>4, ReadyType
<1> HIDE DEF greetings
<1>5. \A t \in DOMAIN tasks' : Sound(t) /\ tasks'[t] \in Nat \ {0}
  BY <1>2, <1>4 DEF IInv, TypeOK
<1>6. TypeOK'
  BY <1>1, <1>3, <1>5 DEF IInv, TypeOK, netVars, Sound
<1>7. \A t \in DOMAIN tasks' : Sound(t)'
  BY <1>1, <1>5 DEF Sound, Identifier
<1> QED BY <1>1, <1>6, <1>7 DEF IInv, NoSelfQuery

\* A process that dies takes its goroutines along.
LEMMA CrashKeeps == ASSUME IInv, NEW a \in Nodes, Crash(a) PROVE IInv'
<1>1. /\ crashes > 0 /\ crashes' = crashes - 1
      /\ mode' = [mode EXCEPT ![a] = "down"]
      /\ tasks' = [t \in {t \in DOMAIN tasks : t.node # a} |-> tasks[t]]
      /\ forgotten' = (forgotten \/ ~Complete \/ \E t \in DOMAIN tasks : t.node = a)
      /\ UNCHANGED <<starts, greeted, servers, losses, replies>>
  BY DEF Crash
<1>2. forgotten' \in BOOLEAN
  BY <1>1
<1>3. TypeOK'
  BY <1>1, <1>2 DEF IInv, TypeOK
<1>4. ASSUME NEW t \in DOMAIN tasks' PROVE Sound(t)'
  <2>1. t \in DOMAIN tasks /\ t.node # a /\ Sound(t)
    BY <1>1, <1>4 DEF IInv
  <2>2. mode'[t.node] = mode[t.node]
    BY <1>1, <2>1 DEF IInv, TypeOK, Sound, Tasks
  <2> QED BY <1>1, <2>1, <2>2 DEF Sound, Identifier
<1> QED BY <1>1, <1>3, <1>4 DEF IInv, NoSelfQuery

\* Every step keeps the invariant.
LEMMA InvStep == IInv /\ [Next]_vars => IInv'
<1> SUFFICES ASSUME IInv, [Next]_vars PROVE IInv'
  OBVIOUS
<1>1. CASE UNCHANGED vars
  <2>1. UNCHANGED <<mode, starts, greeted, servers, tasks, crashes, losses, replies, forgotten>>
    BY <1>1 DEF vars, nodeVars, netVars
  <2>2. TypeOK'
    BY <2>1 DEF IInv, TypeOK
  <2>3. \A t \in DOMAIN tasks' : Sound(t)'
    BY <2>1 DEF IInv, Sound, Identifier
  <2> QED BY <2>1, <2>2, <2>3 DEF IInv, NoSelfQuery
<1>2. CASE \E a \in Nodes : Start(a) \/ Listen(a) \/ OnServerUp(a) \/ Crash(a)
  BY <1>2, StartKeeps, ListenKeeps, GreetKeeps, CrashKeeps
<1>3. CASE \E t \in DOMAIN tasks : NotifyStep(t) \/ ReplyLost(t)
  BY <1>3, NotifyKeeps
<1> QED BY <1>1, <1>2, <1>3 DEF Next, Quiet

----------------------------------------------------------------------------
\* The invariant holds throughout.
LEMMA Invariant == Spec => []IInv
<1> QED BY InvInit, InvStep, PTL DEF Spec

\* The tables, announcements and replies keep their types.
THEOREM TypeCorrect == Spec => []TypeOK
<1>1. IInv => TypeOK
  BY DEF IInv
<1> QED BY <1>1, Invariant, PTL

\* No server is ever in its own table, so that none forwards a GET to itself,
\* however many servers start, crash, come back and tell each other of third
\* ones, and whatever announcements are lost.
THEOREM NeverListsItself == Spec => []NoSelfQuery
<1>1. IInv => NoSelfQuery
  BY DEF IInv
<1> QED BY <1>1, Invariant, PTL

----------------------------------------------------------------------------
(***************************************************************************)
(* Whoever is told of a server comes to know it.  A pair of servers is     *)
(* followed through the tasks: b learns of c if b has c in its table, has  *)
(* c to call or its reply to add, or is going to be told of it.            *)
(***************************************************************************)

\* The calls that are listed in todo.
Planned(todo) == {todo[i] : i \in DOMAIN todo}

\* The task calls c, or has the reply of c in hand.
Aims(t, c) ==
  \/ \E f \in Planned(t.todo) : Resolve[f.to.address] = c
  \/ t.step = "add" /\ t.reply.identifier = Identifier(c)

\* The task is going to tell b, from elsewhere, of c.
Tells(t, b, c) ==
  /\ t.node # b
  /\ \E f \in Planned(t.todo) :
       Resolve[f.to.address] = b /\ \E s \in f.of : s.identifier = Identifier(c)

Calling(b, c) == \E t \in DOMAIN tasks : t.node = b /\ Aims(t, c)
Told(b, c) == \E t \in DOMAIN tasks : Tells(t, b, c)
Knowing(b, c) == Knows(b, Identifier(c))
Learns(b, c) == Knowing(b, c) \/ Calling(b, c) \/ Told(b, c)

\* The node a has just added b and is going to tell it of all the others.
Sharing(a, b) ==
  \E t \in DOMAIN tasks :
    t.node = a /\ t.step = "share" /\ t.reply.identifier = Identifier(b)

\* An entry names the node its address leads to, with one of its starts.
Proper(e) ==
  /\ Resolve[e.address] = e.identifier[1]
  /\ e.identifier[2] \in 1..starts[e.identifier[1]]

\* Nobody speaks of processes that never were, and only servers in the table
\* are told of the others.
ProperTask(t) ==
  /\ \A f \in Planned(t.todo) :
       /\ f.to.identifier # Unidentified => Proper(f.to)
       /\ \A s \in f.of : Proper(s)
  /\ t.step # "post" => Proper(t.reply)
  /\ t.step = "share" => Knows(t.node, t.reply.identifier)

AllProper ==
  /\ \A a \in Nodes : mode[a] # "down" => starts[a] > 0
  /\ \A a \in Nodes : \A e \in servers[a] : Proper(e)
  /\ \A t \in DOMAIN tasks : ProperTask(t)

\* The replies that a has in hand come from the processes that still run.
Fresh(a) ==
  \A t \in DOMAIN tasks :
    t.node = a /\ t.step # "post" =>
      t.reply.identifier = Identifier(t.reply.identifier[1])

\* Whom a knows or calls learns of a.
Answering(a) ==
  \A b \in Nodes \ {a} : Knowing(a, b) \/ Calling(a, b) => Learns(b, a)

\* Two servers that a knows learn of each other, or a will tell one of the other.
Introducing(a) ==
  \A b, c \in Nodes \ {a} :
    b # c /\ Knowing(a, b) /\ Knowing(a, c) =>
      Learns(b, c) \/ Learns(c, b) \/ Sharing(a, b) \/ Sharing(a, c)

\* The servers in up know each other, and the others list enough of each other.
Connects(up) ==
  \A part \in SUBSET Nodes :
    part \notin {{}, Nodes} =>
      \E a \in part, b \in Nodes \ part :
        \/ {a, b} \subseteq up
        \/ a \notin up /\ Lists(a, b)
        \/ b \notin up /\ Lists(b, a)

EachListsAnother == \A a \in Nodes : \E b \in Nodes \ {a} : Lists(a, b)

\* Before the first crash no process has died, and any number of them may be
\* starting.
FirstStarts(up) ==
  /\ \A a \in Nodes : starts[a] = (IF mode[a] = "down" THEN 0 ELSE 1)
  /\ \A a \in Nodes : mode[a] = "down" => servers[a] = {}
  /\ \A a \in Nodes : Answering(a) /\ Introducing(a)
  /\ \A a, b \in up : a # b => Learns(a, b)
  /\ \A a \in Nodes \ up : greeted[a] =>
       \A b \in Nodes \ {a} : Lists(a, b) => Learns(b, a)
  /\ Connects(up)
  /\ crashes > 0 => EachListsAnother

\* A process of a that has come back is heard of by one that it lists, and
\* hears of the others through those that know it.
Returning(a) ==
  /\ Fresh(a)
  /\ Answering(a)
  /\ \A b, c \in Nodes \ {a} : b # c /\ Knowing(b, a) => Learns(a, c) \/ Sharing(b, a)
  /\ greeted[a] => \E b \in Nodes \ {a} : Learns(a, b) /\ Learns(b, a)

\* Since the last crash, that of a, all others have known each other.
OneReturns(a) ==
  /\ \A b \in Nodes \ {a} : mode[b] = "listening" /\ greeted[b]
  /\ \A b, c \in Nodes \ {a} : b # c => Knowing(b, c)
  /\ mode[a] # "down" => Returning(a)
  /\ EachListsAnother

Meeting == (\E up \in SUBSET Nodes : FirstStarts(up)) \/ (\E a \in Nodes : OneReturns(a))

\* Unless an announcement was lost, all servers are going to have met.
MeetInv == IInv /\ (forgotten \/ (AllProper /\ Meeting))

----------------------------------------------------------------------------
\* Taking the first call from a list of calls, and putting one before it.
LEMMA PlannedSplit ==
  ASSUME NEW todo \in Seq(Frames), todo # <<>>
  PROVE  Planned(todo) = {Head(todo)} \cup Planned(Tail(todo))
<1>1. /\ Len(todo) \in Nat \ {0} /\ Tail(todo) \in Seq(Frames) /\ Len(Tail(todo)) = Len(todo) - 1
      /\ DOMAIN todo = 1..Len(todo) /\ DOMAIN Tail(todo) = 1..(Len(todo) - 1)
      /\ Head(todo) = todo[1]
      /\ \A i \in 1..(Len(todo) - 1) : Tail(todo)[i] = todo[i + 1]
  OBVIOUS
<1>2. ASSUME NEW f \in Planned(todo) PROVE f \in {Head(todo)} \cup Planned(Tail(todo))
  <2>1. PICK i \in 1..Len(todo) : f = todo[i]
    BY <1>1 DEF Planned
  <2>2. CASE i = 1
    BY <1>1, <2>1, <2>2
  <2>3. CASE i # 1
    <3>1. i - 1 \in 1..(Len(todo) - 1) /\ (i - 1) + 1 = i
      BY <1>1, <2>3
    <3>2. f = Tail(todo)[i - 1]
      BY <1>1, <2>1, <3>1
    <3> QED BY <1>1, <3>1, <3>2 DEF Planned
  <2> QED BY <2>2, <2>3
<1>3. ASSUME NEW f \in Planned(Tail(todo)) PROVE f \in Planned(todo)
  <2>1. PICK i \in 1..(Len(todo) - 1) : f = Tail(todo)[i]
    BY <1>1 DEF Planned
  <2>2. i + 1 \in 1..Len(todo) /\ f = todo[i + 1]
    BY <1>1, <2>1
  <2> QED BY <1>1, <2>2 DEF Planned
<1>4. Head(todo) \in Planned(todo)
  BY <1>1 DEF Planned
<1> QED BY <1>2, <1>3, <1>4

\* The same of a list in front of which a call is put.
LEMMA PlannedPush ==
  ASSUME NEW todo \in Seq(Frames), NEW f \in Frames
  PROVE  Planned(<<f>> \o todo) = {f} \cup Planned(todo)
<1> DEFINE all == <<f>> \o todo
<1>1. all \in Seq(Frames) /\ all # <<>> /\ Head(all) = f /\ Tail(all) = todo
  OBVIOUS
<1> HIDE DEF all
<1>2. Planned(all) = {f} \cup Planned(todo)
  BY <1>1, PlannedSplit
<1> QED BY <1>2 DEF all

\* A call made leaves what the other calls were to tell, and of its own all
\* but the server s.
LEMMA PlannedAfter ==
  ASSUME NEW todo \in Seq(Frames), todo # <<>>, NEW s
  PROVE  /\ \A f \in Planned(After(todo, s)) :
              \E g \in Planned(todo) : f.to = g.to /\ f.of \subseteq g.of
         /\ \A g \in Planned(todo) :
              \/ g \in Planned(After(todo, s))
              \/ g = Head(todo) /\ g.of \subseteq {s}
              \/ g = Head(todo) /\ \E f \in Planned(After(todo, s)) :
                                   f.to = g.to /\ f.of = g.of \ {s}
<1> DEFINE left == [Head(todo) EXCEPT !.of = @ \ {s}]
<1>1. Head(todo) \in Frames /\ Tail(todo) \in Seq(Frames)
  OBVIOUS
<1>2. left \in Frames /\ left.to = Head(todo).to /\ left.of = Head(todo).of \ {s}
  BY <1>1 DEF Frames
<1>3. Planned(todo) = {Head(todo)} \cup Planned(Tail(todo))
  BY PlannedSplit
<1>4. CASE left.of = {}
  <2>1. After(todo, s) = Tail(todo)
    BY <1>4 DEF After
  <2> QED BY <1>2, <1>3, <1>4, <2>1
<1>5. CASE left.of # {}
  <2>1. After(todo, s) = <<left>> \o Tail(todo)
    BY <1>5 DEF After
  <2> HIDE DEF left
  <2>2. Planned(After(todo, s)) = {left} \cup Planned(Tail(todo))
    BY <1>1, <1>2, <2>1, PlannedPush
  <2> QED BY <1>2, <1>3, <2>2
<1> QED BY <1>4, <1>5

\* A goroutine that moves on leaves the others where they are.
LEMMA MovedKeeps ==
  ASSUME TypeOK, NEW t \in DOMAIN tasks, NEW u
  PROVE  /\ \A x \in DOMAIN tasks : x = t \/ x \in DOMAIN Moved(t, u)
         /\ ~Over(u) => u \in DOMAIN Moved(t, u)
<1> DEFINE rest == BagRemove(tasks, t)
<1>1. /\ \A x \in DOMAIN rest : rest[x] \in Nat \ {0}
      /\ \A x \in DOMAIN tasks : x = t \/ x \in DOMAIN rest
  <2>1. CASE tasks[t] = 1
    BY <2>1, BagRemoveType DEF TypeOK, BagRemove
  <2>2. CASE tasks[t] # 1
    BY <2>2, BagRemoveType DEF TypeOK, BagRemove
  <2> QED BY <2>1, <2>2
<1>2. CASE Over(u)
  BY <1>1, <1>2 DEF Moved
<1>3. CASE ~Over(u)
  <2>1. Moved(t, u) = BagAdd(rest, u)
    BY <1>3 DEF Moved
  <2> HIDE DEF rest
  <2>2. DOMAIN BagAdd(rest, u) = DOMAIN rest \cup {u}
    BY <1>1, BagAddType
  <2> QED BY <1>1, <2>1, <2>2
<1> QED BY <1>2, <1>3

----------------------------------------------------------------------------
(***************************************************************************)
(* What a step of the goroutine t, which becomes u, does to the pairs.     *)
(***************************************************************************)

\* The step disturbs no other goroutine and no process, and starts at most an
\* introduction.  A server enters the table when its reply is added.
Follows(t, u) ==
  /\ u.node = t.node
  /\ UNCHANGED <<nodeVars, crashes, forgotten>>
  /\ \A x \in DOMAIN tasks : x = t \/ x \in DOMAIN tasks'
  /\ u.step # "post" \/ Planned(u.todo) # {} => u \in DOMAIN tasks'
  /\ \A x \in DOMAIN tasks' :
       \/ x \in DOMAIN tasks
       \/ x = u
       \/ \E b \in Nodes, s \in Servers : Proper(s) /\ starts[b] > 0 /\ x = Introduction(b, s)
  /\ \A a \in Nodes : servers[a] \subseteq servers'[a]
  /\ \A a \in Nodes : \A e \in servers'[a] :
       \/ e \in servers[a]
       \/ a = t.node /\ e = t.reply /\ t.step = "add" /\ u.step = "share" /\ u.reply = t.reply

\* What t was going to do for a pair is done, started, or left to u.
Fulfils(t, u) ==
  /\ \A c \in Nodes \ {t.node} : Aims(t, c) =>
       Aims(u, c) \/ \E e \in servers'[t.node] : e.identifier = Identifier(c)
  /\ \A b, c \in Nodes : Tells(t, b, c) =>
       \/ Tells(u, b, c)
       \/ Knowing(b, c)
       \/ \E x \in DOMAIN tasks' : x.node = b /\ Aims(x, c)
  /\ t.step = "share" => \A b, c \in Nodes :
       /\ t.reply.identifier = Identifier(b)
       /\ t.node # b /\ t.node # c /\ b # c
       /\ Knowing(t.node, c)
       => Tells(u, b, c)

\* Where what u is going to do comes from.
Arises(t, u) ==
  /\ \A c \in Nodes : Aims(u, c) =>
       Aims(t, c) \/ (t.step = "share" /\ Resolve[t.reply.address] = c)
  /\ \A f \in Planned(u.todo) :
       /\ f.to.identifier # Unidentified => Proper(f.to)
       /\ \A s \in f.of : Proper(s)
  /\ u.step # "post" =>
       \/ t.step = "add" /\ u.step = "share" /\ u.reply = t.reply /\ t.reply \in servers'[t.node]
       \/ u.step = "add" /\ \E b \in Nodes : u.reply = Self(b) /\ starts[b] > 0

Effect(t, u) == Follows(t, u) /\ Fulfils(t, u) /\ Arises(t, u)

\* Identifiers name their nodes.
LEMMA IdentifierOf ==
  /\ \A a \in Nodes : Identifier(a)[1] = a /\ Identifier(a)[2] = starts[a]
  /\ \A a, b \in Nodes : Identifier(a) = Identifier(b) => a = b
BY DEF Identifier

\* An introduction consists of one call.
LEMMA IntroductionPlans ==
  ASSUME NEW b, NEW s
  PROVE  Planned(Introduction(b, s).todo) = {[to |-> s, of |-> {Self(b)}]}
<1> DEFINE f == [to |-> s, of |-> {Self(b)}]
<1>1. Introduction(b, s).todo = <<f>>
  BY DEF Introduction, Ready
<1> HIDE DEF f
<1>2. DOMAIN <<f>> = {1} /\ <<f>>[1] = f
  OBVIOUS
<1>3. Planned(<<f>>) = {f}
  BY <1>2 DEF Planned
<1> QED BY <1>1, <1>3 DEF f

\* A goroutine that only moves on.
LEMMA MovedFollows ==
  ASSUME IInv, NEW t \in DOMAIN tasks, NEW u, u.node = t.node, tasks' = Moved(t, u),
         UNCHANGED <<nodeVars, servers, crashes, forgotten>>
  PROVE  Follows(t, u)
<1>1. /\ \A x \in DOMAIN tasks : x = t \/ x \in DOMAIN tasks'
      /\ ~Over(u) => u \in DOMAIN tasks'
      /\ \A x \in DOMAIN tasks' : x \in DOMAIN tasks \/ x = u
  BY MovedKeeps, MovedType DEF IInv
<1>2. u.step # "post" \/ Planned(u.todo) # {} => ~Over(u)
  BY DEF Over, Planned
<1> QED BY <1>1, <1>2 DEF Follows

\* The types of what a goroutine holds.
LEMMA TaskType ==
  ASSUME IInv, NEW t \in DOMAIN tasks
  PROVE  /\ t = [node |-> t.node, todo |-> t.todo, step |-> t.step, reply |-> t.reply]
         /\ t.node \in Nodes /\ mode[t.node] # "down"
         /\ t.todo \in Seq(Frames)
         /\ t.step = "post" => t.todo # <<>> /\ Head(t.todo) \in Frames
                               /\ Head(t.todo) \in Planned(t.todo)
         /\ t.step # "post" => t.reply \in Servers
<1>1. TypeOK /\ Sound(t)
  BY DEF IInv
<1>2. /\ t = [node |-> t.node, todo |-> t.todo, step |-> t.step, reply |-> t.reply]
      /\ t.node \in Nodes /\ t.todo \in Seq(Frames)
  BY <1>1 DEF Sound, Tasks, Frames
<1>3. t.step = "post" => t.todo # <<>> /\ Head(t.todo) \in Frames /\ Head(t.todo) \in Planned(t.todo)
  BY <1>1, <1>2, PlannedSplit DEF Sound
<1> QED BY <1>1, <1>2, <1>3 DEF Sound

\* A goroutine skips only calls to its own node.
LEMMA SelfTarget ==
  ASSUME IInv, AllProper, NEW a \in Nodes, NEW to \in Targets,
         to.identifier # Unidentified => Proper(to), TargetIsSelf(a, to)
  PROVE  Resolve[to.address] = a
BY PublicReachable DEF TargetIsSelf, Proper, Identifier, Targets

\* A call that is skipped: nobody else was meant.
LEMMA SkipEffect ==
  ASSUME IInv, AllProper, NEW t \in DOMAIN tasks, Skip(t)
  PROVE  \E u : Effect(t, u)
<1> PICK s \in Head(t.todo).of :
      /\ TargetIsSelf(t.node, Head(t.todo).to)
      /\ tasks' = Moved(t, [t EXCEPT !.todo = After(@, s)])
  BY DEF Skip
<1> DEFINE u == [t EXCEPT !.todo = After(@, s)]
<1>1. /\ t.step = "post" /\ UNCHANGED <<nodeVars, servers, crashes, forgotten>>
  BY DEF Skip, netVars
<1>2. /\ u.node = t.node /\ u.todo = After(t.todo, s) /\ u.step = "post"
  BY <1>1, TaskType
<1>3. tasks' = Moved(t, u)
  OBVIOUS
<1> HIDE DEF u
<1>4. /\ \A f \in Planned(u.todo) : \E g \in Planned(t.todo) : f.to = g.to /\ f.of \subseteq g.of
      /\ \A g \in Planned(t.todo) :
           \/ g \in Planned(u.todo)
           \/ g = Head(t.todo) /\ g.of \subseteq {s}
           \/ g = Head(t.todo) /\ \E f \in Planned(u.todo) : f.to = g.to /\ f.of = g.of \ {s}
  BY <1>1, <1>2, TaskType, PlannedAfter
<1>5. ProperTask(t) /\ Head(t.todo) \in Planned(t.todo) /\ Head(t.todo) \in Frames
  BY <1>1, TaskType DEF AllProper
<1>6. Resolve[Head(t.todo).to.address] = t.node
  <2>1. Head(t.todo).to \in Targets
    BY <1>5 DEF Frames
  <2> QED BY <1>5, <2>1, TaskType, SelfTarget DEF ProperTask
<1>7. Follows(t, u)
  BY <1>1, <1>2, <1>3, MovedFollows
<1>8. Fulfils(t, u)
  <2>1. ASSUME NEW c \in Nodes \ {t.node}, Aims(t, c) PROVE Aims(u, c)
    BY <1>1, <1>4, <1>6, <2>1 DEF Aims
  <2>2. ASSUME NEW b \in Nodes, NEW c \in Nodes, Tells(t, b, c) PROVE Tells(u, b, c)
    <3>1. PICK g \in Planned(t.todo) :
            Resolve[g.to.address] = b /\ \E e \in g.of : e.identifier = Identifier(c)
      BY <2>2 DEF Tells
    <3>2. t.node # b /\ g \in Planned(u.todo)
      BY <1>4, <1>6, <2>2, <3>1 DEF Tells
    <3> QED BY <1>2, <3>1, <3>2 DEF Tells
  <2> QED BY <1>1, <2>1, <2>2 DEF Fulfils
<1>9. Arises(t, u)
  <2>1. ASSUME NEW c \in Nodes, Aims(u, c) PROVE Aims(t, c)
    BY <1>2, <1>4, <2>1 DEF Aims
  <2>2. \A f \in Planned(u.todo) :
          /\ f.to.identifier # Unidentified => Proper(f.to)
          /\ \A e \in f.of : Proper(e)
    <3> TAKE f \in Planned(u.todo)
    <3>1. PICK g \in Planned(t.todo) : f.to = g.to /\ f.of \subseteq g.of
      BY <1>4
    <3> QED BY <1>5, <3>1 DEF ProperTask
  <2> QED BY <1>2, <2>1, <2>2 DEF Arises
<1> QED BY <1>7, <1>8, <1>9 DEF Effect

\* A call that is made: whoever answers it is told and called.
LEMMA RegisterEffect ==
  ASSUME IInv, AllProper, NEW t \in DOMAIN tasks, Register(t)
  PROVE  \E u : Effect(t, u)
<1> DEFINE b0 == Resolve[Head(t.todo).to.address]
<1> PICK s \in Head(t.todo).of :
      /\ mode[b0] = "listening"
      /\ LET moved == Moved(t, [t EXCEPT !.todo = After(@, s), !.step = "add",
                                         !.reply = Self(b0)])
         IN tasks' = IF Knows(b0, s.identifier) THEN moved
                     ELSE BagAdd(moved, Introduction(b0, s))
  BY DEF Register
<1> DEFINE u == [t EXCEPT !.todo = After(@, s), !.step = "add", !.reply = Self(b0)]
           moved == Moved(t, u)
<1>1. t.step = "post" /\ UNCHANGED <<nodeVars, servers, crashes, forgotten>>
  BY DEF Register, netVars
<1>2. /\ u.node = t.node /\ u.todo = After(t.todo, s) /\ u.step = "add" /\ u.reply = Self(b0)
  BY <1>1, TaskType
<1>3. /\ Knows(b0, s.identifier) => tasks' = moved
      /\ ~Knows(b0, s.identifier) => tasks' = BagAdd(moved, Introduction(b0, s))
  OBVIOUS
<1> HIDE DEF u
<1>4. /\ \A f \in Planned(u.todo) : \E g \in Planned(t.todo) : f.to = g.to /\ f.of \subseteq g.of
      /\ \A g \in Planned(t.todo) :
           \/ g \in Planned(u.todo)
           \/ g = Head(t.todo) /\ g.of \subseteq {s}
           \/ g = Head(t.todo) /\ \E f \in Planned(u.todo) : f.to = g.to /\ f.of = g.of \ {s}
  <2>1. t.todo \in Seq(Frames) /\ t.todo # <<>>
    BY <1>1, TaskType
  <2> QED BY <1>2, <2>1, PlannedAfter
<1>5. ProperTask(t) /\ Head(t.todo) \in Planned(t.todo) /\ Head(t.todo) \in Frames
  BY <1>1, TaskType DEF AllProper
<1>6. /\ b0 \in Nodes /\ starts[b0] > 0 /\ Self(b0).identifier = Identifier(b0)
      /\ s \in Servers /\ Proper(s) /\ Resolve[s.address] = s.identifier[1]
  <2>1. b0 \in Nodes /\ s \in Servers /\ Proper(s)
    BY <1>5, ResolveType DEF ProperTask, Frames, Targets
  <2> QED BY <2>1 DEF AllProper, Self, Proper
<1>7. /\ \A x \in DOMAIN tasks : x = t \/ x \in DOMAIN tasks'
      /\ u \in DOMAIN tasks'
      /\ \A x \in DOMAIN tasks' : x \in DOMAIN tasks \/ x = u \/ x = Introduction(b0, s)
      /\ ~Knows(b0, s.identifier) => Introduction(b0, s) \in DOMAIN tasks'
  <2>1. TypeOK
    BY DEF IInv
  <2>2. /\ \A x \in DOMAIN tasks : x = t \/ x \in DOMAIN moved
        /\ u \in DOMAIN moved
        /\ \A x \in DOMAIN moved : x \in DOMAIN tasks \/ x = u
        /\ \A x \in DOMAIN moved : moved[x] \in Nat \ {0}
    BY <1>2, <2>1, MovedKeeps, MovedType DEF Over
  <2> HIDE DEF moved
  <2>3. DOMAIN BagAdd(moved, Introduction(b0, s)) = DOMAIN moved \cup {Introduction(b0, s)}
    BY <2>2, BagAddType
  <2> QED BY <1>3, <2>2, <2>3
<1>8. Follows(t, u)
  BY <1>1, <1>2, <1>6, <1>7 DEF Follows
<1>9. Fulfils(t, u)
  <2>1. ASSUME NEW c \in Nodes \ {t.node}, Aims(t, c) PROVE Aims(u, c)
    <3>1. PICK g \in Planned(t.todo) : Resolve[g.to.address] = c
      BY <1>1, <2>1 DEF Aims
    <3>2. CASE c = b0
      BY <1>2, <1>6, <3>2 DEF Aims
    <3>3. CASE c # b0
      BY <1>4, <3>1, <3>3 DEF Aims
    <3> QED BY <3>2, <3>3
  <2>2. ASSUME NEW b \in Nodes, NEW c \in Nodes, Tells(t, b, c)
        PROVE  \/ Tells(u, b, c)
               \/ Knowing(b, c)
               \/ \E x \in DOMAIN tasks' : x.node = b /\ Aims(x, c)
    <3>1. PICK g \in Planned(t.todo) :
            Resolve[g.to.address] = b /\ \E e \in g.of : e.identifier = Identifier(c)
      BY <2>2 DEF Tells
    <3>2. PICK e \in g.of : e.identifier = Identifier(c)
      BY <3>1
    <3>3. CASE g \in Planned(u.todo)
      BY <1>2, <2>2, <3>1, <3>3 DEF Tells
    <3>4. CASE g \notin Planned(u.todo) /\ e # s
      <4>1. PICK f \in Planned(u.todo) : f.to = g.to /\ f.of = g.of \ {s}
        BY <1>4, <3>2, <3>4
      <4> QED BY <1>2, <2>2, <3>1, <3>2, <3>4, <4>1 DEF Tells
    <3>5. CASE g \notin Planned(u.todo) /\ e = s
      <4>1. b = b0 /\ s.identifier = Identifier(c)
        BY <1>4, <3>1, <3>2, <3>5
      <4>2. CASE Knows(b0, s.identifier)
        BY <4>1, <4>2 DEF Knowing
      <4>3. CASE ~Knows(b0, s.identifier)
        <5> DEFINE x == Introduction(b0, s)
        <5>1. x \in DOMAIN tasks' /\ x.node = b
          BY <1>7, <4>1, <4>3 DEF Introduction, Ready
        <5>2. [to |-> s, of |-> {Self(b0)}] \in Planned(x.todo)
          BY IntroductionPlans
        <5>3. Resolve[s.address] = c
          BY <1>6, <4>1, IdentifierOf
        <5>4. Aims(x, c)
          BY <5>2, <5>3 DEF Aims
        <5> QED BY <5>1, <5>4
      <4> QED BY <4>2, <4>3
    <3> QED BY <3>3, <3>4, <3>5
  <2> QED BY <1>1, <2>1, <2>2 DEF Fulfils
<1>10. Arises(t, u)
  <2>1. ASSUME NEW c \in Nodes, Aims(u, c) PROVE Aims(t, c)
    <3>1. CASE c = b0
      BY <1>5, <3>1 DEF Aims
    <3>2. CASE c # b0
      <4>1. u.reply.identifier # Identifier(c)
        BY <1>2, <1>6, <3>2, IdentifierOf
      <4>2. PICK f \in Planned(u.todo) : Resolve[f.to.address] = c
        BY <2>1, <4>1 DEF Aims
      <4>3. PICK g \in Planned(t.todo) : f.to = g.to
        BY <1>4
      <4> QED BY <4>2, <4>3 DEF Aims
    <3> QED BY <3>1, <3>2
  <2>2. \A f \in Planned(u.todo) :
          /\ f.to.identifier # Unidentified => Proper(f.to)
          /\ \A e \in f.of : Proper(e)
    <3> TAKE f \in Planned(u.todo)
    <3>1. PICK g \in Planned(t.todo) : f.to = g.to /\ f.of \subseteq g.of
      BY <1>4
    <3> QED BY <1>5, <3>1 DEF ProperTask
  <2> QED BY <1>2, <1>6, <2>1, <2>2 DEF Arises
<1> QED BY <1>8, <1>9, <1>10 DEF Effect

\* A reply that is added, or is known already.
LEMMA AddServerEffect ==
  ASSUME IInv, AllProper, NEW t \in DOMAIN tasks, AddServer(t)
  PROVE  \E u : Effect(t, u)
<1> DEFINE new == t.reply.identifier # Identifier(t.node) /\ ~Knows(t.node, t.reply.identifier)
           u == IF new THEN [t EXCEPT !.step = "share"] ELSE Ready(t.node, t.todo)
<1>1. t.step = "add" /\ UNCHANGED <<nodeVars, crashes, forgotten>> /\ tasks' = Moved(t, u)
  BY DEF AddServer, netVars
<1>2. /\ u.node = t.node /\ u.todo = t.todo
      /\ new => u.step = "share" /\ u.reply = t.reply
      /\ ~new => u.step = "post"
  BY TaskType DEF Ready
<1>3. /\ new => servers' = [servers EXCEPT ![t.node] = @ \cup {t.reply}]
      /\ ~new => servers' = servers
  BY DEF AddServer
<1> HIDE DEF u
<1>4. /\ \A x \in DOMAIN tasks : x = t \/ x \in DOMAIN tasks'
      /\ ~Over(u) => u \in DOMAIN tasks'
      /\ \A x \in DOMAIN tasks' : x \in DOMAIN tasks \/ x = u
  BY <1>1, MovedKeeps, MovedType DEF IInv
<1>5. u.step # "post" \/ Planned(u.todo) # {} => ~Over(u)
  BY DEF Over, Planned
<1>6. t.node \in Nodes /\ servers \in [Nodes -> SUBSET Servers]
  BY TaskType DEF IInv, TypeOK
<1>7. /\ \A a \in Nodes : servers[a] \subseteq servers'[a]
      /\ \A a \in Nodes : \A e \in servers'[a] : e \in servers[a] \/ (new /\ a = t.node /\ e = t.reply)
      /\ new => t.reply \in servers'[t.node]
  BY <1>3, <1>6
<1>8. Follows(t, u)
  <2>1. \A a \in Nodes : \A e \in servers'[a] :
          \/ e \in servers[a]
          \/ a = t.node /\ e = t.reply /\ t.step = "add" /\ u.step = "share" /\ u.reply = t.reply
    BY <1>1, <1>2, <1>7
  <2> HIDE DEF new
  <2> QED BY <1>1, <1>2, <1>4, <1>5, <1>7, <2>1 DEF Follows
<1>9. Fulfils(t, u)
  <2>1. ASSUME NEW c \in Nodes \ {t.node}, Aims(t, c)
        PROVE  Aims(u, c) \/ \E e \in servers'[t.node] : e.identifier = Identifier(c)
    <3>1. CASE \E f \in Planned(t.todo) : Resolve[f.to.address] = c
      BY <1>2, <3>1 DEF Aims
    <3>2. CASE t.reply.identifier = Identifier(c)
      <4>1. t.reply.identifier # Identifier(t.node)
        BY <1>6, <3>2, IdentifierOf
      <4>2. CASE new
        BY <1>7, <3>2, <4>2
      <4>3. CASE ~new
        BY <1>3, <3>2, <4>1, <4>3 DEF Knows
      <4> QED BY <4>2, <4>3
    <3> QED BY <2>1, <3>1, <3>2 DEF Aims
  <2>2. ASSUME NEW b \in Nodes, NEW c \in Nodes, Tells(t, b, c) PROVE Tells(u, b, c)
    BY <1>2, <2>2 DEF Tells
  <2> QED BY <1>1, <2>1, <2>2 DEF Fulfils
<1>10. Arises(t, u)
  <2>1. ASSUME NEW c \in Nodes, Aims(u, c) PROVE Aims(t, c)
    BY <1>1, <1>2, <2>1 DEF Aims
  <2>2. ProperTask(t)
    BY DEF AllProper
  <2>3. u.step # "post" =>
          t.step = "add" /\ u.step = "share" /\ u.reply = t.reply /\ t.reply \in servers'[t.node]
    BY <1>1, <1>2, <1>7
  <2>4. \A f \in Planned(u.todo) :
          /\ f.to.identifier # Unidentified => Proper(f.to)
          /\ \A e \in f.of : Proper(e)
    BY <1>2, <2>2 DEF ProperTask
  <2> HIDE DEF new
  <2> QED BY <2>1, <2>3, <2>4 DEF Arises
<1> QED BY <1>8, <1>9, <1>10 DEF Effect

\* A server that was added is told of all the others.
LEMMA ShareEffect ==
  ASSUME IInv, AllProper, NEW t \in DOMAIN tasks, SendKnownServersTo(t)
  PROVE  \E u : Effect(t, u)
<1> DEFINE known == Known(t.node, t.reply)
           f0 == [to |-> t.reply, of |-> known]
           todo == IF known = {} THEN t.todo ELSE <<f0>> \o t.todo
           u == Ready(t.node, todo)
<1>1. t.step = "share" /\ UNCHANGED <<nodeVars, servers, crashes, forgotten>> /\ tasks' = Moved(t, u)
  BY DEF SendKnownServersTo, netVars
<1>2. /\ t.node \in Nodes /\ t.todo \in Seq(Frames) /\ t.reply \in Servers
      /\ ProperTask(t)
  BY <1>1, TaskType DEF AllProper
<1>3. /\ known \subseteq servers[t.node] /\ servers[t.node] \subseteq Servers
      /\ \A e \in servers[t.node] :
           e.identifier # t.reply.identifier /\ e.identifier # Identifier(t.node) => e \in known
  BY <1>2 DEF Known, IInv, TypeOK
<1>4. f0 \in Frames /\ f0.to = t.reply /\ f0.of = known
  BY <1>2, <1>3 DEF Frames, Targets, Servers
<1> HIDE DEF known, f0
<1>5. /\ u.node = t.node /\ u.step = "post" /\ u.todo = todo
      /\ known = {} => Planned(todo) = Planned(t.todo)
      /\ known # {} => Planned(todo) = {f0} \cup Planned(t.todo)
  BY <1>2, <1>4, PlannedPush DEF Ready
<1> HIDE DEF u, todo
<1>6. Follows(t, u)
  BY <1>1, <1>5, MovedFollows
<1>7. Fulfils(t, u)
  <2>1. ASSUME NEW c \in Nodes \ {t.node}, Aims(t, c) PROVE Aims(u, c)
    BY <1>1, <1>5, <2>1 DEF Aims
  <2>2. ASSUME NEW b \in Nodes, NEW c \in Nodes, Tells(t, b, c) PROVE Tells(u, b, c)
    BY <1>5, <2>2 DEF Tells
  <2>3. ASSUME NEW b \in Nodes, NEW c \in Nodes, t.reply.identifier = Identifier(b),
               t.node # b, t.node # c, b # c, Knowing(t.node, c)
        PROVE  Tells(u, b, c)
    <3>1. PICK e \in servers[t.node] : e.identifier = Identifier(c)
      BY <2>3 DEF Knowing, Knows
    <3>2. e \in known
      BY <1>2, <1>3, <2>3, <3>1, IdentifierOf
    <3>3. Resolve[f0.to.address] = b
      BY <1>1, <1>2, <1>4, <2>3, IdentifierOf DEF ProperTask, Proper
    <3>4. f0 \in Planned(u.todo)
      BY <1>5, <3>2
    <3> QED BY <1>4, <1>5, <2>3, <3>1, <3>2, <3>3, <3>4 DEF Tells
  <2> QED BY <2>1, <2>2, <2>3 DEF Fulfils
<1>8. Arises(t, u)
  <2>1. ASSUME NEW c \in Nodes, Aims(u, c)
        PROVE  Aims(t, c) \/ (t.step = "share" /\ Resolve[t.reply.address] = c)
    BY <1>1, <1>4, <1>5, <2>1 DEF Aims
  <2>2. \A f \in Planned(u.todo) :
          /\ f.to.identifier # Unidentified => Proper(f.to)
          /\ \A e \in f.of : Proper(e)
    <3> TAKE f \in Planned(u.todo)
    <3>1. CASE f \in Planned(t.todo)
      BY <1>2, <3>1 DEF ProperTask
    <3>2. CASE f = f0
      <4>1. Proper(t.reply) /\ \A e \in known : Proper(e)
        BY <1>1, <1>2, <1>3 DEF ProperTask, AllProper
      <4> QED BY <1>4, <3>2, <4>1
    <3> QED BY <1>5, <3>1, <3>2
  <2> QED BY <1>5, <2>1, <2>2 DEF Arises
<1> QED BY <1>6, <1>7, <1>8 DEF Effect

\* All steps that lose nothing.
LEMMA StepEffect ==
  ASSUME IInv, AllProper, NEW t \in DOMAIN tasks, NotifyStep(t) \/ ReplyLost(t), ~forgotten'
  PROVE  \E u : Effect(t, u)
BY SkipEffect, RegisterEffect, AddServerEffect, ShareEffect DEF NotifyStep, PostFails, ReplyLost

----------------------------------------------------------------------------
\* As long as no process starts, identifiers mean what they meant.
LEMMA SameStarts ==
  ASSUME starts' = starts
  PROVE  /\ \A a : Identifier(a)' = Identifier(a) /\ Self(a)' = Self(a)
         /\ \A t, c : Aims(t, c)' <=> Aims(t, c)
         /\ \A t, b, c : Tells(t, b, c)' <=> Tells(t, b, c)
         /\ \A e : Proper(e)' <=> Proper(e)
<1>1. \A a : Identifier(a)' = Identifier(a) /\ Self(a)' = Self(a)
  BY DEF Identifier, Self
<1>2. ASSUME NEW t, NEW c PROVE Aims(t, c)' <=> Aims(t, c)
  BY <1>1 DEF Aims
<1>3. ASSUME NEW t, NEW b, NEW c PROVE Tells(t, b, c)' <=> Tells(t, b, c)
  BY <1>1 DEF Tells
<1>4. ASSUME NEW e PROVE Proper(e)' <=> Proper(e)
  BY DEF Proper
<1> QED BY <1>1, <1>2, <1>3, <1>4

\* A goroutine that aims at a server or tells of one has something left to do.
LEMMA ActiveStays ==
  ASSUME NEW t, NEW u, Follows(t, u)
  PROVE  /\ \A c : Aims(u, c) => u \in DOMAIN tasks'
         /\ \A b, c : Tells(u, b, c) => u \in DOMAIN tasks'
BY DEF Follows, Aims, Tells

\* Who learns of a server goes on to.
LEMMA LearnsStays ==
  ASSUME IInv, NEW t \in DOMAIN tasks, NEW u, Effect(t, u),
         NEW b \in Nodes, NEW c \in Nodes, b # c, Learns(b, c)
  PROVE  Learns(b, c)'
<1>1. /\ Follows(t, u) /\ Fulfils(t, u) /\ starts' = starts /\ u.node = t.node
      /\ servers[b] \subseteq servers'[b]
  BY DEF Effect, Follows, nodeVars
<1>2. /\ Identifier(c)' = Identifier(c)
      /\ \A x : Aims(x, c)' <=> Aims(x, c)
      /\ \A x : Tells(x, b, c)' <=> Tells(x, b, c)
  BY <1>1, SameStarts
<1>3. /\ \A x \in DOMAIN tasks : x = t \/ x \in DOMAIN tasks'
      /\ Aims(u, c) \/ Tells(u, b, c) => u \in DOMAIN tasks'
  BY <1>1, ActiveStays DEF Follows
<1>4. ASSUME Knowing(b, c) PROVE Knowing(b, c)'
  BY <1>1, <1>2, <1>4 DEF Knowing, Knows
<1>5. ASSUME NEW x \in DOMAIN tasks', x.node = b, Aims(x, c) PROVE Calling(b, c)'
  BY <1>2, <1>5 DEF Calling
<1>6. ASSUME NEW x \in DOMAIN tasks', Tells(x, b, c) PROVE Told(b, c)'
  BY <1>2, <1>6 DEF Told
<1>7. CASE Knowing(b, c)
  BY <1>4, <1>7 DEF Learns
<1>8. CASE Calling(b, c)
  <2>1. PICK x \in DOMAIN tasks : x.node = b /\ Aims(x, c)
    BY <1>8 DEF Calling
  <2>2. CASE x # t
    BY <1>3, <1>5, <2>1, <2>2 DEF Learns
  <2>3. CASE x = t
    <3>1. Aims(u, c) \/ \E e \in servers'[b] : e.identifier = Identifier(c)
      BY <1>1, <2>1, <2>3 DEF Fulfils
    <3>2. CASE Aims(u, c)
      BY <1>1, <1>3, <1>5, <2>1, <2>3, <3>2 DEF Learns
    <3>3. CASE \E e \in servers'[b] : e.identifier = Identifier(c)
      BY <1>2, <3>3 DEF Learns, Knowing, Knows
    <3> QED BY <3>1, <3>2, <3>3
  <2> QED BY <2>2, <2>3
<1>9. CASE Told(b, c)
  <2>1. PICK x \in DOMAIN tasks : Tells(x, b, c)
    BY <1>9 DEF Told
  <2>2. CASE x # t
    BY <1>3, <1>6, <2>1, <2>2 DEF Learns
  <2>3. CASE x = t
    <3>1. \/ Tells(u, b, c)
          \/ Knowing(b, c)
          \/ \E y \in DOMAIN tasks' : y.node = b /\ Aims(y, c)
      BY <1>1, <2>1, <2>3 DEF Fulfils
    <3> QED BY <1>3, <1>4, <1>5, <1>6, <3>1 DEF Learns
  <2> QED BY <2>2, <2>3
<1> QED BY <1>7, <1>8, <1>9 DEF Learns

\* Replies in hand stay those of running processes.
LEMMA FreshStays ==
  ASSUME NEW t \in DOMAIN tasks, NEW u, Effect(t, u), NEW a \in Nodes, Fresh(a)
  PROVE  Fresh(a)'
<1>1. Follows(t, u) /\ Arises(t, u) /\ starts' = starts /\ u.node = t.node
  BY DEF Effect, Follows, nodeVars
<1>2. ASSUME NEW x \in DOMAIN tasks', x.node = a, x.step # "post"
      PROVE  x.reply.identifier = Identifier(x.reply.identifier[1])
  <2>1. CASE x \in DOMAIN tasks
    BY <1>2, <2>1 DEF Fresh
  <2>2. CASE x = u
    <3>1. CASE u.reply = t.reply /\ t.step = "add"
      BY <1>1, <1>2, <2>2, <3>1 DEF Fresh
    <3>2. CASE \E b \in Nodes : u.reply = Self(b)
      BY <2>2, <3>2, IdentifierOf DEF Self
    <3> QED BY <1>1, <1>2, <2>2, <3>1, <3>2 DEF Arises
  <2>3. CASE \E b \in Nodes, s \in Servers : x = Introduction(b, s)
    BY <1>2, <2>3 DEF Introduction, Ready
  <2> QED BY <1>1, <2>1, <2>2, <2>3 DEF Follows
<1>3. \A b : Identifier(b)' = Identifier(b)
  BY <1>1, SameStarts
<1> QED BY <1>2, <1>3 DEF Fresh

\* Whom a comes to know or to call has been told of a.
LEMMA AnsweringStays ==
  ASSUME IInv, AllProper, NEW t \in DOMAIN tasks, NEW u, Effect(t, u),
         NEW a \in Nodes, Fresh(a), Answering(a)
  PROVE  Answering(a)'
<1>1. /\ Follows(t, u) /\ Arises(t, u) /\ starts' = starts /\ u.node = t.node
      /\ ProperTask(t)
  BY DEF Effect, Follows, nodeVars, AllProper
<1> SUFFICES ASSUME NEW b \in Nodes \ {a}, Knowing(a, b)' \/ Calling(a, b)'
             PROVE  Learns(b, a)'
  BY DEF Answering
<1>2. /\ Identifier(b)' = Identifier(b)
      /\ \A x : Aims(x, b)' <=> Aims(x, b)
      /\ \A x : Tells(x, b, a)' <=> Tells(x, b, a)
  BY <1>1, SameStarts
<1>3. ASSUME Knowing(a, b) \/ Calling(a, b) PROVE Learns(b, a)'
  BY <1>3, LearnsStays DEF Answering
<1>4. CASE Knowing(a, b)'
  <2>1. PICK e \in servers'[a] : e.identifier = Identifier(b)
    BY <1>2, <1>4 DEF Knowing, Knows
  <2>2. CASE e \in servers[a]
    BY <1>3, <2>1, <2>2 DEF Knowing, Knows
  <2>3. CASE a = t.node /\ e = t.reply /\ t.step = "add"
    BY <1>3, <2>1, <2>3 DEF Calling, Aims
  <2> QED BY <1>1, <2>2, <2>3 DEF Follows
<1>5. CASE Calling(a, b)'
  <2>1. PICK x \in DOMAIN tasks' : x.node = a /\ Aims(x, b)
    BY <1>2, <1>5 DEF Calling
  <2>2. CASE x \in DOMAIN tasks
    BY <1>3, <2>1, <2>2 DEF Calling
  <2>3. CASE x = u
    <3>1. CASE Aims(t, b)
      BY <1>1, <1>3, <2>1, <2>3, <3>1 DEF Calling
    <3>2. CASE t.step = "share" /\ Resolve[t.reply.address] = b
      <4>1. t.reply.identifier = Identifier(b)
        BY <1>1, <2>1, <2>3, <3>2 DEF Fresh, ProperTask, Proper
      <4> QED BY <1>1, <1>3, <2>1, <2>3, <3>2, <4>1 DEF ProperTask, Knowing
    <3> QED BY <1>1, <2>1, <2>3, <3>1, <3>2 DEF Arises
  <2>4. CASE \E b0 \in Nodes, s \in Servers : x = Introduction(b0, s)
    <3>1. PICK b0 \in Nodes, s \in Servers : x = Introduction(b0, s)
      BY <2>4
    <3>2. b0 = a /\ x.step = "post"
      BY <2>1, <3>1 DEF Introduction, Ready
    <3> DEFINE f == [to |-> s, of |-> {Self(a)}]
    <3>3. Planned(x.todo) = {f}
      BY <3>1, <3>2, IntroductionPlans
    <3>4. Resolve[f.to.address] = b
      BY <2>1, <3>2, <3>3 DEF Aims
    <3>5. Self(a) \in f.of /\ Self(a).identifier = Identifier(a)
      BY DEF Self
    <3> HIDE DEF f
    <3>6. Tells(x, b, a)
      BY <2>1, <3>3, <3>4, <3>5 DEF Tells
    <3> QED BY <1>2, <2>1, <3>6 DEF Learns, Told
  <2> QED BY <1>1, <2>2, <2>3, <2>4 DEF Follows
<1> QED BY <1>4, <1>5

\* Whoever is added is going to be told of the others; then they are told of.
LEMMA SharingStays ==
  ASSUME NEW t \in DOMAIN tasks, NEW u, Effect(t, u), NEW a \in Nodes, NEW b \in Nodes, a # b
  PROVE  /\ Knowing(a, b)' => Knowing(a, b) \/ Sharing(a, b)'
         /\ Sharing(a, b) => \/ Sharing(a, b)'
                             \/ \A c \in Nodes \ {a, b} : Knowing(a, c) => Learns(b, c)'
<1>1. Follows(t, u) /\ Fulfils(t, u) /\ starts' = starts /\ u.node = t.node
  BY DEF Effect, Follows, nodeVars
<1>2. /\ \A c : Identifier(c)' = Identifier(c)
      /\ \A x, c : Tells(x, b, c)' <=> Tells(x, b, c)
  BY <1>1, SameStarts
<1>3. ASSUME Knowing(a, b)', ~Knowing(a, b) PROVE Sharing(a, b)'
  <2>1. PICK e \in servers'[a] : e.identifier = Identifier(b)
    BY <1>2, <1>3 DEF Knowing, Knows
  <2>2. a = t.node /\ e = t.reply /\ u.step = "share" /\ u.reply = t.reply
    BY <1>1, <1>3, <2>1 DEF Follows, Knowing, Knows
  <2>3. u \in DOMAIN tasks'
    BY <1>1, <2>2 DEF Follows
  <2> QED BY <1>1, <1>2, <2>1, <2>2, <2>3 DEF Sharing
<1>4. ASSUME Sharing(a, b), ~Sharing(a, b)', NEW c \in Nodes \ {a, b}, Knowing(a, c)
      PROVE  Learns(b, c)'
  <2>1. PICK x \in DOMAIN tasks : x.node = a /\ x.step = "share" /\ x.reply.identifier = Identifier(b)
    BY <1>4 DEF Sharing
  <2>2. x = t
    BY <1>1, <1>2, <1>4, <2>1 DEF Follows, Sharing
  <2>3. Tells(u, b, c)
    BY <1>1, <1>4, <2>1, <2>2 DEF Fulfils
  <2>4. u \in DOMAIN tasks'
    BY <1>1, <2>3, ActiveStays
  <2> QED BY <1>2, <2>3, <2>4 DEF Learns, Told
<1> QED BY <1>3, <1>4

\* Nobody speaks of processes that never were.
LEMMA ProperStays ==
  ASSUME IInv, AllProper, NEW t \in DOMAIN tasks, NEW u, Effect(t, u)
  PROVE  AllProper'
<1>1. /\ Follows(t, u) /\ Arises(t, u) /\ u.node = t.node
      /\ UNCHANGED <<mode, starts>>
      /\ ProperTask(t)
      /\ starts \in [Nodes -> Nat]
  BY DEF Effect, Follows, nodeVars, AllProper, IInv, TypeOK
<1>2. \A e : Proper(e)' <=> Proper(e)
  BY <1>1, SameStarts
<1>3. \A b \in Nodes : starts[b] > 0 => Proper(Self(b))
  BY <1>1, PublicReachable DEF Proper, Self, Identifier
<1>4. ASSUME NEW a \in Nodes, NEW e \in servers'[a] PROVE Proper(e)
  BY <1>1, <1>4 DEF Follows, AllProper, ProperTask
<1>5. ASSUME NEW x \in DOMAIN tasks' PROVE ProperTask(x)'
  <2>1. CASE x \in DOMAIN tasks
    <3>1. ProperTask(x) /\ x.node \in Nodes
      BY <2>1, TaskType DEF AllProper
    <3>2. Knows(x.node, x.reply.identifier) => Knows(x.node, x.reply.identifier)'
      BY <1>1, <3>1 DEF Follows, Knows
    <3> QED BY <1>2, <3>1, <3>2 DEF ProperTask
  <2>2. CASE x = u
    <3>1. \A f \in Planned(u.todo) :
            /\ f.to.identifier # Unidentified => Proper(f.to)
            /\ \A s \in f.of : Proper(s)
      BY <1>1 DEF Arises
    <3>2. u.step # "post" => Proper(u.reply)
      BY <1>1, <1>3 DEF Arises, ProperTask
    <3>3. u.step = "share" => Knows(u.node, u.reply.identifier)'
      BY <1>1 DEF Arises, Knows
    <3> QED BY <1>2, <2>2, <3>1, <3>2, <3>3 DEF ProperTask
  <2>3. CASE \E b \in Nodes, s \in Servers : Proper(s) /\ starts[b] > 0 /\ x = Introduction(b, s)
    <3>1. PICK b \in Nodes, s \in Servers : Proper(s) /\ starts[b] > 0 /\ x = Introduction(b, s)
      BY <2>3
    <3> DEFINE f == [to |-> s, of |-> {Self(b)}]
    <3>2. Planned(x.todo) = {f} /\ x.step = "post"
      BY <3>1, IntroductionPlans DEF Introduction, Ready
    <3>3. Proper(f.to) /\ \A e \in f.of : Proper(e)
      BY <1>3, <3>1
    <3> HIDE DEF f
    <3> QED BY <1>2, <3>2, <3>3 DEF ProperTask
  <2> QED BY <1>1, <2>1, <2>2, <2>3 DEF Follows
<1> QED BY <1>1, <1>2, <1>4, <1>5 DEF AllProper

----------------------------------------------------------------------------
\* Where each node was started once, every reply comes from its only process.
LEMMA FirstFresh ==
  ASSUME IInv, AllProper, NEW up, FirstStarts(up), NEW a \in Nodes
  PROVE  Fresh(a)
<1> SUFFICES ASSUME NEW t \in DOMAIN tasks, t.step # "post"
             PROVE  t.reply.identifier = Identifier(t.reply.identifier[1])
  BY DEF Fresh
<1>1. t.reply \in Servers /\ Proper(t.reply)
  BY TaskType DEF AllProper, ProperTask
<1> DEFINE i == t.reply.identifier
<1>2. i \in Nodes \X Nat /\ i[2] \in 1..starts[i[1]]
  BY <1>1 DEF Servers, Identifiers, Proper
<1>3. starts[i[1]] \in {0, 1}
  BY <1>2 DEF FirstStarts
<1>4. i[2] = starts[i[1]]
  BY <1>2, <1>3
<1> QED BY <1>2, <1>4 DEF Identifier

\* Steps of goroutines before the first crash.
LEMMA FirstStartsStep ==
  ASSUME IInv, AllProper, NEW up \in SUBSET Nodes, FirstStarts(up),
         NEW t \in DOMAIN tasks, NEW u, Effect(t, u)
  PROVE  FirstStarts(up)'
<1>1. /\ Follows(t, u) /\ UNCHANGED <<mode, starts, greeted, crashes>>
      /\ t.node \in Nodes /\ mode[t.node] # "down"
  BY TaskType DEF Effect, Follows, nodeVars
<1>2. \A a \in Nodes : mode'[a] = "down" => servers'[a] = {}
  BY <1>1 DEF Follows, FirstStarts
<1>3. ASSUME NEW a \in Nodes PROVE Answering(a)'
  BY <1>3, FirstFresh, AnsweringStays DEF FirstStarts
<1>4. ASSUME NEW b \in Nodes, NEW c \in Nodes, b # c, Learns(b, c) PROVE Learns(b, c)'
  BY <1>4, LearnsStays
<1>5. ASSUME NEW a \in Nodes PROVE Introducing(a)'
  <2> SUFFICES ASSUME NEW b \in Nodes \ {a}, NEW c \in Nodes \ {a}, b # c,
                      Knowing(a, b)', Knowing(a, c)'
               PROVE  (Learns(b, c) \/ Learns(c, b) \/ Sharing(a, b) \/ Sharing(a, c))'
    BY DEF Introducing
  <2>1. CASE ~Knowing(a, b) \/ ~Knowing(a, c)
    BY <2>1, SharingStays
  <2>2. CASE Knowing(a, b) /\ Knowing(a, c)
    <3>1. Learns(b, c) \/ Learns(c, b) \/ Sharing(a, b) \/ Sharing(a, c)
      BY <1>5, <2>2 DEF FirstStarts, Introducing
    <3>2. Sharing(a, b) => Sharing(a, b)' \/ Learns(b, c)'
      BY <2>2, SharingStays
    <3>3. Sharing(a, c) => Sharing(a, c)' \/ Learns(c, b)'
      BY <2>2, SharingStays
    <3> QED BY <1>4, <3>1, <3>2, <3>3
  <2> QED BY <2>1, <2>2
<1>6. \A a, b \in up : a # b => Learns(a, b)'
  BY <1>4 DEF FirstStarts
<1>7. \A a \in Nodes \ up : greeted'[a] => \A b \in Nodes \ {a} : Lists(a, b) => Learns(b, a)'
  BY <1>1, <1>4 DEF FirstStarts
<1>8. Connects(up) /\ (crashes' > 0 => EachListsAnother)
      /\ \A a \in Nodes : starts'[a] = (IF mode'[a] = "down" THEN 0 ELSE 1)
  BY <1>1 DEF FirstStarts
<1> QED BY <1>2, <1>3, <1>5, <1>6, <1>7, <1>8 DEF FirstStarts, Lists, Connects, EachListsAnother

\* Steps of goroutines after a crash.
LEMMA OneReturnsStep ==
  ASSUME IInv, AllProper, NEW a \in Nodes, OneReturns(a),
         NEW t \in DOMAIN tasks, NEW u, Effect(t, u)
  PROVE  OneReturns(a)'
<1>1. Follows(t, u) /\ UNCHANGED <<mode, starts, greeted>>
  BY DEF Effect, Follows, nodeVars
<1>2. ASSUME NEW b \in Nodes, NEW c \in Nodes, Knowing(b, c) PROVE Knowing(b, c)'
  BY <1>1, <1>2 DEF Follows, Knowing, Knows, Identifier
<1>3. ASSUME NEW b \in Nodes, NEW c \in Nodes, b # c, Learns(b, c) PROVE Learns(b, c)'
  BY <1>3, LearnsStays
<1>4. ASSUME Returning(a) PROVE Returning(a)'
  <2>1. Fresh(a)' /\ Answering(a)'
    BY <1>4, FreshStays, AnsweringStays DEF Returning
  <2>2. ASSUME NEW b \in Nodes \ {a}, NEW c \in Nodes \ {a}, b # c, Knowing(b, a)'
        PROVE  Learns(a, c)' \/ Sharing(b, a)'
    <3>1. CASE ~Knowing(b, a)
      BY <2>2, <3>1, SharingStays
    <3>2. CASE Knowing(b, a)
      <4>1. Learns(a, c) \/ Sharing(b, a)
        BY <1>4, <2>2, <3>2 DEF Returning
      <4>2. Knowing(b, c)
        BY <2>2 DEF OneReturns
      <4> QED BY <1>3, <2>2, <4>1, <4>2, SharingStays
    <3> QED BY <3>1, <3>2
  <2>3. greeted'[a] => \E b \in Nodes \ {a} : Learns(a, b)' /\ Learns(b, a)'
    BY <1>1, <1>3, <1>4 DEF Returning
  <2> QED BY <2>1, <2>2, <2>3 DEF Returning
<1> QED BY <1>1, <1>2, <1>4 DEF OneReturns, EachListsAnother, Lists

----------------------------------------------------------------------------
\* Only processes and greetings are new; nobody forgets what he is to tell.
LEMMA LearnsGrows ==
  ASSUME UNCHANGED <<starts, servers>>, DOMAIN tasks \subseteq DOMAIN tasks'
  PROVE  /\ \A b, c : Knowing(b, c)' <=> Knowing(b, c)
         /\ \A b, c : Calling(b, c) => Calling(b, c)'
         /\ \A b, c : Told(b, c) => Told(b, c)'
         /\ \A b, c : Learns(b, c) => Learns(b, c)'
         /\ \A b, c : Sharing(b, c) => Sharing(b, c)'
<1>1. /\ \A a : Identifier(a)' = Identifier(a)
      /\ \A t, c : Aims(t, c)' <=> Aims(t, c)
      /\ \A t, b, c : Tells(t, b, c)' <=> Tells(t, b, c)
  BY SameStarts
<1>2. ASSUME NEW b, NEW c
      PROVE  /\ Knowing(b, c)' <=> Knowing(b, c)
             /\ Calling(b, c) => Calling(b, c)'
             /\ Told(b, c) => Told(b, c)'
             /\ Sharing(b, c) => Sharing(b, c)'
  <2>1. Knowing(b, c)' <=> Knowing(b, c)
    BY <1>1 DEF Knowing, Knows
  <2>2. Calling(b, c) => Calling(b, c)'
    BY <1>1 DEF Calling
  <2>3. Told(b, c) => Told(b, c)'
    BY <1>1 DEF Told
  <2>4. Sharing(b, c) => Sharing(b, c)'
    BY <1>1 DEF Sharing
  <2> QED BY <2>1, <2>2, <2>3, <2>4
<1> QED BY <1>2 DEF Learns

\* A process that begins to listen, or nothing at all.
LEMMA ListenMeets ==
  ASSUME IInv, AllProper, Meeting,
         \/ UNCHANGED vars
         \/ \E a \in Nodes : Listen(a)
  PROVE  AllProper' /\ Meeting'
<1>1. /\ UNCHANGED <<starts, greeted, servers, tasks, crashes, forgotten>>
      /\ \A a \in Nodes : mode'[a] = mode[a] \/ (mode[a] = "booting" /\ mode'[a] = "listening")
  BY DEF vars, nodeVars, netVars, Listen, IInv, TypeOK
<1>2. /\ \A b, c : Knowing(b, c)' <=> Knowing(b, c)
      /\ \A b, c : Learns(b, c)' <=> Learns(b, c)
      /\ \A b, c : Calling(b, c)' <=> Calling(b, c)
      /\ \A b, c : Sharing(b, c)' <=> Sharing(b, c)
  <2>1. /\ \A a : Identifier(a)' = Identifier(a)
        /\ \A t, c : Aims(t, c)' <=> Aims(t, c)
        /\ \A t, b, c : Tells(t, b, c)' <=> Tells(t, b, c)
    BY <1>1, SameStarts
  <2>2. /\ \A b, c : Knowing(b, c)' <=> Knowing(b, c)
        /\ \A b, c : Calling(b, c)' <=> Calling(b, c)
        /\ \A b, c : Told(b, c)' <=> Told(b, c)
        /\ \A b, c : Sharing(b, c)' <=> Sharing(b, c)
    BY <1>1, <2>1 DEF Knowing, Knows, Calling, Told, Sharing
  <2> QED BY <2>2 DEF Learns
<1>3. AllProper'
  <2>1. \A e : Proper(e)' <=> Proper(e)
    BY <1>1, SameStarts
  <2>2. \A t : ProperTask(t)' <=> ProperTask(t)
    BY <1>1, <2>1 DEF ProperTask, Knows
  <2> QED BY <1>1, <2>1, <2>2 DEF AllProper
<1>4. ASSUME NEW a \in Nodes
      PROVE  /\ Answering(a) => Answering(a)'
             /\ Introducing(a) => Introducing(a)'
             /\ Fresh(a) => Fresh(a)'
  BY <1>1, <1>2 DEF Answering, Introducing, Fresh, Identifier
<1>5. ASSUME NEW up \in SUBSET Nodes, FirstStarts(up) PROVE FirstStarts(up)'
  BY <1>1, <1>2, <1>4, <1>5 DEF FirstStarts, Lists, Connects, EachListsAnother
<1>6. ASSUME NEW a \in Nodes, OneReturns(a) PROVE OneReturns(a)'
  <2>1. Returning(a) => Returning(a)'
    BY <1>1, <1>2, <1>4 DEF Returning
  <2>2. mode'[a] # "down" => mode[a] # "down"
    BY <1>1
  <2> QED BY <1>1, <1>2, <1>6, <2>1, <2>2 DEF OneReturns, EachListsAnother, Lists
<1>7. Meeting'
  BY <1>1, <1>5, <1>6 DEF Meeting
<1> QED BY <1>3, <1>7

\* A process that greets those it lists: they are told of it.
LEMMA GreetMeets ==
  ASSUME IInv, AllProper, Meeting, NEW a \in Nodes, OnServerUp(a)
  PROVE  AllProper' /\ Meeting'
<1> DEFINE call(n) == [to |-> [identifier |-> Unidentified, address |-> n], of |-> {Self(a)}]
           greeting(n) == Ready(a, <<call(n)>>)
           greetings == {greeting(n) : n \in Contacts[a]}
<1>1. /\ mode[a] # "down" /\ ~greeted[a]
      /\ UNCHANGED <<mode, starts, servers, crashes, forgotten>>
      /\ DOMAIN tasks' = DOMAIN tasks \cup greetings
  BY DEF OnServerUp, netVars
<1>2. /\ greeted'[a]
      /\ \A b \in Nodes \ {a} : greeted'[b] = greeted[b]
  BY DEF OnServerUp, IInv, TypeOK
<1>3. /\ \A b : Identifier(b)' = Identifier(b)
      /\ \A e : Proper(e)' <=> Proper(e)
      /\ \A x, c : Aims(x, c)' <=> Aims(x, c)
      /\ \A x, b, c : Tells(x, b, c)' <=> Tells(x, b, c)
  BY <1>1, SameStarts
<1>4. /\ \A b, c : Knowing(b, c)' <=> Knowing(b, c)
      /\ \A b, c : Learns(b, c) => Learns(b, c)'
      /\ \A b, c : Sharing(b, c) => Sharing(b, c)'
  BY <1>1, LearnsGrows
<1>5. ASSUME NEW n \in Contacts[a]
      PROVE  /\ greeting(n).node = a /\ greeting(n).step = "post"
             /\ Planned(greeting(n).todo) = {call(n)}
  <2> DEFINE f == call(n)
  <2> HIDE DEF f
  <2>1. Planned(<<f>>) = {f}
    <3>1. DOMAIN <<f>> = {1} /\ <<f>>[1] = f
      OBVIOUS
    <3> QED BY <3>1 DEF Planned
  <2>2. Planned(<<call(n)>>) = {call(n)}
    BY <2>1 DEF f
  <2> QED BY <2>2 DEF Ready
<1>6. Self(a).identifier = Identifier(a) /\ Proper(Self(a))
  BY <1>1, PublicReachable DEF Self, Identifier, Proper, AllProper, IInv, TypeOK
<1>7. ASSUME NEW n \in Contacts[a], NEW b \in Nodes \ {a}, Resolve[n] = b
      PROVE  Learns(b, a)' /\ Learns(a, b)'
  <2> DEFINE x == greeting(n)
  <2>1. x \in DOMAIN tasks'
    BY <1>1
  <2>2. call(n) \in Planned(x.todo) /\ x.node = a
    BY <1>5
  <2> HIDE DEF x
  <2>3. Resolve[call(n).to.address] = b /\ Self(a) \in call(n).of
    BY <1>7
  <2>4. Tells(x, b, a) /\ Aims(x, b)
    BY <1>6, <1>7, <2>2, <2>3 DEF Tells, Aims
  <2> QED BY <1>3, <2>1, <2>2, <2>4 DEF Learns, Told, Calling
<1>8. AllProper'
  <2>1. ASSUME NEW x \in DOMAIN tasks' PROVE ProperTask(x)'
    <3>1. CASE x \in DOMAIN tasks
      BY <1>1, <1>3, <3>1 DEF AllProper, ProperTask, Knows
    <3>2. CASE x \in greetings
      <4>1. PICK n \in Contacts[a] : x = greeting(n)
        BY <3>2
      <4>2. Planned(x.todo) = {call(n)} /\ x.step = "post"
        BY <1>5, <4>1
      <4>3. call(n).to.identifier = Unidentified /\ call(n).of = {Self(a)}
        OBVIOUS
      <4> HIDE DEF call, greeting
      <4> QED BY <1>3, <1>6, <4>2, <4>3 DEF ProperTask
    <3> QED BY <1>1, <2>1, <3>1, <3>2
  <2> QED BY <1>1, <1>3, <2>1 DEF AllProper
<1>9. ASSUME NEW b \in Nodes, Answering(b) PROVE Answering(b)'
  <2> SUFFICES ASSUME NEW c \in Nodes \ {b}, Knowing(b, c)' \/ Calling(b, c)'
               PROVE  Learns(c, b)'
    BY DEF Answering
  <2>1. CASE Knowing(b, c) \/ Calling(b, c)
    BY <1>4, <1>9, <2>1 DEF Answering
  <2>2. CASE Calling(b, c)' /\ ~Calling(b, c)
    <3>1. PICK x \in DOMAIN tasks' : x.node = b /\ Aims(x, c)
      BY <1>3, <2>2 DEF Calling
    <3>2. x \in greetings
      BY <1>1, <2>2, <3>1 DEF Calling
    <3>3. PICK n \in Contacts[a] : x = greeting(n)
      BY <3>2
    <3>4. b = a /\ x.step = "post" /\ Planned(x.todo) = {call(n)}
      BY <1>5, <3>1, <3>3
    <3>5. Resolve[n] = c
      BY <3>1, <3>4 DEF Aims
    <3> QED BY <1>7, <3>4, <3>5
  <2> QED BY <1>4, <2>1, <2>2
<1>10. ASSUME NEW up \in SUBSET Nodes, FirstStarts(up) PROVE FirstStarts(up)'
  <2>1. \A b \in Nodes : Answering(b)' /\ Introducing(b)'
    BY <1>4, <1>9, <1>10 DEF FirstStarts, Introducing
  <2>2. \A b \in Nodes \ up : greeted'[b] =>
          \A c \in Nodes \ {b} : Lists(b, c) => Learns(c, b)'
    BY <1>2, <1>4, <1>7, <1>10 DEF FirstStarts, Lists
  <2>3. \A b, c \in up : b # c => Learns(b, c)'
    BY <1>4, <1>10 DEF FirstStarts
  <2> QED BY <1>1, <1>10, <2>1, <2>2, <2>3 DEF FirstStarts, Lists, Connects, EachListsAnother
<1>11. ASSUME NEW b \in Nodes, OneReturns(b) PROVE OneReturns(b)'
  <2>1. b = a /\ Returning(a)
    BY <1>1, <1>11 DEF OneReturns
  <2>2. Fresh(a)'
    <3> SUFFICES ASSUME NEW x \in DOMAIN tasks', x.node = a, x.step # "post"
                 PROVE  x.reply.identifier = Identifier(x.reply.identifier[1])
      BY <1>3 DEF Fresh
    <3>1. x \in DOMAIN tasks
      BY <1>1, <1>5
    <3> QED BY <2>1, <3>1 DEF Returning, Fresh
  <2>3. \E c \in Nodes \ {a} : Learns(a, c)' /\ Learns(c, a)'
    <3>1. PICK c \in Nodes \ {a} : Lists(a, c)
      BY <1>11 DEF OneReturns, EachListsAnother
    <3> QED BY <1>7, <3>1 DEF Lists
  <2>4. Returning(a)'
    BY <1>4, <1>9, <2>1, <2>2, <2>3 DEF Returning
  <2> QED BY <1>1, <1>2, <1>4, <1>11, <2>1, <2>4 DEF OneReturns, EachListsAnother, Lists
<1>12. Meeting'
  BY <1>1, <1>10, <1>11 DEF Meeting
<1> QED BY <1>8, <1>12

\* A process that starts: nobody has heard of it yet.
LEMMA StartMeets ==
  ASSUME IInv, AllProper, Meeting, NEW a \in Nodes, Start(a)
  PROVE  AllProper' /\ Meeting'
<1>1. /\ mode[a] = "down"
      /\ mode' = [mode EXCEPT ![a] = "booting"]
      /\ starts' = [starts EXCEPT ![a] = @ + 1]
      /\ greeted' = [greeted EXCEPT ![a] = FALSE]
      /\ servers' = [servers EXCEPT ![a] = {}]
      /\ UNCHANGED <<tasks, crashes, forgotten>>
  BY DEF Start, netVars
<1>2. /\ starts \in [Nodes -> Nat] /\ mode \in [Nodes -> {"down", "booting", "listening"}]
      /\ greeted \in [Nodes -> BOOLEAN] /\ servers \in [Nodes -> SUBSET Servers]
  BY <1>1 DEF IInv, TypeOK
<1>3. /\ \A b \in Nodes \ {a} : /\ mode'[b] = mode[b] /\ starts'[b] = starts[b]
                                /\ greeted'[b] = greeted[b] /\ servers'[b] = servers[b]
                                /\ Identifier(b)' = Identifier(b)
      /\ mode'[a] = "booting" /\ starts'[a] = starts[a] + 1 /\ ~greeted'[a] /\ servers'[a] = {}
      /\ Identifier(a)' = <<a, starts[a] + 1>>
  BY <1>1, <1>2 DEF Identifier
<1>4. \A e \in Servers : Proper(e) =>
        /\ Proper(e)'
        /\ e.identifier # Identifier(a)'
        /\ starts[a] = 0 => e.identifier # Identifier(a)
  <2> SUFFICES ASSUME NEW e \in Servers, Proper(e)
               PROVE  /\ Proper(e)'
                      /\ e.identifier # Identifier(a)'
                      /\ starts[a] = 0 => e.identifier # Identifier(a)
    OBVIOUS
  <2>1. e.identifier \in Nodes \X Nat /\ e.identifier[1] \in Nodes /\ e.identifier[2] \in Nat
    BY DEF Servers, Identifiers
  <2>2. /\ Resolve[e.address] = e.identifier[1]
        /\ e.identifier[2] >= 1 /\ e.identifier[2] <= starts[e.identifier[1]]
    BY <1>2, <2>1 DEF Proper
  <2>3. starts'[e.identifier[1]] \in Nat /\ starts'[e.identifier[1]] >= starts[e.identifier[1]]
    BY <1>2, <1>3, <2>1
  <2>4. Proper(e)'
    BY <1>2, <2>1, <2>2, <2>3 DEF Proper
  <2> QED BY <1>2, <1>3, <2>1, <2>2, <2>4 DEF Identifier
<1>5. ASSUME NEW x \in DOMAIN tasks
      PROVE  /\ x.node \in Nodes \ {a} /\ ProperTask(x)
             /\ x.step # "post" => x.reply \in Servers
             /\ \A f \in Planned(x.todo) : f.to \in Targets /\ f.of \subseteq Servers
  <2>1. x.node \in Nodes /\ mode[x.node] # "down" /\ x.todo \in Seq(Frames)
    BY <1>1, TaskType
  <2>2. \A f \in Planned(x.todo) : f \in Frames
    BY <2>1 DEF Planned
  <2> QED BY <1>1, <2>1, <2>2, TaskType DEF AllProper, Frames
<1>6. AllProper'
  <2>1. ASSUME NEW x \in DOMAIN tasks PROVE ProperTask(x)'
    <3>1. \A f \in Planned(x.todo) : \A s \in f.of : Proper(s)'
      BY <1>4, <1>5 DEF ProperTask
    <3>2. \A f \in Planned(x.todo) : f.to.identifier # Unidentified => Proper(f.to)'
      <4> SUFFICES ASSUME NEW f \in Planned(x.todo), f.to.identifier # Unidentified
                   PROVE  Proper(f.to)'
        OBVIOUS
      <4>1. f.to \in Servers
        BY <1>5 DEF Targets, Servers
      <4> QED BY <1>4, <1>5, <4>1 DEF ProperTask
    <3>3. x.step # "post" => Proper(x.reply)'
      BY <1>4, <1>5 DEF ProperTask
    <3>4. x.step = "share" => Knows(x.node, x.reply.identifier)'
      BY <1>3, <1>5 DEF ProperTask, Knows
    <3> QED BY <3>1, <3>2, <3>3, <3>4 DEF ProperTask
  <2>2. \A b \in Nodes : \A e \in servers'[b] : Proper(e)'
    BY <1>1, <1>2, <1>3, <1>4 DEF AllProper
  <2>3. \A b \in Nodes : mode'[b] # "down" => starts'[b] > 0
    BY <1>1, <1>2, <1>3 DEF AllProper
  <2> QED BY <1>1, <2>1, <2>2, <2>3 DEF AllProper
<1>7. ASSUME NEW b \in Nodes PROVE ~Knowing(b, a)'
  BY <1>1, <1>2, <1>3, <1>4 DEF Knowing, Knows, AllProper
<1>8. ASSUME NEW up \in SUBSET Nodes, FirstStarts(up) PROVE FirstStarts(up)'
  <2>1. starts[a] = 0 /\ servers[a] = {} /\ servers' = servers
    BY <1>1, <1>2, <1>8 DEF FirstStarts
  <2>2. ASSUME NEW e \in Servers, Proper(e), NEW c \in Nodes
        PROVE  e.identifier = Identifier(c)' <=> e.identifier = Identifier(c)
    BY <1>3, <1>4, <2>1, <2>2
  <2>3. ASSUME NEW b \in Nodes, NEW c \in Nodes
        PROVE  /\ Knowing(b, c)' <=> Knowing(b, c)
               /\ Calling(b, c)' <=> Calling(b, c)
               /\ Told(b, c)' <=> Told(b, c)
               /\ Sharing(b, c)' <=> Sharing(b, c)
    <3>1. Knowing(b, c)' <=> Knowing(b, c)
      BY <1>1, <1>2, <2>1, <2>2 DEF Knowing, Knows, AllProper
    <3>2. ASSUME NEW x \in DOMAIN tasks PROVE Aims(x, c)' <=> Aims(x, c)
      BY <1>5, <2>2 DEF Aims, ProperTask
    <3>3. ASSUME NEW x \in DOMAIN tasks PROVE Tells(x, b, c)' <=> Tells(x, b, c)
      BY <1>5, <2>2 DEF Tells, ProperTask
    <3>4. Sharing(b, c)' <=> Sharing(b, c)
      BY <1>1, <1>5, <2>2 DEF Sharing, ProperTask
    <3> QED BY <1>1, <3>1, <3>2, <3>3, <3>4 DEF Calling, Told
  <2>4. \A b, c \in Nodes : Learns(b, c)' <=> Learns(b, c)
    BY <2>3 DEF Learns
  <2>5. \A b \in Nodes : Answering(b)' /\ Introducing(b)'
    BY <1>8, <2>3, <2>4 DEF FirstStarts, Answering, Introducing
  <2>6. \A b \in Nodes \ up : greeted'[b] =>
          \A c \in Nodes \ {b} : Lists(b, c) => Learns(c, b)'
    BY <1>3, <1>8, <2>4 DEF FirstStarts
  <2>7. \A b, c \in up : b # c => Learns(b, c)'
    BY <1>8, <2>4 DEF FirstStarts
  <2>8. /\ \A b \in Nodes : starts'[b] = (IF mode'[b] = "down" THEN 0 ELSE 1)
        /\ \A b \in Nodes : mode'[b] = "down" => servers'[b] = {}
    BY <1>3, <1>8, <2>1 DEF FirstStarts
  <2> QED BY <1>1, <1>8, <2>5, <2>6, <2>7, <2>8 DEF FirstStarts, Lists, Connects, EachListsAnother
<1>9. ASSUME NEW b \in Nodes, OneReturns(b) PROVE OneReturns(b)'
  <2>1. b = a
    BY <1>1, <1>9 DEF OneReturns
  <2>2. Fresh(a)' /\ Answering(a)'
    BY <1>1, <1>3, <1>5 DEF Fresh, Answering, Knowing, Knows, Calling
  <2>3. Returning(a)'
    BY <1>3, <1>7, <2>2 DEF Returning
  <2>4. \A c, d \in Nodes \ {a} : c # d => Knowing(c, d)'
    BY <1>3, <1>9, <2>1 DEF OneReturns, Knowing, Knows
  <2> QED BY <1>3, <1>9, <2>1, <2>3, <2>4 DEF OneReturns, EachListsAnother, Lists
<1>10. Meeting'
  BY <1>1, <1>8, <1>9 DEF Meeting
<1> QED BY <1>6, <1>10

\* A process that dies when all have met, with no announcement of its own.
LEMMA CrashMeets ==
  ASSUME IInv, AllProper, Meeting, NEW a \in Nodes, Crash(a), ~forgotten'
  PROVE  AllProper' /\ Meeting'
<1>1. /\ crashes > 0
      /\ mode' = [mode EXCEPT ![a] = "down"]
      /\ DOMAIN tasks' = {t \in DOMAIN tasks : t.node # a}
      /\ forgotten' = (forgotten \/ ~Complete \/ \E t \in DOMAIN tasks : t.node = a)
      /\ UNCHANGED <<starts, greeted, servers>>
  BY DEF Crash
<1>2. mode'[a] = "down" /\ \A b \in Nodes \ {a} : mode'[b] = mode[b]
  BY <1>1 DEF IInv, TypeOK
<1>3. AllProper'
  <2>1. \A e : Proper(e)' <=> Proper(e)
    BY <1>1, SameStarts
  <2>2. \A t \in DOMAIN tasks' : ProperTask(t)'
    BY <1>1, <2>1 DEF AllProper, ProperTask, Knows
  <2> QED BY <1>1, <1>2, <2>1, <2>2 DEF AllProper
<1>4. OneReturns(a)'
  <2>1. ~forgotten /\ Complete
    BY <1>1
  <2>2. \A b \in Nodes \ {a} : mode'[b] = "listening" /\ greeted'[b]
    BY <1>1, <1>2, <2>1 DEF Complete, AllListen
  <2>3. \A b, c \in Nodes \ {a} : b # c => Knowing(b, c)'
    BY <1>1, <2>1 DEF Complete, Knowing, Knows, Identifier
  <2>4. EachListsAnother
    BY <1>1, <2>1 DEF Meeting, FirstStarts, OneReturns
  <2> QED BY <1>2, <2>2, <2>3, <2>4 DEF OneReturns, EachListsAnother, Lists
<1> QED BY <1>3, <1>4 DEF Meeting

\* In the beginning the servers that are up know each other.
LEMMA InitMeets == Init => AllProper /\ Meeting
<1> SUFFICES ASSUME Init PROVE AllProper /\ Meeting
  OBVIOUS
<1> PICK begin \in Beginnings :
      /\ mode = [a \in Nodes |-> IF a \in begin.up THEN "listening" ELSE "down"]
      /\ starts = [a \in Nodes |-> IF a \in begin.up THEN 1 ELSE 0]
      /\ greeted = [a \in Nodes |-> a \in begin.up]
      /\ servers = [a \in Nodes |->
           IF a \in begin.up
           THEN {[identifier |-> <<b, 1>>, address |-> Public[b]] : b \in begin.up \ {a}}
           ELSE {}]
      /\ crashes = begin.crashes
  BY DEF Init
<1> DEFINE up == begin.up
<1>1. up \in SUBSET Nodes /\ tasks = <<>> /\ DOMAIN tasks = {}
  BY BeginningsType DEF Init
<1>2. ASSUME NEW a \in Nodes, NEW e \in servers[a]
      PROVE  a \in up /\ \E b \in up \ {a} : e = [identifier |-> <<b, 1>>, address |-> Public[b]]
  BY <1>2
<1>3. AllProper
  <2>1. ASSUME NEW a \in Nodes, NEW e \in servers[a] PROVE Proper(e)
    <3>1. PICK b \in up : e = [identifier |-> <<b, 1>>, address |-> Public[b]]
      BY <1>2, <2>1
    <3>2. b \in Nodes /\ starts[b] = 1
      BY <1>1
    <3> QED BY <3>1, <3>2, PublicReachable DEF Proper
  <2> QED BY <1>1, <2>1 DEF AllProper
<1>4. \A a, b \in Nodes : a # b => (Knowing(a, b) <=> a \in up /\ b \in up)
  <2> SUFFICES ASSUME NEW a \in Nodes, NEW b \in Nodes, a # b
               PROVE  Knowing(a, b) <=> a \in up /\ b \in up
    OBVIOUS
  <2>1. ASSUME Knowing(a, b) PROVE a \in up /\ b \in up
    <3>1. PICK e \in servers[a] : e.identifier = Identifier(b)
      BY <2>1 DEF Knowing, Knows
    <3>2. PICK c \in up : e = [identifier |-> <<c, 1>>, address |-> Public[c]]
      BY <1>2, <3>1
    <3> QED BY <1>2, <3>1, <3>2 DEF Identifier
  <2>2. ASSUME a \in up, b \in up PROVE Knowing(a, b)
    <3> DEFINE e == [identifier |-> <<b, 1>>, address |-> Public[b]]
    <3>1. e \in servers[a]
      BY <2>2
    <3>2. Identifier(b) = <<b, 1>>
      BY <1>1, <2>2 DEF Identifier
    <3> QED BY <3>1, <3>2 DEF Knowing, Knows
  <2> QED BY <2>1, <2>2
<1>5. \A a, b : ~Calling(a, b)
  BY <1>1 DEF Calling
<1>6. FirstStarts(up)
  <2>1. \A a \in Nodes : Answering(a) /\ Introducing(a)
    BY <1>4, <1>5 DEF Answering, Introducing, Learns
  <2>2. Connects(up) /\ (crashes > 0 => EachListsAnother)
    BY ContactsConnect, CrashedReturn DEF Connects, EachListsAnother
  <2>3. \A a, b \in up : a # b => Learns(a, b)
    BY <1>1, <1>4 DEF Learns
  <2> QED BY <1>1, <2>1, <2>2, <2>3 DEF FirstStarts
<1> QED BY <1>1, <1>3, <1>6 DEF Meeting

\* The invariant is inductive.
LEMMA MeetStep == MeetInv /\ [Next]_vars => MeetInv'
<1> SUFFICES ASSUME MeetInv, [Next]_vars PROVE MeetInv'
  OBVIOUS
<1>1. IInv' /\ forgotten \in BOOLEAN
  BY InvStep DEF MeetInv, IInv, TypeOK
<1>2. CASE forgotten'
  BY <1>1, <1>2 DEF MeetInv
<1>3. CASE ~forgotten'
  <2>1. ~forgotten
    BY <1>1, <1>3 DEF Next, Start, Listen, OnServerUp, Crash, NotifyStep, Skip, Register,
                      PostFails, ReplyLost, AddServer, SendKnownServersTo, Quiet, vars, netVars
  <2>2. IInv /\ AllProper /\ Meeting
    BY <2>1 DEF MeetInv
  <2>3. CASE UNCHANGED vars
    BY <1>1, <2>2, <2>3, ListenMeets DEF MeetInv
  <2>4. CASE \E a \in Nodes : Start(a) \/ Listen(a) \/ OnServerUp(a) \/ Crash(a)
    BY <1>1, <1>3, <2>2, <2>4, StartMeets, ListenMeets, GreetMeets, CrashMeets DEF MeetInv
  <2>5. CASE \E t \in DOMAIN tasks : NotifyStep(t) \/ ReplyLost(t)
    <3>1. PICK t \in DOMAIN tasks : NotifyStep(t) \/ ReplyLost(t)
      BY <2>5
    <3>2. PICK u : Effect(t, u)
      BY <1>3, <2>2, <3>1, StepEffect
    <3>3. AllProper'
      BY <2>2, <3>2, ProperStays
    <3>4. Meeting'
      BY <2>2, <3>2, FirstStartsStep, OneReturnsStep DEF Meeting
    <3> QED BY <1>1, <3>3, <3>4 DEF MeetInv
  <2> QED BY <2>3, <2>4, <2>5 DEF Next, Quiet
<1> QED BY <1>2, <1>3

\* Before the first crash: the servers that a knows are a part that no server
\* outside of it lists or is listed by.
LEMMA FirstComplete ==
  ASSUME NEW up \in SUBSET Nodes, FirstStarts(up), AllListen, tasks = <<>>
  PROVE  Complete
<1>1. \A b, c \in Nodes : (Learns(b, c) <=> Knowing(b, c)) /\ ~Sharing(b, c)
  BY DEF Learns, Calling, Told, Sharing
<1>2. \A b, c \in Nodes : b # c /\ Knowing(b, c) => Knowing(c, b)
  BY <1>1 DEF FirstStarts, Answering
<1>3. \A a, b, c \in Nodes : a # b /\ a # c /\ b # c /\ Knowing(a, b) /\ Knowing(a, c) => Knowing(b, c)
  BY <1>1, <1>2 DEF FirstStarts, Introducing
<1>4. \A b, c \in Nodes : b # c =>
        ({b, c} \subseteq up \/ (b \notin up /\ Lists(b, c)) \/ (c \notin up /\ Lists(c, b))
           => Knowing(b, c))
  BY <1>1, <1>2 DEF FirstStarts, AllListen
<1>5. ASSUME NEW a \in Nodes, NEW d \in Nodes, a # d PROVE Knowing(a, d)
  <2> SUFFICES ASSUME ~Knowing(a, d) PROVE FALSE
    OBVIOUS
  <2> DEFINE part == {b \in Nodes : b = a \/ Knowing(a, b)}
  <2>1. part \in SUBSET Nodes /\ a \in part /\ d \notin part
    BY <1>5
  <2>2. PICK b \in part, c \in Nodes \ part :
          {b, c} \subseteq up \/ (b \notin up /\ Lists(b, c)) \/ (c \notin up /\ Lists(c, b))
    <3> HIDE DEF part
    <3> QED BY <2>1 DEF FirstStarts, Connects
  <2>3. b # c /\ Knowing(b, c)
    BY <1>4, <2>2
  <2>4. Knowing(a, c)
    BY <1>2, <1>3, <1>5, <2>2, <2>3
  <2> QED BY <2>2, <2>4
<1> QED BY <1>5 DEF Complete, Knowing, Knows

\* After a crash: the server that came back knows one, and so all others.
LEMMA ReturnComplete ==
  ASSUME NEW a \in Nodes, OneReturns(a), AllListen, tasks = <<>>
  PROVE  Complete
<1>1. \A b, c \in Nodes : (Learns(b, c) <=> Knowing(b, c)) /\ ~Sharing(b, c)
  BY DEF Learns, Calling, Told, Sharing
<1>2. Returning(a) /\ greeted[a]
  BY DEF OneReturns, AllListen
<1>3. PICK d \in Nodes \ {a} : Knowing(a, d) /\ Knowing(d, a)
  BY <1>1, <1>2 DEF Returning
<1>4. \A c \in Nodes \ {a} : Knowing(a, c)
  BY <1>1, <1>2, <1>3 DEF Returning
<1>5. \A c \in Nodes \ {a} : Knowing(c, a)
  BY <1>1, <1>2, <1>4 DEF Returning, Answering
<1>6. \A b, c \in Nodes : b # c => Knowing(b, c)
  BY <1>4, <1>5 DEF OneReturns
<1> QED BY <1>6 DEF Complete, Knowing, Knows

\* Once no announcement is under way all servers know each other, in whatever
\* order they were started, crashed and came back and their announcements
\* crossed, for any number of servers that list enough of each other; unless an
\* announcement was lost.
THEOREM AllMeet == Spec => []QuietMeansComplete
<1>1. Init => MeetInv
  BY InvInit, InitMeets DEF MeetInv
<1>2. MeetInv => QuietMeansComplete
  BY FirstComplete, ReturnComplete DEF MeetInv, Meeting, QuietMeansComplete
<1> QED BY <1>1, <1>2, MeetStep, PTL DEF Spec

=============================================================================
