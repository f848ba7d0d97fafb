---------------------------- MODULE FileProvider ----------------------------
(***************************************************************************)
(* A file provider (file.go): the Get, Put and Update that request         *)
(* handlers call, together with its expiry loop, on one directory.  The    *)
(* handlers read the loop's cache map without a lock and send to it on the *)
(* bounded channel add; they and the loop race on the two files per key.   *)
(***************************************************************************)
EXTENDS FileExpiry

CONSTANTS
  Operations,  \* the HTTP methods in play, a subset of {"GET", "POST", "PUT"}
  Lifespans,   \* lifespans that requests ask for
  QueueCap,    \* capacity of the channel add (10)
  MaxCrashes   \* bound on the crashes of the process

ASSUME OperationsType == Operations \subseteq {"GET", "POST", "PUT"}
ASSUME LifespansNat == Lifespans \subseteq Nat
ASSUME LimitsNat == QueueCap \in Nat \ {0} /\ MaxCrashes \in Nat

VARIABLES
  pc,       \* where the goroutine of each call is
  req,      \* method, key and expiry of each call
  save,     \* what each call's SaveMetadata writes, and whether Put calls it
  got,      \* the file each GET opened
  answer,   \* what the provider returned to the call
  crashes   \* crashes so far

callVars == <<pc, req, save, got, answer>>
vars == <<diskVars, now, queue, loopVars, callVars, crashes>>

Running == {"check", "create", "write", "find", "announce", "load", "truncate", "save",
            "enqueue", "open", "read"}

TypeOK ==
  /\ DiskTypeOK
  /\ LoopTypeOK
  /\ Len(queue) <= QueueCap
  /\ now \in 1..MaxTime
  /\ pc \in [Calls -> Running \cup {"idle", "done", "lost"}]
  /\ req \in [Calls -> [op : Operations, key : Keys, expires : Nat]]
  /\ save \in [Calls -> [expires : Nat, md : Calls \cup {NoCall}, created : BOOLEAN]]
  /\ got \in [Calls -> Calls \cup {NoCall}]
  /\ answer \in [Calls -> {"none", "stored", "updated", "failed", "missing", "found"}]
  /\ crashes \in 0..MaxCrashes

Init ==
  /\ DiskInit
  /\ LoopInit
  /\ now = 1
  /\ queue = <<>>
  /\ pc = [c \in Calls |-> "idle"]
  /\ \E o \in Operations, k \in Keys :
       req = [c \in Calls |-> [op |-> o, key |-> k, expires |-> 0]]
  /\ save = [c \in Calls |-> [expires |-> 0, md |-> NoCall, created |-> FALSE]]
  /\ got = [c \in Calls |-> NoCall]
  /\ answer = [c \in Calls |-> "none"]
  /\ crashes = 0

----------------------------------------------------------------------------
At(c, where) == pc[c] = where
GoTo(c, where) == pc' = [pc EXCEPT ![c] = where]

\* The call returns r.
Return(c, r) ==
  /\ GoTo(c, "done")
  /\ answer' = [answer EXCEPT ![c] = r]

Key(c) == req[c].key
InCache(c) == Key(c) \in DOMAIN cache
ToSave(c, m, created) ==
  save' = [save EXCEPT ![c] = [expires |-> req[c].expires, md |-> m, created |-> created]]

\* A handler calls the provider; POST and PUT compute the expiry from now.
Start(c) ==
  /\ At(c, "idle")
  /\ \E op \in Operations, k \in Keys, lifespan \in Lifespans :
       /\ now + lifespan <= MaxTime
       /\ req' = [req EXCEPT ![c] = [op |-> op, key |-> k, expires |-> now + lifespan]]
       /\ GoTo(c, CASE op = "GET" -> "open" [] op = "POST" -> "check" [] op = "PUT" -> "find")
  /\ UNCHANGED <<diskVars, queue, save, got, answer>>

\* Put: if _, exists := p.cache[id]; exists { return p.Update(o) }
PutCheck(c) ==
  /\ At(c, "check")
  /\ GoTo(c, IF InCache(c) THEN "find" ELSE "create")
  /\ UNCHANGED <<diskVars, queue, req, save, got, answer>>

\* Mutant: the file is created without O_EXCL.
PutCreate_NoExcl(c) ==
  /\ At(c, "create")
  /\ \/ /\ CreateFile(Key(c), c)
        /\ GoTo(c, "write")
        /\ UNCHANGED <<faults, answer>>
     \/ Fault /\ Return(c, "failed") /\ UNCHANGED file
  /\ UNCHANGED <<whole, meta, queue, req, save, got>>

\* The exclusive create decides between a new object and Update.
PutCreate(c) ==
  /\ At(c, "create")
  /\ \/ /\ Linked(Key(c))
        /\ GoTo(c, "find")
        /\ UNCHANGED <<file, faults, answer>>
     \/ /\ ~Linked(Key(c))
        /\ CreateFile(Key(c), c)
        /\ GoTo(c, "write")
        /\ UNCHANGED <<faults, answer>>
     \/ Fault /\ Return(c, "failed") /\ UNCHANGED file
  /\ UNCHANGED <<whole, meta, queue, req, save, got>>

\* The body is copied; an error of file.Write goes unnoticed.
PutWrite(c) ==
  /\ At(c, "write")
  /\ \/ WriteFile(c) /\ UNCHANGED faults
     \/ Fault /\ UNCHANGED whole
  /\ ToSave(c, c, TRUE)
  /\ GoTo(c, "truncate")
  /\ UNCHANGED <<file, meta, queue, req, got, answer>>

\* Update: the metadata of a cached object is the request's, an upload's own
\* or none in a PUT; otherwise the metadata on disk gets a new expiry.
UpdateFind(c) ==
  /\ At(c, "find")
  /\ GoTo(c, IF InCache(c) THEN "announce" ELSE "load")
  /\ ToSave(c, IF req[c].op = "POST" THEN c ELSE NoCall, FALSE)
  /\ UNCHANGED <<diskVars, queue, req, got, answer>>

\* Mutant: a queue without a capacity.
Send_Unbounded(c) == queue' = Append(queue, [key |-> Key(c), expires |-> req[c].expires])

\* p.add <- &fo blocks while the channel is full.
Send(c) ==
  /\ Len(queue) < QueueCap
  /\ queue' = Append(queue, [key |-> Key(c), expires |-> req[c].expires])

UpdateAnnounce(c) ==
  /\ At(c, "announce")
  /\ Send(c)
  /\ GoTo(c, "truncate")
  /\ UNCHANGED <<diskVars, req, save, got, answer>>

UpdateLoad(c) ==
  /\ At(c, "load")
  /\ \/ /\ Loadable(Key(c))
        /\ ToSave(c, meta[Key(c)].md, FALSE)
        /\ GoTo(c, "truncate")
        /\ UNCHANGED <<faults, answer>>
     \/ ~Loadable(Key(c)) /\ Return(c, "failed") /\ UNCHANGED <<faults, save>>
     \/ Fault /\ Return(c, "failed") /\ UNCHANGED save
  /\ UNCHANGED <<file, whole, meta, queue, req, got>>

\* SaveMetadata, up to os.Create.
SaveCreate(c) ==
  /\ At(c, "truncate")
  /\ \/ TruncateMeta(Key(c), c) /\ GoTo(c, "save") /\ UNCHANGED <<faults, answer>>
     \/ Fault /\ Return(c, "failed") /\ UNCHANGED meta
  /\ UNCHANGED <<file, whole, queue, req, save, got>>

\* Mutant: Put returns without sending the object.
AfterSave_NoSend(c) == Return(c, IF save[c].created THEN "stored" ELSE "updated")

\* Put goes on to send the new object to the loop, Update returns.
AfterSave(c) ==
  IF save[c].created THEN GoTo(c, "enqueue") /\ UNCHANGED answer ELSE Return(c, "updated")

\* SaveMetadata, the write; a short one removes the file.
SaveWrite(c) ==
  /\ At(c, "save")
  /\ \/ /\ WriteMeta(Key(c), c, save[c].expires, save[c].md)
        /\ AfterSave(c)
        /\ UNCHANGED faults
     \/ Fault /\ UnlinkMeta(Key(c)) /\ Return(c, "failed")
  /\ UNCHANGED <<file, whole, queue, req, save, got>>

PutSend(c) ==
  /\ At(c, "enqueue")
  /\ Send(c)
  /\ Return(c, "stored")
  /\ UNCHANGED <<diskVars, req, save, got>>

\* Get: os.Open, then the metadata; without it the open file is forgotten.
GetOpen(c) ==
  /\ At(c, "open")
  /\ \/ /\ Linked(Key(c))
        /\ got' = [got EXCEPT ![c] = file[Key(c)]]
        /\ GoTo(c, "read")
        /\ UNCHANGED <<faults, answer>>
     \/ ~Linked(Key(c)) /\ Return(c, "missing") /\ UNCHANGED <<faults, got>>
     \/ Fault /\ Return(c, "failed") /\ UNCHANGED got
  /\ UNCHANGED <<file, whole, meta, queue, req, save>>

GetLoad(c) ==
  /\ At(c, "read")
  /\ \/ Loadable(Key(c)) /\ Return(c, "found") /\ UNCHANGED faults
     \/ ~Loadable(Key(c)) /\ Return(c, "failed") /\ UNCHANGED faults
     \/ Fault /\ Return(c, "failed")
  /\ UNCHANGED <<file, whole, meta, queue, req, save, got>>

CallStep(c) ==
  \/ PutCheck(c) \/ PutCreate(c) \/ PutWrite(c)
  \/ UpdateFind(c) \/ UpdateAnnounce(c) \/ UpdateLoad(c)
  \/ SaveCreate(c) \/ SaveWrite(c) \/ PutSend(c)
  \/ GetOpen(c) \/ GetLoad(c)

----------------------------------------------------------------------------
Request(c) == (Start(c) \/ CallStep(c)) /\ UNCHANGED <<now, loopVars, crashes>>

Loop == LoopStep /\ UNCHANGED <<now, callVars, crashes>>

Tick ==
  /\ now < MaxTime
  /\ now' = now + 1
  /\ UNCHANGED <<diskVars, queue, loopVars, callVars, crashes>>

\* The process dies and a new one connects to the same directory.
Crash ==
  /\ crashes < MaxCrashes
  /\ crashes' = crashes + 1
  /\ meta' = [k \in Keys |-> [meta[k] EXCEPT !.open = {}]]
  /\ queue' = <<>>
  /\ cache' = [k \in {} |-> 0]
  /\ sorted' = <<>>
  /\ nextTimestamp' = -1
  /\ currentSize' = 0
  /\ loop' = "start"
  /\ pc' = [c \in Calls |-> IF pc[c] \in Running THEN "lost" ELSE pc[c]]
  /\ UNCHANGED <<file, whole, faults, now, toScan, todo, deadline, victim, back, wakeAt,
                 req, save, got, answer>>

\* The server goes on for ever.
Idle == UNCHANGED vars

Next == (\E c \in Calls : Request(c)) \/ Loop \/ Tick \/ Crash \/ Idle

Spec == Init /\ [][Next]_vars

\* Goroutines that can run are run, and time passes.
Fairness ==
  /\ WF_vars(Loop)
  /\ WF_vars(Tick)
  /\ \A c \in Calls : WF_vars(CallStep(c) /\ UNCHANGED <<now, loopVars, crashes>>)

FairSpec == Spec /\ Fairness

----------------------------------------------------------------------------
\* README: the cache is for immutable objects.  The upload linked under a path
\* is never replaced by another one, whatever requests race for the key.
Immutable ==
  [][\A k \in Keys : file'[k] \in {file[k], NoCall} \/ file[k] = NoCall]_vars

InFlight(k) ==
  \E c \in Calls : file[k] = c /\ pc[c] \in {"write", "truncate", "save", "enqueue"}
Queued(k) == \E i \in DOMAIN queue : queue[i].key = k
Known(k) == k \in DOMAIN cache \/ Queued(k) \/ InFlight(k)

\* Every file of the directory is one the loop knows of, or will hear of: no
\* race between Put, Update, Remove and the channel leaves a file behind that
\* nobody will ever expire or count.
FilesTracked == \A k \in Keys : Linked(k) => Known(k)

\* A new process finds what a crashed one left: once the loop has scanned the
\* directory it knows of every file in it that has its metadata, at whichever step
\* the upload was lost.  Not of one whose metadata an Update was rewriting when
\* the scan looked at it, nor if a system call failed.
FilesFound ==
  loop = "select" /\ faults = 0 =>
    \A k \in Keys :
      /\ Linked(k) /\ Loadable(k)
      /\ \A c \in Calls : Key(c) = k => answer[c] # "updated" /\ pc[c] \notin Running
      => Known(k)

\* While it sleeps, the loop will wake in time for each object it has cached.
NoOversleep ==
  loop = "select" =>
    \A k \in DOMAIN cache :
      Linked(k) /\ ~InFlight(k) /\ ~Queued(k) => wakeAt <= cache[k]

Files == {k \in Keys : Linked(k)}

\* Nothing is left to handle: no call in progress, no object to add.
Settled == loop = "select" /\ queue = <<>> /\ \A c \in Calls : pc[c] \notin Running

\* The directory settles below maxitems files.
ItemsBounded == MaxItems > 0 /\ Settled => Cardinality(Files) < MaxItems

\* The loop removes an object at the expiry of some request for it, not before,
\* whatever way that expiry took to the loop: the channel, the cache of an
\* earlier object of that key, or after a restart the metadata file.
RemovedWhenDue ==
  [][\A k \in Keys :
       Linked(k) /\ file'[k] = NoCall /\ back' = "expire"
       => \E c \in Calls : /\ pc[c] # "idle"
                           /\ req[c].op \in {"POST", "PUT"}
                           /\ Key(c) = k
                           /\ req[c].expires <= now]_vars

\* The eviction loop goes round over an empty list.
Spinning ==
  /\ sorted = <<>>
  /\ (loop = "evictItems" /\ TooMany) \/ (loop = "evictSize" /\ TooLarge)

\* The loop handles no object any more: it could not read the directory when it
\* started, or it spins (EvictionEnds).
Ended == loop = "ended" /\ faults > 0
Stuck == Ended \/ Spinning

\* Every object that the loop knows of, or will hear of, is removed from disk
\* in the end, whatever was evicted, failed to be removed or was found again after
\* a crash, as long as the loop runs.
EveryFileExpires == \A k \in Keys : []<>(~Linked(k) \/ ~Known(k)) \/ <>[]Stuck

\* Every call of the provider returns, even when the channel is full, as long as
\* the loop runs: again and again none is in progress.
EveryCallReturns == []<>(\A c \in Calls : pc[c] \notin Running) \/ <>[]Stuck

----------------------------------------------------------------------------
\* README: the filesystem cache is bounded, so an eviction comes to an end.
EvictionEnds == loop \in {"evictItems", "evictSize"} ~> loop = "select"

\* The latest request for the object of c, if all ask for the same lifespan.
Latest(c) == \A d \in Calls : Key(d) = Key(c) => req[d].expires <= req[c].expires

\* README: after a POST or a PUT that succeeds the object is persisted, with the
\* lifespan asked for.
AcknowledgedIsKept ==
  \A c \in Calls :
    answer[c] \in {"stored", "updated"} /\ Latest(c) /\ now < req[c].expires
      => Linked(Key(c))
=============================================================================
